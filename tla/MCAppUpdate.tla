---------------------------- MODULE MCAppUpdate ----------------------------
(***************************************************************************)
(* An instance of AppUpdate for TLC: the first release is installed and a  *)
(* second follows; or a local build is installed, and there is the second. *)
(***************************************************************************)
EXTENDS AppUpdate

MCFirstVersions == {<<1, 1>>, <<0, 2>>}
=============================================================================
