--------------------------- MODULE MCHookDispatch ---------------------------
(***************************************************************************)
(* Small instances of the hook dispatcher for TLC.                         *)
(***************************************************************************)
EXTENDS HookDispatch, TLC

OneApi == {"dllapi"}

\* Plugins that hook every table, and plugins that differ in their post table.
FullTables == {OneApi \X Phases}
TwoTables  == {{<<"dllapi", "pre">>}, OneApi \X Phases}

\* MRES_SUPERCEDE; without SetMetaResult all is MRES_UNSET.
Supercede == {4}

BlockSymmetry == Permutations(Blocks)
=============================================================================
