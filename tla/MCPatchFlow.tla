---------------------------- MODULE MCPatchFlow ----------------------------
(* An instance of PatchFlow for TLC. *)
EXTENDS PatchFlow, TLC

CONSTANTS arm32, none, arm64_v8a, armeabi_v7a

\* An APK for the second ABI and one without native libraries.
MCAbis == arm32 :> {armeabi_v7a} @@ none :> {}

\* The name of a document whose provider gives it none.
MCName == [a \in Apks |-> "source.apk"]
=============================================================================
