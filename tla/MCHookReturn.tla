---------------------------- MODULE MCHookReturn ----------------------------
(* Instances of HookReturn for TLC: three values, so that the start value,  *)
(* the real routine's and a plugin's can all differ.                        *)
EXTENDS HookReturn

CONSTANTS none, v1, v2
=============================================================================
