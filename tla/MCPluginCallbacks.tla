-------------------------- MODULE MCPluginCallbacks --------------------------
(* Instances of PluginCallbacks for TLC. *)
EXTENDS PluginCallbacks, TLC

CONSTANTS a, b, c

\* a and b may come and go at any time, c only between maps.
MCLoadable == [f \in {a, b} |-> PT_ANYTIME] @@ c :> PT_CHANGELEVEL

MCUnloadable == [f \in {a, b} |-> PT_ANYTIME] @@ c :> PT_CHANGELEVEL

MCSymmetry == Permutations({a, b})

\* What no step and no property reads: the file of an empty entry, where the
\* function of a command that is not valid was, and which call it is that a plugin
\* just returns from.
WithoutUnread ==
  <<[s \in Slot |-> IF plist[s].status = PL_EMPTY THEN <<plist[s].is_unloader>>
                    ELSE <<plist[s]>>],
    [n \in Commands |-> IF cmds[n].status = "valid" THEN cmds[n] ELSE <<>>],
    [k \in 1 .. Depth |-> IF stack[k].in \in {"hook", "command", "gameinit"}
                          THEN <<stack[k].slot>> ELSE <<stack[k]>>]>>
=============================================================================
