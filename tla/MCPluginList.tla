---------------------------- MODULE MCPluginList ----------------------------
(* Instances of PluginList for TLC. *)
EXTENDS PluginList, TLC

CONSTANTS a, b, c

\* a: a plugin that may come and go between maps; b: one that may at any time;
\* c: one that may come between maps but go only at startup, a variant of b.
MCLoadable == a :> PT_CHANGELEVEL @@ b :> PT_ANYTIME @@ c :> PT_CHANGELEVEL
MCUnloadable == a :> PT_CHANGELEVEL @@ b :> PT_ANYPAUSE @@ c :> PT_STARTUP
MCFamily == a :> a @@ b :> b @@ c :> b
MCLevel == a :> 0 @@ b :> 0 @@ c :> 1

Two(f) == [g \in {a, b} |-> f[g]]
TwoLoadable == Two(MCLoadable)
TwoUnloadable == Two(MCUnloadable)
TwoFamily == Two(MCFamily)
TwoLevel == Two(MCLevel)

ShortInis == {NULL, <<>>, <<a>>}
VariantInis == {NULL, <<>>, <<b, a>>, <<a, b, c>>, <<c, b>>, <<b, b>>}
CInis == {<<>>, <<c>>}

\* What happened last has no say in what happens next: the action properties
\* that look at it are checked of every step.
WithoutLast == <<plist, endlist, refs, hooked, ini, started>>
=============================================================================
