---------------------------- MODULE HookDispatch ----------------------------
(***************************************************************************)
(* Metamod-P's hook dispatcher (metamod/api_hook.cpp) running over the     *)
(* hook lists of the plugin list (metamod/mlist.cpp, mlist.h).             *)
(*                                                                         *)
(* An API call from the engine or the game DLL walks the plugins that hook *)
(* it (pre list), calls the real routine unless a plugin superceded it,    *)
(* and walks the post list.  Everything runs on one thread, but a plugin's *)
(* hook (or the real routine) may call back into the dispatcher and may    *)
(* load, unload, pause or unpause plugins, which rebuilds the very lists   *)
(* the suspended calls are walking.  One frame of `stack' is one active    *)
(* main_hook_function_(void_)t; the last frame is the running one.         *)
(***************************************************************************)
EXTENDS Naturals, Sequences, FiniteSets

CONSTANTS
  MaxPlugins,   \* MAX_PLUGINS: number of slots of plist
  Apis,         \* the API groups (dllapi, newapi, engine)
  Blocks,       \* addresses realloc may return for hook_list_data
  NULL,         \* hook_list_data before the first allocation and after free
  Results,      \* the META_RES values the plugins of this instance return
  TableSets,    \* the sets of non-NULL tables a plugin may be loaded with
  MaxDepth,     \* bound on the nesting of dispatches
  AllocMayFail  \* whether the realloc of rebuild_hook_lists may fail

Phases == {"pre", "post"}
List   == Apis \X Phases
Slot   == 1 .. MaxPlugins

\* META_RES: the order is crucial, the dispatcher compares.
MRES_UNSET     == 0
MRES_SUPERCEDE == 4
META_RES       == 0 .. 4

Max2(a, b) == IF a > b THEN a ELSE b

ASSUME MaxPluginsAssumption == MaxPlugins \in Nat \ {0}
ASSUME MaxDepthAssumption   == MaxDepth \in Nat \ {0}
ASSUME ResultsAssumption    == Results \subseteq META_RES
ASSUME TableSetsAssumption  == TableSets \subseteq SUBSET List
ASSUME AllocAssumption      == AllocMayFail \in BOOLEAN
ASSUME NULLAssumption       == NULL \notin Blocks

VARIABLES
  status,             \* MPlugin::status; "empty" stands for all below PL_RUNNING
  tables,             \* the lists whose table the plugin of the slot provides
  hook_lists,         \* MPluginList::hook_lists, the entries of each list
  hook_list_data,     \* the block the entries live in, or NULL
  hook_list_tables_updated,
  PublicMetaGlobals,
  stack               \* the active calls of the dispatcher, innermost last

vars == <<status, tables, hook_lists, hook_list_data,
          hook_list_tables_updated, PublicMetaGlobals, stack>>
pluginVars == <<status, tables>>
listVars   == <<hook_lists, hook_list_data>>

Pointer == Blocks \cup {NULL}

MetaGlobals == [mres : META_RES, prev_mres : META_RES, status : META_RES]

NoGlobals == [mres |-> MRES_UNSET, prev_mres |-> MRES_UNSET,
              status |-> MRES_UNSET]

(***************************************************************************)
(* The locals of main_hook_function.  `plugs' is the cached list pointer   *)
(* with the count, seen as the entries it gave when it was read, and       *)
(* `block' the allocation it points into; `i' is the number of entries the *)
(* loop is past and `plug' the last one it took up (0: none).  `pc' tells  *)
(* what the frame waits for: the loop head, a plugin, the real routine.    *)
(***************************************************************************)
Frame == [api : Apis, phase : Phases, pc : {"loop", "plugin", "routine"},
          plugs : Seq(Slot), block : Pointer, i : Nat, plug : 0 .. MaxPlugins,
          status : META_RES, rebuild_happened : BOOLEAN,
          saved_meta_globals : MetaGlobals]

Top     == stack[Len(stack)]
ListOf(fr) == <<fr.api, fr.phase>>
SetTop(fr) == stack' = [stack EXCEPT ![Len(stack)] = fr]

\* The running frame is at a loop head: the dispatcher itself has control.
InLoop == stack # <<>> /\ Top.pc = "loop"
\* Code outside the dispatcher has control: engine, game DLL or a plugin.
Outside == ~ InLoop
-----------------------------------------------------------------------------
\* The running plugins that have the table of the list.
Hooking(st, tb, l) == {s \in Slot : st[s] = "running" /\ l \in tb[s]}

\* The second pass of the rebuild: in slot order, the entry of a plugin is at
\* the number of entries not after it.
Fill(S) == [k \in 1 .. Cardinality(S) |->
              CHOOSE s \in S : Cardinality({t \in S : t <= s}) = k]

\* Mutant: with nothing left to hook, the flag is not raised.
rebuild_unsignalled(st, tb) ==
  LET none == \A l \in List : Hooking(st, tb, l) = {}
  IN  \/ /\ hook_lists' = [l \in List |-> Fill(Hooking(st, tb, l))]
         /\ IF none THEN hook_list_data' = NULL ELSE hook_list_data' \in Blocks
         /\ hook_list_tables_updated' = (hook_list_tables_updated \/ ~ none)
      \/ /\ AllocMayFail /\ ~ none
         /\ hook_lists' = [l \in List |-> <<>>]
         /\ UNCHANGED <<hook_list_data, hook_list_tables_updated>>

\* rebuild_hook_lists(): the block is reallocated, or freed when no plugin
\* hooks anything; when the allocation fails, all lists are left empty, the
\* block stays and the flag is not raised.
rebuild_hook_lists(st, tb) ==
  LET filled == [l \in List |-> Fill(Hooking(st, tb, l))]
      none   == \A l \in List : Hooking(st, tb, l) = {}
  IN  \/ /\ hook_lists' = filled
         /\ IF none THEN hook_list_data' = NULL
                    ELSE hook_list_data' \in Blocks
         /\ hook_list_tables_updated' = TRUE
      \/ /\ AllocMayFail /\ ~ none
         /\ hook_lists' = [l \in List |-> <<>>]
         /\ UNCHANGED <<hook_list_data, hook_list_tables_updated>>

\* Mutants of find_plugin_after_rebuild: the 0-based index kept as it is; the
\* current plugin taken up again; the entry after an unloaded one passed over.
find_unshifted(plugs, current) ==
  LET before == Cardinality({j \in 1 .. Len(plugs) : plugs[j] < current})
  IN  IF \E j \in 1 .. Len(plugs) : plugs[j] = current THEN before
      ELSE before - 1
find_repeats(plugs, current) ==
  Cardinality({j \in 1 .. Len(plugs) : plugs[j] < current})
find_skips(plugs, current) ==
  LET before == Cardinality({j \in 1 .. Len(plugs) : plugs[j] < current})
  IN  IF before < Len(plugs) THEN before + 1 ELSE before

\* find_plugin_after_rebuild(): the position the loop goes on from, in entries
\* of the new list it is past (the code's 0-based index plus one).
find_plugin_after_rebuild(plugs, current) ==
  LET reached == {j \in 1 .. Len(plugs) : plugs[j] >= current}
      first   == CHOOSE j \in reached : \A k \in reached : j <= k
  IN  IF reached = {} THEN Len(plugs)
      ELSE IF plugs[first] = current THEN first ELSE first - 1
-----------------------------------------------------------------------------
(***************************************************************************)
(* What MPlugin::load, unload, pause and unpause do to the lists, called   *)
(* by whatever code has control outside the dispatcher.                    *)
(***************************************************************************)
SetPlugin(s, st, tb) ==
  /\ Outside
  /\ status' = [status EXCEPT ![s] = st]
  /\ tables' = [tables EXCEPT ![s] = tb]
  /\ rebuild_hook_lists(status', tables')
  /\ UNCHANGED <<PublicMetaGlobals, stack>>

Load(s) == /\ status[s] = "empty"
           /\ \E tb \in TableSets : SetPlugin(s, "running", tb)

Unload(s) == /\ status[s] # "empty"
             /\ SetPlugin(s, "empty", {})

Pause(s) == /\ status[s] = "running"
            /\ SetPlugin(s, "paused", tables[s])

Unpause(s) == /\ status[s] = "paused"
              /\ SetPlugin(s, "running", tables[s])

\* SET_META_RESULT in the plugin the running frame has called (or in one it
\* calls directly).
SetMetaResult(m) ==
  /\ stack # <<>>
  /\ Top.pc = "plugin"
  /\ PublicMetaGlobals' = [PublicMetaGlobals EXCEPT !.mres = m]
  /\ UNCHANGED <<pluginVars, listVars, hook_list_tables_updated, stack>>
-----------------------------------------------------------------------------
(***************************************************************************)
(* The dispatcher.  `clears' is the one difference between the two         *)
(* variants: the void one clears the flag when it has read it.             *)
(***************************************************************************)
BeginCall(api, clears) ==
  LET updated == IF stack = <<>> THEN FALSE ELSE hook_list_tables_updated
  IN  /\ Outside
      /\ Len(stack) < MaxDepth
      /\ hook_list_tables_updated' = (updated /\ ~ clears)
      /\ PublicMetaGlobals' = [PublicMetaGlobals EXCEPT !.prev_mres = MRES_UNSET]
      /\ stack' = Append(stack,
           [api |-> api, phase |-> "pre", pc |-> "loop",
            plugs |-> hook_lists[<<api, "pre">>], block |-> hook_list_data,
            i |-> 0, plug |-> 0, status |-> MRES_UNSET,
            rebuild_happened |-> updated,
            saved_meta_globals |-> IF stack = <<>> THEN NoGlobals
                                                   ELSE PublicMetaGlobals])
      /\ UNCHANGED <<pluginVars, listVars>>

\* The loop takes up the next entry: its table has no such routine ...
SkipPlugin ==
  /\ InLoop
  /\ Top.i < Len(Top.plugs)
  /\ SetTop([Top EXCEPT !.i = @ + 1, !.plug = Top.plugs[Top.i + 1]])
  /\ UNCHANGED <<pluginVars, listVars, hook_list_tables_updated,
                 PublicMetaGlobals>>

\* ... or the routine is called.
CallPlugin ==
  /\ InLoop
  /\ Top.i < Len(Top.plugs)
  /\ SetTop([Top EXCEPT !.i = @ + 1, !.plug = Top.plugs[Top.i + 1],
                        !.pc = "plugin"])
  /\ PublicMetaGlobals' = [PublicMetaGlobals EXCEPT !.mres = MRES_UNSET,
                                                    !.status = Top.status]
  /\ UNCHANGED <<pluginVars, listVars, hook_list_tables_updated>>

\* Mutant: only the position is refreshed after a rebuild.
ReturnsToOldList ==
  /\ stack # <<>>
  /\ Top.pc = "plugin"
  /\ hook_list_tables_updated' = FALSE
  /\ SetTop([Top EXCEPT !.pc = "loop",
                        !.status = Max2(@, PublicMetaGlobals.mres)])
  /\ PublicMetaGlobals' = [PublicMetaGlobals EXCEPT
                             !.prev_mres = PublicMetaGlobals.mres]
  /\ UNCHANGED <<pluginVars, listVars>>

\* The plugin returns: pick up a rebuild, then its result.
PluginReturns ==
  LET current   == hook_lists[ListOf(Top)]
      refreshed == [Top EXCEPT !.plugs = current, !.block = hook_list_data,
                     !.i = find_plugin_after_rebuild(current, Top.plug),
                     !.rebuild_happened = TRUE]
      fr == IF hook_list_tables_updated THEN refreshed ELSE Top
  IN  /\ stack # <<>>
      /\ Top.pc = "plugin"
      /\ hook_list_tables_updated' = FALSE
      /\ SetTop([fr EXCEPT !.pc = "loop",
                           !.status = Max2(@, PublicMetaGlobals.mres)])
      /\ PublicMetaGlobals' = [PublicMetaGlobals EXCEPT
                                 !.prev_mres = PublicMetaGlobals.mres]
      /\ UNCHANGED <<pluginVars, listVars>>

PreDone == InLoop /\ Top.phase = "pre" /\ Top.i = Len(Top.plugs)

CallRoutine ==
  /\ PreDone
  /\ Top.status # MRES_SUPERCEDE
  /\ SetTop([Top EXCEPT !.pc = "routine"])
  /\ UNCHANGED <<pluginVars, listVars, hook_list_tables_updated,
                 PublicMetaGlobals>>

\* Setting up the post loop with the running status st.
StartPost(st) ==
  /\ SetTop([Top EXCEPT !.phase = "post", !.pc = "loop",
               !.plugs = hook_lists[<<Top.api, "post">>],
               !.block = hook_list_data, !.i = 0, !.plug = 0, !.status = st,
               !.rebuild_happened = @ \/ hook_list_tables_updated])
  /\ hook_list_tables_updated' = FALSE
  /\ PublicMetaGlobals' = [PublicMetaGlobals EXCEPT !.prev_mres = MRES_UNSET]
  /\ UNCHANGED <<pluginVars, listVars>>

RoutineReturns == /\ stack # <<>>
                  /\ Top.pc = "routine"
                  /\ StartPost(Top.status)

RoutineMissing == /\ PreDone
                  /\ Top.status # MRES_SUPERCEDE
                  /\ StartPost(MRES_UNSET)

RoutineSuperceded == /\ PreDone
                     /\ Top.status = MRES_SUPERCEDE
                     /\ StartPost(Top.status)

\* Mutants: a nested call that consumed the flag does not raise it again; a
\* nested call leaves its globals behind.
EndCallSilently ==
  /\ InLoop
  /\ Top.phase = "post"
  /\ Top.i = Len(Top.plugs)
  /\ UNCHANGED <<hook_list_tables_updated, pluginVars, listVars>>
  /\ PublicMetaGlobals' = IF Len(stack) = 1 THEN PublicMetaGlobals
                          ELSE Top.saved_meta_globals
  /\ stack' = SubSeq(stack, 1, Len(stack) - 1)
EndCallKeepsGlobals ==
  /\ InLoop
  /\ Top.phase = "post"
  /\ Top.i = Len(Top.plugs)
  /\ hook_list_tables_updated' =
       (Len(stack) > 1 /\ (Top.rebuild_happened \/ hook_list_tables_updated))
  /\ stack' = SubSeq(stack, 1, Len(stack) - 1)
  /\ UNCHANGED <<PublicMetaGlobals, pluginVars, listVars>>

EndCall ==
  LET outermost == Len(stack) = 1
  IN  /\ InLoop
      /\ Top.phase = "post"
      /\ Top.i = Len(Top.plugs)
      /\ hook_list_tables_updated' =
           IF outermost THEN FALSE
           ELSE Top.rebuild_happened \/ hook_list_tables_updated
      /\ PublicMetaGlobals' = IF outermost THEN PublicMetaGlobals
                              ELSE Top.saved_meta_globals
      /\ stack' = SubSeq(stack, 1, Len(stack) - 1)
      /\ UNCHANGED <<pluginVars, listVars>>
-----------------------------------------------------------------------------
Init ==
  /\ status = [s \in Slot |-> "empty"]
  /\ tables = [s \in Slot |-> {}]
  /\ hook_lists = [l \in List |-> <<>>]
  /\ hook_list_data = NULL
  /\ hook_list_tables_updated = FALSE
  /\ PublicMetaGlobals = NoGlobals
  /\ stack = <<>>

Administer(s) == Load(s) \/ Unload(s) \/ Pause(s) \/ Unpause(s)

\* The steps of the dispatcher itself.
Dispatch == \/ SkipPlugin
            \/ CallPlugin
            \/ CallRoutine
            \/ RoutineMissing
            \/ RoutineSuperceded
            \/ EndCall

Next == \/ \E s \in Slot : Administer(s)
        \/ \E m \in Results : SetMetaResult(m)
        \/ \E api \in Apis, clears \in BOOLEAN : BeginCall(api, clears)
        \/ Dispatch
        \/ PluginReturns
        \/ RoutineReturns

Spec == Init /\ [][Next]_vars

(***************************************************************************)
(* Fairness: the dispatcher's own steps are one thread's straight-line     *)
(* code, and a plugin or a real routine that was called returns, however   *)
(* many nested calls and list changes it makes first (strong fairness, for *)
(* each depth: a nested call disables the return of the outer one).        *)
(***************************************************************************)
ReturnAt(d) == Len(stack) = d /\ (PluginReturns \/ RoutineReturns)

FairSpec == /\ Spec
            /\ WF_vars(Dispatch)
            /\ \A d \in 1 .. MaxDepth : SF_vars(ReturnAt(d))
-----------------------------------------------------------------------------
\* Type correctness.
TypeOK ==
  /\ status \in [Slot -> {"empty", "running", "paused"}]
  /\ tables \in [Slot -> SUBSET List]
  /\ hook_lists \in [List -> Seq(Slot)]
  /\ hook_list_data \in Pointer
  /\ hook_list_tables_updated \in BOOLEAN
  /\ PublicMetaGlobals \in MetaGlobals
  /\ stack \in Seq(Frame)

\* What a frame has cached is no longer what the list says.
Stale(fr) == \/ fr.plugs # hook_lists[ListOf(fr)]
             \/ fr.plugs # <<>> /\ fr.block # hook_list_data

(***************************************************************************)
(* A call suspended in a plugin whose cached list went stale will learn of *)
(* it when it resumes: the flag is up, or a call above it will raise it    *)
(* again on its way out (mlist.h: the flag signals main_hook_function that *)
(* cached pointers are stale and need to be refreshed).                    *)
(***************************************************************************)
StaleIsSignalled ==
  \A k \in 1 .. Len(stack) :
    stack[k].pc = "plugin" /\ Stale(stack[k]) =>
      \/ hook_list_tables_updated
      \/ \E j \in k + 1 .. Len(stack) : stack[j].rebuild_happened

(***************************************************************************)
(* The inductive invariant behind these: the lists are what the plugins'   *)
(* states say, only the innermost frame is at a loop head and its cache is *)
(* current, and every frame's position splits its (sorted) cached list     *)
(* into the slots up to the plugin it took up last and those after it.     *)
(***************************************************************************)
Sorted(q) == \A i, j \in 1 .. Len(q) : i < j => q[i] < q[j]

Enumerates(q, S) == /\ Sorted(q)
                    /\ \A j \in 1 .. Len(q) : q[j] \in S
                    /\ \A s \in S : \E j \in 1 .. Len(q) : q[j] = s

ListsExact == \A l \in List : Enumerates(hook_lists[l],
                                         Hooking(status, tables, l))

OthersSuspended == \A k \in 1 .. Len(stack) - 1 : stack[k].pc # "loop"

Placed(fr) == /\ Sorted(fr.plugs)
              /\ fr.i <= Len(fr.plugs)
              /\ \A j \in 1 .. Len(fr.plugs) :
                   j <= fr.i <=> fr.plugs[j] <= fr.plug

IInv == /\ TypeOK
        /\ ListsExact
        /\ OthersSuspended
        /\ StaleIsSignalled
        /\ InLoop => ~ Stale(Top)
        /\ \A k \in 1 .. Len(stack) : Placed(stack[k])

(***************************************************************************)
(* Whenever the dispatcher is about to read its cached list, the cache is  *)
(* the current list in the current allocation, and the plugin it takes up  *)
(* next is running and has the table the call goes through - no matter     *)
(* what the plugins called so far, at any depth, loaded or unloaded.       *)
(***************************************************************************)
ReadsCurrentList ==
  InLoop =>
    /\ ~ Stale(Top)
    /\ Top.i < Len(Top.plugs) =>
         Top.plugs[Top.i + 1] \in Hooking(status, tables, ListOf(Top))

(***************************************************************************)
(* Even when an allocation fails, or the last plugin that hooks anything   *)
(* goes and the block is freed, the entries read are not in freed memory.  *)
(***************************************************************************)
NoFreedRead ==
  InLoop /\ Top.i < Len(Top.plugs) => Top.block = hook_list_data

(***************************************************************************)
(* The plugin that has control reads in META_RESULT_STATUS the running     *)
(* status of its own call, whatever calls it has nested since it started:  *)
(* re-entrant calls save and restore the globals.                          *)
(***************************************************************************)
StatusIsOwnCalls ==
  stack # <<>> /\ Top.pc = "plugin" => PublicMetaGlobals.status = Top.status

(***************************************************************************)
(* Every API call ends, although its plugins may keep changing the lists   *)
(* it walks: the walk never goes back to a plugin it has passed.           *)
(***************************************************************************)
CallsEnd == []<>(stack = <<>>)

(***************************************************************************)
(* The dispatcher keeps the promise of OrderedDispatch: each phase visits  *)
(* the plugins hooking it at that moment in slot order, skips none, and    *)
(* visits none twice.                                                      *)
(***************************************************************************)
Ordered == INSTANCE OrderedDispatch WITH
  calls <- [k \in 1 .. Len(stack) |->
              [api |-> stack[k].api, phase |-> stack[k].phase,
               pc |-> stack[k].pc, pos |-> stack[k].plug]]

ImplementsOrderedDispatch == Ordered!Spec
=============================================================================
