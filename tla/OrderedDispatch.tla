-------------------------- MODULE OrderedDispatch --------------------------
(***************************************************************************)
(* What the hook dispatcher promises, without lists, caches or flags: at   *)
(* each step of a phase it takes up the lowest slot above the last one     *)
(* whose plugin is running and hooks the phase at that moment, and the     *)
(* phase is over only when there is no such slot.  So a plugin that hooks  *)
(* the phase throughout is visited exactly once, in slot order, and a      *)
(* plugin that was unloaded or paused in the meantime is not visited.      *)
(***************************************************************************)
EXTENDS Naturals, Sequences

CONSTANTS MaxPlugins, Apis, TableSets, MaxDepth

VARIABLES status, tables, calls

vars == <<status, tables, calls>>

Slot == 1 .. MaxPlugins

Top     == calls[Len(calls)]
InLoop  == calls # <<>> /\ Top.pc = "loop"
Outside == ~ InLoop
SetTop(call) == calls' = [calls EXCEPT ![Len(calls)] = call]

\* The slots the running call has still to take up.
Ahead == {s \in Slot : /\ s > Top.pos
                       /\ status[s] = "running"
                       /\ <<Top.api, Top.phase>> \in tables[s]}

Init == /\ status = [s \in Slot |-> "empty"]
        /\ tables = [s \in Slot |-> {}]
        /\ calls = <<>>

\* Plugins come, go, pause and resume while the dispatcher waits.
Administer(s) ==
  /\ Outside
  /\ \/ /\ status[s] = "empty"
        /\ \E tb \in TableSets : tables' = [tables EXCEPT ![s] = tb]
        /\ status' = [status EXCEPT ![s] = "running"]
     \/ /\ status[s] # "empty"
        /\ status' = [status EXCEPT ![s] = "empty"]
        /\ tables' = [tables EXCEPT ![s] = {}]
     \/ /\ status[s] = "running"
        /\ status' = [status EXCEPT ![s] = "paused"]
        /\ UNCHANGED tables
     \/ /\ status[s] = "paused"
        /\ status' = [status EXCEPT ![s] = "running"]
        /\ UNCHANGED tables
  /\ UNCHANGED calls

Begin(api) ==
  /\ Outside
  /\ Len(calls) < MaxDepth
  /\ calls' = Append(calls, [api |-> api, phase |-> "pre", pc |-> "loop",
                             pos |-> 0])
  /\ UNCHANGED <<status, tables>>

\* The next plugin is taken up: called, or passed over when its table has no
\* routine for this call.
Visit ==
  /\ InLoop
  /\ \E s \in Ahead, pc \in {"loop", "plugin"} :
       /\ \A t \in Ahead : s <= t
       /\ SetTop([Top EXCEPT !.pos = s, !.pc = pc])
  /\ UNCHANGED <<status, tables>>

Return ==
  /\ calls # <<>>
  /\ Top.pc = "plugin"
  /\ SetTop([Top EXCEPT !.pc = "loop"])
  /\ UNCHANGED <<status, tables>>

CallRoutine ==
  /\ InLoop
  /\ Top.phase = "pre"
  /\ Ahead = {}
  /\ SetTop([Top EXCEPT !.pc = "routine"])
  /\ UNCHANGED <<status, tables>>

StartPost ==
  /\ calls # <<>>
  /\ \/ Top.pc = "routine"
     \/ Top.pc = "loop" /\ Top.phase = "pre" /\ Ahead = {}
  /\ SetTop([Top EXCEPT !.phase = "post", !.pc = "loop", !.pos = 0])
  /\ UNCHANGED <<status, tables>>

End ==
  /\ InLoop
  /\ Top.phase = "post"
  /\ Ahead = {}
  /\ calls' = SubSeq(calls, 1, Len(calls) - 1)
  /\ UNCHANGED <<status, tables>>

Next == \/ \E s \in Slot : Administer(s)
        \/ \E api \in Apis : Begin(api)
        \/ Visit
        \/ Return
        \/ CallRoutine
        \/ StartPost
        \/ End

Spec == Init /\ [][Next]_vars
=============================================================================
