----------------------- MODULE OrderedDispatchProofs -----------------------
(***************************************************************************)
(* The hook dispatcher keeps the promise of OrderedDispatch, for every     *)
(* number of plugins and every depth: each of its steps is, under the      *)
(* mapping of HookDispatch's `Ordered', a step of the abstract dispatcher  *)
(* or a stutter.  The caches and the flag of the code disappear: that the  *)
(* cached list gives the next plugin is the invariant IInv.                *)
(***************************************************************************)
EXTENDS HookDispatchProofs

\* The abstract call of a frame, and the abstract stack.
Call(fr) == [api |-> fr.api, phase |-> fr.phase, pc |-> fr.pc, pos |-> fr.plug]

Calls == [k \in 1 .. Len(stack) |->
            [api |-> stack[k].api, phase |-> stack[k].phase,
             pc |-> stack[k].pc, pos |-> stack[k].plug]]

\* The abstract stack has the frames of the concrete one, in their places.
LEMMA CallsShape ==
  ASSUME stack \in Seq(Frame)
  PROVE  /\ Len(stack) \in Nat
         /\ Len(Calls) = Len(stack)
         /\ DOMAIN Calls = 1 .. Len(stack)
         /\ \A k \in 1 .. Len(stack) : Calls[k] = Call(stack[k])
         /\ Calls = <<>> <=> stack = <<>>
         /\ Calls \in Seq({Call(fr) : fr \in Frame})
<1>1. Len(stack) \in Nat /\ \A k \in 1 .. Len(stack) : stack[k] \in Frame
  OBVIOUS
<1>2. Calls \in [1 .. Len(stack) -> {Call(fr) : fr \in Frame}]
  BY <1>1 DEF Calls, Call
<1>3. Calls \in Seq({Call(fr) : fr \in Frame}) /\ Len(Calls) = Len(stack)
  BY <1>1, <1>2, FunctionIsSeq
<1>4. Calls = <<>> <=> stack = <<>>
  <2>. HIDE DEF Calls
  <2>. QED  BY <1>1, <1>3
<1>5. \A k \in 1 .. Len(stack) : Calls[k] = Call(stack[k])
  BY DEF Calls, Call
<1>. QED  BY <1>1, <1>2, <1>3, <1>4, <1>5

\* So the abstract dispatcher has control when the concrete one has.
LEMMA SameControl ==
  ASSUME stack \in Seq(Frame)
  PROVE  /\ stack # <<>> => Ordered!Top = Call(Top)
         /\ Ordered!InLoop <=> InLoop
         /\ Ordered!Outside <=> Outside
<1>1. stack # <<>> => Calls[Len(Calls)] = Call(Top)
  <2> SUFFICES ASSUME stack # <<>> PROVE Calls[Len(Calls)] = Call(Top)
    OBVIOUS
  <2>. QED  BY CallsShape, TopType DEF Top
<1>2. stack # <<>> => Ordered!Top = Call(Top)
  BY <1>1 DEF Ordered!Top, Calls
<1>3. Ordered!InLoop <=> InLoop
  <2>1. Ordered!InLoop <=> Calls # <<>> /\ Ordered!Top.pc = "loop"
    BY DEF Ordered!InLoop, Calls
  <2>. QED  BY <1>2, <2>1, CallsShape DEF InLoop, Call
<1>. QED  BY <1>2, <1>3 DEF Ordered!Outside, Outside

\* Replacing, pushing and popping a frame do the same to the abstract stack.
LEMMA SetTopCalls ==
  ASSUME stack \in Seq(Frame), stack # <<>>, NEW fr \in Frame, SetTop(fr)
  PROVE  Calls' = [Calls EXCEPT ![Len(Calls)] = Call(fr)]
<1>1. /\ Len(stack) \in Nat \ {0} /\ stack' \in Seq(Frame) /\ Len(stack') = Len(stack)
      /\ \A k \in 1 .. Len(stack) : stack'[k] = IF k = Len(stack) THEN fr ELSE stack[k]
  BY TopType, SetTopEffect DEF SetTop
<1>. QED  BY <1>1, CallsShape DEF Calls, Call

LEMMA PushCalls ==
  ASSUME stack \in Seq(Frame), NEW fr \in Frame, stack' = Append(stack, fr)
  PROVE  Calls' = Append(Calls, Call(fr))
<1>1. /\ stack' \in Seq(Frame) /\ Len(stack') = Len(stack) + 1
      /\ \A k \in 1 .. Len(stack) + 1 :
           stack'[k] = IF k = Len(stack) + 1 THEN fr ELSE stack[k]
  OBVIOUS
<1>2. Calls' = [k \in 1 .. Len(stack) + 1 |-> Call(stack'[k])]
  BY <1>1 DEF Calls, Call
<1>3. Append(Calls, Call(fr)) =
        [k \in 1 .. Len(stack) + 1 |-> IF k = Len(stack) + 1 THEN Call(fr) ELSE Calls[k]]
  <2> DEFINE T == {Call(g) : g \in Frame}
  <2>1. Calls \in Seq(T) /\ Call(fr) \in T /\ Len(Calls) = Len(stack)
    BY CallsShape
  <2> DEFINE app == Append(Calls, Call(fr))
  <2>. HIDE DEF T, Calls
  <2>2. app \in Seq(T) /\ Len(app) = Len(stack) + 1
    BY <2>1
  <2>3. \A k \in 1 .. Len(stack) + 1 :
          app[k] = IF k = Len(stack) + 1 THEN Call(fr) ELSE Calls[k]
    BY <2>1
  <2>. HIDE DEF app
  <2>4. app = [k \in 1 .. Len(stack) + 1 |-> app[k]]
    BY <2>2
  <2>5. app = [k \in 1 .. Len(stack) + 1 |->
                 IF k = Len(stack) + 1 THEN Call(fr) ELSE Calls[k]]
    BY <2>3, <2>4
  <2>. QED  BY <2>5 DEF app
<1>4. \A k \in 1 .. Len(stack) : Calls[k] = Call(stack[k])
  BY CallsShape
<1>5. Len(stack) \in Nat
  OBVIOUS
<1>6. \A k \in 1 .. Len(stack) + 1 :
        Call(stack'[k]) = IF k = Len(stack) + 1 THEN Call(fr) ELSE Calls[k]
  BY <1>1, <1>4, <1>5
<1>. QED  BY <1>2, <1>3, <1>6

LEMMA PopCalls ==
  ASSUME stack \in Seq(Frame), stack # <<>>, stack' = SubSeq(stack, 1, Len(stack) - 1)
  PROVE  Calls' = SubSeq(Calls, 1, Len(Calls) - 1)
<1> DEFINE n == Len(stack)
           T == {Call(fr) : fr \in Frame}
<1>1. /\ n \in Nat \ {0} /\ Len(stack') = n - 1
      /\ \A k \in 1 .. n - 1 : stack'[k] = stack[k]
  BY TopType, FrontOfSeq
<1>2. Calls \in Seq(T) /\ Calls # <<>> /\ Len(Calls) = n
  BY CallsShape
<1>3. /\ Len(SubSeq(Calls, 1, n - 1)) = n - 1
      /\ \A k \in 1 .. n - 1 : SubSeq(Calls, 1, n - 1)[k] = Calls[k]
  <2>. HIDE DEF T, n
  <2>. QED  BY <1>2, FrontOfSeq
<1>4. \A k \in 1 .. n - 1 : Calls[k] = Call(stack[k])
  <2>1. \A k \in 1 .. n - 1 : k \in 1 .. n
    BY <1>1
  <2>. QED  BY <2>1, CallsShape
<1>5. Calls' = [k \in 1 .. n - 1 |-> Call(stack'[k])]
  BY <1>1 DEF Calls, Call
<1>6. SubSeq(Calls, 1, n - 1) = [k \in 1 .. n - 1 |-> SubSeq(Calls, 1, n - 1)[k]]
  <2>1. SubSeq(Calls, 1, n - 1) \in Seq(T)
    <3>1. \A k \in 1 .. n - 1 : Calls[k] \in T
      BY <1>1, <1>2
    <3>. HIDE DEF T
    <3>. QED  BY <1>1, <1>2, <3>1
  <2>. HIDE DEF T
  <2>. QED  BY <1>3, <2>1
<1>7. \A k \in 1 .. n - 1 : SubSeq(Calls, 1, n - 1)[k] = Call(stack'[k])
  BY <1>1, <1>3, <1>4
<1>. HIDE DEF Calls, n
<1>8. [k \in 1 .. n - 1 |-> SubSeq(Calls, 1, n - 1)[k]] = [k \in 1 .. n - 1 |-> Call(stack'[k])]
  BY <1>7
<1>. QED  BY <1>2, <1>5, <1>6, <1>8

\* Updates of an abstract call, when the frame has changed accordingly.
LEMMA VisitedCall ==
  ASSUME NEW f, NEW g, g.api = f.api, g.phase = f.phase
  PROVE  Call(g) = [Call(f) EXCEPT !.pos = g.plug, !.pc = g.pc]
<1> DEFINE fields == {"api", "phase", "pc", "pos"}
           old == Call(f)
           one == [old EXCEPT !.pos = g.plug]
           two == [one EXCEPT !.pc = g.pc]
           new == Call(g)
<1>1. DOMAIN old = fields /\ old.api = f.api /\ old.phase = f.phase
  BY DEF Call
<1>2. /\ new = [x \in fields |-> new[x]]
      /\ new.api = f.api /\ new.phase = f.phase /\ new.pc = g.pc /\ new.pos = g.plug
  BY DEF Call
<1>. HIDE DEF old, new
<1>3. DOMAIN one = fields /\ one.pos = g.plug /\ one.api = f.api /\ one.phase = f.phase
  BY <1>1
<1>. HIDE DEF one
<1>4. two = [x \in fields |-> IF x = "pc" THEN g.pc ELSE one[x]]
  BY <1>3
<1>5. \A x \in fields : new[x] = IF x = "pc" THEN g.pc ELSE one[x]
  BY <1>2, <1>3
<1>6. two = new
  BY <1>2, <1>4, <1>5
<1>. QED  BY <1>6 DEF old, one, new

LEMMA PostCall ==
  ASSUME NEW f, NEW g, g.api = f.api, g.phase = "post", g.pc = "loop", g.plug = 0
  PROVE  Call(g) = [Call(f) EXCEPT !.phase = "post", !.pc = "loop", !.pos = 0]
<1> DEFINE fields == {"api", "phase", "pc", "pos"}
           old == Call(f)
           one == [old EXCEPT !.phase = "post"]
           two == [one EXCEPT !.pc = "loop"]
           three == [two EXCEPT !.pos = 0]
           new == Call(g)
<1>1. DOMAIN old = fields /\ old.api = f.api
  BY DEF Call
<1>2. /\ new = [x \in fields |-> new[x]]
      /\ new.api = f.api /\ new.phase = "post" /\ new.pc = "loop" /\ new.pos = 0
  BY DEF Call
<1>. HIDE DEF old, new
<1>3. DOMAIN one = fields /\ one.phase = "post" /\ one.api = f.api
  BY <1>1
<1>. HIDE DEF one
<1>4. DOMAIN two = fields /\ two.phase = "post" /\ two.api = f.api /\ two.pc = "loop"
  BY <1>3
<1>. HIDE DEF two
<1>5. three = [x \in fields |-> IF x = "pos" THEN 0 ELSE two[x]]
  BY <1>4
<1>6. \A x \in fields : new[x] = IF x = "pos" THEN 0 ELSE two[x]
  BY <1>2, <1>4
<1>7. three = new
  BY <1>2, <1>5, <1>6
<1>. QED  BY <1>7 DEF old, one, two, new
-----------------------------------------------------------------------------
(***************************************************************************)
(* What is ahead.  The entry the running call reads next is the lowest     *)
(* slot still ahead of it, and when it is past its list, none is.          *)
(***************************************************************************)
LEMMA NextIsAhead ==
  ASSUME IInv, InLoop
  PROVE  /\ Top.i < Len(Top.plugs) =>
              /\ Top.plugs[Top.i + 1] \in Ordered!Ahead
              /\ \A t \in Ordered!Ahead : Top.plugs[Top.i + 1] <= t
         /\ Top.i = Len(Top.plugs) => Ordered!Ahead = {}
<1> DEFINE q == Top.plugs
<1>1. /\ stack \in Seq(Frame) /\ stack # <<>> /\ Top \in Frame
      /\ Len(stack) \in 1 .. Len(stack)
  BY TopType DEF IInv, TypeOK, InLoop
<1>2. q \in Seq(Slot) /\ Top.i \in Nat /\ Top.plug \in Nat /\ ListOf(Top) \in List
  BY <1>1, MaxPluginsAssumption DEF Frame, List, ListOf
<1>3. Placed(Top) /\ q = hook_lists[ListOf(Top)]
  BY <1>1 DEF IInv, Stale, Top
<1>4. Enumerates(q, Hooking(status, tables, ListOf(Top)))
  BY <1>2, <1>3 DEF IInv, ListsExact
<1>5. Ordered!Ahead = {s \in Hooking(status, tables, ListOf(Top)) : s > Top.plug}
  <2>1. Ordered!Top = Call(Top)
    BY <1>1, SameControl
  <2>. QED  BY <2>1 DEF Ordered!Ahead, Ordered!Slot, Hooking, Slot, Call, ListOf
<1>6. Len(q) \in Nat /\ \A j \in 1 .. Len(q) : q[j] \in Nat
  <2>. HIDE DEF q
  <2>. QED  BY <1>2, MaxPluginsAssumption DEF Slot
<1>7. ASSUME NEW t \in Ordered!Ahead
      PROVE  \E j \in 1 .. Len(q) : q[j] = t /\ j > Top.i
  <2>1. PICK j \in 1 .. Len(q) : q[j] = t
    BY <1>4, <1>5 DEF Enumerates
  <2>. QED  BY <1>2, <1>3, <1>5, <1>6, <2>1 DEF Placed
<1>8. ASSUME Top.i < Len(q)
      PROVE  /\ q[Top.i + 1] \in Ordered!Ahead
             /\ \A t \in Ordered!Ahead : q[Top.i + 1] <= t
  <2>1. Top.i + 1 \in 1 .. Len(q)
    BY <1>2, <1>6, <1>8
  <2>2. q[Top.i + 1] > Top.plug
    BY <1>2, <1>3, <1>6, <2>1 DEF Placed
  <2>3. \A t \in Ordered!Ahead : q[Top.i + 1] <= t
    <3> TAKE t \in Ordered!Ahead
    <3>1. PICK j \in 1 .. Len(q) : q[j] = t /\ j > Top.i
      BY <1>7
    <3>2. j = Top.i + 1 \/ q[Top.i + 1] < q[j]
      BY <1>2, <1>3, <2>1, <3>1 DEF Placed, Sorted
    <3>. QED  BY <1>6, <2>1, <3>1, <3>2
  <2>. QED  BY <1>4, <1>5, <2>1, <2>2, <2>3 DEF Enumerates
<1>9. ASSUME Top.i = Len(q) PROVE Ordered!Ahead = {}
  BY <1>6, <1>7, <1>9
<1>. QED  BY <1>8, <1>9

(***************************************************************************)
(* The steps.                                                              *)
(***************************************************************************)
LEMMA AdministerStep ==
  ASSUME TypeOK, NEW s \in Slot, Administer(s)
  PROVE  Ordered!Administer(s)
<1>1. ASSUME NEW st, NEW tb, SetPlugin(s, st, tb)
      PROVE  /\ Ordered!Outside /\ UNCHANGED Calls
             /\ status' = [status EXCEPT ![s] = st]
             /\ tables' = [tables EXCEPT ![s] = tb]
  BY <1>1, SameControl DEF SetPlugin, TypeOK, Calls
<1>2. [tables EXCEPT ![s] = tables[s]] = tables
  BY DEF TypeOK
<1>3. CASE Load(s)
  BY <1>1, <1>3 DEF Load, Ordered!Administer, Calls
<1>4. CASE Unload(s)
  BY <1>1, <1>4 DEF Unload, Ordered!Administer, Calls
<1>5. CASE Pause(s)
  BY <1>1, <1>2, <1>5 DEF Pause, Ordered!Administer, Calls
<1>6. CASE Unpause(s)
  BY <1>1, <1>2, <1>6 DEF Unpause, Ordered!Administer, Calls
<1>. QED  BY <1>3, <1>4, <1>5, <1>6 DEF Administer

LEMMA BeginStep ==
  ASSUME TypeOK, TypeOK', NEW api \in Apis, NEW clears \in BOOLEAN, BeginCall(api, clears)
  PROVE  Ordered!Begin(api)
<1> DEFINE fr == [api |-> api, phase |-> "pre", pc |-> "loop",
                  plugs |-> hook_lists[<<api, "pre">>], block |-> hook_list_data,
                  i |-> 0, plug |-> 0, status |-> MRES_UNSET,
                  rebuild_happened |-> IF stack = <<>> THEN FALSE
                                       ELSE hook_list_tables_updated,
                  saved_meta_globals |-> IF stack = <<>> THEN NoGlobals
                                                   ELSE PublicMetaGlobals]
<1>1. stack' = Append(stack, fr) /\ stack \in Seq(Frame) /\ stack' \in Seq(Frame)
  BY DEF BeginCall, TypeOK
<1>2. Call(fr) = [api |-> api, phase |-> "pre", pc |-> "loop", pos |-> 0]
  BY DEF Call
<1>. HIDE DEF fr
<1>3. fr \in Frame
  <2>1. fr = stack'[Len(stack')] /\ Len(stack') \in 1 .. Len(stack')
    BY <1>1
  <2>. QED  BY <1>1, <2>1
<1>4. Calls' = Append(Calls, [api |-> api, phase |-> "pre", pc |-> "loop", pos |-> 0])
  BY <1>1, <1>2, <1>3, PushCalls
<1>5. Ordered!Outside /\ Len(Calls) < MaxDepth /\ UNCHANGED <<status, tables>>
  BY <1>1, SameControl, CallsShape DEF BeginCall, pluginVars
<1>. QED  BY <1>4, <1>5 DEF Ordered!Begin, Calls

\* Taking up the next entry, called or not, is the visit of the lowest slot ahead.
LEMMA VisitStep ==
  ASSUME IInv, TypeOK', InLoop, Top.i < Len(Top.plugs), NEW pc \in {"loop", "plugin"},
         SetTop([Top EXCEPT !.i = @ + 1, !.plug = Top.plugs[Top.i + 1], !.pc = pc]),
         UNCHANGED <<status, tables>>
  PROVE  Ordered!Visit
<1> DEFINE s == Top.plugs[Top.i + 1]
           fr == [Top EXCEPT !.i = @ + 1, !.plug = s, !.pc = pc]
<1>1. /\ stack \in Seq(Frame) /\ stack # <<>> /\ Top \in Frame
      /\ Len(stack) \in 1 .. Len(stack)
  BY TopType DEF IInv, TypeOK, InLoop
<1>2. s \in Ordered!Ahead /\ \A t \in Ordered!Ahead : s <= t
  BY NextIsAhead
<1>. HIDE DEF s
<1>3. fr.api = Top.api /\ fr.phase = Top.phase /\ fr.pc = pc /\ fr.plug = s
  BY <1>1 DEF Frame
<1>4. SetTop(fr)
  BY DEF s
<1>5. fr \in Frame
  <2>1. fr = stack'[Len(stack)] /\ Len(stack) \in 1 .. Len(stack')
    BY <1>1, <1>4 DEF SetTop
  <2>. QED  BY <2>1 DEF TypeOK
<1>. HIDE DEF fr
<1>6. Calls' = [Calls EXCEPT ![Len(Calls)] = [Ordered!Top EXCEPT !.pos = s, !.pc = pc]]
  <2>1. Calls' = [Calls EXCEPT ![Len(Calls)] = Call(fr)]
    BY <1>1, <1>4, <1>5, SetTopCalls
  <2>2. Ordered!Top = Call(Top)
    BY <1>1, SameControl
  <2>3. Call(fr) = [Call(Top) EXCEPT !.pos = s, !.pc = pc]
    <3>1. Call(fr) = [Call(Top) EXCEPT !.pos = fr.plug, !.pc = fr.pc]
      BY <1>3, VisitedCall
    <3>2. fr.plug = s /\ fr.pc = pc
      BY <1>3
    <3>. QED  BY <3>1, <3>2, Zenon
  <2>. HIDE DEF Calls
  <2>. QED  BY <2>1, <2>2, <2>3
<1>7. Ordered!InLoop
  BY <1>1, SameControl
<1>8. Ordered!Slot = Slot /\ s \in Slot
  BY <1>2 DEF Ordered!Slot, Slot, Ordered!Ahead
<1>. QED  BY <1>2, <1>6, <1>7 DEF Ordered!Visit, Ordered!SetTop, Calls

LEMMA ReturnStep ==
  ASSUME IInv, TypeOK', PluginReturns
  PROVE  Ordered!Return
<1> DEFINE refreshed == [Top EXCEPT !.plugs = hook_lists[ListOf(Top)],
                          !.block = hook_list_data,
                          !.i = find_plugin_after_rebuild(hook_lists[ListOf(Top)], Top.plug),
                          !.rebuild_happened = TRUE]
           fr == IF hook_list_tables_updated THEN refreshed ELSE Top
           returned == [fr EXCEPT !.pc = "loop",
                          !.status = Max2(@, PublicMetaGlobals.mres)]
<1>1. /\ stack \in Seq(Frame) /\ stack # <<>> /\ Top \in Frame
      /\ Len(stack) \in 1 .. Len(stack) /\ Top.pc = "plugin"
  BY TopType DEF PluginReturns, IInv, TypeOK
<1>2. SetTop(returned) /\ UNCHANGED <<status, tables>>
  BY DEF PluginReturns, pluginVars
<1>3. /\ refreshed.api = Top.api /\ refreshed.phase = Top.phase
      /\ refreshed.plug = Top.plug /\ DOMAIN refreshed = DOMAIN Top
  BY <1>1 DEF Frame
<1>. HIDE DEF refreshed
<1>4. /\ fr.api = Top.api /\ fr.phase = Top.phase /\ fr.plug = Top.plug
      /\ DOMAIN fr = DOMAIN Top /\ "pc" \in DOMAIN Top
  BY <1>1, <1>3 DEF Frame
<1>. HIDE DEF fr
<1>5. Call(returned) = [Call(Top) EXCEPT !.pc = "loop"]
  BY <1>4 DEF Call
<1>6. returned \in Frame
  <2>1. returned = stack'[Len(stack)] /\ Len(stack) \in 1 .. Len(stack')
    BY <1>1, <1>2 DEF SetTop
  <2>. QED  BY <2>1 DEF TypeOK
<1>. HIDE DEF returned
<1>7. Calls' = [Calls EXCEPT ![Len(Calls)] = [Ordered!Top EXCEPT !.pc = "loop"]]
  <2>1. Calls' = [Calls EXCEPT ![Len(Calls)] = Call(returned)]
    BY <1>1, <1>2, <1>6, SetTopCalls
  <2>2. Ordered!Top = Call(Top)
    BY <1>1, SameControl
  <2>. HIDE DEF Calls
  <2>. QED  BY <2>1, <2>2, <1>5
<1>8. Calls # <<>> /\ Ordered!Top.pc = "plugin"
  BY <1>1, CallsShape, SameControl DEF Call
<1>. QED  BY <1>2, <1>7, <1>8 DEF Ordered!Return, Ordered!SetTop, Calls

LEMMA RoutineStep ==
  ASSUME IInv, CallRoutine
  PROVE  Ordered!CallRoutine
<1> DEFINE fr == [Top EXCEPT !.pc = "routine"]
<1>1. stack \in Seq(Frame) /\ stack # <<>> /\ Top \in Frame
  BY TopType DEF CallRoutine, PreDone, InLoop, IInv, TypeOK
<1>2. InLoop /\ Top.phase = "pre" /\ SetTop(fr) /\ UNCHANGED <<status, tables>>
  BY DEF CallRoutine, PreDone, pluginVars
<1>3. /\ fr \in Frame /\ fr.api = Top.api /\ fr.phase = Top.phase
      /\ fr.plug = Top.plug /\ fr.pc = "routine"
  BY <1>1 DEF Frame
<1>. HIDE DEF fr
<1>4. Calls' = [Calls EXCEPT ![Len(Calls)] = [Ordered!Top EXCEPT !.pc = "routine"]]
  <2>1. Calls' = [Calls EXCEPT ![Len(Calls)] = Call(fr)]
    BY <1>1, <1>2, <1>3, SetTopCalls
  <2>2. Ordered!Top = Call(Top)
    BY <1>1, SameControl
  <2>3. Call(fr) = [Call(Top) EXCEPT !.pc = "routine"]
    BY <1>3 DEF Call
  <2>. HIDE DEF Calls
  <2>. QED  BY <2>1, <2>2, <2>3
<1>5. Ordered!Ahead = {}
  BY <1>2, NextIsAhead DEF CallRoutine, PreDone
<1>6. Ordered!InLoop /\ Ordered!Top.phase = "pre"
  BY <1>1, <1>2, SameControl DEF Call
<1>. QED  BY <1>2, <1>4, <1>5, <1>6 DEF Ordered!CallRoutine, Ordered!SetTop, Calls

LEMMA PostStep ==
  ASSUME IInv, TypeOK', stack # <<>>, NEW st, StartPost(st), Top.pc = "routine" \/ PreDone
  PROVE  Ordered!StartPost
<1> DEFINE fr == [Top EXCEPT !.phase = "post", !.pc = "loop",
                    !.plugs = hook_lists[<<Top.api, "post">>],
                    !.block = hook_list_data, !.i = 0, !.plug = 0, !.status = st,
                    !.rebuild_happened = @ \/ hook_list_tables_updated]
<1>1. stack \in Seq(Frame) /\ Top \in Frame /\ Len(stack) \in 1 .. Len(stack)
  BY TopType DEF IInv, TypeOK
<1>2. SetTop(fr) /\ UNCHANGED <<status, tables>>
  BY DEF StartPost, pluginVars
<1>3. fr.api = Top.api /\ fr.phase = "post" /\ fr.pc = "loop" /\ fr.plug = 0
  BY <1>1 DEF Frame
<1>4. fr \in Frame
  <2>1. fr = stack'[Len(stack)] /\ Len(stack) \in 1 .. Len(stack')
    BY <1>1, <1>2 DEF SetTop
  <2>. QED  BY <2>1 DEF TypeOK
<1>. HIDE DEF fr
<1>5. Calls' = [Calls EXCEPT ![Len(Calls)] = [Ordered!Top EXCEPT !.phase = "post", !.pc = "loop", !.pos = 0]]
  <2>1. Calls' = [Calls EXCEPT ![Len(Calls)] = Call(fr)]
    BY <1>1, <1>2, <1>4, SetTopCalls
  <2>2. Ordered!Top = Call(Top)
    BY <1>1, SameControl
  <2>3. Call(fr) = [Call(Top) EXCEPT !.phase = "post", !.pc = "loop", !.pos = 0]
    BY <1>3, PostCall
  <2>. HIDE DEF Calls
  <2>. QED  BY <2>1, <2>2, <2>3
<1>6. \/ Ordered!Top.pc = "routine"
      \/ Ordered!Top.pc = "loop" /\ Ordered!Top.phase = "pre" /\ Ordered!Ahead = {}
  BY <1>1, SameControl, NextIsAhead DEF PreDone, InLoop, Call
<1>7. Calls # <<>>
  BY <1>1, CallsShape
<1>. QED  BY <1>2, <1>5, <1>6, <1>7 DEF Ordered!StartPost, Ordered!SetTop, Calls

LEMMA EndStep ==
  ASSUME IInv, EndCall
  PROVE  Ordered!End
<1>1. stack \in Seq(Frame) /\ stack # <<>> /\ InLoop /\ Top.phase = "post"
  BY DEF EndCall, InLoop, IInv, TypeOK
<1>2. Calls' = SubSeq(Calls, 1, Len(Calls) - 1)
  BY <1>1, PopCalls DEF EndCall
<1>3. Ordered!Ahead = {}
  BY <1>1, NextIsAhead DEF EndCall
<1>4. Ordered!InLoop /\ Ordered!Top.phase = "post"
  BY <1>1, SameControl DEF Call
<1>5. UNCHANGED <<status, tables>>
  BY DEF EndCall, pluginVars
<1>. QED  BY <1>2, <1>3, <1>4, <1>5 DEF Ordered!End, Calls

LEMMA InitOrdered == Init => Ordered!Init
<1> SUFFICES ASSUME Init PROVE Ordered!Init
  OBVIOUS
<1>1. stack = <<>>
  BY DEF Init
<1>2. Calls = <<>>
  BY <1>1, CallsShape
<1>. QED  BY <1>2 DEF Init, Ordered!Init, Ordered!Slot, Slot, Calls

LEMMA NextOrdered ==
  ASSUME IInv, TypeOK', [Next]_vars
  PROVE  [Ordered!Next]_(Ordered!vars)
<1>. USE DEF Ordered!Next
<1>1. ASSUME UNCHANGED <<status, tables, stack>> PROVE UNCHANGED Ordered!vars
  BY <1>1 DEF Ordered!vars
<1>2. ASSUME NEW s \in Slot, Administer(s) PROVE Ordered!Next
  BY <1>2, AdministerStep DEF IInv, Ordered!Slot, Slot
<1>3. ASSUME NEW m \in Results, SetMetaResult(m) PROVE UNCHANGED Ordered!vars
  BY <1>1, <1>3 DEF SetMetaResult, pluginVars
<1>4. ASSUME NEW api \in Apis, NEW clears \in BOOLEAN, BeginCall(api, clears)
      PROVE  Ordered!Next
  BY <1>4, BeginStep DEF IInv
<1>5. CASE SkipPlugin
  <2>1. Top \in Frame
    BY <1>5, TopType DEF SkipPlugin, InLoop, IInv, TypeOK
  <2>2. [Top EXCEPT !.i = @ + 1, !.plug = Top.plugs[Top.i + 1]] =
        [Top EXCEPT !.i = @ + 1, !.plug = Top.plugs[Top.i + 1], !.pc = "loop"]
    BY <1>5, <2>1 DEF SkipPlugin, InLoop, Frame
  <2>. QED  BY <1>5, <2>2, VisitStep DEF SkipPlugin, pluginVars
<1>6. CASE CallPlugin
  BY <1>6, VisitStep DEF CallPlugin, pluginVars
<1>7. CASE PluginReturns
  BY <1>7, ReturnStep
<1>8. CASE CallRoutine
  BY <1>8, RoutineStep
<1>9. ASSUME RoutineMissing \/ RoutineSuperceded \/ RoutineReturns PROVE Ordered!Next
  <2>1. /\ stack # <<>>
        /\ Top.pc = "routine" \/ PreDone
        /\ \E st \in {MRES_UNSET, Top.status} : StartPost(st)
    BY <1>9 DEF RoutineMissing, RoutineSuperceded, RoutineReturns, PreDone, InLoop
  <2>. QED  BY <2>1, PostStep
<1>10. CASE EndCall
  BY <1>10, EndStep
<1>11. CASE UNCHANGED vars
  BY <1>1, <1>11 DEF vars
<1>. QED  BY <1>2, <1>3, <1>4, <1>5, <1>6, <1>7, <1>8, <1>9, <1>10, <1>11
          DEF Next, Dispatch

(***************************************************************************)
(* Whatever plugins are loaded, unloaded, paused or unpaused by the hooks  *)
(* a call runs, at any depth: each phase visits the plugins that hook it   *)
(* at that moment in slot order, skips none and visits none twice, unless  *)
(* the reallocation of the lists fails.                                    *)
(***************************************************************************)
THEOREM DispatchesInOrder ==
  ASSUME ~ AllocMayFail
  PROVE  Spec => ImplementsOrderedDispatch
<1>1. Init => Ordered!Init
  BY InitOrdered
<1>2. IInv /\ TypeOK' /\ [Next]_vars => [Ordered!Next]_(Ordered!vars)
  BY NextOrdered
<1>. QED  BY <1>1, <1>2, IInvHolds, TypeCorrect, PTL
          DEF Spec, ImplementsOrderedDispatch, Ordered!Spec
=============================================================================
