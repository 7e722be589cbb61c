----------------------- MODULE PluginCallbacksProofs -----------------------
(***************************************************************************)
(* Proofs about the calls between plugins, for every number of plugins,    *)
(* files and commands and every depth of the stack: that the two checks of *)
(* plugin_unload() keep the plugin that asked for an unload in place, that *)
(* a plugin in the hook lists has its library, that a chain of unloads     *)
(* never crashes, that no plugin stays marked as unloading, and that an    *)
(* unload takes the plugin's commands out of use.                          *)
(***************************************************************************)
EXTENDS PluginCallbacks, SequenceTheorems, TLAPS

Detaching(k) == stack[k].in = "detach"

(***************************************************************************)
(* What the two checks keep true.  A plugin with an unload under way is    *)
(* marked, has its library, and is neither the subject of a later unload   *)
(* nor the requester of another.                                           *)
(***************************************************************************)
Marks == \A k \in 1 .. Depth : Detaching(k) /\ stack[k].by # 0
           => /\ plist[stack[k].by].is_unloader
              /\ plist[stack[k].by].handle # NULL
              /\ stack[k].by # stack[k].slot

Ordered == \A k, m \in 1 .. Depth : k < m /\ Detaching(k) /\ Detaching(m) /\ stack[k].by # 0
             => stack[m].by # stack[k].by /\ stack[m].slot # stack[k].by

\* Requests come from the plugin on top, or from the console.
Asked == \A k \in 1 .. Depth :
           Detaching(k) => /\ k = 1 => stack[k].by = 0
                           /\ k > 1 => stack[k].by = stack[k - 1].slot

EmptyIsClosed == \A s \in Slot : plist[s].status = PL_EMPTY => plist[s].handle = NULL

UsedIsNamed == \A s \in Slot : plist[s].status # PL_EMPTY => plist[s].file \in Files

\* The plugin that has control is there.
TopIsOpen == Depth > 0 => plist[Top.slot].handle # NULL

(***************************************************************************)
(* A plugin that is being loaded had no frame on the stack before, and     *)
(* does not run until that is done.                                        *)
(***************************************************************************)
Loading(m) == stack[m].in \in {"query", "attach"}

Fresh == \A m \in 1 .. Depth : Loading(m) =>
            /\ plist[stack[m].slot].status # PL_RUNNING
            /\ \A k \in 1 .. m - 1 : stack[k].slot # stack[m].slot

(***************************************************************************)
(* What unload() relies on after Meta_Detach: its entry is still marked,   *)
(* since only the end of a load unmarks an entry in use, and no entry that *)
(* has a frame on the stack is loaded.                                     *)
(***************************************************************************)
Held == ~ Crashed =>
          \A k \in 1 .. Depth : Detaching(k) => plist[stack[k].slot].action = "unload"

Shape == TypeOK /\ EmptyIsClosed /\ UsedIsNamed /\ Asked /\ Fresh

Protected == Marks /\ Ordered

Bound == Held /\ RunningIsOpen

\* Every plugin may be unloaded by a delayed request.
Delayable == \A f \in Files : unloadable[f] > PT_STARTUP
-----------------------------------------------------------------------------
LEMMA PushProps ==
  ASSUME NEW fr \in Frame, stack \in Seq(Frame), Push(fr)
  PROVE  /\ stack' \in Seq(Frame) /\ Depth \in Nat /\ Depth' = Depth + 1
         /\ stack'[Depth + 1] = fr
         /\ \A k \in 1 .. Depth : stack'[k] = stack[k]
BY DEF Push, Depth

LEMMA PopProps ==
  ASSUME stack \in Seq(Frame), Depth > 0
  PROVE  /\ Pop \in Seq(Frame) /\ Depth \in Nat /\ Len(Pop) = Depth - 1
         /\ Top \in Frame /\ Top = stack[Depth]
         /\ \A k \in 1 .. Depth - 1 : Pop[k] = stack[k]
<1>1. Depth \in Nat \ {0} /\ Depth - 1 \in Int
  BY DEF Depth
<1>2. \A k \in 1 .. Depth - 1 : stack[k] \in Frame
  BY <1>1 DEF Depth
<1>3. Pop \in Seq(Frame)
  BY <1>1, <1>2, SubSeqProperties DEF Pop
<1>4. Len(Pop) = Depth - 1
  BY <1>1, <1>2, SubSeqProperties DEF Pop
<1>5. \A k \in 1 .. Depth - 1 : Pop[k] = stack[1 + k - 1]
  BY <1>1, <1>2, SubSeqProperties DEF Pop
<1>6. \A k \in 1 .. Depth - 1 : Pop[k] = stack[k]
  BY <1>1, <1>5
<1>7. Top \in Frame
  BY <1>1 DEF Top, Depth
<1>. QED  BY <1>1, <1>3, <1>4, <1>6, <1>7 DEF Top

\* Meta_Attach returns, and GameInit may be called in its place.
LEMMA ReplaceProps ==
  ASSUME stack \in Seq(Frame), Depth > 0, NEW fr \in Frame, stack' = Append(Pop, fr)
  PROVE  /\ stack' \in Seq(Frame) /\ Depth' = Depth
         /\ stack'[Depth] = fr
         /\ \A k \in 1 .. Depth - 1 : stack'[k] = stack[k]
<1>1. /\ Pop \in Seq(Frame) /\ Depth \in Nat /\ Len(Pop) = Depth - 1
      /\ \A k \in 1 .. Depth - 1 : Pop[k] = stack[k]
  BY PopProps
<1>. QED  BY <1>1 DEF Depth

LEMMA CallTyped ==
  ASSUME NEW s \in Slot, NEW in \in EntryPoints, NEW u \in 0 .. MaxPlugins, NEW f \in BOOLEAN
  PROVE  Call(in, s) \in Frame /\ Detach(s, u, f) \in Frame
BY SizeAssumption DEF Call, Detach, Frame, EntryPoints, Slot

-----------------------------------------------------------------------------
(***************************************************************************)
(* What a request to unload does short of Meta_Detach, and with it.        *)
(***************************************************************************)
LEMMA UnprotectedProps ==
  ASSUME NEW p \in [Slot -> Entry], NEW u \in 0 .. MaxPlugins
  PROVE  /\ Unprotected(p, u) \in [Slot -> Entry]
         /\ \A t \in Slot :
              /\ Unprotected(p, u)[t].handle = p[t].handle
              /\ Unprotected(p, u)[t].status = p[t].status
              /\ Unprotected(p, u)[t].action = p[t].action
              /\ Unprotected(p, u)[t].file = p[t].file
              /\ t # u /\ p[t].is_unloader => Unprotected(p, u)[t].is_unloader
<1> DEFINE q(t) == [p[t] EXCEPT !.is_unloader = FALSE]
<1>1. \A t \in Slot : p[t] \in Entry
  OBVIOUS
<1>2. \A t \in Slot : /\ q(t) \in Entry
                      /\ q(t).handle = p[t].handle /\ q(t).status = p[t].status
                      /\ q(t).action = p[t].action /\ q(t).file = p[t].file
  BY <1>1 DEF Entry
<1>3. Unprotected(p, u) = [t \in Slot |-> IF t = u THEN q(t) ELSE p[t]]
  BY DEF Unprotected
<1>. HIDE DEF q
<1>. QED  BY <1>1, <1>2, <1>3

LEMMA ClosedProps ==
  ASSUME NEW p \in [Slot -> Entry], NEW s \in Slot
  PROVE  /\ Closed(p, s) \in [Slot -> Entry]
         /\ \A t \in Slot : t # s => Closed(p, s)[t] = p[t]
         /\ Closed(p, s)[s].handle = NULL
         /\ Closed(p, s)[s].file = p[s].file
         /\ Closed(p, s)[s].status = IF p[s].action = "unload" THEN PL_EMPTY
                                     ELSE p[s].status
         /\ p[s].is_unloader => Closed(p, s)[s].is_unloader
<1> DEFINE q == IF p[s].action = "unload"
                THEN [p[s] EXCEPT !.handle = NULL, !.status = PL_EMPTY, !.action = "none"]
                ELSE [p[s] EXCEPT !.handle = NULL]
<1>1. p[s] \in Entry
  OBVIOUS
<1>2. /\ q \in Entry /\ q.handle = NULL /\ q.file = p[s].file
      /\ q.status = IF p[s].action = "unload" THEN PL_EMPTY ELSE p[s].status
      /\ p[s].is_unloader => q.is_unloader
  BY <1>1 DEF Entry, Statuses
<1>3. Closed(p, s) = [p EXCEPT ![s] = q]
  BY DEF Closed
<1>. HIDE DEF q
<1>. QED  BY <1>1, <1>2, <1>3

Answered(s, u) ==
  /\ UNCHANGED stack
  /\ plist' \in [Slot -> Entry]
  /\ cmds' \in [Commands -> Command]
  /\ \A t \in Slot :
       /\ plist'[t].handle = plist[t].handle /\ plist'[t].file = plist[t].file
       /\ t # u /\ plist[t].is_unloader => plist'[t].is_unloader
       /\ \/ plist'[t].status = plist[t].status
          \/ plist'[t].status = PL_EMPTY /\ plist'[t].handle = NULL
       /\ \/ t = s
          \/ plist'[t].action = plist[t].action /\ plist'[t].status = plist[t].status
  /\ Delayable /\ u # 0 /\ plist[s].handle # NULL
       => plist'[s].action \in {"unload", plist[s].action}

Called(s, u, forced) ==
  /\ Push(Detach(s, u, forced))
  /\ UNCHANGED cmds
  /\ plist' \in [Slot -> Entry]
  /\ plist[s].handle # NULL
  /\ \A t \in Slot :
       /\ plist'[t].handle = plist[t].handle /\ plist'[t].status = plist[t].status
       /\ plist'[t].file = plist[t].file
       /\ plist[t].is_unloader \/ t = u => plist'[t].is_unloader
       /\ plist'[t].action = IF t = s THEN "unload" ELSE plist[t].action

LEMMA DisableTyped ==
  ASSUME NEW c \in [Commands -> Command], NEW s \in Slot, NEW f
  PROVE  disable(c, s) \in [Commands -> Command] /\ Dangling(c, f) \in [Commands -> Command]
BY DEF disable, Dangling, Command

LEMMA UnloadEffects ==
  ASSUME TypeOK, NEW s \in Slot, NEW u \in 0 .. MaxPlugins, NEW forced \in BOOLEAN,
         plist[s].status # PL_EMPTY, plist[s].file \in Files, unload(s, u, forced)
  PROVE  Answered(s, u) \/ Called(s, u, forced)
<1> DEFINE e == plist[s]
           marked == Marked(s, u)
           pending == CASE unloadable[e.file] <= PT_STARTUP -> "none"
                        [] unloadable[e.file] > PT_STARTUP /\ u = 0 -> "unload"
                        [] unloadable[e.file] > PT_STARTUP /\ u # 0 -> e.action
<1>1. /\ plist \in [Slot -> Entry] /\ cmds \in [Commands -> Command] /\ stack \in Seq(Frame)
      /\ unloadable[e.file] \in 0 .. 4
  BY TimesAssumption DEF TypeOK, PT_NEVER, PT_ANYPAUSE
<1>2. /\ marked \in [Slot -> Entry]
      /\ \A t \in Slot :
           /\ marked[t].file = plist[t].file
           /\ marked[t].handle = plist[t].handle /\ marked[t].status = plist[t].status
           /\ plist[t].is_unloader \/ t = u => marked[t].is_unloader
           /\ marked[t].action = IF t = s THEN "unload" ELSE plist[t].action
  BY <1>1 DEF Marked, Entry
<1>3. pending \in {"none", "unload", "load"}
      /\ (Delayable /\ u # 0 => pending = e.action)
  BY <1>1 DEF Entry, Delayable, PT_STARTUP
<1>4. CASE /\ ~ forced /\ e.status < PL_RUNNING
           /\ plist' = Unprotected(marked, u)
           /\ UNCHANGED <<cmds, stack>>
  <2>. QED  BY <1>1, <1>2, <1>4, UnprotectedProps DEF Answered
<1>5. CASE /\ ~ forced /\ e.status = PL_RUNNING
           /\ plist' = Unprotected([marked EXCEPT ![s].action = pending], u)
           /\ UNCHANGED <<cmds, stack>>
  <2> DEFINE r == [marked[s] EXCEPT !.action = pending]
             left == [marked EXCEPT ![s] = r]
  <2>. HIDE DEF pending, marked
  <2>1. /\ r \in Entry /\ r.file = plist[s].file /\ r.handle = plist[s].handle /\ r.status = plist[s].status
        /\ r.action = pending /\ (plist[s].is_unloader => r.is_unloader)
    BY <1>2, <1>3 DEF Entry
  <2>2. plist' = Unprotected(left, u)
    BY <1>5
  <2>. HIDE DEF r
  <2>3. /\ left \in [Slot -> Entry]
        /\ \A t \in Slot :
             /\ left[t].handle = plist[t].handle /\ left[t].status = plist[t].status
             /\ left[t].file = plist[t].file
             /\ left[t].action = IF t = s THEN pending ELSE plist[t].action
             /\ plist[t].is_unloader => left[t].is_unloader
    BY <1>2, <2>1
  <2>. HIDE DEF left
  <2>4. /\ plist' \in [Slot -> Entry]
        /\ \A t \in Slot :
             /\ plist'[t].handle = plist[t].handle /\ plist'[t].status = plist[t].status
             /\ plist'[t].file = plist[t].file
             /\ plist'[t].action = IF t = s THEN pending ELSE plist[t].action
             /\ t # u /\ plist[t].is_unloader => plist'[t].is_unloader
    BY <2>2, <2>3, UnprotectedProps
  <2>. QED  BY <1>1, <1>3, <1>5, <2>4 DEF Answered
<1>6. CASE /\ forced /\ e.handle = NULL
           /\ plist' = Unprotected(Closed(marked, s), u)
           /\ cmds' = disable(cmds, s)
           /\ UNCHANGED stack
  <2> DEFINE left == Closed(marked, s)
  <2>. HIDE DEF pending, marked
  <2>1. /\ left \in [Slot -> Entry]
        /\ \A t \in Slot :
             /\ left[t].handle = plist[t].handle /\ left[t].file = plist[t].file
             /\ left[t].status = IF t = s THEN PL_EMPTY ELSE plist[t].status
             /\ t # s => left[t].action = plist[t].action
             /\ plist[t].is_unloader => left[t].is_unloader
    BY <1>2, <1>6, ClosedProps
  <2>2. plist' = Unprotected(left, u)
    BY <1>6
  <2>3. cmds' \in [Commands -> Command]
    BY <1>1, <1>6, DisableTyped
  <2>. HIDE DEF left
  <2>4. /\ plist' \in [Slot -> Entry]
        /\ \A t \in Slot :
             /\ plist'[t].handle = plist[t].handle
             /\ plist'[t].file = plist[t].file
             /\ plist'[t].status = IF t = s THEN PL_EMPTY ELSE plist[t].status
             /\ t # s => plist'[t].action = plist[t].action
             /\ t # u /\ plist[t].is_unloader => plist'[t].is_unloader
    BY <2>1, <2>2, UnprotectedProps
  <2>5. plist'[s].handle = NULL /\ plist[s].handle = NULL
    BY <1>6, <2>4
  <2>. QED  BY <1>6, <2>3, <2>4, <2>5 DEF Answered
<1>7. CASE /\ e.handle # NULL
           /\ plist' = marked
           /\ Push(Detach(s, u, forced))
           /\ UNCHANGED cmds
  BY <1>1, <1>2, <1>7 DEF Called
<1>. QED  BY <1>4, <1>5, <1>6, <1>7 DEF unload
-----------------------------------------------------------------------------
(***************************************************************************)
(* What the other steps do: those that call no Meta_Detach keep the slots  *)
(* of the frames, and the frames of Meta_Detach as they are.               *)
(***************************************************************************)
Kept == /\ stack' \in Seq(Frame) /\ Depth \in Nat /\ Depth' \in Nat
        /\ \A k \in 1 .. Depth' :
             /\ k <= Depth => stack'[k].slot = stack[k].slot
             /\ stack'[k].in = "detach" => k <= Depth /\ stack'[k] = stack[k]

Enters(in, s) == /\ stack' \in Seq(Frame) /\ Depth \in Nat /\ Depth' = Depth + 1
                 /\ \A k \in 1 .. Depth : stack'[k] = stack[k]
                 /\ stack'[Depth + 1].in = in /\ stack'[Depth + 1].slot = s

Leaves == /\ stack' \in Seq(Frame) /\ Depth \in Nat \ {0} /\ Depth' = Depth - 1
          /\ \A k \in 1 .. Depth - 1 : stack'[k] = stack[k]

Goes(in) == /\ stack' \in Seq(Frame) /\ Depth \in Nat \ {0} /\ Depth' = Depth
            /\ \A k \in 1 .. Depth - 1 : stack'[k] = stack[k]
            /\ stack'[Depth].in = in /\ stack'[Depth].slot = stack[Depth].slot

LEMMA EntersIs ==
  ASSUME stack \in Seq(Frame), NEW in \in EntryPoints, NEW s \in Slot, Push(Call(in, s))
  PROVE  Enters(in, s)
<1>1. Call(in, s) \in Frame /\ Call(in, s).in = in /\ Call(in, s).slot = s
  BY SizeAssumption DEF Call, Frame, EntryPoints, Slot
<1>. QED  BY <1>1, PushProps DEF Enters

LEMMA LeavesIs ==
  ASSUME stack \in Seq(Frame), Depth > 0, stack' = Pop
  PROVE  Leaves
BY PopProps DEF Leaves, Depth

LEMMA GoesIs ==
  ASSUME stack \in Seq(Frame), Depth > 0, NEW in \in EntryPoints,
         stack' = Append(Pop, Call(in, Top.slot))
  PROVE  Goes(in)
<1>1. Top \in Frame /\ Top = stack[Depth] /\ Depth \in Nat
  BY PopProps
<1>2. /\ Call(in, Top.slot) \in Frame
      /\ Call(in, Top.slot).in = in /\ Call(in, Top.slot).slot = Top.slot
  BY <1>1, SizeAssumption DEF Call, Frame, EntryPoints, Slot
<1>3. /\ stack' \in Seq(Frame) /\ Depth' = Depth
      /\ stack'[Depth] = Call(in, Top.slot)
      /\ \A k \in 1 .. Depth - 1 : stack'[k] = stack[k]
  BY <1>2, ReplaceProps
<1>4. stack'[Depth].in = in /\ stack'[Depth].slot = stack[Depth].slot
  BY <1>1, <1>2, <1>3
<1>5. Depth \in Nat \ {0}
  BY <1>1
<1>. QED  BY <1>3, <1>4, <1>5 DEF Goes

LEMMA KeptIs ==
  ASSUME stack \in Seq(Frame)
  PROVE  /\ UNCHANGED stack => Kept
         /\ Leaves => Kept
         /\ \A in \in EntryPoints \ {"detach"}, s \in Slot : Enters(in, s) => Kept
         /\ Goes("gameinit") \/ Goes("attach") => Kept
<1>1. Depth \in Nat
  BY DEF Depth
<1>2. UNCHANGED stack => Kept
  BY <1>1 DEF Kept, Depth
<1>3. Leaves => Kept
  BY <1>1 DEF Kept, Leaves
<1>4. ASSUME NEW in \in EntryPoints \ {"detach"}, NEW s \in Slot, Enters(in, s)
      PROVE  Kept
  BY <1>1, <1>4 DEF Kept, Enters
<1>5. Goes("gameinit") \/ Goes("attach") => Kept
  BY <1>1 DEF Kept, Goes
<1>. QED  BY <1>2, <1>3, <1>4, <1>5

-----------------------------------------------------------------------------
(***************************************************************************)
(* The effects of the actions.                                             *)
(***************************************************************************)
Loaded(s, f) ==
  /\ plist[s].status = PL_EMPTY
  /\ plist' \in [Slot -> Entry]
  /\ \A t \in Slot : t # s => plist'[t] = plist[t]
  /\ plist'[s].file = f /\ plist'[s].status \notin {PL_EMPTY, PL_RUNNING}
  /\ UNCHANGED stack \/ (Enters("query", s) /\ plist'[s].handle # NULL)

LEMMA LoadEffects ==
  ASSUME TypeOK, NEW f \in Files, addload(f)
  PROVE  UNCHANGED cmds /\ \E s \in Slot : Loaded(s, f)
<1>1. PICK s \in Slot : IsFree(s) /\ load(s, f)
  BY DEF addload
<1>2. plist \in [Slot -> Entry] /\ plist[s] \in Entry /\ stack \in Seq(Frame)
  BY DEF TypeOK
<1>3. /\ Valid(s, f) \in Entry /\ Valid(s, f).file = f
      /\ Valid(s, f).status = PL_VALID /\ Valid(s, f).handle = f
  BY <1>2 DEF Valid, Entry, Statuses
<1>4. /\ BadFile(s, f) \in Entry /\ BadFile(s, f).file = f
      /\ BadFile(s, f).status = PL_BADFILE
  BY <1>2 DEF BadFile, Entry, Statuses
<1>5. PL_VALID \notin {PL_EMPTY, PL_RUNNING} /\ PL_BADFILE \notin {PL_EMPTY, PL_RUNNING}
  BY DEF PL_VALID, PL_EMPTY, PL_RUNNING, PL_BADFILE
<1>6. CASE /\ plist' = [plist EXCEPT ![s] = Valid(s, f)]
           /\ Push(Call("query", s))
  <2>1. Enters("query", s)
    BY <1>2, <1>6, EntersIs DEF EntryPoints
  <2>. QED  BY <1>1, <1>2, <1>3, <1>5, <1>6, <2>1, NullAssumption
            DEF Loaded, IsFree, addload
<1>7. CASE /\ plist' = [plist EXCEPT ![s] = BadFile(s, f)]
           /\ UNCHANGED stack
  BY <1>1, <1>2, <1>4, <1>5, <1>7 DEF Loaded, IsFree, addload
<1>. QED  BY <1>1, <1>6, <1>7 DEF load

LEMMA ClearedProps ==
  ASSUME plist \in [Slot -> Entry], NEW s \in Slot
  PROVE  /\ Cleared(s) \in Entry /\ Cleared(s).file = plist[s].file
         /\ Cleared(s).handle = NULL /\ Cleared(s).status = PL_EMPTY
         /\ Cleared(s).is_unloader = plist[s].is_unloader
<1>1. plist[s] \in Entry
  OBVIOUS
<1>. QED  BY <1>1 DEF Cleared, Entry, Statuses

\* The query of entry s ends: the library is kept, or closed and the commands that
\* point into it lose their code.
Queried(s) ==
  /\ Depth > 0 /\ s = stack[Depth].slot /\ stack[Depth].in = "query"
  /\ plist' \in [Slot -> Entry]
  /\ cmds' \in [Commands -> Command]
  /\ \A t \in Slot : t # s => plist'[t] = plist[t]
  /\ plist'[s].file = plist[s].file /\ plist'[s].is_unloader = plist[s].is_unloader
  /\ plist'[s].status # PL_RUNNING
  /\ plist'[s].status = PL_EMPTY => plist'[s].handle = NULL
  /\ \/ /\ Leaves \/ Goes("attach")
        /\ plist'[s].handle = plist[s].handle
        /\ UNCHANGED cmds
     \/ /\ Leaves
        /\ plist'[s].handle = NULL
        /\ cmds' = Dangling(cmds, plist[s].handle)

LEMMA QueryEffects ==
  ASSUME TypeOK, QueryReturns \/ QueryFails
  PROVE  Top.slot \in Slot /\ Queried(Top.slot)
<1> DEFINE s == Top.slot
           open == [plist[s] EXCEPT !.status = PL_OPENED]
           bad  == [plist[s] EXCEPT !.status = PL_BADFILE]
           shut == [bad EXCEPT !.handle = NULL]
           gone == Cleared(s)
<1>1. /\ stack \in Seq(Frame) /\ Depth > 0 /\ plist \in [Slot -> Entry]
      /\ cmds \in [Commands -> Command]
  BY DEF TypeOK, QueryReturns, QueryFails, InPlugin
<1>2. Top \in Frame /\ Top = stack[Depth] /\ s \in Slot /\ Top.in = "query"
  BY <1>1, PopProps DEF Frame, QueryReturns, QueryFails
<1>3. plist[s] \in Entry
  BY <1>1, <1>2
<1>4. /\ PL_OPENED \notin {PL_EMPTY, PL_RUNNING} /\ PL_BADFILE \notin {PL_EMPTY, PL_RUNNING}
      /\ PL_EMPTY # PL_RUNNING
  BY DEF PL_OPENED, PL_EMPTY, PL_RUNNING, PL_BADFILE
<1>5. \A e \in {open, bad, shut} :
        /\ e \in Entry /\ e.file = plist[s].file /\ e.is_unloader = plist[s].is_unloader
        /\ e.status \in {PL_OPENED, PL_BADFILE}
  BY <1>3 DEF Entry, Statuses
<1>6. open.handle = plist[s].handle /\ bad.handle = plist[s].handle /\ shut.handle = NULL
  BY <1>3 DEF Entry
<1>7. /\ gone \in Entry /\ gone.file = plist[s].file /\ gone.handle = NULL
      /\ gone.status = PL_EMPTY /\ gone.is_unloader = plist[s].is_unloader
  BY <1>1, <1>2, ClearedProps
<1>8. Dangling(cmds, plist[s].handle) \in [Commands -> Command]
  BY <1>1, <1>2, DisableTyped
<1>9. \/ /\ plist' = [plist EXCEPT ![s] = open] /\ UNCHANGED cmds
         /\ stack' = Pop \/ stack' = Append(Pop, Call("attach", s))
      \/ plist' = [plist EXCEPT ![s] = bad] /\ UNCHANGED cmds /\ stack' = Pop
      \/ /\ plist' = [plist EXCEPT ![s] = shut] \/ plist' = [plist EXCEPT ![s] = gone]
         /\ cmds' = Dangling(cmds, plist[s].handle) /\ stack' = Pop
  <2>1. CASE QueryReturns
    BY <2>1, Zenon DEF QueryReturns
  <2>2. CASE QueryFails
    BY <2>2, Zenon DEF QueryFails
  <2>. QED  BY <2>1, <2>2
<1>10. /\ stack' = Pop => Leaves
       /\ stack' = Append(Pop, Call("attach", s)) => Goes("attach")
  BY <1>1, LeavesIs, GoesIs DEF EntryPoints
<1>. HIDE DEF s, open, bad, shut, gone
<1>11. ASSUME NEW e \in {open, bad, shut, gone}, plist' = [plist EXCEPT ![s] = e]
       PROVE  /\ plist' \in [Slot -> Entry] /\ plist'[s] = e
              /\ \A t \in Slot : t # s => plist'[t] = plist[t]
  BY <1>1, <1>2, <1>5, <1>7, <1>11
<1>12. CASE /\ plist' = [plist EXCEPT ![s] = open] /\ UNCHANGED cmds
            /\ stack' = Pop \/ stack' = Append(Pop, Call("attach", s))
  <2>1. plist' \in [Slot -> Entry] /\ plist'[s] = open /\ \A t \in Slot : t # s => plist'[t] = plist[t]
    BY <1>11, <1>12
  <2>. QED  BY <1>1, <1>2, <1>4, <1>5, <1>6, <1>10, <1>12, <2>1 DEF Queried, s
<1>13. CASE plist' = [plist EXCEPT ![s] = bad] /\ UNCHANGED cmds /\ stack' = Pop
  <2>1. plist' \in [Slot -> Entry] /\ plist'[s] = bad /\ \A t \in Slot : t # s => plist'[t] = plist[t]
    BY <1>11, <1>13
  <2>. QED  BY <1>1, <1>2, <1>4, <1>5, <1>6, <1>10, <1>13, <2>1 DEF Queried, s
<1>14. CASE /\ plist' = [plist EXCEPT ![s] = shut] \/ plist' = [plist EXCEPT ![s] = gone]
            /\ cmds' = Dangling(cmds, plist[s].handle) /\ stack' = Pop
  <2>1. /\ plist' \in [Slot -> Entry] /\ plist'[s] \in {shut, gone}
        /\ \A t \in Slot : t # s => plist'[t] = plist[t]
    BY <1>11, <1>14
  <2>. QED  BY <1>1, <1>2, <1>4, <1>5, <1>6, <1>7, <1>8, <1>10, <1>14, <2>1 DEF Queried, s
<1>. QED  BY <1>2, <1>9, <1>12, <1>13, <1>14 DEF s

\* Entry s changes in its status and action only.
Attached(s) ==
  /\ Depth > 0 /\ s = stack[Depth].slot /\ stack[Depth].in = "attach"
  /\ plist' \in [Slot -> Entry]
  /\ \A t \in Slot : t # s => plist'[t] = plist[t]
  /\ plist'[s].handle = plist[s].handle /\ plist'[s].file = plist[s].file
  /\ plist'[s].is_unloader = plist[s].is_unloader
  /\ plist'[s].status # PL_EMPTY
  /\ Leaves \/ Goes("gameinit")

LEMMA AttachEffects ==
  ASSUME TypeOK, AttachReturns
  PROVE  UNCHANGED cmds /\ Top.slot \in Slot /\ Attached(Top.slot)
<1> DEFINE s == Top.slot
           r1 == [plist[s] EXCEPT !.status = PL_RUNNING, !.action = "none"]
           r2 == [plist[s] EXCEPT !.status = PL_FAILED]
<1>1. /\ stack \in Seq(Frame) /\ Depth > 0 /\ plist \in [Slot -> Entry]
  BY DEF TypeOK, AttachReturns, InPlugin
<1>2. Top \in Frame /\ Top = stack[Depth] /\ s \in Slot /\ Top.in = "attach"
  BY <1>1, PopProps DEF Frame, AttachReturns
<1>3. plist[s] \in Entry
  BY <1>1, <1>2
<1>4. /\ r1 \in Entry /\ r1.handle = plist[s].handle /\ r1.file = plist[s].file
      /\ r1.is_unloader = plist[s].is_unloader /\ r1.status = PL_RUNNING
      /\ r2 \in Entry /\ r2.handle = plist[s].handle /\ r2.file = plist[s].file
      /\ r2.is_unloader = plist[s].is_unloader /\ r2.status = PL_FAILED
  BY <1>3 DEF Entry, Statuses
<1>5. PL_RUNNING # PL_EMPTY /\ PL_FAILED # PL_EMPTY
  BY DEF PL_RUNNING, PL_EMPTY, PL_FAILED
<1>6. \/ plist' = [plist EXCEPT ![s] = r1] /\ stack' \in {Pop, Append(Pop, Call("gameinit", s))}
      \/ plist' = [plist EXCEPT ![s] = r2] /\ stack' = Pop
  BY DEF AttachReturns
<1>7. Leaves \/ Goes("gameinit")
  BY <1>1, <1>6, LeavesIs, GoesIs DEF EntryPoints
<1>8. /\ plist' \in [Slot -> Entry]
      /\ \A t \in Slot : t # s => plist'[t] = plist[t]
      /\ plist'[s].handle = plist[s].handle /\ plist'[s].file = plist[s].file
      /\ plist'[s].is_unloader = plist[s].is_unloader
      /\ plist'[s].status # PL_EMPTY
  <2>. HIDE DEF s, r1, r2
  <2>. QED  BY <1>1, <1>2, <1>4, <1>5, <1>6
<1>. QED  BY <1>1, <1>2, <1>7, <1>8 DEF Attached, AttachReturns

\* The entry s is closed; u is its unloader.
Detached(s, u) ==
  /\ Depth > 0 /\ s = stack[Depth].slot /\ u = stack[Depth].by
  /\ stack[Depth].in = "detach"
  /\ Leaves
  /\ plist' \in [Slot -> Entry]
  /\ cmds' \in [Commands -> Command]
  /\ \A t \in Slot :
       /\ plist'[t].file = plist[t].file
       /\ t # u /\ plist[t].is_unloader => plist'[t].is_unloader
       /\ t # s => /\ plist'[t].handle = plist[t].handle
                   /\ plist'[t].status = plist[t].status
                   /\ plist'[t].action = plist[t].action
  /\ plist'[s].handle = NULL
  /\ plist'[s].status = IF plist[s].action = "unload" THEN PL_EMPTY ELSE plist[s].status

LEMMA DetachEffects ==
  ASSUME TypeOK, DetachReturns
  PROVE  Top.slot \in Slot /\ Top.by \in 0 .. MaxPlugins /\ Detached(Top.slot, Top.by)
<1> DEFINE s == Top.slot
           u == Top.by
           left == Closed(plist, s)
<1>1. /\ stack \in Seq(Frame) /\ Depth > 0 /\ plist \in [Slot -> Entry]
      /\ cmds \in [Commands -> Command]
  BY DEF TypeOK, DetachReturns, InPlugin
<1>2. /\ Top \in Frame /\ Top = stack[Depth] /\ s \in Slot /\ u \in 0 .. MaxPlugins
      /\ Top.in = "detach"
  BY <1>1, PopProps DEF Frame, DetachReturns
<1>3. Leaves
  BY <1>1, LeavesIs DEF DetachReturns
<1>4. cmds' \in [Commands -> Command]
  BY <1>1, <1>2, DisableTyped DEF DetachReturns
<1>5. plist' = Unprotected(left, u)
  BY DEF DetachReturns
<1>6. /\ left \in [Slot -> Entry]
      /\ \A t \in Slot : t # s => left[t] = plist[t]
      /\ left[s].handle = NULL /\ left[s].file = plist[s].file
      /\ left[s].status = IF plist[s].action = "unload" THEN PL_EMPTY ELSE plist[s].status
      /\ plist[s].is_unloader => left[s].is_unloader
  BY <1>1, <1>2, ClosedProps
<1>7. /\ plist' \in [Slot -> Entry]
      /\ \A t \in Slot :
           /\ plist'[t].handle = left[t].handle /\ plist'[t].status = left[t].status
           /\ plist'[t].action = left[t].action /\ plist'[t].file = left[t].file
           /\ t # u /\ left[t].is_unloader => plist'[t].is_unloader
  <2>. HIDE DEF left, u
  <2>. QED  BY <1>2, <1>5, <1>6, UnprotectedProps
<1>. HIDE DEF left
<1>. QED  BY <1>1, <1>2, <1>3, <1>4, <1>6, <1>7 DEF Detached

\* u is no longer protected.
Refused(u) ==
  /\ Depth > 0 /\ u = stack[Depth].by /\ stack[Depth].in = "detach"
  /\ Leaves
  /\ plist' \in [Slot -> Entry]
  /\ \A t \in Slot :
       /\ plist'[t].handle = plist[t].handle /\ plist'[t].status = plist[t].status
       /\ plist'[t].action = plist[t].action /\ plist'[t].file = plist[t].file
       /\ t # u /\ plist[t].is_unloader => plist'[t].is_unloader

LEMMA RefuseEffects ==
  ASSUME TypeOK, DetachRefuses
  PROVE  UNCHANGED cmds /\ Top.by \in 0 .. MaxPlugins /\ Refused(Top.by)
<1>1. stack \in Seq(Frame) /\ Depth > 0 /\ plist \in [Slot -> Entry]
  BY DEF TypeOK, DetachRefuses, InPlugin
<1>2. /\ Top \in Frame /\ Top = stack[Depth] /\ Top.by \in 0 .. MaxPlugins
      /\ Top.in = "detach"
  BY <1>1, PopProps DEF Frame, DetachRefuses
<1>3. Leaves
  BY <1>1, LeavesIs DEF DetachRefuses
<1>4. plist' = Unprotected(plist, Top.by)
  BY DEF DetachRefuses
<1>. QED  BY <1>1, <1>2, <1>3, <1>4, UnprotectedProps DEF Refused, DetachRefuses

Emptied(s) ==
  /\ Depth = 0 /\ UNCHANGED stack
  /\ plist' \in [Slot -> Entry]
  /\ cmds' \in [Commands -> Command]
  /\ \A t \in Slot : t # s => plist'[t] = plist[t]
  /\ plist'[s].handle = NULL /\ plist'[s].status = PL_EMPTY

LEMMA ClearEffects ==
  ASSUME TypeOK, NEW s \in Slot, MetaClear(s)
  PROVE  Emptied(s)
<1> DEFINE r == Cleared(s)
<1>1. plist \in [Slot -> Entry] /\ plist[s] \in Entry /\ cmds \in [Commands -> Command]
  BY DEF TypeOK
<1>2. r \in Entry /\ r.handle = NULL /\ r.status = PL_EMPTY
  BY <1>1, ClearedProps
<1>3. plist' = [plist EXCEPT ![s] = r]
  BY DEF MetaClear
<1>4. cmds' \in [Commands -> Command]
  BY <1>1, DisableTyped DEF MetaClear
<1>. HIDE DEF r
<1>. QED  BY <1>1, <1>2, <1>3, <1>4 DEF Emptied, MetaClear, AtRest

\* Calls that change no entry.
Quiet == /\ UNCHANGED plist
         /\ cmds' \in [Commands -> Command]
         /\ \/ UNCHANGED stack
            \/ Leaves
            \/ \E s \in Slot : Enters("hook", s) /\ plist[s].status = PL_RUNNING
            \/ \E s \in Slot : Enters("command", s) /\ plist[s].handle # NULL

LEMMA QuietEffects ==
  ASSUME TypeOK,
         \/ \E n \in Commands : Register(n) \/ RunCommand(n)
         \/ \E s \in Slot : CallHook(s)
         \/ CallReturns
  PROVE  Quiet
<1>1. /\ stack \in Seq(Frame) /\ plist \in [Slot -> Entry]
      /\ cmds \in [Commands -> Command]
  BY DEF TypeOK
<1>2. ASSUME NEW n \in Commands, Register(n)
      PROVE  Quiet
  <2> DEFINE c == [status |-> "valid", plugid |-> Top.slot, pfnCmd |-> plist[Top.slot].handle]
  <2>1. Top \in Frame /\ Top.slot \in Slot
    BY <1>1, <1>2, PopProps DEF Register, InPlugin, Frame
  <2>2. plist[Top.slot] \in Entry /\ Top.slot \in 0 .. MaxPlugins
    BY <1>1, <2>1 DEF Slot
  <2>3. c \in Command
    BY <2>2 DEF Command, Entry
  <2>4. cmds' \in [Commands -> Command]
    BY <1>1, <1>2, <2>3 DEF Register
  <2>. QED  BY <1>2, <2>4 DEF Quiet, Register
<1>3. ASSUME NEW n \in Commands, RunCommand(n)
      PROVE  Quiet
  <2>1. CASE cmds[n].pfnCmd # NULL /\ UNCHANGED cmds /\
             \E s \in Slot : /\ plist[s].handle = cmds[n].pfnCmd
                             /\ Push(Call("command", s))
    <3>1. PICK s \in Slot : /\ plist[s].handle = cmds[n].pfnCmd
                            /\ Push(Call("command", s))
      BY <2>1
    <3>2. Enters("command", s)
      BY <1>1, <3>1, EntersIs DEF EntryPoints
    <3>. QED  BY <1>1, <1>3, <2>1, <3>1, <3>2 DEF Quiet, RunCommand
  <2>2. CASE cmds' = [cmds EXCEPT ![n].status = "invalid"] /\ UNCHANGED stack
    <3>1. cmds' \in [Commands -> Command]
      BY <1>1, <2>2 DEF Command
    <3>. QED  BY <1>3, <2>2, <3>1 DEF Quiet, RunCommand
  <2>. QED  BY <1>3, <2>1, <2>2 DEF RunCommand
<1>4. ASSUME NEW s \in Slot, CallHook(s)
      PROVE  Quiet
  <2>1. Enters("hook", s)
    BY <1>1, <1>4, EntersIs DEF EntryPoints, CallHook
  <2>. QED  BY <1>1, <1>4, <2>1 DEF Quiet, CallHook
<1>5. CASE CallReturns
  BY <1>1, <1>5, LeavesIs DEF Quiet, CallReturns, InPlugin
<1>. QED  BY <1>2, <1>3, <1>4, <1>5

\* Who asks for the entry s to be unloaded.
Requests(s, u) ==
  /\ \/ u = 0 /\ Depth = 0
     \/ /\ Depth > 0 /\ u \in Slot /\ u = stack[Depth].slot /\ s # u
        /\ ~ plist[s].is_unloader
        /\ SelfNested \/ \A k \in 1 .. Depth : ~ Unloads(stack[k], u)
  /\ ~ Crashed
  /\ \/ Answered(s, u)
     \/ /\ \E forced \in BOOLEAN : Called(s, u, forced)
        /\ Enters("detach", s) /\ stack'[Depth + 1].by = u

LEMMA RequestEffects ==
  ASSUME TypeOK, UsedIsNamed, NEW s \in Slot, NEW forced \in BOOLEAN,
         MetaUnload(s, forced) \/ PluginUnloads(s, forced)
  PROVE  \E u \in 0 .. MaxPlugins : Requests(s, u)
<1>1. stack \in Seq(Frame) /\ plist[s].status # PL_EMPTY /\ plist[s].file \in Files
  BY DEF TypeOK, MetaUnload, PluginUnloads, UsedIsNamed
<1>2. ASSUME NEW u \in 0 .. MaxPlugins, Called(s, u, forced)
      PROVE  Enters("detach", s) /\ stack'[Depth + 1].by = u
  <2>1. /\ Detach(s, u, forced) \in Frame /\ Detach(s, u, forced).by = u
        /\ Detach(s, u, forced).in = "detach" /\ Detach(s, u, forced).slot = s
    BY CallTyped DEF Detach, EntryPoints
  <2>. QED  BY <1>1, <1>2, <2>1, PushProps DEF Called, Enters
<1>3. CASE MetaUnload(s, forced)
  <2>1. 0 \in 0 .. MaxPlugins /\ Depth = 0 /\ ~ Crashed
    BY <1>3, SizeAssumption DEF MetaUnload, AtRest, Crashed
  <2>2. Answered(s, 0) \/ Called(s, 0, forced)
    BY <1>1, <1>3, <2>1, UnloadEffects DEF MetaUnload
  <2>. QED  BY <1>2, <2>1, <2>2 DEF Requests
<1>4. CASE PluginUnloads(s, forced)
  <2>1. /\ Depth > 0 /\ ~ Crashed /\ Top \in Frame /\ Top = stack[Depth]
        /\ Top.slot \in Slot /\ Top.slot \in 0 .. MaxPlugins
    BY <1>1, <1>4, PopProps DEF PluginUnloads, InPlugin, Frame, Slot
  <2>2. /\ s # Top.slot /\ ~ plist[s].is_unloader
        /\ unload(s, Top.slot, forced)
        /\ SelfNested \/ \A k \in 1 .. Depth : ~ Unloads(stack[k], Top.slot)
    BY <1>4 DEF PluginUnloads, plugin_unload
  <2>3. Answered(s, Top.slot) \/ Called(s, Top.slot, forced)
    BY <1>1, <2>1, <2>2, UnloadEffects
  <2>. QED  BY <1>2, <2>1, <2>2, <2>3 DEF Requests
<1>. QED  BY <1>3, <1>4

(***************************************************************************)
(* Every step, by its effect.                                              *)
(***************************************************************************)
LEMMA NextEffects ==
  ASSUME TypeOK, UsedIsNamed, Next
  PROVE  /\ ~ Crashed
         /\ \/ \E f \in Files, s \in Slot : Loaded(s, f) /\ UNCHANGED cmds
            \/ \E s \in Slot : Queried(s)
            \/ \E s \in Slot : Attached(s) /\ UNCHANGED cmds
            \/ \E s \in Slot, u \in 0 .. MaxPlugins : Detached(s, u)
            \/ \E u \in 0 .. MaxPlugins : Refused(u) /\ UNCHANGED cmds
            \/ \E s \in Slot : Emptied(s)
            \/ \E s \in Slot, u \in 0 .. MaxPlugins : Requests(s, u)
            \/ Quiet
<1>1. ASSUME NEW f \in Files, MetaLoad(f) \/ PluginLoads(f)
      PROVE  ~ Crashed /\ \E s \in Slot : Loaded(s, f) /\ UNCHANGED cmds
  BY <1>1, LoadEffects DEF MetaLoad, PluginLoads, AtRest, InPlugin, Crashed
<1>2. ASSUME AttachReturns
      PROVE  ~ Crashed /\ \E s \in Slot : Attached(s) /\ UNCHANGED cmds
  BY <1>2, AttachEffects DEF AttachReturns, InPlugin
<1>3. ASSUME \/ \E n \in Commands : Register(n) \/ RunCommand(n)
             \/ \E s \in Slot : CallHook(s)
             \/ CallReturns
      PROVE  ~ Crashed /\ Quiet
  BY <1>3, QuietEffects
     DEF Register, RunCommand, CallHook, CallReturns, InPlugin, AtRest, Crashed
<1>4. ASSUME NEW s \in Slot, NEW forced \in BOOLEAN,
             MetaUnload(s, forced) \/ PluginUnloads(s, forced)
      PROVE  ~ Crashed /\ \E u \in 0 .. MaxPlugins : Requests(s, u)
  BY <1>4, RequestEffects DEF Requests
<1>5. ASSUME DetachReturns
      PROVE  ~ Crashed /\ \E s \in Slot, u \in 0 .. MaxPlugins : Detached(s, u)
  BY <1>5, DetachEffects DEF DetachReturns, InPlugin
<1>6. ASSUME DetachRefuses
      PROVE  ~ Crashed /\ \E u \in 0 .. MaxPlugins : Refused(u) /\ UNCHANGED cmds
  BY <1>6, RefuseEffects DEF DetachRefuses, InPlugin
<1>7. ASSUME NEW s \in Slot, MetaClear(s)
      PROVE  ~ Crashed /\ Emptied(s)
  <2>1. Emptied(s)
    BY <1>7, ClearEffects
  <2>. QED  BY <2>1 DEF Emptied, Crashed
<1>8. ASSUME QueryReturns \/ QueryFails
      PROVE  ~ Crashed /\ \E s \in Slot : Queried(s)
  BY <1>8, QueryEffects DEF QueryReturns, QueryFails, InPlugin
<1>. QED  BY <1>1, <1>2, <1>3, <1>4, <1>5, <1>6, <1>7, <1>8 DEF Next

-----------------------------------------------------------------------------
(***************************************************************************)
(* The shape of the entries and the stack.                                 *)
(***************************************************************************)
LEMMA ShapeInit == Init => Shape
<1>. SUFFICES ASSUME Init PROVE Shape
  OBVIOUS
<1>1. /\ plist \in [Slot -> Entry] /\ cmds \in [Commands -> Command]
      /\ stack \in Seq(Frame) /\ Depth = 0
  BY SizeAssumption DEF Init, Entry, Statuses, Command, Depth
<1>2. \A s \in Slot : plist[s].status = PL_EMPTY /\ plist[s].handle = NULL
  BY DEF Init
<1>. QED  BY <1>1, <1>2 DEF Shape, TypeOK, EmptyIsClosed, UsedIsNamed, Asked, Fresh

LEMMA KeptAsked ==
  ASSUME Asked, Kept
  PROVE  Asked'
<1>. SUFFICES ASSUME NEW k \in 1 .. Depth', stack'[k].in = "detach"
              PROVE  /\ k = 1 => stack'[k].by = 0
                     /\ k > 1 => stack'[k].by = stack'[k - 1].slot
  BY DEF Asked, Detaching
<1>1. k <= Depth /\ stack'[k] = stack[k] /\ k \in 1 .. Depth /\ stack[k].in = "detach"
  BY DEF Kept
<1>2. CASE k > 1
  <2>1. k - 1 \in 1 .. Depth' /\ k - 1 <= Depth
    BY <1>1, <1>2 DEF Kept
  <2>2. stack'[k - 1].slot = stack[k - 1].slot
    BY <2>1 DEF Kept
  <2>. QED  BY <1>1, <1>2, <2>2 DEF Asked, Detaching
<1>3. CASE k = 1
  BY <1>1, <1>3 DEF Asked, Detaching
<1>. QED  BY <1>2, <1>3

\* No load begins, and no plugin runs before its load is done.
KeptLoads ==
  \A m \in 1 .. Depth' : stack'[m].in \in {"query", "attach"} =>
     /\ m <= Depth /\ Loading(m)
     /\ plist'[stack[m].slot].status = PL_RUNNING => plist[stack[m].slot].status = PL_RUNNING

LEMMA KeptFresh ==
  ASSUME Fresh, Kept, KeptLoads
  PROVE  Fresh'
<1>. SUFFICES ASSUME NEW m \in 1 .. Depth', stack'[m].in \in {"query", "attach"}
              PROVE  /\ plist'[stack'[m].slot].status # PL_RUNNING
                     /\ \A k \in 1 .. m - 1 : stack'[k].slot # stack'[m].slot
  BY DEF Fresh, Loading
<1>1. m \in 1 .. Depth /\ Loading(m) /\ stack'[m].slot = stack[m].slot
  BY DEF Kept, KeptLoads
<1>2. \A k \in 1 .. m - 1 : k \in 1 .. Depth' /\ k <= Depth /\ stack'[k].slot = stack[k].slot
  BY <1>1 DEF Kept
<1>. QED  BY <1>1, <1>2 DEF Fresh, KeptLoads

LEMMA ShapeStep ==
  ASSUME Shape, [Next]_vars
  PROVE  Shape'
<1>1. /\ TypeOK /\ EmptyIsClosed /\ UsedIsNamed /\ Asked /\ Fresh
      /\ plist \in [Slot -> Entry] /\ cmds \in [Commands -> Command]
      /\ stack \in Seq(Frame) /\ Depth \in Nat
  BY DEF Shape, TypeOK, Depth
<1>0. \A k \in 1 .. Depth : stack[k].slot \in Slot
  <2>. SUFFICES ASSUME NEW k \in 1 .. Depth PROVE stack[k].slot \in Slot
    OBVIOUS
  <2>1. stack[k] \in Frame
    BY <1>1 DEF Depth
  <2>. QED  BY <2>1 DEF Frame
<1>2. CASE UNCHANGED vars
  BY <1>1, <1>2 DEF vars, Shape, TypeOK, EmptyIsClosed, UsedIsNamed, Asked, Detaching, Depth,
                         Fresh, Loading
<1>3. ASSUME ~ Crashed, NEW f \in Files, NEW s \in Slot, Loaded(s, f), UNCHANGED cmds
      PROVE  Shape'
  <2>1. Kept
    BY <1>1, <1>3, KeptIs DEF Loaded, EntryPoints
  <2>2. \A k \in 1 .. Depth : stack[k].slot # s
    BY <1>1, <1>3 DEF Loaded, EmptyIsClosed, Crashed
  <2>3. \A k \in 1 .. Depth : plist'[stack[k].slot] = plist[stack[k].slot]
    BY <1>0, <1>3, <2>2 DEF Loaded
  <2>4. CASE UNCHANGED stack
    <3>1. KeptLoads
      BY <1>1, <2>3, <2>4 DEF KeptLoads, Loading, Depth
    <3>. QED  BY <1>1, <1>3, <2>1, <3>1, KeptAsked, KeptFresh
              DEF Shape, TypeOK, EmptyIsClosed, UsedIsNamed, Loaded, Kept
  <2>5. CASE Enters("query", s)
    <3>1. ASSUME NEW m \in 1 .. Depth', stack'[m].in \in {"query", "attach"}
          PROVE  /\ plist'[stack'[m].slot].status # PL_RUNNING
                 /\ \A k \in 1 .. m - 1 : stack'[k].slot # stack'[m].slot
      <4>1. \A k \in 1 .. m - 1 : k \in 1 .. Depth /\ stack'[k] = stack[k]
        BY <2>5, <3>1 DEF Enters
      <4>2. CASE m = Depth + 1
        BY <1>3, <2>2, <2>5, <4>1, <4>2 DEF Enters, Loaded
      <4>3. CASE m # Depth + 1
        <5>1. m \in 1 .. Depth /\ stack'[m] = stack[m]
          BY <2>5, <3>1, <4>3 DEF Enters
        <5>. QED  BY <1>1, <2>3, <3>1, <4>1, <5>1 DEF Fresh, Loading
      <4>. QED  BY <4>2, <4>3
    <3>2. Fresh'
      BY <3>1 DEF Fresh, Loading
    <3>. QED  BY <1>1, <1>3, <2>1, <3>2, KeptAsked
              DEF Shape, TypeOK, EmptyIsClosed, UsedIsNamed, Loaded, Kept
  <2>. QED  BY <1>3, <2>4, <2>5 DEF Loaded
<1>4. ASSUME ~ Crashed, NEW s \in Slot, Attached(s), UNCHANGED cmds
      PROVE  Shape'
  <2>1. Kept
    BY <1>1, <1>4, KeptIs DEF Attached
  <2>2. plist[s].handle # NULL /\ plist[s].file \in Files
    BY <1>1, <1>4 DEF UsedIsNamed, EmptyIsClosed, Attached, Crashed, Depth
  <2>3. KeptLoads
    <3>. SUFFICES ASSUME NEW m \in 1 .. Depth', stack'[m].in \in {"query", "attach"}
                  PROVE  m < Depth /\ Loading(m) /\ plist'[stack[m].slot] = plist[stack[m].slot]
      BY <1>1, <2>1 DEF KeptLoads, Kept
    <3>1. m < Depth /\ m \in 1 .. Depth - 1 /\ stack'[m] = stack[m] /\ Depth \in 1 .. Depth
      BY <1>1, <1>4 DEF Attached, Leaves, Goes
    <3>2. stack[m].slot # s
      BY <1>1, <1>4, <3>1 DEF Fresh, Loading, Attached
    <3>. QED  BY <1>0, <1>4, <3>1, <3>2 DEF Attached, Loading
  <2>. QED  BY <1>1, <1>4, <2>1, <2>2, <2>3, KeptAsked, KeptFresh
            DEF Shape, TypeOK, EmptyIsClosed, UsedIsNamed, Attached, Kept
<1>5. ASSUME NEW s \in Slot, NEW u \in 0 .. MaxPlugins, Detached(s, u)
      PROVE  Shape'
  <2>1. Kept
    BY <1>1, <1>5, KeptIs DEF Detached
  <2>2. \A t \in Slot : plist'[t].file = plist[t].file
                        /\ plist'[t].status \in {PL_EMPTY, plist[t].status}
    BY <1>5 DEF Detached
  <2>3. UsedIsNamed'
    BY <1>1, <2>2 DEF UsedIsNamed
  <2>4. ASSUME NEW t \in Slot, plist'[t].status = PL_EMPTY
        PROVE  plist'[t].handle = NULL
    <3>1. CASE t = s
      BY <1>5, <3>1 DEF Detached
    <3>2. CASE t # s
      BY <1>1, <1>5, <2>4, <3>2 DEF Detached, EmptyIsClosed
    <3>. QED  BY <3>1, <3>2
  <2>5. TypeOK'
    BY <1>5, <2>1 DEF TypeOK, Detached, Kept
  <2>6. KeptLoads
    BY <1>0, <1>1, <1>5, <2>2 DEF KeptLoads, Loading, Detached, Leaves, PL_EMPTY, PL_RUNNING
  <2>. QED  BY <1>1, <2>1, <2>3, <2>4, <2>5, <2>6, KeptAsked, KeptFresh DEF Shape, EmptyIsClosed
<1>6. ASSUME NEW u \in 0 .. MaxPlugins, Refused(u), UNCHANGED cmds
      PROVE  Shape'
  <2>1. Kept
    BY <1>1, <1>6, KeptIs DEF Refused
  <2>2. KeptLoads
    BY <1>0, <1>1, <1>6 DEF KeptLoads, Loading, Refused, Leaves
  <2>. QED  BY <1>1, <1>6, <2>1, <2>2, KeptAsked, KeptFresh
            DEF Shape, TypeOK, EmptyIsClosed, UsedIsNamed, Refused, Kept
<1>7. ASSUME NEW s \in Slot, Emptied(s)
      PROVE  Shape'
  <2>1. Kept
    BY <1>1, <1>7, KeptIs DEF Emptied
  <2>2. KeptLoads
    BY <1>1, <1>7 DEF KeptLoads, Emptied, Depth
  <2>. QED  BY <1>1, <1>7, <2>1, <2>2, KeptAsked, KeptFresh
            DEF Shape, TypeOK, EmptyIsClosed, UsedIsNamed, Emptied, Kept
<1>8. ASSUME NEW s \in Slot, NEW u \in 0 .. MaxPlugins, Requests(s, u)
      PROVE  Shape'
  <2>1. CASE Answered(s, u)
    <3>1. Kept
      BY <1>1, <2>1, KeptIs DEF Answered
    <3>2. KeptLoads
      BY <1>0, <1>1, <2>1 DEF KeptLoads, Loading, Answered, Depth, PL_EMPTY, PL_RUNNING
    <3>. QED  BY <1>1, <2>1, <3>1, <3>2, KeptAsked, KeptFresh
              DEF Shape, TypeOK, EmptyIsClosed, UsedIsNamed, Answered, Kept
  <2>2. CASE /\ \E forced \in BOOLEAN : Called(s, u, forced)
             /\ Enters("detach", s) /\ stack'[Depth + 1].by = u
    <3>1. TypeOK' /\ EmptyIsClosed' /\ UsedIsNamed'
      BY <1>1, <2>2 DEF TypeOK, EmptyIsClosed, UsedIsNamed, Called, Enters
    <3>2. ASSUME NEW k \in 1 .. Depth', stack'[k].in = "detach"
          PROVE  /\ k = 1 => stack'[k].by = 0
                 /\ k > 1 => stack'[k].by = stack'[k - 1].slot
      <4>1. /\ Depth \in Nat /\ Depth' = Depth + 1
            /\ k > 1 => k - 1 \in 1 .. Depth /\ stack'[k - 1] = stack[k - 1]
        BY <2>2, <3>2 DEF Enters
      <4>2. CASE k = Depth + 1
        BY <1>8, <2>2, <4>1, <4>2, <3>2 DEF Requests
      <4>3. CASE k # Depth + 1
        <5>1. k \in 1 .. Depth /\ stack'[k] = stack[k]
          BY <2>2, <4>1, <4>3 DEF Enters
        <5>. QED  BY <1>1, <3>2, <4>1, <5>1 DEF Asked, Detaching
      <4>. QED  BY <4>2, <4>3
    <3>3. Asked'
      BY <3>2 DEF Asked, Detaching
    <3>4. ASSUME NEW m \in 1 .. Depth', stack'[m].in \in {"query", "attach"}
          PROVE  /\ plist'[stack'[m].slot].status # PL_RUNNING
                 /\ \A k \in 1 .. m - 1 : stack'[k].slot # stack'[m].slot
      <4>1. m # Depth + 1 /\ m \in 1 .. Depth
        BY <2>2, <3>4 DEF Enters
      <4>2. /\ stack'[m] = stack[m]
            /\ \A k \in 1 .. m - 1 : k \in 1 .. Depth /\ stack'[k] = stack[k]
        BY <2>2, <4>1 DEF Enters
      <4>3. plist'[stack[m].slot].status = plist[stack[m].slot].status
        BY <1>0, <2>2, <4>1 DEF Called
      <4>. QED  BY <1>1, <3>4, <4>1, <4>2, <4>3 DEF Fresh, Loading
    <3>5. Fresh'
      BY <3>4 DEF Fresh, Loading
    <3>. QED  BY <3>1, <3>3, <3>5 DEF Shape
  <2>. QED  BY <1>8, <2>1, <2>2 DEF Requests
<1>9. CASE Quiet
  <2>1. Kept
    BY <1>1, <1>9, KeptIs DEF Quiet, EntryPoints
  <2>2. KeptLoads
    BY <1>0, <1>1, <1>9 DEF KeptLoads, Loading, Quiet, Leaves, Enters, Depth
  <2>. QED  BY <1>1, <1>9, <2>1, <2>2, KeptAsked, KeptFresh
            DEF Shape, TypeOK, EmptyIsClosed, UsedIsNamed, Quiet, Kept
<1>10. ASSUME ~ Crashed, NEW s \in Slot, Queried(s)
       PROVE  Shape'
  <2>1. Kept
    BY <1>1, <1>10, KeptIs DEF Queried
  <2>2. plist[s].file \in Files
    BY <1>1, <1>10 DEF UsedIsNamed, EmptyIsClosed, Queried, Crashed
  <2>3. KeptLoads
    <3>1. \A t \in Slot : plist'[t].status = PL_RUNNING => plist[t].status = PL_RUNNING
      BY <1>10 DEF Queried
    <3>2. ASSUME NEW m \in 1 .. Depth', stack'[m].in \in {"query", "attach"}
          PROVE  m \in 1 .. Depth /\ Loading(m)
      <4>1. m \in 1 .. Depth
        BY <1>1, <1>10 DEF Queried, Leaves, Goes
      <4>2. CASE m = Depth
        BY <1>10, <4>2 DEF Queried, Loading
      <4>3. CASE m # Depth
        <5>1. m \in 1 .. Depth - 1
          BY <1>1, <4>1, <4>3
        <5>2. stack'[m] = stack[m]
          BY <1>10, <5>1 DEF Queried, Leaves, Goes
        <5>. QED  BY <3>2, <4>1, <5>2 DEF Loading
      <4>. QED  BY <4>2, <4>3
    <3>. QED  BY <1>0, <3>1, <3>2 DEF KeptLoads
  <2>. QED  BY <1>1, <1>10, <2>1, <2>2, <2>3, KeptAsked, KeptFresh
            DEF Shape, TypeOK, EmptyIsClosed, UsedIsNamed, Queried, Kept
<1>. QED  BY <1>1, <1>2, <1>3, <1>4, <1>5, <1>6, <1>7, <1>8, <1>9, <1>10, NextEffects

-----------------------------------------------------------------------------
(***************************************************************************)
(* A plugin that unloads another one stays.  Steps that call no            *)
(* Meta_Detach leave the frames of Meta_Detach, so it is enough that their *)
(* requesters stay marked and open.                                        *)
(***************************************************************************)
InPlace(k) == plist[stack[k].by].is_unloader /\ plist[stack[k].by].handle # NULL

LEMMA KeptProtected ==
  ASSUME Protected, Kept,
         \A k \in 1 .. Depth :
            k <= Depth' /\ stack[k].in = "detach" /\ stack[k].by # 0 /\ InPlace(k)
              => plist'[stack[k].by].is_unloader /\ plist'[stack[k].by].handle # NULL
  PROVE  Protected'
<1>1. ASSUME NEW k \in 1 .. Depth', stack'[k].in = "detach"
      PROVE  k \in 1 .. Depth /\ k <= Depth' /\ stack'[k] = stack[k]
  BY <1>1 DEF Kept
<1>2. Marks'
  BY <1>1 DEF Protected, Marks, Detaching, InPlace
<1>3. Ordered'
  BY <1>1 DEF Protected, Ordered, Detaching
<1>. QED  BY <1>2, <1>3 DEF Protected

LEMMA ProtectedInit == Init => Protected
BY DEF Init, Protected, Marks, Ordered, Depth

LEMMA ProtectedStep ==
  ASSUME ~ SelfNested, Shape, Protected, [Next]_vars
  PROVE  Protected'
<1>1. /\ TypeOK /\ EmptyIsClosed /\ UsedIsNamed /\ stack \in Seq(Frame) /\ Depth \in Nat
      /\ plist \in [Slot -> Entry]
  BY DEF Shape, TypeOK, Depth
<1>2. \A k \in 1 .. Depth : /\ stack[k] \in Frame
                            /\ stack[k].by # 0 => stack[k].by \in Slot
  <2>. SUFFICES ASSUME NEW k \in 1 .. Depth
                PROVE  stack[k] \in Frame /\ (stack[k].by # 0 => stack[k].by \in Slot)
    OBVIOUS
  <2>1. stack[k] \in Frame
    BY <1>1 DEF Depth
  <2>2. stack[k].by \in 0 .. MaxPlugins
    BY <2>1 DEF Frame
  <2>. QED  BY <2>1, <2>2, SizeAssumption DEF Slot
<1>3. CASE UNCHANGED vars
  BY <1>3 DEF vars, Protected, Marks, Ordered, Detaching, Depth
<1>4. ASSUME NEW f \in Files, NEW s \in Slot, Loaded(s, f), UNCHANGED cmds
      PROVE  Protected'
  <2>1. Kept
    BY <1>1, <1>4, KeptIs DEF Loaded, EntryPoints
  <2>2. plist[s].handle = NULL
    BY <1>1, <1>4 DEF Loaded, EmptyIsClosed
  <2>. QED  BY <1>2, <1>4, <2>1, <2>2, KeptProtected DEF Loaded, InPlace
<1>5. ASSUME NEW s \in Slot, Attached(s), UNCHANGED cmds
      PROVE  Protected'
  <2>1. Kept
    BY <1>1, <1>5, KeptIs DEF Attached
  <2>2. \A t \in Slot : /\ plist'[t].is_unloader = plist[t].is_unloader
                        /\ plist'[t].handle = plist[t].handle
    BY <1>5 DEF Attached
  <2>. QED  BY <1>2, <2>1, <2>2, KeptProtected DEF InPlace
<1>6. ASSUME NEW s \in Slot, NEW u \in 0 .. MaxPlugins, Detached(s, u)
      PROVE  Protected'
  <2>1. Kept
    BY <1>1, <1>6, KeptIs DEF Detached
  <2>2. ASSUME NEW k \in 1 .. Depth, k <= Depth', stack[k].in = "detach", stack[k].by # 0
        PROVE  stack[k].by \in Slot /\ stack[k].by # s /\ stack[k].by # u
    <3>1. k < Depth /\ Depth \in 1 .. Depth
      BY <1>1, <1>6, <2>2 DEF Detached, Leaves
    <3>. QED  BY <1>2, <1>6, <2>2, <3>1 DEF Protected, Ordered, Detaching, Detached
  <2>. QED  BY <1>6, <2>1, <2>2, KeptProtected DEF InPlace, Detached
<1>7. ASSUME NEW u \in 0 .. MaxPlugins, Refused(u), UNCHANGED cmds
      PROVE  Protected'
  <2>1. Kept
    BY <1>1, <1>7, KeptIs DEF Refused
  <2>2. ASSUME NEW k \in 1 .. Depth, k <= Depth', stack[k].in = "detach", stack[k].by # 0
        PROVE  stack[k].by \in Slot /\ stack[k].by # u
    <3>1. k < Depth /\ Depth \in 1 .. Depth
      BY <1>1, <1>7, <2>2 DEF Refused, Leaves
    <3>. QED  BY <1>2, <1>7, <2>2, <3>1 DEF Protected, Ordered, Detaching, Refused
  <2>. QED  BY <1>7, <2>1, <2>2, KeptProtected DEF InPlace, Refused
<1>8. ASSUME NEW s \in Slot, Emptied(s)
      PROVE  Protected'
  <2>1. Kept
    BY <1>1, <1>8, KeptIs DEF Emptied
  <2>. QED  BY <1>8, <2>1, KeptProtected DEF Emptied
<1>9. ASSUME NEW s \in Slot, NEW u \in 0 .. MaxPlugins, Requests(s, u)
      PROVE  Protected'
  <2>1. \A k \in 1 .. Depth : ~ Unloads(stack[k], u)
    BY <1>1, <1>9 DEF Requests
  <2>2. CASE Answered(s, u)
    <3>1. Kept
      BY <1>1, <2>2, KeptIs DEF Answered
    <3>. QED  BY <1>2, <2>1, <2>2, <3>1, KeptProtected DEF InPlace, Answered, Unloads
  <2>3. CASE /\ \E forced \in BOOLEAN : Called(s, u, forced)
             /\ Enters("detach", s) /\ stack'[Depth + 1].by = u
    <3>1. \A t \in Slot : /\ plist'[t].handle = plist[t].handle
                          /\ plist[t].is_unloader \/ t = u => plist'[t].is_unloader
      BY <2>3 DEF Called
    <3>2. \A k \in 1 .. Depth' : k = Depth + 1 \/ (k \in 1 .. Depth /\ stack'[k] = stack[k])
      BY <2>3 DEF Enters
    <3>3. u # 0 => u \in Slot /\ u # s /\ plist[u].handle # NULL
                   /\ ~ plist[s].is_unloader
      BY <1>1, <1>9 DEF Requests, Crashed
    <3>4. ASSUME NEW k \in 1 .. Depth', stack'[k].in = "detach", stack'[k].by # 0
          PROVE  /\ plist'[stack'[k].by].is_unloader
                 /\ plist'[stack'[k].by].handle # NULL
                 /\ stack'[k].by # stack'[k].slot
      <4>1. CASE k = Depth + 1
        BY <2>3, <3>1, <3>3, <3>4, <4>1 DEF Enters
      <4>2. CASE k # Depth + 1
        BY <1>2, <3>1, <3>2, <3>4, <4>2 DEF Protected, Marks, Detaching
      <4>. QED  BY <4>1, <4>2
    <3>5. ASSUME NEW k \in 1 .. Depth', NEW m \in 1 .. Depth', k < m,
                 stack'[k].in = "detach", stack'[m].in = "detach", stack'[k].by # 0
          PROVE  stack'[m].by # stack'[k].by /\ stack'[m].slot # stack'[k].by
      <4>1. k \in 1 .. Depth /\ stack'[k] = stack[k]
        BY <1>1, <2>3, <3>2, <3>5 DEF Enters
      <4>2. CASE m = Depth + 1
        <5>1. u # 0
          BY <1>1, <1>9, <4>1, SizeAssumption DEF Requests, Slot
        <5>2. plist[stack[k].by].is_unloader
          BY <3>5, <4>1 DEF Protected, Marks, Detaching
        <5>. QED  BY <2>1, <2>3, <3>3, <3>5, <4>1, <4>2, <5>1, <5>2 DEF Enters, Unloads
      <4>3. CASE m # Depth + 1
        BY <3>2, <3>5, <4>1, <4>3 DEF Protected, Ordered, Detaching
      <4>. QED  BY <4>2, <4>3
    <3>6. Marks' /\ Ordered'
      BY <3>4, <3>5 DEF Marks, Ordered, Detaching
    <3>. QED  BY <3>6 DEF Protected
  <2>. QED  BY <1>9, <2>2, <2>3 DEF Requests
<1>10. CASE Quiet
  <2>1. Kept
    BY <1>1, <1>10, KeptIs DEF Quiet, EntryPoints
  <2>. QED  BY <1>10, <2>1, KeptProtected DEF Quiet, InPlace
<1>11. ASSUME NEW s \in Slot, Queried(s)
       PROVE  Protected'
  <2>1. Kept
    BY <1>1, <1>11, KeptIs DEF Queried
  <2>2. \A t \in Slot : plist'[t].is_unloader = plist[t].is_unloader
    BY <1>11 DEF Queried
  <2>3. ASSUME NEW k \in 1 .. Depth, stack[k].in = "detach", stack[k].by # 0
        PROVE  stack[k].by \in Slot /\ stack[k].by # s
    <3>1. k > 1 /\ stack[k].by = stack[k - 1].slot
      BY <2>3 DEF Shape, Asked, Detaching
    <3>2. k - 1 \in 1 .. Depth - 1 /\ Depth \in 1 .. Depth
      BY <1>1, <1>11, <2>3, <3>1 DEF Queried
    <3>3. stack[k - 1].slot # s
      BY <1>11, <3>2 DEF Shape, Fresh, Loading, Queried
    <3>. QED  BY <1>2, <2>3, <3>1, <3>3
  <2>4. \A t \in Slot : t # s => plist'[t].handle = plist[t].handle
    BY <1>11 DEF Queried
  <2>. QED  BY <2>1, <2>2, <2>3, <2>4, KeptProtected DEF InPlace
<1>. QED  BY <1>1, <1>3, <1>4, <1>5, <1>6, <1>7, <1>8, <1>9, <1>10, <1>11, NextEffects

-----------------------------------------------------------------------------
(***************************************************************************)
(* An entry stays marked while its Meta_Detach is called, so a plugin that *)
(* is running is open.                                                     *)
(***************************************************************************)
LEMMA KeptHeld ==
  ASSUME Held, ~ Crashed, Kept,
         ~ Crashed' => \A k \in 1 .. Depth : k <= Depth' /\ stack'[k] = stack[k]
                         /\ stack[k].in = "detach" /\ plist[stack[k].slot].action = "unload"
                           => plist'[stack[k].slot].action = "unload"
  PROVE  Held'
<1>. SUFFICES ASSUME ~ Crashed', NEW k \in 1 .. Depth', stack'[k].in = "detach"
              PROVE  plist'[stack'[k].slot].action = "unload"
  BY DEF Held, Detaching
<1>1. k \in 1 .. Depth /\ k <= Depth' /\ stack'[k] = stack[k]
  BY DEF Kept
<1>. QED  BY <1>1 DEF Held, Detaching

LEMMA BoundInit == Init => Bound
BY DEF Init, Bound, Held, RunningIsOpen, Depth, PL_EMPTY, PL_RUNNING

LEMMA BoundStep ==
  ASSUME Delayable, Shape, Bound, [Next]_vars
  PROVE  Bound'
<1>1. /\ TypeOK /\ EmptyIsClosed /\ UsedIsNamed /\ stack \in Seq(Frame) /\ Depth \in Nat
      /\ plist \in [Slot -> Entry] /\ Held /\ RunningIsOpen /\ Fresh
  BY DEF Shape, TypeOK, Depth, Bound
<1>2. \A k \in 1 .. Depth : stack[k] \in Frame /\ stack[k].slot \in Slot
  <2>. SUFFICES ASSUME NEW k \in 1 .. Depth
                PROVE  stack[k] \in Frame /\ stack[k].slot \in Slot
    OBVIOUS
  <2>1. stack[k] \in Frame
    BY <1>1 DEF Depth
  <2>. QED  BY <2>1 DEF Frame
<1>3. CASE UNCHANGED vars
  BY <1>1, <1>3 DEF vars, Bound, Held, RunningIsOpen, Detaching, Depth, Crashed
<1>4. ASSUME ~ Crashed, NEW f \in Files, NEW s \in Slot, Loaded(s, f)
      PROVE  Bound'
  <2>1. Kept
    BY <1>1, <1>4, KeptIs DEF Loaded, EntryPoints
  <2>2. \A k \in 1 .. Depth : stack[k].slot # s
    BY <1>1, <1>4 DEF Loaded, EmptyIsClosed, Crashed
  <2>3. \A k \in 1 .. Depth : plist'[stack[k].slot] = plist[stack[k].slot]
    BY <1>2, <1>4, <2>2 DEF Loaded
  <2>4. RunningIsOpen'
    BY <1>1, <1>4 DEF Loaded, RunningIsOpen
  <2>. QED  BY <1>1, <1>4, <2>1, <2>3, <2>4, KeptHeld DEF Bound
<1>5. ASSUME ~ Crashed, NEW s \in Slot, Attached(s)
      PROVE  Bound'
  <2>1. Kept
    BY <1>1, <1>5, KeptIs DEF Attached
  <2>2. ASSUME NEW k \in 1 .. Depth, stack[k].in = "detach"
        PROVE  plist'[stack[k].slot] = plist[stack[k].slot]
    <3>1. k < Depth /\ Depth \in 1 .. Depth
      BY <1>1, <1>5, <2>2 DEF Attached
    <3>2. stack[k].slot # s
      BY <1>1, <1>5, <3>1 DEF Fresh, Loading, Attached
    <3>. QED  BY <1>2, <1>5, <3>2 DEF Attached
  <2>3. plist[s].handle # NULL
    BY <1>1, <1>5 DEF Attached, Crashed
  <2>4. RunningIsOpen'
    BY <1>1, <1>5, <2>3 DEF Attached, RunningIsOpen
  <2>. QED  BY <1>1, <1>5, <2>1, <2>2, <2>4, KeptHeld DEF Bound
<1>6. ASSUME ~ Crashed, NEW s \in Slot, NEW u \in 0 .. MaxPlugins, Detached(s, u)
      PROVE  Bound'
  <2>1. Kept
    BY <1>1, <1>6, KeptIs DEF Detached
  <2>2. ASSUME ~ Crashed', NEW k \in 1 .. Depth, k <= Depth', stack'[k] = stack[k]
        PROVE  plist'[stack[k].slot].action = plist[stack[k].slot].action
    <3>1. k \in 1 .. Depth'
      BY <1>1, <2>1, <2>2 DEF Kept
    <3>2. plist'[stack[k].slot].handle # NULL
      BY <2>2, <3>1 DEF Crashed
    <3>3. stack[k].slot # s
      BY <1>6, <3>2 DEF Detached
    <3>. QED  BY <1>2, <1>6, <3>3 DEF Detached
  <2>3. plist[s].action = "unload"
    BY <1>1, <1>6 DEF Detached, Held, Detaching
  <2>4. RunningIsOpen'
    BY <1>1, <1>6, <2>3 DEF Detached, RunningIsOpen, PL_EMPTY, PL_RUNNING
  <2>. QED  BY <1>1, <1>6, <2>1, <2>2, <2>4, KeptHeld DEF Bound
<1>7. ASSUME ~ Crashed, NEW u \in 0 .. MaxPlugins, Refused(u)
      PROVE  Bound'
  <2>1. Kept
    BY <1>1, <1>7, KeptIs DEF Refused
  <2>2. RunningIsOpen'
    BY <1>1, <1>7 DEF Refused, RunningIsOpen
  <2>. QED  BY <1>1, <1>2, <1>7, <2>1, <2>2, KeptHeld DEF Bound, Refused
<1>8. ASSUME ~ Crashed, NEW s \in Slot, Emptied(s)
      PROVE  Bound'
  <2>1. RunningIsOpen'
    BY <1>1, <1>8 DEF Emptied, RunningIsOpen, PL_EMPTY, PL_RUNNING
  <2>2. Depth' = 0
    BY <1>8 DEF Emptied, Depth
  <2>. QED  BY <2>1, <2>2 DEF Bound, Held
<1>9. ASSUME ~ Crashed, NEW s \in Slot, NEW u \in 0 .. MaxPlugins, Requests(s, u)
      PROVE  Bound'
  <2>1. CASE Answered(s, u)
    <3>1. Kept
      BY <1>1, <2>1, KeptIs DEF Answered
    <3>2. ASSUME NEW k \in 1 .. Depth, plist[stack[k].slot].action = "unload"
          PROVE  plist'[stack[k].slot].action = "unload"
      <4>1. CASE stack[k].slot = s
        <5>1. plist[s].handle # NULL
          BY <1>9, <4>1 DEF Crashed
        <5>2. u # 0
          BY <1>1, <1>9, SizeAssumption DEF Requests, Slot
        <5>. QED  BY <2>1, <3>2, <4>1, <5>1, <5>2 DEF Answered
      <4>2. CASE stack[k].slot # s
        BY <1>2, <2>1, <3>2, <4>2 DEF Answered
      <4>. QED  BY <4>1, <4>2
    <3>3. RunningIsOpen'
      BY <1>1, <2>1 DEF Answered, RunningIsOpen, PL_EMPTY, PL_RUNNING
    <3>. QED  BY <1>1, <1>9, <3>1, <3>2, <3>3, KeptHeld DEF Bound
  <2>2. CASE /\ \E forced \in BOOLEAN : Called(s, u, forced)
             /\ Enters("detach", s) /\ stack'[Depth + 1].by = u
    <3>1. \A t \in Slot : /\ plist'[t].handle = plist[t].handle
                          /\ plist'[t].status = plist[t].status
                          /\ plist'[t].action = IF t = s THEN "unload" ELSE plist[t].action
      BY <2>2 DEF Called
    <3>2. \A k \in 1 .. Depth' : \/ k \in 1 .. Depth /\ stack'[k] = stack[k]
                                 \/ k = Depth + 1
      BY <2>2 DEF Enters
    <3>3. RunningIsOpen'
      BY <1>1, <3>1 DEF RunningIsOpen
    <3>4. ASSUME NEW k \in 1 .. Depth', stack'[k].in = "detach"
          PROVE  plist'[stack'[k].slot].action = "unload"
      BY <1>1, <1>2, <1>9, <2>2, <3>1, <3>2, <3>4 DEF Enters, Held, Detaching
    <3>. QED  BY <3>3, <3>4 DEF Bound, Held, Detaching
  <2>. QED  BY <1>9, <2>1, <2>2 DEF Requests
<1>10. CASE ~ Crashed /\ Quiet
  <2>1. Kept
    BY <1>1, <1>10, KeptIs DEF Quiet, EntryPoints
  <2>2. RunningIsOpen'
    BY <1>1, <1>10 DEF Quiet, RunningIsOpen
  <2>. QED  BY <1>1, <1>10, <2>1, <2>2, KeptHeld DEF Bound, Quiet
<1>11. ASSUME ~ Crashed, NEW s \in Slot, Queried(s)
       PROVE  Bound'
  <2>1. Kept
    BY <1>1, <1>11, KeptIs DEF Queried
  <2>2. ASSUME NEW k \in 1 .. Depth, stack[k].in = "detach"
        PROVE  plist'[stack[k].slot] = plist[stack[k].slot]
    <3>1. k \in 1 .. Depth - 1 /\ Depth \in 1 .. Depth
      BY <1>1, <1>11, <2>2 DEF Queried
    <3>2. stack[k].slot # s
      BY <1>1, <1>11, <3>1 DEF Fresh, Loading, Queried
    <3>. QED  BY <1>2, <1>11, <3>2 DEF Queried
  <2>3. RunningIsOpen'
    BY <1>1, <1>11 DEF Queried, RunningIsOpen
  <2>. QED  BY <1>1, <1>11, <2>1, <2>2, <2>3, KeptHeld DEF Bound
<1>. QED  BY <1>1, <1>3, <1>4, <1>5, <1>6, <1>7, <1>8, <1>9, <1>10, <1>11, NextEffects

-----------------------------------------------------------------------------
(***************************************************************************)
(* In a chain of unloads each plugin has asked for the one above, so only  *)
(* the last one needs an argument of its own.                              *)
(***************************************************************************)
LEMMA TopInit == Init => TopIsOpen
BY DEF Init, TopIsOpen, Depth

LEMMA TopStep ==
  ASSUME Shape, Protected, Bound, TopIsOpen, [Next]_vars
  PROVE  TopIsOpen'
<1>1. /\ TypeOK /\ EmptyIsClosed /\ UsedIsNamed /\ Asked /\ Fresh /\ RunningIsOpen
      /\ stack \in Seq(Frame) /\ Depth \in Nat /\ plist \in [Slot -> Entry]
  BY DEF Shape, TypeOK, Depth, Bound
<1>2. \A k \in 1 .. Depth : stack[k] \in Frame /\ stack[k].slot \in Slot
  <2>. SUFFICES ASSUME NEW k \in 1 .. Depth
                PROVE  stack[k] \in Frame /\ stack[k].slot \in Slot
    OBVIOUS
  <2>1. stack[k] \in Frame
    BY <1>1 DEF Depth
  <2>. QED  BY <2>1 DEF Frame
<1>. SUFFICES Depth' > 0 => plist'[stack'[Depth'].slot].handle # NULL
  BY DEF TopIsOpen, Top
<1>3. CASE UNCHANGED vars
  BY <1>3 DEF vars, TopIsOpen, Top, Depth
<1>4. ASSUME ~ Crashed, NEW f \in Files, NEW s \in Slot, Loaded(s, f), Depth' > 0
      PROVE  plist'[stack'[Depth'].slot].handle # NULL
  <2>1. CASE UNCHANGED stack
    <3>1. Depth \in 1 .. Depth /\ Depth' = Depth
      BY <1>1, <1>4, <2>1 DEF Depth
    <3>2. plist[stack[Depth].slot].handle # NULL
      BY <1>4, <3>1 DEF Crashed
    <3>3. stack[Depth].slot # s
      BY <1>1, <1>4, <3>2 DEF Loaded, EmptyIsClosed
    <3>. QED  BY <1>2, <1>4, <2>1, <3>1, <3>2, <3>3 DEF Loaded
  <2>2. CASE Enters("query", s) /\ plist'[s].handle # NULL
    BY <2>2 DEF Enters
  <2>. QED  BY <1>4, <2>1, <2>2 DEF Loaded
<1>5. ASSUME ~ Crashed, NEW s \in Slot, Attached(s), Depth' > 0
      PROVE  plist'[stack'[Depth'].slot].handle # NULL
  <2>1. \A t \in Slot : plist'[t].handle = plist[t].handle
    BY <1>5 DEF Attached
  <2>2. Depth' \in 1 .. Depth /\ stack'[Depth'].slot = stack[Depth'].slot
    BY <1>1, <1>5 DEF Attached, Leaves, Goes
  <2>. QED  BY <1>2, <1>5, <2>1, <2>2 DEF Crashed
<1>6. ASSUME ~ Crashed, NEW s \in Slot, NEW u \in 0 .. MaxPlugins, Detached(s, u), Depth' > 0
      PROVE  plist'[stack'[Depth'].slot].handle # NULL
  <2>1. Depth' = Depth - 1 /\ Depth' \in 1 .. Depth /\ stack'[Depth'] = stack[Depth']
        /\ Depth \in 1 .. Depth
    BY <1>1, <1>6 DEF Detached, Leaves
  <2>2. u = stack[Depth'].slot
    BY <1>1, <1>6, <2>1 DEF Asked, Detaching, Detached
  <2>3. u \in Slot /\ u # 0
    BY <1>2, <2>1, <2>2, SizeAssumption DEF Slot
  <2>4. plist[u].handle # NULL /\ u # s
    BY <1>1, <1>6, <2>1, <2>3 DEF Protected, Marks, Detaching, Detached
  <2>. QED  BY <1>6, <2>1, <2>2, <2>3, <2>4 DEF Detached
<1>7. ASSUME ~ Crashed, NEW u \in 0 .. MaxPlugins, Refused(u), Depth' > 0
      PROVE  plist'[stack'[Depth'].slot].handle # NULL
  <2>1. Depth' \in 1 .. Depth /\ stack'[Depth'] = stack[Depth']
    BY <1>1, <1>7 DEF Refused, Leaves
  <2>. QED  BY <1>2, <1>7, <2>1 DEF Refused, Crashed
<1>8. ASSUME NEW s \in Slot, Emptied(s)
      PROVE  Depth' = 0
  BY <1>8 DEF Emptied, Depth
<1>9. ASSUME ~ Crashed, NEW s \in Slot, NEW u \in 0 .. MaxPlugins, Requests(s, u), Depth' > 0
      PROVE  plist'[stack'[Depth'].slot].handle # NULL
  <2>1. CASE Answered(s, u)
    <3>1. Depth' = Depth /\ Depth \in 1 .. Depth /\ UNCHANGED stack
      BY <1>1, <1>9, <2>1 DEF Answered, Depth
    <3>. QED  BY <1>2, <1>9, <2>1, <3>1 DEF Answered, Crashed
  <2>2. CASE /\ \E forced \in BOOLEAN : Called(s, u, forced)
             /\ Enters("detach", s) /\ stack'[Depth + 1].by = u
    BY <2>2 DEF Called, Enters
  <2>. QED  BY <1>9, <2>1, <2>2 DEF Requests
<1>10. ASSUME ~ Crashed, Quiet, Depth' > 0
       PROVE  plist'[stack'[Depth'].slot].handle # NULL
  <2>1. CASE UNCHANGED stack
    <3>1. Depth' = Depth /\ Depth \in 1 .. Depth
      BY <1>1, <1>10, <2>1 DEF Depth
    <3>. QED  BY <1>10, <2>1, <3>1 DEF Quiet, Crashed
  <2>2. CASE Leaves
    <3>1. Depth' \in 1 .. Depth /\ stack'[Depth'] = stack[Depth']
      BY <1>1, <1>10, <2>2 DEF Leaves
    <3>. QED  BY <1>10, <3>1 DEF Quiet, Crashed
  <2>3. ASSUME NEW s \in Slot, \/ Enters("hook", s) /\ plist[s].status = PL_RUNNING
                               \/ Enters("command", s) /\ plist[s].handle # NULL
        PROVE  plist'[stack'[Depth'].slot].handle # NULL
    BY <1>1, <1>10, <2>3 DEF Enters, Quiet, RunningIsOpen
  <2>. QED  BY <1>10, <2>1, <2>2, <2>3 DEF Quiet
<1>11. ASSUME ~ Crashed, NEW s \in Slot, Queried(s), Depth' > 0
       PROVE  plist'[stack'[Depth'].slot].handle # NULL
  <2>1. Depth \in 1 .. Depth /\ plist[s].handle # NULL
    BY <1>1, <1>11 DEF Queried, Crashed
  <2>2. CASE Leaves
    <3>1. Depth' \in 1 .. Depth - 1 /\ Depth' \in 1 .. Depth /\ stack'[Depth'] = stack[Depth']
      BY <1>1, <1>11, <2>2 DEF Leaves
    <3>2. stack[Depth'].slot # s
      BY <1>1, <1>11, <2>1, <3>1 DEF Fresh, Loading, Queried
    <3>. QED  BY <1>2, <1>11, <3>1, <3>2 DEF Queried, Crashed
  <2>3. CASE Goes("attach") /\ plist'[s].handle = plist[s].handle
    BY <1>11, <2>1, <2>3 DEF Goes, Queried
  <2>. QED  BY <1>11, <2>2, <2>3 DEF Queried
<1>. QED  BY <1>1, <1>3, <1>4, <1>5, <1>6, <1>7, <1>8, <1>9, <1>10, <1>11, NextEffects

LEMMA ChainIsSafe ==
  ASSUME Shape, Protected, TopIsOpen
  PROVE  ChainNeverCrashes
<1>. SUFFICES ASSUME Chain, NEW k \in 1 .. Depth
              PROVE  plist[stack[k].slot].handle # NULL
  BY DEF ChainNeverCrashes, Crashed
<1>1. Depth \in Nat /\ stack \in Seq(Frame)
  BY DEF Shape, TypeOK, Depth
<1>2. CASE k = Depth
  BY <1>1, <1>2 DEF TopIsOpen, Top
<1>3. CASE k # Depth
  <2>1. k + 1 \in 2 .. Depth /\ k + 1 \in 1 .. Depth /\ k + 1 > 1 /\ (k + 1) - 1 = k
    BY <1>1, <1>3
  <2>2. stack[k + 1].in = "detach" /\ stack[k + 1].by = stack[k].slot
    BY <2>1 DEF Chain, Shape, Asked, Detaching
  <2>3. stack[k] \in Frame
    BY <1>1 DEF Depth
  <2>4. stack[k].slot # 0
    BY <2>3, SizeAssumption DEF Frame, Slot
  <2>. QED  BY <2>1, <2>2, <2>4 DEF Protected, Marks, Detaching
<1>. QED  BY <1>2, <1>3
-----------------------------------------------------------------------------
(***************************************************************************)
(* Marks and commands, whether or not requests nest.  A plugin is marked   *)
(* as unloading only while its request is on the stack.  A command that is *)
(* in use points into the library of the plugin it is registered for: a    *)
(* library is opened for one entry at a time, so that disabling by slot    *)
(* finds the commands that closing a library leaves without their code.    *)
(***************************************************************************)
Requested(s) == \E k \in 1 .. Depth : Detaching(k) /\ stack[k].by = s

FlagsAreRequests == \A s \in Slot : plist[s].is_unloader => Requested(s)

HandleIsOwn == \A s \in Slot : plist[s].handle \in {NULL, plist[s].file}

Distinct == \A s, t \in Slot : /\ plist[s].status # PL_EMPTY
                               /\ plist[t].status # PL_EMPTY
                               /\ plist[s].file = plist[t].file
                               => s = t

InUse(n) == cmds[n].status = "valid" /\ cmds[n].pfnCmd # NULL

CommandsOwned ==
  \A n \in Commands : InUse(n) => /\ cmds[n].plugid \in Slot
                                  /\ plist[cmds[n].plugid].handle = cmds[n].pfnCmd

Entries == HandleIsOwn /\ Distinct

\* The mark of u, if it is up, comes down; no other one goes up.
FlagsFall(u) == \A t \in Slot : plist'[t].is_unloader => t # u /\ plist[t].is_unloader

FlagsSame == \A t \in Slot : plist'[t].is_unloader => plist[t].is_unloader

LEMMA UnprotectedFlags ==
  ASSUME NEW p \in [Slot -> Entry], NEW u
  PROVE  \A t \in Slot : Unprotected(p, u)[t].is_unloader => t # u /\ p[t].is_unloader
<1> DEFINE q(t) == [p[t] EXCEPT !.is_unloader = FALSE]
<1>1. \A t \in Slot : ~ q(t).is_unloader
  BY DEF Entry
<1>2. Unprotected(p, u) = [t \in Slot |-> IF t = u THEN q(t) ELSE p[t]]
  BY DEF Unprotected
<1>. HIDE DEF q
<1>. QED  BY <1>1, <1>2

LEMMA MarkedFlags ==
  ASSUME plist \in [Slot -> Entry], NEW s \in Slot, NEW u
  PROVE  \A t \in Slot : Marked(s, u)[t].is_unloader => t = u \/ plist[t].is_unloader
<1>. SUFFICES ASSUME NEW t \in Slot, Marked(s, u)[t].is_unloader, t # u
              PROVE  plist[t].is_unloader
  OBVIOUS
<1> DEFINE act == IF t = s THEN "unload" ELSE plist[t].action
           flag == plist[t].is_unloader \/ t = u
<1>1. Marked(s, u)[t] = [plist[t] EXCEPT !.action = act, !.is_unloader = flag]
  BY DEF Marked
<1>2. plist[t] \in Entry
  OBVIOUS
<1>. HIDE DEF act, flag
<1>3. Marked(s, u)[t].is_unloader = flag
  BY <1>1, <1>2 DEF Entry
<1>. QED  BY <1>3, Zenon DEF flag

LEMMA ClosedFlags ==
  ASSUME NEW p \in [Slot -> Entry], NEW s \in Slot
  PROVE  \A t \in Slot : Closed(p, s)[t].is_unloader => p[t].is_unloader
<1> DEFINE q == IF p[s].action = "unload"
                THEN [p[s] EXCEPT !.handle = NULL, !.status = PL_EMPTY, !.action = "none"]
                ELSE [p[s] EXCEPT !.handle = NULL]
<1>1. p[s] \in Entry
  OBVIOUS
<1>2. q.is_unloader = p[s].is_unloader
  BY <1>1 DEF Entry
<1>3. Closed(p, s) = [p EXCEPT ![s] = q]
  BY DEF Closed
<1>. HIDE DEF q
<1>. QED  BY <1>2, <1>3

LEMMA DisableProps ==
  ASSUME NEW c \in [Commands -> Command], NEW s, NEW n \in Commands,
         disable(c, s)[n].status = "valid"
  PROVE  disable(c, s)[n] = c[n] /\ c[n].plugid # s
BY DEF disable, Command

LEMMA DanglingProps ==
  ASSUME NEW c \in [Commands -> Command], NEW f, NEW n \in Commands
  PROVE  /\ Dangling(c, f)[n].status = c[n].status /\ Dangling(c, f)[n].plugid = c[n].plugid
         /\ Dangling(c, f)[n].pfnCmd = IF c[n].pfnCmd = f THEN NULL ELSE c[n].pfnCmd
BY DEF Dangling, Command

\* What becomes of the marks and the commands in a request to unload.
LEMMA UnloadMarks ==
  ASSUME TypeOK, NEW s \in Slot, NEW u \in 0 .. MaxPlugins, NEW forced \in BOOLEAN,
         plist[s].file \in Files, unload(s, u, forced)
  PROVE  /\ \A n \in Commands : cmds'[n].status = "valid" => cmds'[n] = cmds[n]
         /\ \/ UNCHANGED stack /\ FlagsFall(u)
            \/ /\ Push(Detach(s, u, forced))
               /\ \A t \in Slot : plist'[t].is_unloader => t = u \/ plist[t].is_unloader
<1> DEFINE e == plist[s]
           marked == Marked(s, u)
           pending == CASE unloadable[e.file] <= PT_STARTUP -> "none"
                        [] unloadable[e.file] > PT_STARTUP /\ u = 0 -> "unload"
                        [] unloadable[e.file] > PT_STARTUP /\ u # 0 -> e.action
<1>1. plist \in [Slot -> Entry] /\ cmds \in [Commands -> Command] /\ e \in Entry
  BY DEF TypeOK
<1>2. /\ marked \in [Slot -> Entry]
      /\ \A t \in Slot : marked[t].is_unloader => t = u \/ plist[t].is_unloader
  BY <1>1, MarkedFlags DEF Marked, Entry
<1>3. ASSUME NEW p \in [Slot -> Entry], plist' = Unprotected(p, u),
             \A t \in Slot : p[t].is_unloader => marked[t].is_unloader
      PROVE  FlagsFall(u)
  <2>. HIDE DEF marked
  <2>1. \A t \in Slot : plist'[t].is_unloader => t # u /\ p[t].is_unloader
    BY <1>3, UnprotectedFlags
  <2>. QED  BY <1>2, <1>3, <2>1 DEF FlagsFall
<1>4. CASE /\ ~ forced /\ e.status < PL_RUNNING
           /\ plist' = Unprotected(marked, u)
           /\ UNCHANGED <<cmds, stack>>
  <2>. HIDE DEF marked
  <2>. QED  BY <1>2, <1>3, <1>4
<1>5. CASE /\ ~ forced /\ e.status = PL_RUNNING
           /\ plist' = Unprotected([marked EXCEPT ![s].action = pending], u)
           /\ UNCHANGED <<cmds, stack>>
  <2> DEFINE r == [marked[s] EXCEPT !.action = pending]
             left == [marked EXCEPT ![s] = r]
  <2>1. unloadable[e.file] \in 0 .. 4
    BY TimesAssumption DEF PT_NEVER, PT_ANYPAUSE
  <2>2. pending \in {"none", "unload", "load"}
    BY <1>1, <2>1 DEF Entry, PT_STARTUP
  <2>. HIDE DEF marked, pending
  <2>3. r \in Entry /\ (r.is_unloader => marked[s].is_unloader)
    BY <1>2, <2>2 DEF Entry
  <2>4. plist' = Unprotected(left, u)
    BY <1>5
  <2>. HIDE DEF r
  <2>5. left \in [Slot -> Entry] /\ \A t \in Slot : left[t].is_unloader => marked[t].is_unloader
    BY <1>2, <2>3
  <2>. HIDE DEF left
  <2>6. FlagsFall(u)
    BY <1>3, <2>4, <2>5
  <2>. QED  BY <1>5, <2>6
<1>6. CASE /\ forced /\ e.handle = NULL
           /\ plist' = Unprotected(Closed(marked, s), u)
           /\ cmds' = disable(cmds, s)
           /\ UNCHANGED stack
  <2> DEFINE left == Closed(marked, s)
  <2>. HIDE DEF marked
  <2>1. left \in [Slot -> Entry] /\ \A t \in Slot : left[t].is_unloader => marked[t].is_unloader
    BY <1>2, ClosedProps, ClosedFlags
  <2>2. plist' = Unprotected(left, u)
    BY <1>6
  <2>. HIDE DEF left
  <2>3. FlagsFall(u)
    BY <1>3, <2>1, <2>2
  <2>4. \A n \in Commands : cmds'[n].status = "valid" => cmds'[n] = cmds[n]
    BY <1>1, <1>6, DisableProps
  <2>. QED  BY <1>6, <2>3, <2>4
<1>7. CASE /\ e.handle # NULL
           /\ plist' = marked
           /\ Push(Detach(s, u, forced))
           /\ UNCHANGED cmds
  <2>. HIDE DEF marked
  <2>. QED  BY <1>2, <1>7
<1>. QED  BY <1>4, <1>5, <1>6, <1>7 DEF unload

-----------------------------------------------------------------------------
\* Every request that is under way stays.
LEMMA FlagsKept ==
  ASSUME TypeOK, FlagsAreRequests, FlagsSame,
         \A k \in 1 .. Depth : Detaching(k) => k <= Depth' /\ stack'[k] = stack[k]
  PROVE  FlagsAreRequests'
<1>. SUFFICES ASSUME NEW s \in Slot, plist'[s].is_unloader
              PROVE  \E k \in 1 .. Depth' : stack'[k].in = "detach" /\ stack'[k].by = s
  BY DEF FlagsAreRequests, Requested, Detaching
<1>1. PICK k \in 1 .. Depth : Detaching(k) /\ stack[k].by = s
  BY DEF FlagsSame, FlagsAreRequests, Requested
<1>2. k <= Depth' /\ stack'[k] = stack[k] /\ Depth' \in Int /\ k \in 1 .. Depth'
  BY <1>1 DEF TypeOK, Depth
<1>. QED  BY <1>1, <1>2 DEF Detaching

\* A request is answered: its mark comes down and its frame goes.
LEMMA FlagsAnswered ==
  ASSUME TypeOK, FlagsAreRequests, NEW u, FlagsFall(u),
         UNCHANGED stack \/ (Leaves /\ stack[Depth].by = u)
  PROVE  FlagsAreRequests'
<1>. SUFFICES ASSUME NEW s \in Slot, plist'[s].is_unloader
              PROVE  \E k \in 1 .. Depth' : stack'[k].in = "detach" /\ stack'[k].by = s
  BY DEF FlagsAreRequests, Requested, Detaching
<1>1. s # u /\ plist[s].is_unloader
  BY DEF FlagsFall
<1>2. PICK k \in 1 .. Depth : Detaching(k) /\ stack[k].by = s
  BY <1>1 DEF FlagsAreRequests, Requested
<1>3. CASE UNCHANGED stack
  BY <1>2, <1>3 DEF Detaching, Depth
<1>4. CASE Leaves /\ stack[Depth].by = u
  <2>1. k # Depth
    BY <1>1, <1>2, <1>4
  <2>2. k \in 1 .. Depth - 1 /\ Depth' = Depth - 1 /\ stack'[k] = stack[k]
    BY <1>2, <1>4, <2>1 DEF Leaves
  <2>. QED  BY <1>2, <2>2 DEF Detaching
<1>. QED  BY <1>3, <1>4

LEMMA FlagsAsked ==
  ASSUME TypeOK, FlagsAreRequests, NEW s \in Slot, NEW u \in 0 .. MaxPlugins,
         NEW forced \in BOOLEAN, Push(Detach(s, u, forced)),
         \A t \in Slot : plist'[t].is_unloader => t = u \/ plist[t].is_unloader
  PROVE  FlagsAreRequests'
<1>. SUFFICES ASSUME NEW t \in Slot, plist'[t].is_unloader
              PROVE  \E k \in 1 .. Depth' : stack'[k].in = "detach" /\ stack'[k].by = t
  BY DEF FlagsAreRequests, Requested, Detaching
<1>1. /\ Detach(s, u, forced) \in Frame /\ Detach(s, u, forced).by = u
      /\ Detach(s, u, forced).in = "detach"
  BY CallTyped DEF Detach, EntryPoints
<1>2. /\ Depth \in Nat /\ Depth' = Depth + 1 /\ stack'[Depth + 1] = Detach(s, u, forced)
      /\ \A k \in 1 .. Depth : stack'[k] = stack[k]
  BY <1>1, PushProps DEF TypeOK
<1>3. CASE t = u
  BY <1>1, <1>2, <1>3
<1>4. CASE plist[t].is_unloader
  <2>1. PICK k \in 1 .. Depth : Detaching(k) /\ stack[k].by = t
    BY <1>4 DEF FlagsAreRequests, Requested
  <2>. QED  BY <1>2, <2>1 DEF Detaching
<1>. QED  BY <1>3, <1>4

\* The marks in loading: the new entry keeps what its slot had.
LEMMA LoadMarks ==
  ASSUME TypeOK, NEW f \in Files, addload(f)
  PROVE  /\ FlagsSame /\ ~ IsListed(f)
         /\ \E s \in Slot :
              /\ plist[s].status = PL_EMPTY
              /\ \A t \in Slot : t # s => plist'[t] = plist[t]
              /\ plist'[s].file = f /\ plist'[s].handle \in {NULL, f}
         /\ \A k \in 1 .. Depth : k <= Depth' /\ stack'[k] = stack[k]
<1>1. PICK s \in Slot : IsFree(s) /\ load(s, f)
  BY DEF addload
<1>2. plist \in [Slot -> Entry] /\ plist[s] \in Entry /\ stack \in Seq(Frame) /\ Depth \in Nat
  BY DEF TypeOK, Depth
<1>3. /\ Valid(s, f) \in Entry /\ Valid(s, f).file = f /\ Valid(s, f).handle = f
      /\ Valid(s, f).is_unloader = plist[s].is_unloader
  BY <1>2 DEF Valid, Entry, Statuses
<1>4. /\ BadFile(s, f) \in Entry /\ BadFile(s, f).file = f /\ BadFile(s, f).handle = NULL
      /\ BadFile(s, f).is_unloader = plist[s].is_unloader
  BY <1>2 DEF BadFile, Entry, Statuses
<1>6. PICK e \in {Valid(s, f), BadFile(s, f)} : plist' = [plist EXCEPT ![s] = e]
  BY <1>1 DEF load
<1>7. /\ e.file = f /\ e.handle \in {NULL, f} /\ e.is_unloader = plist[s].is_unloader
  BY <1>3, <1>4
<1>8. plist'[s] = e /\ \A t \in Slot : t # s => plist'[t] = plist[t]
  BY <1>2, <1>6
<1>9. FlagsSame
  BY <1>7, <1>8, Zenon DEF FlagsSame
<1>10. \A k \in 1 .. Depth : k <= Depth' /\ stack'[k] = stack[k]
  <2>1. CASE UNCHANGED stack
    BY <1>2, <2>1 DEF Depth
  <2>2. CASE Push(Call("query", s))
    BY <1>2, <2>2, EntersIs DEF EntryPoints, Enters
  <2>. QED  BY <1>1, <2>1, <2>2 DEF load
<1>11. plist[s].status = PL_EMPTY /\ ~ IsListed(f)
  BY <1>1 DEF IsFree, addload
<1>. QED  BY <1>7, <1>8, <1>9, <1>10, <1>11

LEMMA DetachMarks ==
  ASSUME TypeOK, DetachReturns \/ DetachRefuses
  PROVE  FlagsFall(Top.by) /\ Leaves /\ stack[Depth].by = Top.by
<1>1. stack \in Seq(Frame) /\ Depth > 0 /\ plist \in [Slot -> Entry]
  BY DEF TypeOK, DetachReturns, DetachRefuses, InPlugin
<1>2. Top \in Frame /\ Top = stack[Depth] /\ Top.slot \in Slot
  BY <1>1, PopProps DEF Frame
<1>3. Leaves
  BY <1>1, LeavesIs DEF DetachReturns, DetachRefuses
<1>4. PICK p \in {plist, Closed(plist, Top.slot)} : plist' = Unprotected(p, Top.by)
  BY DEF DetachReturns, DetachRefuses
<1>5. p \in [Slot -> Entry] /\ \A t \in Slot : p[t].is_unloader => plist[t].is_unloader
  BY <1>1, <1>2, <1>4, ClosedProps, ClosedFlags
<1>6. \A t \in Slot : plist'[t].is_unloader => t # Top.by /\ p[t].is_unloader
  BY <1>4, <1>5, UnprotectedFlags
<1>. QED  BY <1>2, <1>3, <1>5, <1>6 DEF FlagsFall

\* A plugin that runs, and an entry that is cleared, keep their marks.
LEMMA ClearMarks ==
  ASSUME TypeOK, NEW s \in Slot, MetaClear(s)
  PROVE  FlagsSame
<1> DEFINE r == Cleared(s)
<1>1. plist \in [Slot -> Entry] /\ plist[s] \in Entry
  BY DEF TypeOK
<1>2. r.is_unloader = plist[s].is_unloader /\ plist' = [plist EXCEPT ![s] = r]
  BY <1>1, ClearedProps DEF MetaClear
<1>. HIDE DEF r
<1>. QED  BY <1>1, <1>2 DEF FlagsSame

LEMMA FlagsStep ==
  ASSUME Shape, FlagsAreRequests, [Next]_vars
  PROVE  FlagsAreRequests'
<1>0. TypeOK /\ UsedIsNamed /\ Depth \in Nat
  BY DEF Shape, TypeOK, Depth
<1>1. ASSUME NEW f \in Files, MetaLoad(f) \/ PluginLoads(f)
      PROVE  FlagsAreRequests'
  BY <1>0, <1>1, LoadMarks, FlagsKept DEF MetaLoad, PluginLoads
<1>2. CASE AttachReturns
  <2>1. Attached(Top.slot) /\ Top.slot \in Slot
    BY <1>0, <1>2, AttachEffects
  <2>2. FlagsSame
    BY <2>1, Zenon DEF Attached, FlagsSame
  <2>3. \A k \in 1 .. Depth : Detaching(k) => k <= Depth' /\ stack'[k] = stack[k]
    <3>1. stack[Depth].in # "detach" /\ (Leaves \/ Goes("gameinit"))
      BY <2>1 DEF Attached
    <3>. QED  BY <1>0, <3>1 DEF Detaching, Leaves, Goes
  <2>. QED  BY <1>0, <2>2, <2>3, FlagsKept
<1>3. ASSUME \/ \E n \in Commands : Register(n) \/ RunCommand(n)
             \/ \E s \in Slot : CallHook(s)
             \/ CallReturns
      PROVE  FlagsAreRequests'
  <2>1. Quiet
    BY <1>0, <1>3, QuietEffects
  <2>2. FlagsSame
    BY <2>1 DEF Quiet, FlagsSame
  <2>3. \A k \in 1 .. Depth : Detaching(k) => k <= Depth' /\ stack'[k] = stack[k]
    <3>1. CASE CallReturns
      <4>1. Leaves /\ stack[Depth].in # "detach"
        BY <1>0, <3>1, LeavesIs, PopProps DEF CallReturns, InPlugin, TypeOK
      <4>. QED  BY <1>0, <4>1 DEF Detaching, Leaves
    <3>2. CASE ~ CallReturns
      <4>1. \/ UNCHANGED stack
            \/ \E s \in Slot, in \in EntryPoints : Push(Call(in, s))
        BY <1>3, <3>2 DEF Register, RunCommand, CallHook, EntryPoints
      <4>2. UNCHANGED stack \/ \E s \in Slot, in \in EntryPoints : Enters(in, s)
        BY <1>0, <4>1, EntersIs DEF TypeOK
      <4>. QED  BY <1>0, <4>2 DEF Enters, Depth
    <3>. QED  BY <3>1, <3>2
  <2>. QED  BY <1>0, <2>2, <2>3, FlagsKept
<1>4. ASSUME NEW s \in Slot, NEW forced \in BOOLEAN,
             MetaUnload(s, forced) \/ PluginUnloads(s, forced)
      PROVE  FlagsAreRequests'
  <2>1. PICK u \in 0 .. MaxPlugins : unload(s, u, forced)
    <3>1. CASE MetaUnload(s, forced)
      BY <3>1, SizeAssumption DEF MetaUnload
    <3>2. CASE PluginUnloads(s, forced)
      <4>1. Top.slot \in 0 .. MaxPlugins
        BY <1>0, <3>2, PopProps DEF PluginUnloads, InPlugin, TypeOK, Frame, Slot
      <4>. QED  BY <3>2, <4>1 DEF PluginUnloads, plugin_unload
    <3>. QED  BY <1>4, <3>1, <3>2
  <2>2. plist[s].file \in Files
    BY <1>0, <1>4 DEF MetaUnload, PluginUnloads, UsedIsNamed
  <2>3. \/ UNCHANGED stack /\ FlagsFall(u)
        \/ /\ Push(Detach(s, u, forced))
           /\ \A t \in Slot : plist'[t].is_unloader => t = u \/ plist[t].is_unloader
    BY <1>0, <2>1, <2>2, UnloadMarks
  <2>. QED  BY <1>0, <2>3, FlagsAnswered, FlagsAsked
<1>5. CASE DetachReturns \/ DetachRefuses
  BY <1>0, <1>5, DetachMarks, FlagsAnswered
<1>6. ASSUME NEW s \in Slot, MetaClear(s)
      PROVE  FlagsAreRequests'
  <2>1. UNCHANGED stack
    BY <1>6 DEF MetaClear
  <2>. QED  BY <1>0, <1>6, <2>1, ClearMarks, FlagsKept DEF Depth
<1>7. CASE UNCHANGED vars
  BY <1>7 DEF vars, FlagsAreRequests, Requested, Detaching, Depth
<1>8. CASE QueryReturns \/ QueryFails
  <2>1. Queried(Top.slot) /\ Top.slot \in Slot
    BY <1>0, <1>8, QueryEffects
  <2>2. FlagsSame
    BY <2>1, Zenon DEF Queried, FlagsSame
  <2>3. \A k \in 1 .. Depth : Detaching(k) => k <= Depth' /\ stack'[k] = stack[k]
    <3>1. stack[Depth].in # "detach" /\ (Leaves \/ Goes("attach"))
      BY <2>1 DEF Queried
    <3>. QED  BY <1>0, <3>1 DEF Detaching, Leaves, Goes
  <2>. QED  BY <1>0, <2>2, <2>3, FlagsKept
<1>. QED  BY <1>1, <1>2, <1>3, <1>4, <1>5, <1>6, <1>7, <1>8 DEF Next
-----------------------------------------------------------------------------
\* Entries are closed and emptied, never moved; a command in use stays so.
Lasting(t) == /\ plist'[t].file = plist[t].file
              /\ plist'[t].handle \in {NULL, plist[t].handle}
              /\ plist'[t].status # PL_EMPTY => plist[t].status # PL_EMPTY

LEMMA EntriesKept ==
  ASSUME Entries, \A t \in Slot : Lasting(t)
  PROVE  Entries'
<1>1. HandleIsOwn'
  BY DEF Entries, HandleIsOwn, Lasting
<1>2. Distinct'
  BY DEF Entries, Distinct, Lasting
<1>. QED  BY <1>1, <1>2 DEF Entries

\* The command n, if it is in use, was so before, and its plugin has its library.
Owned(n) == cmds'[n].status = "valid" /\ cmds'[n].pfnCmd # NULL =>
              /\ InUse(n) /\ cmds'[n].pfnCmd = cmds[n].pfnCmd
              /\ cmds'[n].plugid = cmds[n].plugid
              /\ plist'[cmds[n].plugid].handle = plist[cmds[n].plugid].handle

LEMMA CommandsKept ==
  ASSUME CommandsOwned, \A n \in Commands : Owned(n)
  PROVE  CommandsOwned'
BY DEF CommandsOwned, Owned, InUse

\* An entry with a library is in use, and the library is its own.
LEMMA OpenIsUsed ==
  ASSUME EmptyIsClosed, HandleIsOwn, NEW t \in Slot, plist[t].handle # NULL
  PROVE  plist[t].status # PL_EMPTY /\ plist[t].handle = plist[t].file
BY DEF EmptyIsClosed, HandleIsOwn

LEMMA OneOwner ==
  ASSUME EmptyIsClosed, Entries, NEW s \in Slot, NEW t \in Slot,
         plist[s].handle # NULL, plist[s].handle = plist[t].handle
  PROVE  s = t
BY OpenIsUsed DEF Entries, Distinct

LEMMA LoadBooks ==
  ASSUME Shape, Entries, CommandsOwned, NEW f \in Files, addload(f)
  PROVE  Entries' /\ CommandsOwned'
<1>1. PICK s \in Slot :
        /\ plist[s].status = PL_EMPTY
        /\ \A t \in Slot : t # s => plist'[t] = plist[t]
        /\ plist'[s].file = f /\ plist'[s].handle \in {NULL, f}
  BY LoadMarks DEF Shape
<1>2. UNCHANGED cmds /\ plist[s].handle = NULL
  BY <1>1 DEF addload, Shape, EmptyIsClosed
<1>3. \A t \in Slot : plist[t].status # PL_EMPTY => plist[t].file # f
  BY LoadMarks DEF IsListed, Shape
<1>4. HandleIsOwn'
  BY <1>1 DEF Entries, HandleIsOwn
<1>5. Distinct'
  BY <1>1, <1>3 DEF Entries, Distinct
<1>6. \A n \in Commands : Owned(n)
  BY <1>1, <1>2 DEF CommandsOwned, Owned, InUse
<1>. QED  BY <1>4, <1>5, <1>6, CommandsKept DEF Entries

LEMMA AttachBooks ==
  ASSUME Shape, Entries, CommandsOwned, AttachReturns
  PROVE  Entries' /\ CommandsOwned'
<1> DEFINE s == Top.slot
<1>1. UNCHANGED cmds /\ s \in Slot /\ Attached(s) /\ s = stack[Depth].slot
  BY AttachEffects DEF Shape, Attached
<1>2. plist[s].handle # NULL
  BY <1>1 DEF AttachReturns, InPlugin, Crashed, Attached, Shape, TypeOK, Depth
<1>3. plist[s].status # PL_EMPTY
  BY <1>1, <1>2 DEF Shape, EmptyIsClosed
<1>. HIDE DEF s
<1>5. \A t \in Slot : Lasting(t) /\ plist'[t].handle = plist[t].handle
  BY <1>1, <1>3 DEF Lasting, Attached
<1>6. \A n \in Commands : Owned(n)
  BY <1>1, <1>5 DEF CommandsOwned, Owned, InUse
<1>. QED  BY <1>5, <1>6, EntriesKept, CommandsKept

LEMMA RegisterBooks ==
  ASSUME Shape, CommandsOwned, NEW n \in Commands, Register(n)
  PROVE  CommandsOwned' /\ cmds'[n].pfnCmd # NULL /\ UNCHANGED plist
         /\ \A m \in Commands : m # n => cmds'[m] = cmds[m]
<1> DEFINE c == [status |-> "valid", plugid |-> Top.slot, pfnCmd |-> plist[Top.slot].handle]
<1>1. Top = stack[Depth] /\ Top.slot \in Slot /\ Depth \in 1 .. Depth
  BY PopProps DEF Register, InPlugin, Frame, Shape, TypeOK, Depth
<1>2. plist[Top.slot].handle # NULL
  BY <1>1 DEF Register, InPlugin, Crashed
<1>3. cmds \in [Commands -> Command] /\ cmds' = [cmds EXCEPT ![n] = c] /\ UNCHANGED plist
  BY DEF Shape, TypeOK, Register
<1>4. c.plugid = Top.slot /\ c.pfnCmd = plist[Top.slot].handle
  OBVIOUS
<1>. HIDE DEF c
<1>5. cmds'[n] = c /\ \A m \in Commands : m # n => cmds'[m] = cmds[m]
  BY <1>3
<1>. QED  BY <1>1, <1>2, <1>3, <1>4, <1>5 DEF CommandsOwned, InUse

LEMMA RunBooks ==
  ASSUME Shape, NEW n \in Commands, RunCommand(n)
  PROVE  UNCHANGED plist /\ \A m \in Commands : cmds'[m].status = "valid" => cmds'[m] = cmds[m]
<1>1. cmds \in [Commands -> Command]
  BY DEF Shape, TypeOK
<1>2. CASE UNCHANGED cmds
  BY <1>2 DEF RunCommand
<1>3. CASE cmds' = [cmds EXCEPT ![n].status = "invalid"]
  BY <1>1, <1>3 DEF RunCommand, Command
<1>. QED  BY <1>2, <1>3 DEF RunCommand

\* Where the code of closed plugins goes.
LEMMA DetachBooks ==
  ASSUME Shape, Entries, CommandsOwned, DetachReturns
  PROVE  /\ Entries' /\ CommandsOwned'
         /\ \A n \in Commands : cmds'[n].status = "valid" /\ cmds'[n].pfnCmd = NULL
              => cmds[n].status = "valid" /\ cmds[n].pfnCmd = NULL
<1> DEFINE s == Top.slot
           h == plist[s].handle
           off == disable(cmds, s)
<1>1. s \in Slot /\ Detached(s, Top.by) /\ s = stack[Depth].slot /\ Depth \in 1 .. Depth
  BY DetachEffects DEF Shape, Detached, TypeOK, Depth
<1>2. h # NULL
  BY <1>1 DEF DetachReturns, InPlugin, Crashed
<1>3. cmds \in [Commands -> Command] /\ cmds' = Dangling(off, h)
      /\ off \in [Commands -> Command]
  BY <1>1, DisableTyped DEF Shape, TypeOK, DetachReturns
<1>4. \A n \in Commands : off[n].status = "valid" => off[n] = cmds[n] /\ cmds[n].plugid # s
  BY <1>3, DisableProps
<1>. HIDE DEF off, s, h
<1>5. \A n \in Commands : cmds'[n].status = "valid" =>
        /\ cmds[n].status = "valid" /\ cmds[n].plugid # s
        /\ cmds'[n].plugid = cmds[n].plugid
        /\ cmds'[n].pfnCmd = IF cmds[n].pfnCmd = h THEN NULL ELSE cmds[n].pfnCmd
  BY <1>3, <1>4, DanglingProps
<1>6. ASSUME NEW n \in Commands, InUse(n), cmds[n].pfnCmd = h
      PROVE  cmds[n].plugid = s
  <2>1. cmds[n].plugid \in Slot /\ plist[cmds[n].plugid].handle = plist[s].handle
    BY <1>6 DEF CommandsOwned, h
  <2>. QED  BY <1>1, <1>2, <2>1, OneOwner DEF Shape, h
<1>7. \A n \in Commands : cmds'[n].status = "valid" /\ cmds'[n].pfnCmd = NULL
        => cmds[n].status = "valid" /\ cmds[n].pfnCmd = NULL
  BY <1>2, <1>5, <1>6 DEF InUse
<1>8. \A t \in Slot : Lasting(t)
  BY <1>1 DEF Detached, Lasting
<1>9. \A n \in Commands : Owned(n)
  BY <1>1, <1>5 DEF Owned, InUse, CommandsOwned, Detached
<1>. QED  BY <1>7, <1>8, <1>9, EntriesKept, CommandsKept

\* The library of s is closed, and commands stay as they are.
LEMMA CloseBooks ==
  ASSUME Shape, Entries, CommandsOwned, NEW s \in Slot,
         plist'[s].handle = NULL, Lasting(s), \A t \in Slot : t # s => plist'[t] = plist[t],
         cmds' = IF plist[s].handle = NULL THEN cmds ELSE Dangling(cmds, plist[s].handle)
  PROVE  /\ Entries' /\ CommandsOwned'
         /\ \A n \in Commands : cmds'[n].status = "valid" /\ cmds'[n].pfnCmd = NULL
              => \/ cmds[n].status = "valid" /\ cmds[n].pfnCmd = NULL
                 \/ plist[s].handle = cmds[n].pfnCmd
<1> DEFINE h == plist[s].handle
<1>1. cmds \in [Commands -> Command] /\ cmds' = IF h = NULL THEN cmds ELSE Dangling(cmds, h)
  BY DEF Shape, TypeOK
<1>. HIDE DEF h
<1>2. \A n \in Commands :
        /\ cmds'[n].status = cmds[n].status /\ cmds'[n].plugid = cmds[n].plugid
        /\ cmds'[n].pfnCmd = cmds[n].pfnCmd
             \/ (h # NULL /\ cmds[n].pfnCmd = h /\ cmds'[n].pfnCmd = NULL)
        /\ h # NULL /\ cmds[n].pfnCmd = h => cmds'[n].pfnCmd = NULL
  BY <1>1, DanglingProps
<1>3. \A t \in Slot : Lasting(t)
  BY DEF Lasting
<1>4. ASSUME NEW n \in Commands, cmds'[n].status = "valid", cmds'[n].pfnCmd # NULL
      PROVE  /\ InUse(n) /\ cmds'[n].pfnCmd = cmds[n].pfnCmd
             /\ cmds'[n].plugid = cmds[n].plugid
             /\ plist'[cmds[n].plugid].handle = plist[cmds[n].plugid].handle
  <2>1. InUse(n) /\ cmds'[n].pfnCmd = cmds[n].pfnCmd /\ cmds'[n].plugid = cmds[n].plugid
    BY <1>2, <1>4 DEF InUse
  <2>2. cmds[n].plugid \in Slot /\ plist[cmds[n].plugid].handle = cmds[n].pfnCmd
    BY <2>1 DEF CommandsOwned
  <2>3. cmds[n].plugid # s
    BY <1>2, <1>4, <2>1, <2>2 DEF h
  <2>. QED  BY <2>1, <2>2, <2>3
<1>5. \A n \in Commands : Owned(n)
  BY <1>4 DEF Owned
<1>6. \A n \in Commands : cmds'[n].status = "valid" /\ cmds'[n].pfnCmd = NULL
         => \/ cmds[n].status = "valid" /\ cmds[n].pfnCmd = NULL
            \/ plist[s].handle = cmds[n].pfnCmd
  BY <1>2 DEF h
<1>. QED  BY <1>3, <1>5, <1>6, EntriesKept, CommandsKept

LEMMA ClearBooks ==
  ASSUME Shape, Entries, CommandsOwned, NEW s \in Slot, MetaClear(s)
  PROVE  /\ Entries' /\ CommandsOwned'
         /\ \A n \in Commands : cmds'[n].status = "valid" /\ cmds'[n].pfnCmd = NULL
              => \/ cmds[n].status = "valid" /\ cmds[n].pfnCmd = NULL
                 \/ plist[s].status < PL_RUNNING /\ plist[s].handle = cmds[n].pfnCmd
<1> DEFINE r == Cleared(s)
<1>1. plist \in [Slot -> Entry]
  BY DEF Shape, TypeOK
<1>2. r.file = plist[s].file /\ r.handle = NULL /\ r.status = PL_EMPTY
  BY <1>1, ClearedProps
<1>3. plist' = [plist EXCEPT ![s] = r]
  BY DEF MetaClear
<1>. HIDE DEF r
<1>4. plist'[s] = r /\ \A t \in Slot : t # s => plist'[t] = plist[t]
  BY <1>1, <1>3
<1>5. Lasting(s) /\ plist'[s].handle = NULL
  BY <1>2, <1>4 DEF Lasting
<1>6. plist[s].status < PL_RUNNING
  BY DEF MetaClear, PL_FAILED, PL_BADFILE, PL_OPENED, PL_RUNNING
<1>. QED  BY <1>4, <1>5, <1>6, CloseBooks DEF MetaClear

\* A query that fails may close the library too.
LEMMA QueryBooks ==
  ASSUME Shape, Entries, CommandsOwned, QueryReturns \/ QueryFails
  PROVE  /\ Entries' /\ CommandsOwned'
         /\ \A n \in Commands : cmds'[n].status = "valid" /\ cmds'[n].pfnCmd = NULL
              => \/ cmds[n].status = "valid" /\ cmds[n].pfnCmd = NULL
                 \/ /\ plist[Top.slot].status < PL_RUNNING
                    /\ plist[Top.slot].handle = cmds[n].pfnCmd
<1> DEFINE s == Top.slot
<1>1. s \in Slot /\ Queried(s) /\ Depth \in 1 .. Depth /\ s = stack[Depth].slot
  BY QueryEffects DEF Shape, Queried, TypeOK, Depth
<1>2. plist[s].handle # NULL /\ plist[s].status # PL_EMPTY
  BY <1>1 DEF QueryReturns, QueryFails, InPlugin, Crashed, Shape, EmptyIsClosed
<1>3. plist[s].status < PL_RUNNING
  <2>1. plist[s].status # PL_RUNNING
    BY <1>1 DEF Shape, Fresh, Loading, Queried
  <2>2. plist[s] \in Entry
    BY <1>1 DEF Shape, TypeOK
  <2>3. plist[s].status \in Statuses
    BY <2>2 DEF Entry
  <2>. QED  BY <2>1, <2>3
            DEF Statuses, PL_EMPTY, PL_VALID, PL_BADFILE, PL_OPENED, PL_FAILED, PL_RUNNING
<1>. HIDE DEF s
<1>4. \A t \in Slot : Lasting(t)
  BY <1>1, <1>2 DEF Lasting, Queried
<1>5. CASE plist'[s].handle = plist[s].handle /\ UNCHANGED cmds
  <2>1. \A n \in Commands : Owned(n)
    BY <1>1, <1>5 DEF CommandsOwned, Owned, InUse, Queried
  <2>. QED  BY <1>4, <1>5, <2>1, EntriesKept, CommandsKept
<1>6. CASE plist'[s].handle = NULL /\ cmds' = Dangling(cmds, plist[s].handle)
  <2>1. \A t \in Slot : t # s => plist'[t] = plist[t]
    BY <1>1 DEF Queried
  <2>. QED  BY <1>1, <1>2, <1>3, <1>4, <1>6, <2>1, CloseBooks DEF s
<1>. QED  BY <1>1, <1>5, <1>6 DEF Queried

LEMMA RequestBooks ==
  ASSUME Shape, Entries, CommandsOwned, NEW s \in Slot, NEW forced \in BOOLEAN,
         MetaUnload(s, forced) \/ PluginUnloads(s, forced)
  PROVE  /\ Entries' /\ CommandsOwned'
         /\ \A n \in Commands : cmds'[n].status = "valid" => cmds'[n] = cmds[n]
<1>0. TypeOK /\ UsedIsNamed
  BY DEF Shape
<1>1. PICK u \in 0 .. MaxPlugins : Requests(s, u)
  BY <1>0, RequestEffects
<1>2. \A t \in Slot :
        /\ plist'[t].handle = plist[t].handle /\ plist'[t].file = plist[t].file
        /\ plist'[t].status = plist[t].status \/ plist'[t].status = PL_EMPTY
  BY <1>1 DEF Requests, Answered, Called
<1>3. \A t \in Slot : Lasting(t)
  BY <1>2 DEF Lasting
<1>4. PICK v \in 0 .. MaxPlugins : unload(s, v, forced)
  <2>1. CASE MetaUnload(s, forced)
    BY <2>1, SizeAssumption DEF MetaUnload
  <2>2. CASE PluginUnloads(s, forced)
    <3>1. Top.slot \in 0 .. MaxPlugins
      BY <1>0, <2>2, PopProps DEF PluginUnloads, InPlugin, TypeOK, Frame, Slot
    <3>. QED  BY <2>2, <3>1 DEF PluginUnloads, plugin_unload
  <2>. QED  BY <2>1, <2>2
<1>5. plist[s].file \in Files
  BY <1>0 DEF MetaUnload, PluginUnloads, UsedIsNamed
<1>6. \A n \in Commands : cmds'[n].status = "valid" => cmds'[n] = cmds[n]
  BY <1>0, <1>4, <1>5, UnloadMarks
<1>7. \A n \in Commands : Owned(n)
  BY <1>2, <1>6 DEF Owned, InUse, CommandsOwned
<1>. QED  BY <1>3, <1>6, <1>7, EntriesKept, CommandsKept

\* What is left behind without its code.
Left(n) ==
  cmds'[n].status = "valid" /\ cmds'[n].pfnCmd = NULL
    => \/ cmds[n].status = "valid" /\ cmds[n].pfnCmd = NULL
       \/ /\ AtRest \/ Top.in = "query"
          /\ \E s \in Slot : /\ plist[s].status < PL_RUNNING
                             /\ plist[s].handle = cmds[n].pfnCmd

LEMMA SameBooks ==
  ASSUME Entries, CommandsOwned,
         \A t \in Slot : /\ plist'[t].handle = plist[t].handle
                         /\ plist'[t].file = plist[t].file
                         /\ plist'[t].status = plist[t].status,
         \A n \in Commands : cmds'[n].status = "valid" => cmds'[n] = cmds[n]
  PROVE  Entries' /\ CommandsOwned' /\ \A n \in Commands : Left(n)
<1>1. \A t \in Slot : Lasting(t)
  BY DEF Lasting
<1>2. \A n \in Commands : Owned(n)
  BY DEF Owned, InUse, CommandsOwned
<1>3. \A n \in Commands : Left(n)
  BY DEF Left
<1>. QED  BY <1>1, <1>2, <1>3, EntriesKept, CommandsKept

LEMMA BooksStep ==
  ASSUME Shape, Entries, CommandsOwned, [Next]_vars
  PROVE  Entries' /\ CommandsOwned' /\ \A n \in Commands : Left(n)
<1>0. TypeOK
  BY DEF Shape
<1>1. ASSUME NEW f \in Files, MetaLoad(f) \/ PluginLoads(f)
      PROVE  Entries' /\ CommandsOwned' /\ \A n \in Commands : Left(n)
  <2>1. addload(f) /\ UNCHANGED cmds
    BY <1>1 DEF MetaLoad, PluginLoads, addload
  <2>. QED  BY <2>1, LoadBooks DEF Left
<1>2. CASE AttachReturns
  BY <1>2, AttachBooks DEF AttachReturns, Left
<1>3. ASSUME NEW n \in Commands, Register(n)
      PROVE  Entries' /\ CommandsOwned' /\ \A m \in Commands : Left(m)
  <2>1. /\ CommandsOwned' /\ cmds'[n].pfnCmd # NULL /\ UNCHANGED plist
        /\ \A m \in Commands : m # n => cmds'[m] = cmds[m]
    BY <1>3, RegisterBooks
  <2>2. \A t \in Slot : Lasting(t)
    BY <2>1 DEF Lasting
  <2>3. \A m \in Commands : Left(m)
    BY <2>1 DEF Left
  <2>. QED  BY <2>1, <2>2, <2>3, EntriesKept
<1>4. ASSUME NEW n \in Commands, RunCommand(n)
      PROVE  Entries' /\ CommandsOwned' /\ \A m \in Commands : Left(m)
  BY <1>4, RunBooks, SameBooks
<1>5. ASSUME NEW s \in Slot, NEW forced \in BOOLEAN,
             MetaUnload(s, forced) \/ PluginUnloads(s, forced)
      PROVE  Entries' /\ CommandsOwned' /\ \A n \in Commands : Left(n)
  BY <1>5, RequestBooks DEF Left
<1>6. CASE DetachReturns
  BY <1>6, DetachBooks DEF Left
<1>7. CASE DetachRefuses
  BY <1>0, <1>7, RefuseEffects, SameBooks DEF Refused
<1>8. ASSUME NEW s \in Slot, MetaClear(s)
      PROVE  Entries' /\ CommandsOwned' /\ \A n \in Commands : Left(n)
  BY <1>8, ClearBooks DEF Left, MetaClear
<1>9. CASE (\E s \in Slot : CallHook(s)) \/ CallReturns \/ UNCHANGED vars
  BY <1>9, SameBooks DEF CallHook, CallReturns, vars
<1>10. CASE QueryReturns \/ QueryFails
  <2>1. Top.slot \in Slot /\ Top.in = "query"
    BY <1>0, <1>10, QueryEffects DEF QueryReturns, QueryFails
  <2>. QED  BY <1>10, <2>1, QueryBooks DEF Left
<1>. QED  BY <1>1, <1>2, <1>3, <1>4, <1>5, <1>6, <1>7, <1>8, <1>9, <1>10 DEF Next

LEMMA FlagsInit == Init => FlagsAreRequests
BY DEF Init, FlagsAreRequests

LEMMA BooksInit == Init => Entries /\ CommandsOwned
BY NullAssumption
   DEF Init, Entries, HandleIsOwn, Distinct, CommandsOwned, InUse

-----------------------------------------------------------------------------
(***************************************************************************)
(* Entries, commands and stack are what they are meant to be, with any     *)
(* number of plugins calling each other to any depth.                      *)
(***************************************************************************)
THEOREM CallsTyped == Spec => []TypeOK
<1>1. Init => Shape
  BY ShapeInit
<1>2. Shape /\ [Next]_vars => Shape'
  BY ShapeStep
<1>3. Shape => TypeOK
  BY DEF Shape
<1>. QED  BY <1>1, <1>2, <1>3, PTL DEF Spec

(***************************************************************************)
(* The two checks of plugin_unload() are enough: a plugin that has asked   *)
(* for an unload has its library until its request returns.  The flag is   *)
(* one per plugin, so this needs that it does not ask again meanwhile.     *)
(***************************************************************************)
THEOREM UnloadersStay ==
  ASSUME ~ SelfNested
  PROVE  Spec => []UnloaderStays
<1>1. Init => Shape /\ Protected
  BY ShapeInit, ProtectedInit
<1>2. Shape /\ Protected /\ [Next]_vars => (Shape /\ Protected)'
  BY ShapeStep, ProtectedStep
<1>3. Shape /\ Protected => UnloaderStays
  BY DEF Protected, Marks, UnloaderStays, Detaching
<1>. QED  BY <1>1, <1>2, <1>3, PTL DEF Spec

(***************************************************************************)
(* A plugin in the hook lists has its library, whatever is asked for while *)
(* unload() waits for Meta_Detach, as long as a delayed request leaves the *)
(* mark of its entry: it does not for a plugin that may be unloaded at     *)
(* startup only.                                                           *)
(***************************************************************************)
THEOREM RunningPluginsAreOpen ==
  ASSUME Delayable
  PROVE  Spec => []RunningIsOpen
<1>1. Init => Shape /\ Bound
  BY ShapeInit, BoundInit
<1>2. Shape /\ Bound /\ [Next]_vars => (Shape /\ Bound)'
  BY ShapeStep, BoundStep
<1>3. Shape /\ Bound => RunningIsOpen
  BY DEF Bound
<1>. QED  BY <1>1, <1>2, <1>3, PTL DEF Spec

(***************************************************************************)
(* A chain of unloads of any length crashes nobody.                        *)
(***************************************************************************)
THEOREM ChainsNeverCrash ==
  ASSUME ~ SelfNested, Delayable
  PROVE  Spec => []ChainNeverCrashes
<1>1. Init => Shape /\ Protected /\ Bound /\ TopIsOpen
  BY ShapeInit, ProtectedInit, BoundInit, TopInit
<1>2. Shape /\ Protected /\ Bound /\ TopIsOpen /\ [Next]_vars
        => (Shape /\ Protected /\ Bound /\ TopIsOpen)'
  BY ShapeStep, ProtectedStep, BoundStep, TopStep
<1>3. Shape /\ Protected /\ Bound /\ TopIsOpen => ChainNeverCrashes
  BY ChainIsSafe
<1>. QED  BY <1>1, <1>2, <1>3, PTL DEF Spec

(***************************************************************************)
(* unload() takes the unloader's mark off on every way out, in a request   *)
(* within a request too: a mark that is up belongs to a Meta_Detach that   *)
(* is still on the stack, and at rest none is left to refuse an unload.    *)
(***************************************************************************)
THEOREM NoFlagsAtRest == Spec => []NoFlagAtRest
<1>1. Init => Shape /\ FlagsAreRequests
  BY ShapeInit, FlagsInit
<1>2. Shape /\ FlagsAreRequests /\ [Next]_vars => (Shape /\ FlagsAreRequests)'
  BY ShapeStep, FlagsStep
<1>3. Shape /\ FlagsAreRequests => NoFlagAtRest
  BY DEF FlagsAreRequests, Requested, NoFlagAtRest, AtRest
<1>. QED  BY <1>1, <1>2, <1>3, PTL DEF Spec

(***************************************************************************)
(* MPlugin::unload() disables by slot and closes a library: no command is  *)
(* left valid without its code, because a command in use is registered for *)
(* the one entry that has its library open.  What leaves any is a load     *)
(* that ends in the query, and clear(), of a plugin that is not running.   *)
(***************************************************************************)
THEOREM UnloadsDisable == Spec => UnloadDisables
<1>1. Init => Shape /\ Entries /\ CommandsOwned
  BY ShapeInit, BooksInit
<1>2. Shape /\ Entries /\ CommandsOwned /\ [Next]_vars
        => (Shape /\ Entries /\ CommandsOwned)'
  BY ShapeStep, BooksStep
<1>3. Shape /\ Entries /\ CommandsOwned /\ [Next]_vars
        => [\A n \in Commands :
              cmds'[n].status = "valid" /\ cmds'[n].pfnCmd = NULL
                => \/ cmds[n].status = "valid" /\ cmds[n].pfnCmd = NULL
                   \/ /\ AtRest \/ Top.in = "query"
                      /\ \E s \in Slot : /\ plist[s].status < PL_RUNNING
                                         /\ plist[s].handle = cmds[n].pfnCmd]_vars
  BY BooksStep DEF Left
<1>. QED  BY <1>1, <1>2, <1>3, PTL DEF Spec, UnloadDisables
=============================================================================
