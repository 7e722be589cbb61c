-------------------------- MODULE HookReturnProofs --------------------------
(***************************************************************************)
(* Proofs about HookReturn: what one API call returns, for any values, any *)
(* number of plugins and any result codes.                                 *)
(***************************************************************************)
EXTENDS HookReturn, WellFoundedInduction, TLAPS

(***************************************************************************)
(* A non-empty set of positions has a last one.                            *)
(***************************************************************************)
LEMMA LastExists ==
  ASSUME NEW n \in Nat, NEW S \in SUBSET (1 .. n), S # {}
  PROVE  LastOf(S) \in S /\ \A k \in S : k <= LastOf(S)
<1> DEFINE R == {ss \in Nat \X Nat : ss[1] < ss[2]}
           T == {k \in 0 .. n : n - k \in S}
<1>1. IsWellFoundedOn(R, Nat)
  BY NatLessThanWellFounded DEF OpToRel
<1>2. T \subseteq Nat /\ T # {}
  <2>1. PICK s \in S : TRUE
    OBVIOUS
  <2>2. s \in 1 .. n
    OBVIOUS
  <2>3. n - s \in 0 .. n /\ n - (n - s) = s
    BY <2>2
  <2>4. n - s \in T
    BY <2>3
  <2>5. T \subseteq Nat
    OBVIOUS
  <2>. QED  BY <2>4, <2>5
<1>3. PICK x \in T : \A y \in T : <<y, x>> \notin R
  <2>. HIDE DEF R, T
  <2>. QED  BY <1>1, <1>2, WFMin
<1>4. n - x \in S /\ \A k \in S : k <= n - x
  <2> SUFFICES ASSUME NEW k \in S  PROVE  k <= n - x
    OBVIOUS
  <2>1. k \in 1 .. n
    OBVIOUS
  <2>2. n - k \in 0 .. n /\ n - (n - k) = k
    BY <2>1
  <2>3. n - k \in T
    BY <2>2
  <2>4. <<n - k, x>> \notin R
    BY <1>3, <2>3
  <2>5. n - k \in Nat /\ x \in Nat
    BY <2>2
  <2>6. ~ (n - k < x)
    BY <2>4, <2>5
  <2>. QED  BY <2>1, <2>5, <2>6
<1>. QED  BY <1>4 DEF LastOf

(***************************************************************************)
(* One more answer joins the set of its phase and result only.             *)
(***************************************************************************)
LEMMA WithAppend ==
  ASSUME NEW q \in Seq(Answer), NEW a \in Answer, NEW ph, NEW m
  PROVE  With(Append(q, a), ph, m) =
           IF a.phase = ph /\ a.mres = m THEN With(q, ph, m) \cup {Len(q) + 1}
           ELSE With(q, ph, m)
<1> DEFINE r == Append(q, a)
<1>1. Len(q) \in Nat /\ Len(r) = Len(q) + 1 /\ r[Len(q) + 1] = a
  OBVIOUS
<1>2. \A j \in 1 .. Len(q) : r[j] = q[j]
  OBVIOUS
<1>. HIDE DEF r
<1>3. \A j : j \in 1 .. Len(r) <=> j \in 1 .. Len(q) \/ j = Len(q) + 1
  BY <1>1
<1>4. Len(q) + 1 \notin 1 .. Len(q)
  BY <1>1
<1>5. With(r, ph, m) = IF a.phase = ph /\ a.mres = m
                       THEN With(q, ph, m) \cup {Len(q) + 1}
                       ELSE With(q, ph, m)
  BY <1>1, <1>2, <1>3, <1>4 DEF With
<1>. QED  BY <1>5 DEF r

(***************************************************************************)
(* An answer of the phase and result asked for is the last one; any other  *)
(* leaves the last one as it was.                                          *)
(***************************************************************************)
LEMMA LastAppend ==
  ASSUME NEW q \in Seq(Answer), NEW a \in Answer, NEW ph, NEW m
  PROVE  LastValue(Append(q, a), ph, m) =
           IF a.phase = ph /\ a.mres = m THEN a.value ELSE LastValue(q, ph, m)
<1> DEFINE r == Append(q, a)
           S == With(q, ph, m)
<1>1. Len(q) \in Nat /\ Len(r) = Len(q) + 1 /\ r[Len(q) + 1] = a
  OBVIOUS
<1>2. \A j \in 1 .. Len(q) : r[j] = q[j]
  OBVIOUS
<1>3. S \in SUBSET (1 .. Len(q))
  BY DEF With
<1>4. CASE a.phase = ph /\ a.mres = m
  <2>1. With(r, ph, m) = S \cup {Len(q) + 1}
    BY <1>4, WithAppend
  <2>2. \A k \in S \cup {Len(q) + 1} : k <= Len(q) + 1
    BY <1>1, <1>3
  <2>3. \A j \in S : ~ (Len(q) + 1 <= j)
    BY <1>1, <1>3
  <2>4. LastOf(S \cup {Len(q) + 1}) = Len(q) + 1
    BY <2>2, <2>3 DEF LastOf
  <2>5. With(r, ph, m) # {} /\ LastOf(With(r, ph, m)) = Len(q) + 1
    BY <2>1, <2>4
  <2>. HIDE DEF r
  <2>6. LastValue(r, ph, m) = r[Len(q) + 1].value
    BY <2>5 DEF LastValue
  <2>7. LastValue(r, ph, m) = a.value
    BY <1>1, <2>6
  <2>. QED  BY <1>4, <2>7 DEF r
<1>5. CASE ~ (a.phase = ph /\ a.mres = m)
  <2>1. With(r, ph, m) = S
    BY <1>5, WithAppend
  <2>2. S # {} => LastOf(S) \in 1 .. Len(q)
    BY <1>1, <1>3, LastExists
  <2>. HIDE DEF r
  <2>. QED  BY <1>2, <1>5, <2>1, <2>2 DEF LastValue, r
<1>. QED  BY <1>4, <1>5

(***************************************************************************)
(* Every step keeps the variables in their types.                          *)
(***************************************************************************)
LEMMA TypeStep ==
  ASSUME TypeOK, phase = "returned" => ~ inPlugin, [Next]_vars
  PROVE  TypeOK'
<1>. USE DEF TypeOK
<1>1. CASE CallPlugin
  BY <1>1 DEF CallPlugin
<1>2. CASE PluginWrites
  BY <1>2 DEF PluginWrites
<1>3. ASSUME NEW mres \in META_RES, NEW value \in Values,
             PluginReturns(mres, value)
      PROVE  TypeOK'
  <2>1. [phase |-> phase, mres |-> mres, value |-> value] \in Answer
    BY <1>3 DEF Answer, PluginReturns
  <2>2. answers' \in Seq(Answer)
    BY <1>3, <2>1 DEF PluginReturns
  <2>3. rv' \in Rv
    BY <1>3 DEF PluginReturns, Restored, Rv
  <2>4. status' \in META_RES
    BY <1>3 DEF PluginReturns, Raised
  <2>. QED  BY <1>3, <2>2, <2>3, <2>4 DEF PluginReturns
<1>4. ASSUME NEW value \in Values, CallRoutine(value)
      PROVE  TypeOK'
  BY <1>4 DEF CallRoutine, PreDone, Rv
<1>5. CASE RoutineMissing
  BY <1>5 DEF RoutineMissing, PreDone, META_RES, MRES_UNSET
<1>6. CASE SkipRoutine
  BY <1>6 DEF SkipRoutine, PreDone, Rv
<1>7. CASE Return
  BY <1>7 DEF Return, Rv
<1>8. CASE UNCHANGED vars
  BY <1>8 DEF vars
<1>. QED  BY <1>1, <1>2, <1>3, <1>4, <1>5, <1>6, <1>7, <1>8 DEF Next

(***************************************************************************)
(* What an answer changes of the sets and values the invariant speaks of.  *)
(***************************************************************************)
LEMMA AnswerEffect ==
  ASSUME TypeOK, phase = "returned" => ~ inPlugin,
         NEW mres \in META_RES, NEW value \in Values,
         PluginReturns(mres, value), NEW ph, NEW m
  PROVE  /\ With(answers', ph, m) # {} <=>
              (phase = ph /\ mres = m) \/ With(answers, ph, m) # {}
         /\ LastValue(answers', ph, m) =
              IF phase = ph /\ mres = m THEN value ELSE LastValue(answers, ph, m)
<1> DEFINE a == [phase |-> phase, mres |-> mres, value |-> value]
<1>1. a \in Answer /\ answers \in Seq(Answer) /\ answers' = Append(answers, a)
  BY DEF Answer, PluginReturns, TypeOK
<1>2. a.phase = phase /\ a.mres = mres /\ a.value = value
  OBVIOUS
<1>. HIDE DEF a
<1>3. With(answers', ph, m) = IF phase = ph /\ mres = m
                              THEN With(answers, ph, m) \cup {Len(answers) + 1}
                              ELSE With(answers, ph, m)
  BY <1>1, <1>2, WithAppend
<1>4. LastValue(answers', ph, m) = IF phase = ph /\ mres = m THEN value
                                   ELSE LastValue(answers, ph, m)
  BY <1>1, <1>2, LastAppend
<1>. QED  BY <1>3, <1>4

(***************************************************************************)
(* An answer keeps the invariant: in the pre phase ...                     *)
(***************************************************************************)
LEMMA PreAnswer ==
  ASSUME IInv, phase = "pre", NEW mres \in META_RES, NEW value \in Values,
         PluginReturns(mres, value)
  PROVE  PreInv'
<1>. USE DEF MRES_SUPERCEDE, MRES_OVERRIDE
<1>1. TypeOK /\ PreInv /\ inPlugin /\ ~ inPlugin' /\ (phase = "returned" => ~ inPlugin)
  BY DEF IInv, PluginReturns
<1>2. \A ph, m : With(answers', ph, m) # {} <=>
                   (phase = ph /\ mres = m) \/ With(answers, ph, m) # {}
  BY <1>1, AnswerEffect
<1>3. \A ph, m : LastValue(answers', ph, m) =
                   IF phase = ph /\ mres = m THEN value ELSE LastValue(answers, ph, m)
  BY <1>1, AnswerEffect
<1>4. routine' = "pending" /\ game' = ret_init
  BY <1>1 DEF PreInv, PluginReturns
<1>5. Counting' = [orig_ret |-> ret_init,
                   override_ret |-> LastValue(answers', "pre", MRES_SUPERCEDE)]
  <2>1. Counting = backup_rv /\ Counting' = rv'
    BY <1>1 DEF Counting
  <2>2. rv' = IF mres = 4 THEN [backup_rv EXCEPT !.override_ret = value] ELSE backup_rv
    BY DEF PluginReturns, Keeps, Restored
  <2>. QED  BY <1>1, <1>3, <2>1, <2>2 DEF PreInv
<1>6. \A m \in META_RES : With(answers', "post", m) = {}
  BY <1>1, <1>2 DEF PreInv
<1>7. Superceded(answers') <=> mres = 4 \/ Superceded(answers)
  BY <1>2 DEF Superceded
<1>8. Overridden(answers') <=> mres = 3 \/ Overridden(answers)
  BY <1>2 DEF Overridden
<1>9. status' = IF mres > status THEN mres ELSE status
  BY DEF PluginReturns, Raised
<1>10. /\ status' = 4 <=> Superceded(answers')
       /\ ~ Superceded(answers') => (status' = 3 <=> Overridden(answers'))
  BY <1>1, <1>7, <1>8, <1>9 DEF PreInv, TypeOK, META_RES
<1>. QED  BY <1>4, <1>5, <1>6, <1>10 DEF PreInv

(***************************************************************************)
(* ... and in the post phase.                                              *)
(***************************************************************************)
LEMMA PostAnswer ==
  ASSUME IInv, phase = "post", NEW mres \in META_RES, NEW value \in Values,
         PluginReturns(mres, value)
  PROVE  PostInv' /\ (Superceded(answers') <=> Superceded(answers))
<1>. USE DEF MRES_SUPERCEDE, MRES_OVERRIDE
<1>1. TypeOK /\ PostInv /\ inPlugin /\ ~ inPlugin' /\ (phase = "returned" => ~ inPlugin)
  BY DEF IInv, PluginReturns
<1>2. \A ph, m : With(answers', ph, m) # {} <=>
                   (phase = ph /\ mres = m) \/ With(answers, ph, m) # {}
  BY <1>1, AnswerEffect
<1>3. \A ph, m : LastValue(answers', ph, m) =
                   IF phase = ph /\ mres = m THEN value ELSE LastValue(answers, ph, m)
  BY <1>1, AnswerEffect
<1>4. routine' = routine /\ game' = game
  BY DEF PluginReturns
<1>5. /\ Superceded(answers') <=> Superceded(answers)
      /\ Misused(answers') <=> mres = 4 \/ Misused(answers)
      /\ Overridden(answers') <=> mres = 3 \/ Overridden(answers)
  BY <1>2 DEF Superceded, Misused, Overridden
<1>6. status' = IF mres > status THEN mres ELSE status
  BY DEF PluginReturns, Raised
<1>7. Counting' = IF mres = 3 THEN [Counting EXCEPT !.override_ret = value]
                  ELSE Counting
  BY <1>1 DEF Counting, PluginReturns, Keeps, Restored
<1>8. Counting \in Rv
  BY <1>1 DEF Counting, TypeOK
<1>9. /\ Counting'.orig_ret = Counting.orig_ret
      /\ Counting'.override_ret = IF mres = 3 THEN value ELSE Counting.override_ret
  BY <1>7, <1>8 DEF Rv
<1>10. CASE routine = "skipped"
  <2>1. SkippedInv
    BY <1>1, <1>10 DEF PostInv
  <2>2. status' = 4
    BY <1>6, <2>1 DEF SkippedInv, META_RES
  <2>3. SkippedInv'
    BY <1>3, <1>5, <1>9, <2>1, <2>2 DEF SkippedInv
  <2>. QED  BY <1>4, <1>5, <1>10, <2>3 DEF PostInv
<1>11. CASE routine # "skipped"
  <2>1. CalledInv
    BY <1>1, <1>11 DEF PostInv
  <2>2. Counting'.override_ret = LastValue(answers', "post", MRES_OVERRIDE)
    BY <1>3, <1>9, <2>1 DEF CalledInv
  <2>3. status' = 4 <=> Misused(answers')
    BY <1>1, <1>5, <1>6, <2>1 DEF CalledInv, TypeOK, META_RES
  <2>4. status' = 3 <=> (mres = 3 /\ status < 4) \/ (mres < 4 /\ status = 3)
    BY <1>1, <1>6 DEF TypeOK, META_RES
  <2>5. With(answers', "post", MRES_OVERRIDE) # {} <=>
          mres = 3 \/ With(answers, "post", MRES_OVERRIDE) # {}
    BY <1>2
  <2>6. ~ Misused(answers') => status < 4 /\ mres < 4
    BY <1>1, <1>5, <2>1 DEF CalledInv, TypeOK, META_RES
  <2>7. ~ Misused(answers') => (status' = 3 <=>
          IF routine = "called" THEN Overridden(answers')
          ELSE With(answers', "post", MRES_OVERRIDE) # {})
    <3>1. SUFFICES ASSUME ~ Misused(answers')
                   PROVE  status' = 3 <=>
                            IF routine = "called" THEN Overridden(answers')
                            ELSE With(answers', "post", MRES_OVERRIDE) # {}
      OBVIOUS
    <3>2. status' = 3 <=> mres = 3 \/ status = 3
      BY <2>4, <2>6, <3>1
    <3>3. ~ Misused(answers)
      BY <1>5, <3>1
    <3>4. CASE routine = "called"
      BY <1>5, <2>1, <3>2, <3>3, <3>4 DEF CalledInv
    <3>5. CASE routine # "called"
      BY <2>1, <2>5, <3>2, <3>3, <3>5 DEF CalledInv
    <3>. QED  BY <3>4, <3>5
  <2>8. CalledInv'
    BY <1>4, <1>5, <1>9, <2>1, <2>2, <2>3, <2>7 DEF CalledInv
  <2>. QED  BY <1>1, <1>4, <1>5, <1>11, <2>8 DEF PostInv
<1>. QED  BY <1>10, <1>11

(***************************************************************************)
(* A step that changes neither the answers nor the value that counts.      *)
(***************************************************************************)
LEMMA Undisturbed ==
  ASSUME IInv, TypeOK', Counting' = Counting, phase' = phase,
         phase = "returned" => inPlugin' = inPlugin,
         UNCHANGED <<status, routine, game, answers, result>>
  PROVE  IInv'
<1>1. phase = "pre" => PreInv'
  BY DEF IInv, PreInv
<1>2. phase = "post" => PostInv'
  BY DEF IInv, PostInv, SkippedInv, CalledInv
<1>3. SkippedIffSuperceded' /\ ReturnsPromised'
  BY DEF IInv, SkippedIffSuperceded, ReturnsPromised
<1>. QED  BY <1>1, <1>2, <1>3 DEF IInv

(***************************************************************************)
(* The real routine is called, is missing or is skipped: the post phase    *)
(* starts from what the pre phase leaves.                                  *)
(***************************************************************************)
LEMMA PreEnds ==
  ASSUME IInv, TypeOK', [Next]_vars, phase = "pre", phase' # "pre"
  PROVE  phase' = "post" /\ PostInv' /\ SkippedIffSuperceded'
<1>. USE DEF MRES_SUPERCEDE, MRES_OVERRIDE
<1>1. TypeOK /\ PreInv
  BY DEF IInv
<1>2. PreDone /\ UNCHANGED <<inPlugin, answers>>
      /\ (\/ \E value \in Values : CallRoutine(value)
          \/ RoutineMissing \/ SkipRoutine)
  BY DEF Next, vars, CallPlugin, PluginWrites, PluginReturns, Return,
         CallRoutine, RoutineMissing, SkipRoutine
<1>3. phase' = "post" /\ Counting = rv /\ Counting' = rv' /\ rv \in Rv
  BY <1>1, <1>2 DEF PreDone, Counting, TypeOK
<1>4. With(answers, "post", 4) = {} /\ With(answers, "post", 3) = {}
  BY <1>1 DEF PreInv, META_RES
<1>5. ~ Misused(answers) /\ LastValue(answers, "post", 3) = ret_init
  BY <1>4 DEF Misused, LastValue
<1>6. ~ Superceded(answers) => LastValue(answers, "pre", 4) = ret_init
  BY DEF Superceded, LastValue
<1>7. ASSUME NEW value \in Values, CallRoutine(value)
      PROVE  PostInv' /\ SkippedIffSuperceded'
  <2>1. ~ Superceded(answers)
    BY <1>1, <1>7 DEF CallRoutine, PreInv
  <2>2. rv'.orig_ret = value /\ rv'.override_ret = ret_init
    BY <1>1, <1>3, <1>6, <1>7, <2>1 DEF CallRoutine, PreInv, Rv
  <2>3. CalledInv'
    BY <1>1, <1>2, <1>3, <1>5, <1>7, <2>1, <2>2
       DEF CallRoutine, CalledInv, PreInv
  <2>. QED  BY <1>2, <1>7, <2>1, <2>3 DEF CallRoutine, PostInv, SkippedIffSuperceded
<1>8. CASE RoutineMissing
  <2>1. ~ Superceded(answers)
    BY <1>1, <1>8 DEF RoutineMissing, PreInv
  <2>2. rv'.orig_ret = ret_init /\ rv'.override_ret = ret_init
    BY <1>1, <1>3, <1>6, <1>8, <2>1 DEF RoutineMissing, PreInv
  <2>3. CalledInv'
    BY <1>1, <1>2, <1>3, <1>4, <1>5, <1>8, <2>1, <2>2
       DEF RoutineMissing, CalledInv, PreInv, MRES_UNSET
  <2>. QED  BY <1>1, <1>2, <1>3, <1>8, <2>1, <2>3
            DEF RoutineMissing, PostInv, SkippedIffSuperceded, PreInv
<1>9. CASE SkipRoutine
  <2>1. Superceded(answers)
    BY <1>1, <1>9 DEF SkipRoutine, PreInv
  <2>2. rv'.orig_ret = LastValue(answers, "pre", 4)
    BY <1>1, <1>3, <1>9 DEF SkipRoutine, PreInv, Rv
  <2>3. SkippedInv'
    BY <1>2, <1>3, <1>9, <2>1, <2>2 DEF SkipRoutine, SkippedInv
  <2>. QED  BY <1>2, <1>3, <1>9, <2>1, <2>3
            DEF SkipRoutine, PostInv, SkippedIffSuperceded
<1>. QED  BY <1>2, <1>3, <1>7, <1>8, <1>9

(***************************************************************************)
(* The value handed back is the one promised.                              *)
(***************************************************************************)
LEMMA CallReturns ==
  ASSUME IInv, Return
  PROVE  ReturnsPromised' /\ SkippedIffSuperceded'
<1>. USE DEF MRES_SUPERCEDE, MRES_OVERRIDE
<1>1. /\ PostInv /\ SkippedIffSuperceded /\ Counting = rv
      /\ phase = "post" /\ UNCHANGED <<answers, routine, game>>
      /\ result' = IF status # 3 THEN rv.orig_ret ELSE rv.override_ret
  BY DEF IInv, Return, Counting
<1>2. SkippedIffSuperceded'
  BY <1>1 DEF SkippedIffSuperceded
<1>3. CASE routine = "skipped"
  BY <1>1, <1>2, <1>3 DEF PostInv, SkippedInv, ReturnsPromised, Promised
<1>4. CASE routine # "skipped"
  <2>1. CalledInv /\ routine \in {"called", "missing"}
        /\ (routine = "missing" => game = ret_init)
    BY <1>1, <1>4 DEF PostInv
  <2>2. CASE Misused(answers)
    <3>1. result' = game
      BY <1>1, <2>1, <2>2 DEF CalledInv
    <3>. QED  BY <1>1, <1>2, <2>1, <2>2, <3>1 DEF CalledInv, ReturnsPromised, Promised
  <2>3. CASE ~ Misused(answers) /\ routine = "missing"
    <3>1. status # 3 => LastValue(answers, "post", 3) = ret_init
      BY <2>1, <2>3 DEF CalledInv, LastValue
    <3>2. result' = LastValue(answers, "post", 3)
      BY <1>1, <2>1, <2>3, <3>1 DEF CalledInv
    <3>. QED  BY <1>1, <1>2, <2>1, <2>3, <3>2 DEF CalledInv, ReturnsPromised, Promised
  <2>4. CASE ~ Misused(answers) /\ routine = "called"
    <3>1. status = 3 <=> Overridden(answers)
      BY <2>1, <2>4 DEF CalledInv
    <3>2. result' = IF Overridden(answers) THEN LastValue(answers, "post", 3)
                    ELSE game
      BY <1>1, <2>1, <3>1 DEF CalledInv
    <3>. QED  BY <1>1, <1>2, <2>1, <2>4, <3>2 DEF CalledInv, ReturnsPromised, Promised
  <2>. QED  BY <2>1, <2>2, <2>3, <2>4
<1>. QED  BY <1>2, <1>3, <1>4

(***************************************************************************)
(* The invariant holds initially ...                                       *)
(***************************************************************************)
LEMMA InitIInv == ASSUME Init PROVE IInv
<1>1. \A ph, m : With(answers, ph, m) = {} /\ LastValue(answers, ph, m) = ret_init
  BY DEF Init, With, LastValue
<1>2. TypeOK
  <2>1. rv \in Rv /\ backup_rv \in Rv
    BY InitAssumption DEF Init, Rv
  <2>2. answers \in Seq(Answer)
    BY DEF Init
  <2>3. status \in META_RES
    BY DEF Init, META_RES, MRES_UNSET
  <2>. QED  BY InitAssumption, <2>1, <2>2, <2>3 DEF Init, TypeOK
<1>3. PreInv
  <2>1. Counting = [orig_ret |-> ret_init, override_ret |-> ret_init]
    BY DEF Init, Counting
  <2>2. ~ Superceded(answers) /\ ~ Overridden(answers)
    BY <1>1 DEF Superceded, Overridden
  <2>. QED  BY <1>1, <2>1, <2>2
            DEF Init, PreInv, MRES_UNSET, MRES_SUPERCEDE, MRES_OVERRIDE
<1>. QED  BY <1>2, <1>3 DEF Init, IInv, SkippedIffSuperceded, ReturnsPromised

(***************************************************************************)
(* ... and every step keeps it.                                            *)
(***************************************************************************)
LEMMA StepIInv == ASSUME IInv, [Next]_vars PROVE IInv'
<1>1. TypeOK /\ TypeOK' /\ (phase = "returned" => ~ inPlugin)
  BY TypeStep DEF IInv
<1>2. CASE CallPlugin
  <2>1. Counting' = Counting
    BY <1>2 DEF CallPlugin, Counting
  <2>. QED  BY <1>1, <1>2, <2>1, Undisturbed DEF CallPlugin
<1>3. CASE PluginWrites
  <2>1. Counting' = Counting
    BY <1>3 DEF PluginWrites, Counting
  <2>. QED  BY <1>1, <1>3, <2>1, Undisturbed DEF PluginWrites
<1>4. ASSUME NEW mres \in META_RES, NEW value \in Values,
             PluginReturns(mres, value)
      PROVE  IInv'
  <2>1. /\ phase' = phase /\ inPlugin' = FALSE /\ routine' = routine
        /\ phase \in {"pre", "post"}
    BY <1>1, <1>4 DEF PluginReturns, TypeOK
  <2>2. CASE phase = "pre"
    BY <1>1, <1>4, <2>1, <2>2, PreAnswer
       DEF IInv, SkippedIffSuperceded, ReturnsPromised
  <2>3. CASE phase = "post"
    <3>1. PostInv' /\ (Superceded(answers') <=> Superceded(answers))
      BY <1>4, <2>3, PostAnswer
    <3>. QED  BY <1>1, <2>1, <2>3, <3>1
              DEF IInv, SkippedIffSuperceded, ReturnsPromised
  <2>. QED  BY <2>1, <2>2, <2>3
<1>5. CASE phase = "pre" /\ phase' # "pre"
  <2>1. phase' = "post" /\ PostInv' /\ SkippedIffSuperceded'
    BY <1>1, <1>5, PreEnds
  <2>. QED  BY <1>1, <2>1 DEF IInv, ReturnsPromised
<1>6. CASE Return
  <2>1. ReturnsPromised' /\ SkippedIffSuperceded'
    BY <1>6, CallReturns
  <2>2. phase' = "returned" /\ ~ inPlugin'
    BY <1>6 DEF Return
  <2>. QED  BY <1>1, <2>1, <2>2 DEF IInv
<1>7. CASE UNCHANGED vars
  BY <1>1, <1>7, Undisturbed DEF vars, Counting
<1>8. \/ CallPlugin \/ PluginWrites \/ Return \/ UNCHANGED vars
      \/ \E mres \in META_RES, value \in Values : PluginReturns(mres, value)
      \/ phase = "pre" /\ phase' # "pre"
  BY DEF Next, CallRoutine, RoutineMissing, SkipRoutine, PreDone
<1>. QED  BY <1>2, <1>3, <1>4, <1>5, <1>6, <1>7, <1>8

(***************************************************************************)
(* What counts of rv is its backup while a plugin has control, and status  *)
(* and override_ret are at every point of both loops the functions of the  *)
(* answers so far that main_hook_function_t means them to be.              *)
(***************************************************************************)
THEOREM Invariance == Spec => []IInv
<1>1. Init => IInv
  BY InitIInv
<1>2. IInv /\ [Next]_vars => IInv'
  BY StepIInv
<1>. QED  BY <1>1, <1>2, PTL DEF Spec

(***************************************************************************)
(* main_hook_function_t skips the real routine exactly when a pre plugin   *)
(* superceded it, however many plugins there are.                          *)
(***************************************************************************)
THEOREM Skipped == Spec => []SkippedIffSuperceded
<1>1. IInv => SkippedIffSuperceded
  BY DEF IInv
<1>. QED  BY <1>1, Invariance, PTL

(***************************************************************************)
(* What main_hook_function_t returns is a function of the plugins' answers *)
(* as a whole, whatever they wrote through the pointers they are given.    *)
(***************************************************************************)
THEOREM Returned == Spec => []ReturnsPromised
<1>1. IInv => ReturnsPromised
  BY DEF IInv
<1>. QED  BY <1>1, Invariance, PTL
=============================================================================
