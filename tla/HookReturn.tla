----------------------------- MODULE HookReturn -----------------------------
(***************************************************************************)
(* What one API call returns: the result codes and return values of        *)
(* main_hook_function_t (metamod/api_hook.cpp), from the first pre plugin  *)
(* to the value handed to the caller.  Which plugins are called is the     *)
(* subject of HookDispatch; here each phase calls any number of them.      *)
(***************************************************************************)
EXTENDS Naturals, Sequences

CONSTANTS
  Values,     \* what plugins and the real routine may return
  ret_init,   \* the value the API wrapper passes to start from
  MaxAnswers  \* bound on the plugins one call goes through

ASSUME InitAssumption == ret_init \in Values
ASSUME BoundAssumption == MaxAnswers \in Nat

\* META_RES: the order is crucial, greater and less comparisons are made.
MRES_UNSET == 0
MRES_IGNORED == 1
MRES_HANDLED == 2
MRES_OVERRIDE == 3
MRES_SUPERCEDE == 4
META_RES == 0 .. 4

Rv == [orig_ret : Values, override_ret : Values]
Answer == [phase : {"pre", "post"}, mres : META_RES, value : Values]

VARIABLES
  phase,      \* "pre", "post", or "returned"
  inPlugin,   \* a plugin has control
  status,     \* the highest result so far
  rv,
  backup_rv,  \* the copy taken before each plugin is called
  routine,    \* the real routine: "pending", "called", "missing", "skipped"
  game,       \* what it returned
  answers,    \* what the plugins returned, in order
  result      \* what the caller gets

vars == <<phase, inPlugin, status, rv, backup_rv, routine, game, answers, result>>
-----------------------------------------------------------------------------
Init == /\ phase = "pre"
        /\ inPlugin = FALSE
        /\ status = MRES_UNSET
        /\ rv = [orig_ret |-> ret_init, override_ret |-> ret_init]
        /\ backup_rv \in Rv
        /\ routine = "pending"
        /\ game = ret_init
        /\ answers = <<>>
        /\ result = ret_init

CallPlugin == /\ phase \in {"pre", "post"}
              /\ ~ inPlugin
              /\ Len(answers) < MaxAnswers
              /\ inPlugin' = TRUE
              /\ backup_rv' = rv
              /\ UNCHANGED <<phase, status, rv, routine, game, answers, result>>

\* The plugin has pointers to orig_ret and override_ret, and may write there.
PluginWrites == /\ inPlugin
                /\ rv' \in Rv
                /\ UNCHANGED <<phase, inPlugin, status, backup_rv, routine,
                               game, answers, result>>

\* Mutants: the value of an OVERRIDE is kept in the pre phase too; the last
\* result counts, not the highest.
Keeps_override(ph, mres) == mres = MRES_OVERRIDE
Raised_last(st, mres) == mres

\* Whose value becomes override_ret: in each phase, that of one result only.
Keeps(ph, mres) == \/ ph = "pre" /\ mres = MRES_SUPERCEDE
                   \/ ph = "post" /\ mres = MRES_OVERRIDE
Restored(before, now) == before
Raised(st, mres) == IF mres > st THEN mres ELSE st

PluginReturns(mres, value) ==
  LET before == Restored(backup_rv, rv)
  IN  /\ inPlugin
      /\ inPlugin' = FALSE
      /\ status' = Raised(status, mres)
      /\ rv' = IF Keeps(phase, mres) THEN [before EXCEPT !.override_ret = value]
                                     ELSE before
      /\ answers' = Append(answers, [phase |-> phase, mres |-> mres,
                                     value |-> value])
      /\ UNCHANGED <<phase, backup_rv, routine, game, result>>

\* The pre loop is over: the real routine is called, is not there, or is skipped.
PreDone == phase = "pre" /\ ~ inPlugin /\ phase' = "post"

CallRoutine(value) ==
  /\ PreDone
  /\ status # MRES_SUPERCEDE
  /\ rv' = [rv EXCEPT !.orig_ret = value]
  /\ routine' = "called"
  /\ game' = value
  /\ UNCHANGED <<inPlugin, status, backup_rv, answers, result>>

RoutineMissing ==
  /\ PreDone
  /\ status # MRES_SUPERCEDE
  /\ status' = MRES_UNSET
  /\ routine' = "missing"
  /\ UNCHANGED <<inPlugin, rv, backup_rv, game, answers, result>>

\* Mutant: the superceder's value is not passed on.
SkipRoutine_bare ==
  /\ PreDone
  /\ status = MRES_SUPERCEDE
  /\ routine' = "skipped"
  /\ UNCHANGED <<inPlugin, status, rv, backup_rv, game, answers, result>>

SkipRoutine ==
  /\ PreDone
  /\ status = MRES_SUPERCEDE
  /\ rv' = [rv EXCEPT !.orig_ret = rv.override_ret]
  /\ routine' = "skipped"
  /\ UNCHANGED <<inPlugin, status, backup_rv, game, answers, result>>

\* The post loop is over.
Return ==
  /\ phase = "post"
  /\ ~ inPlugin
  /\ phase' = "returned"
  /\ result' = IF status # MRES_OVERRIDE THEN rv.orig_ret ELSE rv.override_ret
  /\ UNCHANGED <<inPlugin, status, rv, backup_rv, routine, game, answers>>

Next == \/ CallPlugin
        \/ PluginWrites
        \/ \E mres \in META_RES, value \in Values : PluginReturns(mres, value)
        \/ \E value \in Values : CallRoutine(value)
        \/ RoutineMissing
        \/ SkipRoutine
        \/ Return

Spec == Init /\ [][Next]_vars
-----------------------------------------------------------------------------
TypeOK == /\ phase \in {"pre", "post", "returned"}
          /\ inPlugin \in BOOLEAN
          /\ status \in META_RES
          /\ rv \in Rv
          /\ backup_rv \in Rv
          /\ routine \in {"pending", "called", "missing", "skipped"}
          /\ game \in Values
          /\ answers \in Seq(Answer)
          /\ result \in Values

\* The answers of a phase with a given result, and the value of the last one.
With(q, ph, mres) == {j \in 1 .. Len(q) : q[j].phase = ph /\ q[j].mres = mres}

LastOf(S) == CHOOSE j \in S : \A k \in S : k <= j

LastValue(q, ph, mres) ==
  IF With(q, ph, mres) = {} THEN ret_init ELSE q[LastOf(With(q, ph, mres))].value

Superceded(q) == With(q, "pre", MRES_SUPERCEDE) # {}
Misused(q)    == With(q, "post", MRES_SUPERCEDE) # {}
Overridden(q) == With(q, "pre", MRES_OVERRIDE) \cup With(q, "post", MRES_OVERRIDE) # {}

(***************************************************************************)
(* The real routine is skipped exactly when a pre plugin superceded it,    *)
(* whatever the other plugins, before or after that one, returned.         *)
(***************************************************************************)
SkippedIffSuperceded ==
  phase # "pre" => (routine = "skipped" <=> Superceded(answers))

(***************************************************************************)
(* The value the caller gets, said of the plugins' answers as a whole: of  *)
(* the last superceder, if any; else, of the real routine unless the       *)
(* highest result that counts is OVERRIDE; then, of the last post plugin   *)
(* that overrode, or ret_init if only pre plugins did.  (A post SUPERCEDE, *)
(* which is not valid, hides the overrides; a missing routine forgets the  *)
(* results of the pre plugins and leaves ret_init.)                        *)
(***************************************************************************)
Promised(q, rt, g) ==
  IF Superceded(q) THEN LastValue(q, "pre", MRES_SUPERCEDE)
  ELSE IF Misused(q) THEN g
  ELSE IF rt = "missing" THEN LastValue(q, "post", MRES_OVERRIDE)
  ELSE IF Overridden(q) THEN LastValue(q, "post", MRES_OVERRIDE)
  ELSE g

ReturnsPromised ==
  phase = "returned" => result = Promised(answers, routine, game)

(***************************************************************************)
(* The inductive invariant behind them.  What counts of rv is its backup   *)
(* while a plugin has control.  In the pre phase override_ret follows the  *)
(* last superceder and status tells the two results that matter later; in  *)
(* the post phase it follows the last post override, unless the routine    *)
(* was superceded, when only orig_ret is used.                             *)
(***************************************************************************)
Counting == IF inPlugin THEN backup_rv ELSE rv

PreInv ==
  /\ routine = "pending"
  /\ game = ret_init
  /\ Counting = [orig_ret |-> ret_init,
                 override_ret |-> LastValue(answers, "pre", MRES_SUPERCEDE)]
  /\ \A m \in META_RES : With(answers, "post", m) = {}
  /\ status = MRES_SUPERCEDE <=> Superceded(answers)
  /\ ~ Superceded(answers) => (status = MRES_OVERRIDE <=> Overridden(answers))

SkippedInv ==
  /\ Superceded(answers)
  /\ status = MRES_SUPERCEDE
  /\ Counting.orig_ret = LastValue(answers, "pre", MRES_SUPERCEDE)

CalledInv ==
  /\ ~ Superceded(answers)
  /\ Counting.orig_ret = game
  /\ Counting.override_ret = LastValue(answers, "post", MRES_OVERRIDE)
  /\ status = MRES_SUPERCEDE <=> Misused(answers)
  /\ ~ Misused(answers) => (status = MRES_OVERRIDE <=>
       IF routine = "called" THEN Overridden(answers)
       ELSE With(answers, "post", MRES_OVERRIDE) # {})

PostInv == /\ routine \in {"called", "missing", "skipped"}
           /\ routine = "missing" => game = ret_init
           /\ IF routine = "skipped" THEN SkippedInv ELSE CalledInv

IInv == /\ TypeOK
        /\ phase = "pre" => PreInv
        /\ phase = "post" => PostInv
        /\ phase = "returned" => ~ inPlugin
        /\ SkippedIffSuperceded
        /\ ReturnsPromised

(***************************************************************************)
(* coding.txt: "if any plugins specified META_OVERRIDE or META_SUPERCEDE,  *)
(* the return value given by the _last_ such plugin is returned".          *)
(***************************************************************************)
Providers(q) == {j \in 1 .. Len(q) : q[j].mres \in {MRES_OVERRIDE, MRES_SUPERCEDE}}

LastProviderReturned ==
  phase = "returned" /\ ~ Misused(answers) /\ Providers(answers) # {} =>
    result = answers[LastOf(Providers(answers))].value
=============================================================================
