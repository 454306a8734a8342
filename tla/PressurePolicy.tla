---------------------------- MODULE PressurePolicy ----------------------------
(***************************************************************************)
(* PressurePolicy (controller/policy.py): the hysteresis that turns a      *)
(* sequence of samples into expand, rollback_expand and shrink decisions.  *)
(* The policy object is a record and evaluate a function of that record,   *)
(* so that the closed loop (PressureControl) and the controller process    *)
(* (ControllerRuntime) run the same definitions.                           *)
(*                                                                         *)
(* A sample is reduced to the four facts evaluate looks at.  Times are     *)
(* ticks of the monotonic clock; the clock of a running host is never 0.   *)
(***************************************************************************)
EXTENDS Integers

CONSTANTS
  DecisionWindow,   \* decision_window_samples
  RollbackConfirm,  \* rollback_confirm_samples
  ShrinkConfirm,    \* shrink_confirm_seconds
  MinimumDwell,     \* minimum_two_node_dwell_seconds
  Cooldown          \* cooldown_seconds

\* ControllerConfig.validate; it does not look at rollback_confirm_samples,
\* whose default is 2.
ASSUME PolicyAssumption ==
  /\ DecisionWindow \in Nat \ {0}
  /\ RollbackConfirm \in Nat \ {0}
  /\ ShrinkConfirm \in Nat
  /\ MinimumDwell \in Nat
  /\ Cooldown \in Nat

States == {"one_node", "two_node"}
PolicyActions == {"expand", "rollback_expand", "shrink"}

Never == -1
Times == Nat \cup {Never}

Samples == [active : BOOLEAN, valid : BOOLEAN, high : BOOLEAN, low : BOOLEAN]

Policies ==
  [state : States, matches : Nat, shrinkSince : Times,
   lastTransition : Times, lastAction : PolicyActions \cup {"none"}]

InitialPolicy(s) ==
  [state |-> s, matches |-> 0, shrinkSince |-> Never,
   lastTransition |-> Never, lastAction |-> "none"]

\* Defect: the state stays where the failed action moved it.
ForceStateKeepsState(p, s, now) ==
  [p EXCEPT !.lastTransition = now, !.matches = 0, !.shrinkSince = Never]

ForceState(p, s, now) ==
  [p EXCEPT !.state = s, !.lastTransition = now, !.matches = 0, !.shrinkSince = Never]

\* _elapsed(now, since) >= seconds; an absent time is infinitely long ago.
Elapsed(now, since, seconds) == since = Never \/ now - since >= seconds

Cooling(p, now) == p.lastTransition # Never /\ now - p.lastTransition < Cooldown

Transition(p, s, action, now) ==
  [state |-> s, matches |-> 0, shrinkSince |-> Never,
   lastTransition |-> now, lastAction |-> action]

\* Defect: a sample below the gate takes one match back, without a floor.
EvaluateOneLeaking(p, sample, now) ==
  LET matches == IF sample.high THEN p.matches + 1 ELSE p.matches - 1
  IN  IF matches >= DecisionWindow /\ ~Cooling(p, now)
      THEN Transition(p, "two_node", "expand", now)
      ELSE [p EXCEPT !.matches = matches, !.shrinkSince = Never]

\* Defect: any cooldown counts as the one after a shrink.
EvaluateOneAlwaysRollback(p, sample, now) ==
  LET matches  == IF sample.high THEN p.matches + 1 ELSE 0
      required == IF Cooling(p, now) THEN RollbackConfirm ELSE DecisionWindow
  IN  IF matches >= required
      THEN Transition(p, "two_node", IF Cooling(p, now) THEN "rollback_expand" ELSE "expand", now)
      ELSE [p EXCEPT !.matches = matches, !.shrinkSince = Never]

(***************************************************************************)
(* In ONE the high samples are counted, also while cooling down.  Right    *)
(* after a shrink, and only then, the cooldown does not hold an expansion  *)
(* back and fewer samples confirm it.                                      *)
(***************************************************************************)
EvaluateOne(p, sample, now) ==
  LET matches  == IF sample.high THEN p.matches + 1 ELSE 0
      rollback == p.lastAction = "shrink" /\ Cooling(p, now)
      required == IF rollback THEN RollbackConfirm ELSE DecisionWindow
  IN  IF matches >= required /\ (rollback \/ ~Cooling(p, now))
      THEN Transition(p, "two_node", IF rollback THEN "rollback_expand" ELSE "expand", now)
      ELSE [p EXCEPT !.matches = matches, !.shrinkSince = Never]

\* In TWO the low period must last, and the dwell and cooldown be over.
EvaluateTwo(p, sample, now) ==
  LET since == IF p.shrinkSince = Never THEN now ELSE p.shrinkSince
  IN  IF /\ sample.low
         /\ Elapsed(now, since, ShrinkConfirm)
         /\ Elapsed(now, p.lastTransition, MinimumDwell)
         /\ ~Cooling(p, now)
      THEN Transition(p, "one_node", "shrink", now)
      ELSE [p EXCEPT !.matches = 0, !.shrinkSince = IF sample.low THEN since ELSE Never]

\* Defect: an inactive or invalid sample is passed over, the evidence stays.
EvaluatePausing(p, sample, now) ==
  IF ~sample.active \/ ~sample.valid
  THEN p
  ELSE IF p.state = "one_node"
       THEN EvaluateOne(p, sample, now)
       ELSE EvaluateTwo(p, sample, now)

Evaluate(p, sample, now) ==
  IF ~sample.active \/ ~sample.valid
  THEN [p EXCEPT !.matches = 0, !.shrinkSince = Never]
  ELSE IF p.state = "one_node"
       THEN EvaluateOne(p, sample, now)
       ELSE EvaluateTwo(p, sample, now)

\* The action of the decision: every transition changes the state.
ActionOf(p, q) == IF p.state = q.state THEN "none" ELSE q.lastAction

===============================================================================
