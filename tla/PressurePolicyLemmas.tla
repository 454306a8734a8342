------------------------- MODULE PressurePolicyLemmas -------------------------
(***************************************************************************)
(* What one evaluation of the policy does to its record, for every sample: *)
(* the facts the proofs about the loop and about the controller rest on.   *)
(***************************************************************************)
EXTENDS PressurePolicy, TLAPS

\* The policy record keeps its type, and an action is one of the three.
LEMMA EvaluateType ==
  ASSUME NEW p \in Policies, NEW s, NEW t \in Nat
  PROVE  /\ Evaluate(p, s, t) \in Policies
         /\ ActionOf(p, Evaluate(p, s, t)) \in PolicyActions \cup {"none"}
<1>1. EvaluateOne(p, s, t) \in Policies
  <2> DEFINE matches == IF s.high THEN p.matches + 1 ELSE 0
  <2>1. matches \in Nat
    BY DEF Policies
  <2>2. [p EXCEPT !.matches = matches, !.shrinkSince = Never] \in Policies
    BY <2>1 DEF Policies, Times
  <2>3. \A a \in PolicyActions : Transition(p, "two_node", a, t) \in Policies
    BY DEF Transition, Policies, Times, States
  <2>4. QED
    BY <2>2, <2>3 DEF EvaluateOne, PolicyActions
<1>2. EvaluateTwo(p, s, t) \in Policies
  <2> DEFINE since == IF p.shrinkSince = Never THEN t ELSE p.shrinkSince
  <2>1. since \in Times
    BY DEF Policies, Times
  <2>2. [p EXCEPT !.matches = 0, !.shrinkSince = IF s.low THEN since ELSE Never] \in Policies
    BY <2>1 DEF Policies, Times
  <2>3. Transition(p, "one_node", "shrink", t) \in Policies
    BY DEF Transition, Policies, Times, States, PolicyActions
  <2>4. QED
    BY <2>2, <2>3 DEF EvaluateTwo
<1>3. [p EXCEPT !.matches = 0, !.shrinkSince = Never] \in Policies
  BY DEF Policies, Times
<1>4. Evaluate(p, s, t) \in Policies
  BY <1>1, <1>2, <1>3 DEF Evaluate
<1>5. p.state # Evaluate(p, s, t).state => Evaluate(p, s, t).lastAction \in PolicyActions
  BY DEF Evaluate, EvaluateOne, EvaluateTwo, Transition, Policies, PolicyActions
<1>6. QED
  BY <1>4, <1>5 DEF ActionOf

\* So does a forced one.
LEMMA ForceStateType ==
  ASSUME NEW p \in Policies, NEW s \in States, NEW t \in Nat
  PROVE  ForceState(p, s, t) \in Policies
  BY DEF ForceState, Policies, Times, Never

\* An evaluation that moves the state names its action.
LEMMA EvaluateMoves ==
  ASSUME NEW p \in Policies, NEW s, NEW t \in Nat,
         ActionOf(p, Evaluate(p, s, t)) = "none"
  PROVE  Evaluate(p, s, t).state = p.state
  BY DEF ActionOf, Evaluate, EvaluateOne, EvaluateTwo, Transition, Policies,
     PolicyActions, States

\* An evaluation without an action moves neither the state nor the clocks of
\* the last transition.
LEMMA QuietEvaluation ==
  ASSUME NEW p \in Policies, NEW s, NEW t \in Nat,
         ActionOf(p, Evaluate(p, s, t)) = "none"
  PROVE  /\ Evaluate(p, s, t).lastTransition = p.lastTransition
         /\ Evaluate(p, s, t).lastAction = p.lastAction
  BY DEF ActionOf, Evaluate, EvaluateOne, EvaluateTwo, Transition, Policies,
     PolicyActions, States

\* An action is recorded at the time of the evaluation, and it comes inside the
\* cooldown only as the rollback of a shrink.
LEMMA ActingEvaluation ==
  ASSUME NEW p \in Policies, NEW s, NEW t \in Nat,
         ActionOf(p, Evaluate(p, s, t)) # "none"
  PROVE  /\ Evaluate(p, s, t).lastTransition = t
         /\ Evaluate(p, s, t).lastAction = ActionOf(p, Evaluate(p, s, t))
         /\ Evaluate(p, s, t).matches = 0
         /\ Evaluate(p, s, t).shrinkSince = Never
         /\ Cooling(p, t) => /\ p.lastAction = "shrink"
                             /\ Evaluate(p, s, t).lastAction = "rollback_expand"
  BY DEF ActionOf, Evaluate, EvaluateOne, EvaluateTwo, Transition, Policies

\* What confirms an action: enough matches in a row counting this sample, or a
\* low period that has lasted, after the dwell.
LEMMA ConfirmedEvaluation ==
  ASSUME NEW p \in Policies, NEW s \in Samples, NEW t \in Nat, NEW a,
         a = ActionOf(p, Evaluate(p, s, t)), a # "none"
  PROVE  /\ s.active /\ s.valid
         /\ a = "expand" => s.high /\ p.matches + 1 >= DecisionWindow
         /\ a = "rollback_expand" => s.high /\ p.matches + 1 >= RollbackConfirm
         /\ a = "shrink" =>
              /\ s.low
              /\ Elapsed(t, IF p.shrinkSince = Never THEN t ELSE p.shrinkSince, ShrinkConfirm)
              /\ Elapsed(t, p.lastTransition, MinimumDwell)
<1> USE PolicyAssumption
<1>1. p.matches \in Nat /\ p.state \in States
  BY DEF Policies
<1>2. s.active /\ s.valid
  BY DEF ActionOf, Evaluate, Policies
<1>3. CASE p.state = "one_node"
  <2>1. Evaluate(p, s, t) = EvaluateOne(p, s, t)
    BY <1>2, <1>3 DEF Evaluate
  <2>2. QED
    BY <1>1, <1>2, <1>3, <2>1 DEF ActionOf, EvaluateOne, Transition, Policies
<1>4. CASE p.state = "two_node"
  <2>1. Evaluate(p, s, t) = EvaluateTwo(p, s, t)
    BY <1>2, <1>4 DEF Evaluate, States
  <2>2. QED
    BY <1>1, <1>2, <1>4, <2>1 DEF ActionOf, EvaluateTwo, Transition, Policies
<1>5. QED
  BY <1>1, <1>3, <1>4 DEF States

\* What an evaluation without an action leaves of the evidence.
LEMMA QuietEvidence ==
  ASSUME NEW p \in Policies, NEW s \in Samples, NEW t \in Nat,
         ActionOf(p, Evaluate(p, s, t)) = "none"
  PROVE  /\ \/ Evaluate(p, s, t).matches = 0
            \/ /\ s.active /\ s.valid /\ s.high
               /\ Evaluate(p, s, t).matches = p.matches + 1
         /\ \/ Evaluate(p, s, t).shrinkSince = Never
            \/ /\ s.active /\ s.valid /\ s.low
               /\ Evaluate(p, s, t).shrinkSince =
                    IF p.shrinkSince = Never THEN t ELSE p.shrinkSince
<1>1. CASE ~s.active \/ ~s.valid
  BY <1>1 DEF Evaluate, Policies
<1>2. CASE s.active /\ s.valid /\ p.state = "one_node"
  <2>1. Evaluate(p, s, t) = EvaluateOne(p, s, t)
    BY <1>2 DEF Evaluate
  <2>2. QED
    BY <1>2, <2>1 DEF ActionOf, EvaluateOne, Transition, Policies
<1>3. CASE s.active /\ s.valid /\ p.state # "one_node"
  <2>1. Evaluate(p, s, t) = EvaluateTwo(p, s, t)
    BY <1>3 DEF Evaluate
  <2>2. QED
    BY <1>3, <2>1 DEF ActionOf, EvaluateTwo, Transition, Policies
<1>4. QED
  BY <1>1, <1>2, <1>3

===============================================================================
