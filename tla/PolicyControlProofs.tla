-------------------------- MODULE PolicyControlProofs --------------------------
(***************************************************************************)
(* Proofs about the policies in the control loop, for every window, dwell, *)
(* cooldown and target: first the pressure policy in the loop of           *)
(* PressureControl, then the loop of PolicyControl with any of its         *)
(* policies, in which what was shown of the pressure policy holds too, and *)
(* the policies that ask a model compare windows of one phase, keep their  *)
(* distance and decide only on evidence about the target.                  *)
(***************************************************************************)
EXTENDS PolicyControl, PressurePolicyLemmas, SequenceTheorems

-------------------------------------------------------------------------------
(* Arithmetic of the spacing argument.                                     *)

LEMMA Later ==
  ASSUME NEW n \in Nat, NEW a \in Nat, NEW b \in Nat, NEW c \in Nat,
         a <= b, ~(n - b < c)
  PROVE  n - a >= c
  OBVIOUS

LEMMA LaterStill ==
  ASSUME NEW m \in Nat, NEW n \in Nat, NEW a \in Nat, NEW b \in Nat, NEW c \in Nat,
         b <= a, a <= m, m <= n, a - b >= c \/ n - a >= c
  PROVE  n - b >= c
  OBVIOUS

LEMMA LongSince ==
  ASSUME NEW n \in Nat, NEW a \in Nat, NEW b \in Nat, NEW c \in Nat,
         a <= b, Elapsed(n, b, c)
  PROVE  n - a >= c
  BY DEF Elapsed, Never

-------------------------------------------------------------------------------
(***************************************************************************)
(* Type correctness.                                                       *)
(***************************************************************************)

\* Every step of the loop keeps the types.
LEMMA TypeStep == TypeOK /\ [Next]_vars => TypeOK'
<1> SUFFICES ASSUME TypeOK, [Next]_vars
             PROVE  TypeOK'
  OBVIOUS
<1> USE ClockAssumption
<1>1. ASSUME NEW gap \in 1..MaxGap, NEW s \in Samples, Sample(gap, s)
      PROVE  TypeOK'
  <2>1. now' \in Nat
    BY <1>1 DEF Sample, TypeOK
  <2>2. policy' \in Policies /\ decided' \in PolicyActions \cup {"none"}
    BY <1>1, <2>1, EvaluateType DEF Sample, TypeOK
  <2>3. QED
    BY <1>1, <2>1, <2>2 DEF Sample, TypeOK, Times
<1>2. ASSUME NEW d \in 0..MaxGap, ActionApplied(d)
      PROVE  TypeOK'
  BY <1>2 DEF ActionApplied, TypeOK, Times
<1>3. ASSUME NEW d \in 0..MaxGap, ActionFailed(d)
      PROVE  TypeOK'
  <2>1. now' \in Nat
    BY <1>3 DEF ActionFailed, TypeOK
  <2>2. policy' \in Policies
    BY <1>3, <2>1, ForceStateType DEF ActionFailed, TypeOK, OtherState, States
  <2>3. QED
    BY <1>3, <2>1, <2>2 DEF ActionFailed, TypeOK, Times
<1>4. CASE UNCHANGED vars
  BY <1>4 DEF vars, TypeOK
<1>5. QED
  BY <1>1, <1>2, <1>3, <1>4 DEF Next, Ended

(***************************************************************************)
(* The record of the policy keeps its shape through every evaluation and   *)
(* every forced state (policy.py 58-144).                                  *)
(***************************************************************************)
THEOREM TypeCorrect == Spec => []TypeOK
<1>1. Init => TypeOK
  BY DEF Init, TypeOK, InitialPolicy, Policies, Times, Never, PolicyActions
<1>2. QED
  BY <1>1, TypeStep, PTL DEF Spec

-------------------------------------------------------------------------------
(***************************************************************************)
(* Spacing.  The clock of the policy is never behind the last action, and  *)
(* a policy that may use the rollback exemption has had a quiet cooldown   *)
(* before the shrink it would roll back.                                   *)
(***************************************************************************)
Spacing ==
  /\ t1 # Never => /\ t1 <= now
                   /\ policy.lastTransition # Never
                   /\ t1 <= policy.lastTransition
  /\ t2 # Never => t1 # Never /\ t2 <= t1
  /\ t3 # Never => t2 # Never /\ t3 <= t2
  /\ policy.lastAction = "shrink" /\ t2 # Never => t1 - t2 >= Cooldown
  /\ policy.lastAction = a1
  /\ ActionsAreSpaced
  /\ OnlyRollbackIsEarly

LEMMA SpacingStep == TypeOK /\ Spacing /\ [Next]_vars => Spacing'
<1> SUFFICES ASSUME TypeOK, Spacing, [Next]_vars
             PROVE  Spacing'
  OBVIOUS
<1> USE ClockAssumption, PolicyAssumption
<1>1. ASSUME NEW gap \in 1..MaxGap, NEW s \in Samples, Sample(gap, s)
      PROVE  Spacing'
  <2>1. /\ now' \in Nat /\ now' >= now
        /\ policy' = Evaluate(policy, s, now')
        /\ decided' = ActionOf(policy, policy')
        /\ policy \in Policies
        /\ ActionOf(policy, Evaluate(policy, s, now')) = decided'
    BY <1>1 DEF Sample, TypeOK
  <2>2. CASE decided' = "none"
    <3>a. ActionOf(policy, Evaluate(policy, s, now')) = "none"
      BY <2>1, <2>2
    <3>b. policy \in Policies /\ now' \in Nat
      BY <2>1
    <3>c. /\ Evaluate(policy, s, now').lastTransition = policy.lastTransition
          /\ Evaluate(policy, s, now').lastAction = policy.lastAction
      BY <3>a, <3>b, QuietEvaluation
    <3>1. /\ policy'.lastTransition = policy.lastTransition
          /\ policy'.lastAction = policy.lastAction
      BY <2>1, <3>c
    <3>2. UNCHANGED <<t1, t2, t3, a1, a2>>
      BY <1>1, <2>2 DEF Sample
    <3>3. QED
      BY <2>1, <3>1, <3>2 DEF Spacing, ActionsAreSpaced, OnlyRollbackIsEarly, TypeOK, Times, Never
  <2>3. CASE decided' # "none"
    <3>a. ActionOf(policy, Evaluate(policy, s, now')) # "none"
      BY <2>1, <2>3
    <3>b. policy \in Policies /\ now' \in Nat
      BY <2>1
    <3>c. /\ Evaluate(policy, s, now').lastTransition = now'
          /\ Evaluate(policy, s, now').lastAction = ActionOf(policy, Evaluate(policy, s, now'))
          /\ Cooling(policy, now') => /\ policy.lastAction = "shrink"
                                      /\ Evaluate(policy, s, now').lastAction = "rollback_expand"
      BY <3>a, <3>b, ActingEvaluation
    <3>1. /\ policy'.lastTransition = now'
          /\ policy'.lastAction = decided'
          /\ Cooling(policy, now') => /\ policy.lastAction = "shrink"
                                      /\ policy'.lastAction = "rollback_expand"
      BY <2>1, <3>c
    <3>2. /\ t1' = now' /\ t2' = t1 /\ t3' = t2
          /\ a1' = decided' /\ a2' = a1
      BY <1>1, <2>3 DEF Sample
    <3>t. policy.lastTransition \in Times
      BY <2>1 DEF Policies
    <3>3. t1 # Never /\ ~Cooling(policy, now') => now' - t1 >= Cooldown
      <4> SUFFICES ASSUME t1 # Never, ~Cooling(policy, now')
                   PROVE  now' - t1 >= Cooldown
        OBVIOUS
      <4>1. /\ policy.lastTransition # Never
            /\ t1 <= policy.lastTransition
        BY DEF Spacing
      <4>2. ~(now' - policy.lastTransition < Cooldown)
        BY <4>1 DEF Cooling
      <4>3. t1 \in Nat /\ policy.lastTransition \in Nat
        BY <3>t, <4>1 DEF TypeOK, Times
      <4>4. now' \in Nat /\ Cooldown \in Nat
        BY <2>1
      <4>5. QED
        BY <4>1, <4>2, <4>3, <4>4, Later
    <3>4. t2 # Never => now' - t2 >= Cooldown
      <4> SUFFICES ASSUME t2 # Never
                   PROVE  now' - t2 >= Cooldown
        OBVIOUS
      <4>1. t1 \in Nat /\ t2 \in Nat /\ t2 <= t1 /\ t1 <= now /\ t1 # Never
        BY DEF Spacing, TypeOK, Times
      <4>2. now \in Nat /\ now' \in Nat /\ now <= now' /\ Cooldown \in Nat
        BY <2>1 DEF TypeOK
      <4>3. CASE Cooling(policy, now')
        <5>1. t1 - t2 >= Cooldown
          BY <3>1, <4>3 DEF Spacing
        <5>2. QED
          BY <4>1, <4>2, <5>1, LaterStill
      <4>4. CASE ~Cooling(policy, now')
        <5>1. now' - t1 >= Cooldown
          BY <3>3, <4>1, <4>4
        <5>2. QED
          BY <4>1, <4>2, <5>1, LaterStill
      <4>5. QED
        BY <4>3, <4>4
    <3>5. ActionsAreSpaced'
      BY <3>2, <3>4 DEF ActionsAreSpaced
    <3>6. t1 # Never /\ now' - t1 < Cooldown =>
            decided' = "rollback_expand" /\ policy.lastAction = "shrink"
      <4>1. t1 # Never => now' \in Nat /\ t1 \in Nat /\ Cooldown \in Nat
        BY <2>1 DEF TypeOK, Times
      <4>2. t1 # Never /\ now' - t1 < Cooldown => Cooling(policy, now')
        BY <3>3, <4>1
      <4>3. QED
        BY <3>1, <4>2
    <3>7. OnlyRollbackIsEarly'
      BY <3>2, <3>6 DEF OnlyRollbackIsEarly, Spacing
    <3>8. /\ t1' <= now' /\ policy'.lastTransition # Never
          /\ t1' <= policy'.lastTransition
      BY <2>1, <3>1, <3>2 DEF Never
    <3>9. /\ t2' # Never => t1' # Never /\ t2' <= t1'
          /\ t3' # Never => t2' # Never /\ t3' <= t2'
      BY <2>1, <3>2 DEF Spacing, TypeOK, Times, Never
    <3>10. policy'.lastAction = "shrink" /\ t2' # Never => t1' - t2' >= Cooldown
      BY <3>1, <3>2, <3>3
    <3>11. policy'.lastAction = a1'
      BY <3>1, <3>2
    <3>12. QED
      BY <3>5, <3>7, <3>8, <3>9, <3>10, <3>11 DEF Spacing
  <2>4. QED
    BY <2>2, <2>3
<1>2. ASSUME NEW d \in 0..MaxGap, ActionApplied(d)
      PROVE  Spacing'
  BY <1>2 DEF ActionApplied, Spacing, ActionsAreSpaced, OnlyRollbackIsEarly, TypeOK, Times, Never
<1>3. ASSUME NEW d \in 0..MaxGap, ActionFailed(d)
      PROVE  Spacing'
  <2>1. policy'.lastTransition = now' /\ policy'.lastAction = policy.lastAction
    BY <1>3 DEF ActionFailed, ForceState, TypeOK, Policies
  <2>2. QED
    BY <1>3, <2>1 DEF ActionFailed, Spacing, ActionsAreSpaced, OnlyRollbackIsEarly, TypeOK, Times, Never
<1>4. CASE UNCHANGED vars
  BY <1>4 DEF vars, Spacing, ActionsAreSpaced, OnlyRollbackIsEarly
<1>5. QED
  BY <1>1, <1>2, <1>3, <1>4 DEF Next, Ended

LEMMA SpacingAlways == Spec => []Spacing
<1>1. Init => Spacing
  BY DEF Init, Spacing, ActionsAreSpaced, OnlyRollbackIsEarly, InitialPolicy, Never
<1>2. QED
  BY <1>1, SpacingStep, TypeCorrect, PTL DEF Spec

(***************************************************************************)
(* Three consecutive actions always span the cooldown.                     *)
(***************************************************************************)
THEOREM NoFlapping == Spec => []ActionsAreSpaced
<1>1. Spacing => ActionsAreSpaced
  BY DEF Spacing
<1>2. QED
  BY <1>1, SpacingAlways, PTL

(***************************************************************************)
(* Only the rollback of a shrink may act inside the cooldown.              *)
(***************************************************************************)
THEOREM EarlyMeansRollback == Spec => []OnlyRollbackIsEarly
<1>1. Spacing => OnlyRollbackIsEarly
  BY DEF Spacing
<1>2. QED
  BY <1>1, SpacingAlways, PTL
-------------------------------------------------------------------------------
(***************************************************************************)
(* Evidence.  The policy's own counters never claim more than the samples  *)
(* gave: its matches are at most the run of high samples, and its low      *)
(* period did not begin before the samples' own.                           *)
(***************************************************************************)
Evidence ==
  /\ policy.matches <= highRun
  /\ policy.shrinkSince # Never => lowSince # Never /\ lowSince <= policy.shrinkSince
  /\ lowSince # Never => lowSince <= now
  /\ pending # "none" => policy.matches = 0 /\ policy.shrinkSince = Never
  /\ ActionsHaveEvidence

LEMMA EvidenceStep == TypeOK /\ Spacing /\ Evidence /\ [Next]_vars => Evidence'
<1> SUFFICES ASSUME TypeOK, Spacing, Evidence, [Next]_vars
             PROVE  Evidence'
  OBVIOUS
<1> USE ClockAssumption, PolicyAssumption
<1>1. ASSUME NEW gap \in 1..MaxGap, NEW s \in Samples, Sample(gap, s)
      PROVE  Evidence'
  <2> DEFINE q == Evaluate(policy, s, now')
  <2>1. /\ now' \in Nat /\ now' >= now /\ now \in Nat
        /\ policy \in Policies
        /\ policy' = q
        /\ decided' = ActionOf(policy, q)
        /\ pending' = decided'
    BY <1>1 DEF Sample, TypeOK
  <2>2. /\ policy.matches \in Nat /\ highRun \in Nat /\ policy.matches <= highRun
        /\ policy.shrinkSince \in Times /\ lowSince \in Times
    BY <2>1 DEF Evidence, TypeOK, Policies
  <2>3. /\ highRun' = IF Usable(s) /\ s.high THEN highRun + 1 ELSE 0
        /\ lowSince' = IF Usable(s) /\ s.low
                       THEN IF lowSince = Never THEN now' ELSE lowSince
                       ELSE Never
    BY <1>1 DEF Sample
  <2>4. lowSince' # Never => lowSince' <= now'
    BY <2>1, <2>2, <2>3 DEF Evidence, Times
  <2>5. CASE decided' = "none"
    <3>a. ActionOf(policy, q) = "none"
      BY <2>1, <2>5
    <3>b. /\ \/ q.matches = 0
             \/ Usable(s) /\ s.high /\ q.matches = policy.matches + 1
          /\ \/ q.shrinkSince = Never
             \/ /\ Usable(s) /\ s.low
                /\ q.shrinkSince = IF policy.shrinkSince = Never THEN now' ELSE policy.shrinkSince
      BY <2>1, <3>a, QuietEvidence DEF Usable
    <3> HIDE DEF q
    <3>1. policy'.matches <= highRun'
      BY <2>1, <2>2, <2>3, <3>b
    <3>2. policy'.shrinkSince # Never => lowSince' # Never /\ lowSince' <= policy'.shrinkSince
      BY <2>1, <2>2, <2>3, <2>4, <3>b DEF Evidence, Times, Never
    <3>3. ActionsHaveEvidence'
      BY <2>1, <2>5 DEF ActionsHaveEvidence
    <3>4. QED
      BY <2>1, <2>4, <2>5, <3>1, <3>2, <3>3 DEF Evidence
  <2>6. CASE decided' # "none"
    <3>a. ActionOf(policy, q) # "none"
      BY <2>1, <2>6
    <3>b. q.matches = 0 /\ q.shrinkSince = Never
      BY <2>1, <3>a, ActingEvaluation
    <3>c. /\ s.active /\ s.valid
          /\ decided' = "expand" => s.high /\ policy.matches + 1 >= DecisionWindow
          /\ decided' = "rollback_expand" => s.high /\ policy.matches + 1 >= RollbackConfirm
          /\ decided' = "shrink" =>
               /\ s.low
               /\ Elapsed(now', IF policy.shrinkSince = Never THEN now' ELSE policy.shrinkSince,
                          ShrinkConfirm)
               /\ Elapsed(now', policy.lastTransition, MinimumDwell)
      BY <2>1, <2>6, ConfirmedEvaluation
    <3>d. now \in Nat /\ now' \in Nat /\ ShrinkConfirm \in Nat /\ MinimumDwell \in Nat
      BY <2>1
    <3>e. decided' \in PolicyActions
      BY <2>1, <2>6, EvaluateType
    <3> HIDE DEF q
    <3>1. t1' = now' /\ t2' = t1
      BY <1>1, <2>6 DEF Sample
    <3>2. decided' = "expand" => highRun' >= DecisionWindow
      BY <2>2, <2>3, <3>c DEF Usable
    <3>3. decided' = "rollback_expand" => highRun' >= RollbackConfirm
      BY <2>2, <2>3, <3>c DEF Usable
    <3>4. ASSUME decided' = "shrink"
          PROVE  /\ lowSince' # Never
                 /\ t1' - lowSince' >= ShrinkConfirm
                 /\ t2' # Never => t1' - t2' >= MinimumDwell
      <4>1. lowSince' = IF lowSince = Never THEN now' ELSE lowSince
        BY <2>3, <3>c, <3>4 DEF Usable
      <4>2. lowSince' # Never /\ lowSince' \in Nat
        BY <2>1, <2>2, <4>1 DEF Times, Never
      <4>3. now' - lowSince' >= ShrinkConfirm
        <5>1. CASE policy.shrinkSince = Never
          <6>1. Elapsed(now', now', ShrinkConfirm)
            BY <3>c, <3>4, <5>1
          <6>2. QED
            BY <2>4, <3>d, <4>2, <6>1, LongSince
        <5>2. CASE policy.shrinkSince # Never
          <6>1. Elapsed(now', policy.shrinkSince, ShrinkConfirm)
            BY <3>c, <3>4, <5>2
          <6>2. lowSince' <= policy.shrinkSince /\ policy.shrinkSince \in Nat
            BY <2>2, <4>1, <5>2 DEF Evidence, Times
          <6>3. QED
            BY <3>d, <4>2, <6>1, <6>2, LongSince
        <5>3. QED
          BY <5>1, <5>2
      <4>4. ASSUME t1 # Never
            PROVE  now' - t1 >= MinimumDwell
        <5>1. policy.lastTransition # Never /\ t1 <= policy.lastTransition
          BY <4>4 DEF Spacing
        <5>2. policy.lastTransition \in Nat /\ t1 \in Nat
          BY <2>1, <4>4, <5>1 DEF Policies, TypeOK, Times
        <5>3. Elapsed(now', policy.lastTransition, MinimumDwell)
          BY <3>c, <3>4
        <5>4. QED
          BY <3>d, <5>1, <5>2, <5>3, LongSince
      <4>5. QED
        BY <3>1, <4>2, <4>3, <4>4
    <3>5. ActionsHaveEvidence'
      BY <2>1, <3>2, <3>3, <3>4, <3>e DEF ActionsHaveEvidence, PolicyActions
    <3>6. policy'.matches <= highRun'
      BY <2>1, <2>2, <2>3, <3>b
    <3>7. policy'.matches = 0 /\ policy'.shrinkSince = Never
      BY <2>1, <3>b
    <3>8. QED
      BY <2>4, <3>5, <3>6, <3>7 DEF Evidence
  <2>7. QED
    BY <2>5, <2>6
<1>2. ASSUME NEW d \in 0..MaxGap, ActionApplied(d)
      PROVE  Evidence'
  <2>1. /\ policy' = policy /\ policy.matches = 0 /\ policy.shrinkSince = Never
        /\ pending' = "none" /\ highRun' = 0 /\ lowSince' = Never
    BY <1>2 DEF ActionApplied, Evidence
  <2>2. QED
    BY <2>1 DEF Evidence, ActionsHaveEvidence
<1>3. ASSUME NEW d \in 0..MaxGap, ActionFailed(d)
      PROVE  Evidence'
  <2>1. policy'.matches = 0 /\ policy'.shrinkSince = Never
    BY <1>3 DEF ActionFailed, ForceState, TypeOK, Policies
  <2>2. pending' = "none" /\ highRun' = 0 /\ lowSince' = Never
    BY <1>3 DEF ActionFailed
  <2>3. QED
    BY <2>1, <2>2 DEF Evidence, ActionsHaveEvidence
<1>4. CASE UNCHANGED vars
  BY <1>4 DEF vars, Evidence, ActionsHaveEvidence
<1>5. QED
  BY <1>1, <1>2, <1>3, <1>4 DEF Next, Ended

(***************************************************************************)
(* Every expansion rests on a full window of high samples and every shrink *)
(* on a low period that lasted, none of it broken by an unusable sample or *)
(* left over from before a failed action.                                  *)
(***************************************************************************)
THEOREM EvidenceForActions == Spec => []ActionsHaveEvidence
<1>1. Init => Evidence
  BY DEF Init, Evidence, ActionsHaveEvidence, InitialPolicy, Never
<1>2. Evidence => ActionsHaveEvidence
  BY DEF Evidence
<1>3. QED
  BY <1>1, <1>2, EvidenceStep, SpacingAlways, TypeCorrect, PTL DEF Spec

-------------------------------------------------------------------------------
(***************************************************************************)
(* The pressure policy in this loop.                                       *)
(***************************************************************************)

\* A step of the pressure policy, or one that leaves its part alone.
Aside == UNCHANGED pressureVars /\ now' \in {now, now + 1}

\* Every step is one or the other.
LEMMA PolicyStepSplit ==
  ASSUME TypeOK, [PolicyNext]_policyVars
  PROVE  [Next]_vars \/ Aside
<1>0. now \in Nat
  BY DEF TypeOK
<1>1. CASE kind = "pressure" /\ Next /\ UNCHANGED loopVars
  BY <1>1
<1>2. CASE \E phase \in 1..MaxPhase, seq \in 1..MaxSequence : KpiArrives(phase, seq)
  BY <1>2 DEF KpiArrives, Aside
<1>3. CASE \E reading \in Readings(gone) :
             \E sample \in ModelSamples(kind, latest, Measures(source, reading)) :
               ModelSample(reading, sample)
  BY <1>3 DEF ModelSample, Aside
<1>4. CASE \E delay \in 0..1 : DecisionApplied(delay) \/ DecisionReverted(delay)
  <2> PICK delay \in 0..1 : DecisionApplied(delay) \/ DecisionReverted(delay)
    BY <1>4
  <2>1. UNCHANGED pressureVars /\ now' = now + delay
    BY DEF DecisionApplied, DecisionReverted
  <2>2. now + delay \in {now, now + 1}
    BY <1>0
  <2> QED
    BY <2>1, <2>2 DEF Aside
<1>5. CASE ModelEnded \/ UNCHANGED policyVars
  BY <1>5 DEF ModelEnded, policyVars
<1> QED
  BY <1>1, <1>2, <1>3, <1>4, <1>5 DEF PolicyNext

\* A step that leaves the pressure policy alone only lets time pass.
LEMMA AsideStep ==
  ASSUME TypeOK, Spacing, Evidence, Aside
  PROVE  TypeOK' /\ Spacing' /\ Evidence'
<1>1. now \in Nat /\ now' \in Nat /\ now <= now'
  BY DEF Aside, TypeOK
<1>2. TypeOK'
  BY <1>1 DEF Aside, TypeOK, pressureVars
<1>3. Spacing'
  BY <1>1 DEF Aside, pressureVars, Spacing, ActionsAreSpaced, OnlyRollbackIsEarly, TypeOK, Times,
              Never
<1>4. Evidence'
  <2>1. /\ UNCHANGED <<policy, pending, highRun, lowSince>>
        /\ lowSince # Never => lowSince <= now'
    BY <1>1 DEF Aside, pressureVars, Evidence, TypeOK, Times
  <2>2. ActionsHaveEvidence'
    BY DEF Aside, pressureVars, Evidence, ActionsHaveEvidence
  <2> QED
    BY <2>1, <2>2 DEF Evidence
<1> QED
  BY <1>2, <1>3, <1>4

\* The invariants of the pressure policy hold in this loop.
LEMMA PressureInvariant == PolicySpec => [](TypeOK /\ Spacing /\ Evidence)
<1>1. PolicyInit => TypeOK /\ Spacing /\ Evidence
  <2> SUFFICES ASSUME PolicyInit PROVE TypeOK /\ Spacing /\ Evidence
    OBVIOUS
  <2>1. Init
    BY DEF PolicyInit
  <2>2. TypeOK
    BY <2>1 DEF Init, TypeOK, InitialPolicy, Policies, Times, Never, PolicyActions
  <2>3. Spacing
    BY <2>1 DEF Init, Spacing, ActionsAreSpaced, OnlyRollbackIsEarly, InitialPolicy, Never
  <2>4. Evidence
    BY <2>1 DEF Init, Evidence, ActionsHaveEvidence, InitialPolicy, Never
  <2> QED
    BY <2>2, <2>3, <2>4
<1>2. TypeOK /\ Spacing /\ Evidence /\ [PolicyNext]_policyVars => (TypeOK /\ Spacing /\ Evidence)'
  BY PolicyStepSplit, AsideStep, TypeStep, SpacingStep, EvidenceStep
<1> QED
  BY <1>1, <1>2, PTL DEF PolicySpec

(***************************************************************************)
(* With every policy three consecutive actions of the pressure part span   *)
(* the cooldown, only the rollback of a shrink comes inside it, and every  *)
(* action rests on evidence nothing interrupted: the loop around the       *)
(* policy, its shadow mode and its failed actions included, does not       *)
(* disturb what policy.py 76-144 promises (runtime.py 295-314, 457-459).   *)
(***************************************************************************)
THEOREM PressureInEveryLoop ==
  PolicySpec => [](TypeOK /\ ActionsAreSpaced /\ OnlyRollbackIsEarly /\ ActionsHaveEvidence)
<1>1. TypeOK /\ Spacing /\ Evidence
        => TypeOK /\ ActionsAreSpaced /\ OnlyRollbackIsEarly /\ ActionsHaveEvidence
  BY DEF Spacing, Evidence
<1> QED
  BY <1>1, PressureInvariant, PTL

-------------------------------------------------------------------------------
(***************************************************************************)
(* Sequences of KPI windows.                                               *)
(***************************************************************************)
KpiWindows == [phase : Nat, seq : Nat]

\* Windows of one phase, each other than the one before, later unless the
\* phase is one of back, and the next one if there may be no gap.
Chain(w, gapless, back) ==
  \A i \in 1 .. Len(w) - 1 :
    /\ w[i + 1].phase = w[i].phase
    /\ w[i + 1] # w[i]
    /\ w[i].phase \notin back => w[i + 1].seq > w[i].seq
    /\ gapless => w[i + 1].seq = w[i].seq + 1

\* A window that may follow the last one.
Continues(w, key, gapless, back) ==
  w # << >> => /\ key.phase = Last(w).phase
               /\ key # Last(w)
               /\ key.phase \notin back => key.seq > Last(w).seq
               /\ gapless => key.seq = Last(w).seq + 1

\* The windows after a new one: all of them, or without the first.
Slid(w, key) ==
  LET all == Append(w, key)
  IN  IF Len(all) > DecisionWindow THEN Tail(all) ELSE all

\* No windows are in order.
LEMMA EmptyChain == ASSUME NEW g, NEW a PROVE Chain(<< >>, g, a) /\ << >> \in Seq(KpiWindows)
BY DEF Chain

\* A window that follows the others is put after them.
LEMMA AppendedChain ==
  ASSUME NEW w \in Seq(KpiWindows), NEW key \in KpiWindows, NEW g, NEW a,
         Chain(w, g, a), Continues(w, key, g, a)
  PROVE  /\ Append(w, key) \in Seq(KpiWindows) /\ Chain(Append(w, key), g, a)
         /\ Append(w, key) # << >> /\ Last(Append(w, key)) = key
<1> DEFINE all == Append(w, key)
<1>1. /\ all \in Seq(KpiWindows) /\ Len(all) = Len(w) + 1 /\ Len(w) \in Nat
      /\ all[Len(w) + 1] = key
      /\ \A i \in 1..Len(w) : all[i] = w[i]
  OBVIOUS
<1>2. all # << >> /\ Last(all) = key
  BY <1>1 DEF Last
<1>3. ASSUME NEW i \in 1 .. Len(all) - 1
      PROVE  /\ all[i + 1].phase = all[i].phase
             /\ all[i + 1] # all[i]
             /\ all[i].phase \notin a => all[i + 1].seq > all[i].seq
             /\ g => all[i + 1].seq = all[i].seq + 1
  <2>1. i \in 1..Len(w) /\ all[i] = w[i]
    BY <1>1
  <2>2. CASE i = Len(w)
    <3>1. w # << >> /\ Last(w) = w[i] /\ all[i + 1] = key
      BY <1>1, <2>1, <2>2 DEF Last
    <3> HIDE DEF all
    <3> QED
      BY <2>1, <3>1 DEF Continues
  <2>3. CASE i # Len(w)
    <3>1. i \in 1 .. Len(w) - 1 /\ i + 1 \in 1..Len(w)
      BY <1>1, <2>1, <2>3
    <3>2. all[i + 1] = w[i + 1]
      BY <1>1, <3>1
    <3> HIDE DEF all
    <3> QED
      BY <2>1, <3>1, <3>2 DEF Chain
  <2> QED
    BY <2>2, <2>3
<1>4. Chain(all, g, a)
  <2> HIDE DEF all
  <2> QED
    BY <1>3 DEF Chain
<1> QED
  BY <1>1, <1>2, <1>4

\* The first of several windows is forgotten.
LEMMA ShortenedChain ==
  ASSUME NEW w \in Seq(KpiWindows), NEW g, NEW a, Chain(w, g, a), Len(w) > 1
  PROVE  /\ Tail(w) \in Seq(KpiWindows) /\ Chain(Tail(w), g, a)
         /\ Tail(w) # << >> /\ Last(Tail(w)) = Last(w)
<1>1. /\ Tail(w) \in Seq(KpiWindows) /\ Len(Tail(w)) = Len(w) - 1 /\ Len(w) \in Nat
      /\ \A i \in 1 .. Len(w) - 1 : Tail(w)[i] = w[i + 1]
  OBVIOUS
<1>2. Tail(w) # << >> /\ Last(Tail(w)) = Last(w)
  <2>1. Len(w) - 1 \in 1 .. Len(w) - 1 /\ (Len(w) - 1) + 1 = Len(w)
    BY <1>1
  <2>2. Tail(w)[Len(w) - 1] = w[Len(w)]
    BY <1>1, <2>1
  <2> DEFINE t == Tail(w)
  <2>3. Len(t) = Len(w) - 1 /\ Len(w) - 1 # 0 /\ t[Len(w) - 1] = w[Len(w)]
    BY <1>1, <2>2
  <2> HIDE DEF t
  <2>4. t # << >> /\ Last(t) = Last(w)
    BY <2>3, EmptySeq DEF Last
  <2> QED
    BY <2>4 DEF t
<1>3. ASSUME NEW i \in 1 .. Len(Tail(w)) - 1
      PROVE  /\ Tail(w)[i + 1].phase = Tail(w)[i].phase
             /\ Tail(w)[i + 1] # Tail(w)[i]
             /\ Tail(w)[i].phase \notin a => Tail(w)[i + 1].seq > Tail(w)[i].seq
             /\ g => Tail(w)[i + 1].seq = Tail(w)[i].seq + 1
  <2>1. i \in 1 .. Len(w) - 1 /\ i + 1 \in 1 .. Len(w) - 1
    BY <1>1
  <2>2. Tail(w)[i] = w[i + 1] /\ Tail(w)[i + 1] = w[i + 1 + 1]
    BY <1>1, <2>1
  <2> QED
    BY <2>1, <2>2 DEF Chain
<1>4. Chain(Tail(w), g, a)
  BY <1>3 DEF Chain
<1> QED
  BY <1>1, <1>2, <1>4

\* A new window in its place keeps the order and is the last one.
LEMMA SlidChain ==
  ASSUME NEW w \in Seq(KpiWindows), NEW key \in KpiWindows, NEW g, NEW a,
         Chain(w, g, a), Continues(w, key, g, a)
  PROVE  /\ Slid(w, key) \in Seq(KpiWindows) /\ Chain(Slid(w, key), g, a)
         /\ Slid(w, key) # << >> /\ Last(Slid(w, key)) = key
<1> DEFINE all == Append(w, key)
<1>1. /\ all \in Seq(KpiWindows) /\ Chain(all, g, a) /\ all # << >> /\ Last(all) = key
  BY AppendedChain
<1>2. CASE Len(all) > DecisionWindow
  <2> HIDE DEF all
  <2>1. Len(all) > 1
    BY <1>2, <1>1, PolicyAssumption
  <2>2. /\ Tail(all) \in Seq(KpiWindows) /\ Chain(Tail(all), g, a)
        /\ Tail(all) # << >> /\ Last(Tail(all)) = Last(all)
    BY <1>1, <2>1, ShortenedChain
  <2>3. Slid(w, key) = Tail(all)
    BY <1>2 DEF Slid, all
  <2> QED
    BY <1>1, <2>2, <2>3
<1>3. CASE ~(Len(all) > DecisionWindow)
  BY <1>1, <1>3 DEF Slid
<1> QED
  BY <1>2, <1>3

\* The windows v after a sample: none, or at most one more than w where the
\* sample may keep them.
Within(w, v, keeps) ==
  v = << >> \/ (keeps /\ Len(v) <= DecisionWindow /\ Len(v) <= Len(w) + 1)

\* A new window makes one more, up to the decision window.
LEMMA SlidLength ==
  ASSUME NEW w \in Seq(KpiWindows), Len(w) <= DecisionWindow, NEW key \in KpiWindows
  PROVE  Within(w, Slid(w, key), TRUE)
<1> DEFINE all == Append(w, key)
<1>1. /\ all \in Seq(KpiWindows) /\ Len(all) = Len(w) + 1 /\ Len(w) \in Nat
      /\ DecisionWindow \in Nat
  BY PolicyAssumption
<1>2. CASE Len(all) > DecisionWindow
  <2>1. Len(Tail(all)) = Len(all) - 1
    BY <1>1
  <2>2. Slid(w, key) = Tail(all)
    BY <1>2 DEF Slid
  <2> HIDE DEF all
  <2> QED
    BY <1>1, <2>1, <2>2 DEF Within
<1>3. CASE ~(Len(all) > DecisionWindow)
  <2>1. Slid(w, key) = all
    BY <1>3 DEF Slid
  <2> HIDE DEF all
  <2> QED
    BY <1>1, <1>3, <2>1 DEF Within
<1> QED
  BY <1>2, <1>3

\* What is in order stays so when the file of more phases went back.
LEMMA ChainAnyway ==
  ASSUME NEW w, NEW g, NEW a, NEW more, a \subseteq more, Chain(w, g, a)
  PROVE  Chain(w, g, more)
BY DEF Chain

-------------------------------------------------------------------------------
(***************************************************************************)
(* What one evaluation does to the part all policies share.                *)
(***************************************************************************)

\* No decision.
Steady(p, q) ==
  q.state = p.state /\ q.lastTransition = p.lastTransition /\ q.lastAction = p.lastAction

\* A decision, which gives nothing away while the last one cools down.
Acts(p, q, t) ==
  /\ q.state # p.state /\ q.lastTransition = t
  /\ q.lastAction \in PolicyActions
  /\ Cooling(p, t) => q.lastAction \in Widening

\* The pressure part decides in this way.
LEMMA EvaluatedBase ==
  ASSUME NEW p \in Policies, NEW s, NEW t \in Nat
  PROVE  /\ Evaluate(p, s, t) \in Policies
         /\ Steady(p, Evaluate(p, s, t)) \/ Acts(p, Evaluate(p, s, t), t)
<1> DEFINE q == Evaluate(p, s, t)
<1>1. q \in Policies /\ ActionOf(p, q) \in PolicyActions \cup {"none"}
  BY EvaluateType
<1>2. CASE ActionOf(p, q) = "none"
  BY <1>1, <1>2, EvaluateMoves, QuietEvaluation DEF Steady
<1>3. CASE ActionOf(p, q) # "none"
  <2>1. q.state # p.state
    BY <1>3 DEF ActionOf
  <2>2. /\ q.lastTransition = t /\ q.lastAction = ActionOf(p, q)
        /\ Cooling(p, t) => q.lastAction = "rollback_expand"
    BY <1>3, ActingEvaluation
  <2> QED
    BY <1>1, <1>3, <2>1, <2>2 DEF Acts, Widening
<1> QED
  BY <1>1, <1>2, <1>3

\* So does a model whose decision was not held back, or expands.
LEMMA MovedBase ==
  ASSUME NEW p \in Policies, NEW s \in States, NEW t \in Nat
  PROVE  /\ Moved(p, s, t) \in Policies /\ Moved(p, s, t).state = s
         /\ Moved(p, s, t).lastAction = Direction(s)
         /\ s # p.state /\ (~Held(p, t) \/ s = "two_node") => Acts(p, Moved(p, s, t), t)
<1>1. /\ Moved(p, s, t) \in Policies /\ Moved(p, s, t).state = s
      /\ Moved(p, s, t).lastTransition = t /\ Moved(p, s, t).lastAction = Direction(s)
      /\ Direction(s) \in PolicyActions /\ (s = "two_node" => Direction(s) \in Widening)
  BY DEF Moved, Direction, Policies, Times, PolicyActions, States, Widening
<1>2. ~Held(p, t) => ~Cooling(p, t)
  BY DEF Held
<1> QED
  BY <1>1, <1>2 DEF Acts

\* The other state.
LEMMA OtherIsOther ==
  ASSUME NEW s \in States
  PROVE  Other(s) \in States /\ Other(s) # s /\ (s = "one_node" => Other(s) = "two_node")
BY DEF Other, States

-------------------------------------------------------------------------------
(***************************************************************************)
(* The benefit policy.                                                     *)
(***************************************************************************)
Benefits == [base : Policies, windows : Seq(KpiWindows), lastKey : KpiWindows]

\* A window is no newer than the file it is read from, unless that went back.
UpTo(key, file, back) ==
  \/ key.phase < file.phase
  \/ key.phase = file.phase /\ (file.phase \in back \/ key.seq <= file.seq)

\* The windows are in order and end with the last one that was read.
BenefitOrder(b, file, back) ==
  /\ Chain(b.windows, FALSE, back)
  /\ b.windows # << >> => Last(b.windows) = b.lastKey
  /\ UpTo(b.lastKey, file, back)

\* A new window joins those of its phase.
LEMMA ObservedOrder ==
  ASSUME NEW b \in Benefits, NEW file \in KpiWindows, NEW key \in {NoKey, file}, NEW back,
         BenefitOrder(b, file, back), Len(b.windows) <= DecisionWindow
  PROVE  /\ Observed(b, key) \in Benefits /\ Observed(b, key).base = b.base
         /\ BenefitOrder(Observed(b, key), file, back)
         /\ Within(b.windows, Observed(b, key).windows, TRUE)
<1>1. CASE key = NoKey \/ key = b.lastKey
  <2>1. Observed(b, key) = b /\ Len(b.windows) \in Nat
    BY <1>1 DEF Observed, Benefits
  <2> QED
    BY <2>1 DEF Within
<1>2. CASE key # NoKey /\ key # b.lastKey
  <2> DEFINE kept == IF b.windows # << >> /\ Last(b.windows).phase # key.phase
                     THEN << >> ELSE b.windows
  <2>1. key = file /\ key \in KpiWindows /\ b.lastKey \in KpiWindows /\ b.windows \in Seq(KpiWindows)
    BY <1>2 DEF Benefits
  <2>2. kept \in Seq(KpiWindows) /\ Chain(kept, FALSE, back)
    BY <2>1, EmptyChain DEF BenefitOrder
  <2>3. Continues(kept, key, FALSE, back)
    <3> SUFFICES ASSUME kept # << >>
                 PROVE  /\ key.phase = Last(kept).phase /\ key # Last(kept)
                        /\ key.phase \notin back => key.seq > Last(kept).seq
      BY DEF Continues
    <3>1. kept = b.windows /\ Last(b.windows).phase = key.phase /\ b.windows # << >>
      OBVIOUS
    <3>2. Last(b.windows) = b.lastKey /\ UpTo(b.lastKey, key, back)
      BY <2>1, <3>1 DEF BenefitOrder
    <3>3. /\ key.phase \in Nat /\ key.seq \in Nat
          /\ b.lastKey.phase \in Nat /\ b.lastKey.seq \in Nat
      BY <2>1 DEF KpiWindows
    <3>4. /\ b.lastKey.phase = key.phase
          /\ key.phase \notin back => b.lastKey.seq <= key.seq
      BY <3>1, <3>2, <3>3 DEF UpTo
    <3>5. b.lastKey.seq # key.seq
      BY <1>2, <2>1, <3>4 DEF KpiWindows
    <3> QED
      BY <1>2, <3>1, <3>2, <3>3, <3>4, <3>5
  <2> DEFINE slid == Slid(kept, key)
  <2>4. /\ slid \in Seq(KpiWindows) /\ Chain(slid, FALSE, back)
        /\ slid # << >> /\ Last(slid) = key
    BY <2>1, <2>2, <2>3, SlidChain
  <2>8. Within(b.windows, slid, TRUE)
    <3>1. Len(kept) <= DecisionWindow /\ Len(kept) <= Len(b.windows)
      BY <2>1, PolicyAssumption
    <3>2. Within(kept, slid, TRUE)
      BY <2>1, <2>2, <3>1, SlidLength
    <3>3. Len(kept) \in Nat /\ Len(b.windows) \in Nat /\ Len(slid) \in Nat
      BY <2>1, <2>2, <2>4
    <3> HIDE DEF kept, slid
    <3> QED
      BY <3>1, <3>2, <3>3, PolicyAssumption DEF Within
  <2>5. Observed(b, key) = [b EXCEPT !.lastKey = key, !.windows = slid]
    BY <1>2 DEF Observed, Slid
  <2> HIDE DEF slid
  <2>6. /\ Observed(b, key) \in Benefits /\ Observed(b, key).base = b.base
        /\ Observed(b, key).windows = slid /\ Observed(b, key).lastKey = key
    BY <2>1, <2>4, <2>5 DEF Benefits
  <2>7. UpTo(key, file, back)
    BY <2>1 DEF UpTo, KpiWindows
  <2> QED
    BY <2>4, <2>6, <2>7, <2>8 DEF BenefitOrder
<1> QED
  BY <1>1, <1>2

\* One evaluation of the benefit policy.
LEMMA BenefitEvaluation ==
  ASSUME NEW b \in Benefits, NEW file \in KpiWindows, NEW back, BenefitOrder(b, file, back),
         Len(b.windows) <= DecisionWindow,
         NEW s, s.kpi \in {NoKey, file}, s.verdict \in BenefitVerdicts, NEW t \in Nat
  PROVE  LET c == BenefitEvaluate(b, s, t)
         IN  /\ c \in Benefits /\ BenefitOrder(c, file, back)
             /\ Within(b.windows, c.windows, s.active)
             /\ Steady(b.base, c.base) \/ Acts(b.base, c.base, t)
<1> DEFINE c    == BenefitEvaluate(b, s, t)
           seen == Observed(b, s.kpi)
<1>1. b.base \in Policies /\ b.lastKey \in KpiWindows /\ b.windows \in Seq(KpiWindows)
  BY DEF Benefits
<1>2. /\ seen \in Benefits /\ seen.base = b.base /\ BenefitOrder(seen, file, back)
      /\ Within(b.windows, seen.windows, TRUE)
  BY ObservedOrder
<1>3. /\ Evaluate(b.base, s, t) \in Policies
      /\ Steady(b.base, Evaluate(b.base, s, t)) \/ Acts(b.base, Evaluate(b.base, s, t), t)
  BY <1>1, EvaluatedBase
<1> HIDE DEF seen
<1>4. CASE ~s.active
  <2>1. c = [b EXCEPT !.base = Evaluate(b.base, s, t), !.windows = << >>]
    BY <1>4 DEF BenefitEvaluate
  <2> HIDE DEF c
  <2>2. /\ c \in Benefits /\ c.base = Evaluate(b.base, s, t)
        /\ c.windows = << >> /\ c.lastKey = b.lastKey
    BY <1>3, <2>1, EmptyChain DEF Benefits
  <2>3. BenefitOrder(c, file, back)
    BY <2>2, EmptyChain DEF BenefitOrder
  <2> QED
    BY <1>3, <2>2, <2>3 DEF c, Within
<1>5. CASE s.active /\ (Len(seen.windows) < DecisionWindow \/ s.verdict = "outside")
  <2>1. c = [seen EXCEPT !.base = Evaluate(b.base, s, t)]
    BY <1>2, <1>5 DEF BenefitEvaluate, seen
  <2> HIDE DEF c
  <2>2. /\ c \in Benefits /\ c.base = Evaluate(b.base, s, t)
        /\ c.windows = seen.windows /\ c.lastKey = seen.lastKey
    BY <1>2, <1>3, <2>1 DEF Benefits
  <2>3. BenefitOrder(c, file, back)
    BY <1>2, <2>2 DEF BenefitOrder
  <2> QED
    BY <1>2, <1>3, <1>5, <2>2, <2>3 DEF c, Within
<1>6. CASE /\ s.active /\ ~(Len(seen.windows) < DecisionWindow \/ s.verdict = "outside")
           /\ s.verdict = b.base.state \/ Held(b.base, t)
  <2>1. c = seen
    BY <1>2, <1>6 DEF BenefitEvaluate, seen
  <2> QED
    BY <1>2, <1>6, <2>1 DEF Steady, Within
<1>7. CASE /\ s.active /\ ~(Len(seen.windows) < DecisionWindow \/ s.verdict = "outside")
           /\ ~(s.verdict = b.base.state \/ Held(b.base, t))
  <2>1. c = [seen EXCEPT !.base = Moved(b.base, s.verdict, t), !.windows = << >>]
    BY <1>2, <1>7 DEF BenefitEvaluate, seen
  <2>2. s.verdict \in States
    BY <1>7 DEF BenefitVerdicts
  <2>3. Moved(b.base, s.verdict, t) \in Policies /\ Acts(b.base, Moved(b.base, s.verdict, t), t)
    BY <1>1, <1>7, <2>2, MovedBase
  <2> HIDE DEF c
  <2>4. /\ c \in Benefits /\ c.base = Moved(b.base, s.verdict, t)
        /\ c.windows = << >> /\ c.lastKey = seen.lastKey
    BY <1>2, <2>1, <2>3, EmptyChain DEF Benefits
  <2>5. BenefitOrder(c, file, back)
    BY <1>2, <2>4, EmptyChain DEF BenefitOrder
  <2> QED
    BY <2>3, <2>4, <2>5 DEF c, Within
<1> QED
  BY <1>4, <1>5, <1>6, <1>7

-------------------------------------------------------------------------------
(***************************************************************************)
(* The continuous policy.                                                  *)
(***************************************************************************)
Continuous ==
  [base : Policies, windows : Seq(KpiWindows), lastKey : KpiWindows, baseline : BOOLEAN,
   changes : Nat, shadowRec : States \cup {"none"}, rebase : BOOLEAN]

\* The windows follow one another and end with the last one that was read.
ContinuousOrder(c) ==
  /\ Chain(c.windows, TRUE, {})
  /\ c.windows # << >> => Last(c.windows) = c.lastKey /\ c.lastKey # NoKey

\* The windows of c, or none.
SameWindows(c, q) ==
  (q.windows = c.windows /\ q.lastKey = c.lastKey) \/ q.windows = << >>

\* Forgetting windows keeps the order of the others.
LEMMA SameWindowsOrder ==
  ASSUME NEW c, NEW q, ContinuousOrder(c), SameWindows(c, q)
  PROVE  ContinuousOrder(q)
BY EmptyChain DEF ContinuousOrder, SameWindows

\* _reset_windows.
LEMMA ResetContinuous ==
  ASSUME NEW c \in Continuous, NEW r \in BOOLEAN
  PROVE  /\ ResetWindows(c, r) \in Continuous /\ ResetWindows(c, r).base = c.base
         /\ ResetWindows(c, r).windows = << >> /\ ResetWindows(c, r).lastKey = NoKey
<1>1. << >> \in Seq(KpiWindows) /\ NoKey \in KpiWindows
  BY EmptyChain DEF NoKey, KpiWindows
<1> QED
  BY <1>1 DEF ResetWindows, Continuous

\* A decision of the continuous policy.
LEMMA MoveContinuous ==
  ASSUME NEW c \in Continuous, NEW s \in States, NEW t \in Nat
  PROVE  /\ ContinuousMove(c, s, t) \in Continuous
         /\ ContinuousMove(c, s, t).base = Moved(c.base, s, t)
         /\ ContinuousMove(c, s, t).windows = << >>
<1> DEFINE d == [c EXCEPT !.base = Moved(c.base, s, t), !.shadowRec = s]
<1>1. Moved(c.base, s, t) \in Policies
  BY MovedBase DEF Continuous
<1>2. d \in Continuous /\ d.base = Moved(c.base, s, t)
  BY <1>1 DEF Continuous
<1>3. ContinuousMove(c, s, t) = ResetWindows(d, FALSE)
  BY DEF ContinuousMove
<1> HIDE DEF d
<1> QED
  BY <1>2, <1>3, ResetContinuous

\* A new window joins the ones it follows directly.
LEMMA CountedOrder ==
  ASSUME NEW c \in Continuous, ContinuousOrder(c), Len(c.windows) <= DecisionWindow,
         NEW key \in KpiWindows, key # NoKey
  PROVE  /\ Counted(c, key) \in Continuous /\ Counted(c, key).base = c.base
         /\ ContinuousOrder(Counted(c, key))
         /\ Within(c.windows, Counted(c, key).windows, TRUE)
<1> DEFINE follows == c.lastKey = NoKey \/ key = [c.lastKey EXCEPT !.seq = @ + 1]
           r       == key.phase # c.lastKey.phase
           from    == IF follows THEN c ELSE ResetWindows(c, r)
<1>1. r \in BOOLEAN /\ c.windows \in Seq(KpiWindows) /\ c.lastKey \in KpiWindows
  BY DEF Continuous
<1>2. /\ ResetWindows(c, r) \in Continuous /\ ResetWindows(c, r).base = c.base
      /\ ResetWindows(c, r).windows = << >>
  BY <1>1, ResetContinuous
<1>3. from \in Continuous /\ from.base = c.base
  BY <1>2
<1>4. from.windows \in Seq(KpiWindows) /\ Chain(from.windows, TRUE, {})
  <2>1. CASE follows
    BY <1>1, <2>1 DEF ContinuousOrder
  <2>2. CASE ~follows
    BY <1>2, <2>2, EmptyChain
  <2> QED
    BY <2>1, <2>2
<1>5. Continues(from.windows, key, TRUE, {})
  <2> SUFFICES ASSUME from.windows # << >>
               PROVE  /\ key.phase = Last(from.windows).phase /\ key # Last(from.windows)
                      /\ key.seq = Last(from.windows).seq + 1
                      /\ key.seq > Last(from.windows).seq
    BY DEF Continues
  <2>1. follows /\ from = c
    BY <1>2
  <2>2. Last(c.windows) = c.lastKey /\ c.lastKey # NoKey
    BY <2>1 DEF ContinuousOrder
  <2>3. key = [c.lastKey EXCEPT !.seq = @ + 1]
    BY <2>1, <2>2
  <2>4. key.phase = c.lastKey.phase /\ key.seq = c.lastKey.seq + 1 /\ c.lastKey.seq \in Nat
    BY <1>1, <2>3 DEF KpiWindows
  <2>5. key.seq > c.lastKey.seq /\ key # c.lastKey
    BY <2>4
  <2> QED
    BY <2>1, <2>2, <2>4, <2>5
<1> DEFINE slid == Slid(from.windows, key)
<1>6. /\ slid \in Seq(KpiWindows) /\ Chain(slid, TRUE, {})
      /\ slid # << >> /\ Last(slid) = key
  BY <1>4, <1>5, SlidChain
<1>9. Within(c.windows, slid, TRUE)
  <2>1. from.windows = c.windows \/ from.windows = << >>
    BY <1>2
  <2>2. Len(from.windows) <= DecisionWindow /\ Len(from.windows) <= Len(c.windows)
    BY <1>1, <2>1, PolicyAssumption
  <2>3. Within(from.windows, slid, TRUE)
    BY <1>4, <2>2, SlidLength
  <2>4. Len(from.windows) \in Nat /\ Len(c.windows) \in Nat /\ Len(slid) \in Nat
    BY <1>1, <1>4, <1>6
  <2> HIDE DEF from, slid
  <2> QED
    BY <2>2, <2>3, <2>4, PolicyAssumption DEF Within
<1>7. Counted(c, key) = [from EXCEPT !.lastKey = key, !.windows = slid]
  BY DEF Counted, Slid
<1> HIDE DEF from, slid
<1>8. /\ Counted(c, key) \in Continuous /\ Counted(c, key).base = c.base
      /\ Counted(c, key).windows = slid /\ Counted(c, key).lastKey = key
  BY <1>3, <1>6, <1>7 DEF Continuous
<1> QED
  BY <1>6, <1>8, <1>9 DEF ContinuousOrder

\* _update_pressure_baseline touches no window.
LEMMA RebasedContinuous ==
  ASSUME NEW c \in Continuous, NEW changed
  PROVE  /\ Rebased(c, changed) \in Continuous /\ Rebased(c, changed).base = c.base
         /\ Rebased(c, changed).windows = c.windows
         /\ Rebased(c, changed).lastKey = c.lastKey
<1> DEFINE changes == IF c.baseline /\ changed THEN c.changes + 1 ELSE 0
           moved   == ~c.baseline \/ changes >= ChangeConfirm
<1>1. changes \in Nat /\ moved \in BOOLEAN
  BY DEF Continuous
<1>2. (c.rebase \/ moved) \in BOOLEAN /\ (IF moved THEN 0 ELSE changes) \in Nat
  BY <1>1
<1>3. Rebased(c, changed) =
        [c EXCEPT !.baseline = TRUE, !.rebase = c.rebase \/ moved,
                  !.changes = IF moved THEN 0 ELSE changes]
  BY DEF Rebased
<1> HIDE DEF changes, moved
<1> QED
  BY <1>2, <1>3 DEF Continuous

\* What the judgement of a sample inside or outside of the model may do.
Judged(c, q, t) ==
  /\ q \in Continuous /\ SameWindows(c, q)
  /\ Steady(c.base, q.base) \/ (Acts(c.base, q.base, t) /\ q.windows = << >>)

\* Outside the model.
LEMMA JudgedOutside ==
  ASSUME NEW c \in Continuous, NEW s, NEW t \in Nat, NEW how
  PROVE  Judged(c, JudgeOutside(c, s, t, how), t)
<1>1. c.base \in Policies /\ "two_node" \in States
  BY DEF Continuous, States
<1>2. CASE JudgeOutside(c, s, t, how) = c
  BY <1>2 DEF Judged, SameWindows, Steady
<1>3. CASE c.base.state = "one_node" /\ JudgeOutside(c, s, t, how) = ContinuousMove(c, "two_node", t)
  <2>1. /\ ContinuousMove(c, "two_node", t) \in Continuous
        /\ ContinuousMove(c, "two_node", t).base = Moved(c.base, "two_node", t)
        /\ ContinuousMove(c, "two_node", t).windows = << >>
    BY <1>1, MoveContinuous
  <2>2. Acts(c.base, Moved(c.base, "two_node", t), t)
    BY <1>1, <1>3, MovedBase
  <2> QED
    BY <1>3, <2>1, <2>2 DEF Judged, SameWindows
<1> QED
  BY <1>2, <1>3 DEF JudgeOutside

\* Inside the model.
LEMMA JudgedInside ==
  ASSUME NEW c \in Continuous, NEW s, NEW t \in Nat, NEW how
  PROVE  Judged(c, JudgeInside(c, s, t, how), t)
<1> DEFINE r == Rebased(c, s.changed)
           q == JudgeInside(c, s, t, how)
           target == Other(r.base.state)
<1>1. r \in Continuous /\ r.base = c.base /\ r.windows = c.windows /\ r.lastKey = c.lastKey
  BY RebasedContinuous
<1>2. c.base \in Policies /\ c.base.state \in States /\ r.base \in Policies
  BY <1>1 DEF Continuous, Policies
<1>3. \/ q = r
      \/ q = [r EXCEPT !.rebase = s.verdict = "uncertain"]
      \/ q = [r EXCEPT !.rebase = FALSE]
      \/ ~Held(r.base, t) /\ q = ContinuousMove([r EXCEPT !.rebase = FALSE], target, t)
  BY DEF JudgeInside
<1> HIDE DEF r, q
<1>4. CASE \/ q = r
           \/ q = [r EXCEPT !.rebase = s.verdict = "uncertain"]
           \/ q = [r EXCEPT !.rebase = FALSE]
  <2>1. q \in Continuous /\ q.base = r.base /\ q.windows = r.windows /\ q.lastKey = r.lastKey
    BY <1>1, <1>4 DEF Continuous
  <2> QED
    BY <1>1, <2>1 DEF Judged, SameWindows, Steady, q
<1>5. CASE ~Held(r.base, t) /\ q = ContinuousMove([r EXCEPT !.rebase = FALSE], target, t)
  <2> DEFINE f == [r EXCEPT !.rebase = FALSE]
  <2>1. f \in Continuous /\ f.base = c.base
    BY <1>1 DEF Continuous
  <2>2. target \in States /\ target # c.base.state
    BY <1>1, <1>2, OtherIsOther
  <2> HIDE DEF f, target
  <2>3. q = ContinuousMove(f, target, t)
    BY <1>5 DEF f, target
  <2>4. q \in Continuous /\ q.base = Moved(c.base, target, t) /\ q.windows = << >>
    BY <2>1, <2>2, <2>3, MoveContinuous
  <2>5. Acts(c.base, Moved(c.base, target, t), t)
    BY <1>1, <1>2, <1>5, <2>2, MovedBase
  <2> QED
    BY <2>4, <2>5 DEF Judged, SameWindows, q
<1> QED
  BY <1>3, <1>4, <1>5

\* One evaluation of the continuous policy.
LEMMA ContinuousEvaluation ==
  ASSUME NEW c \in Continuous, ContinuousOrder(c), Len(c.windows) <= DecisionWindow,
         NEW s, s.kpi \in KpiWindows, NEW t \in Nat, NEW how
  PROVE  LET q == ContinuousEvaluate(c, s, t, how)
         IN  /\ q \in Continuous /\ ContinuousOrder(q)
             /\ Within(c.windows, q.windows, s.active /\ s.valid)
             /\ \/ Steady(c.base, q.base)
                \/ Acts(c.base, q.base, t) /\ s.valid /\ q.windows = << >>
<1> DEFINE q == ContinuousEvaluate(c, s, t, how)
           n == Counted(c, s.kpi)
<1>1. CASE ~s.active \/ ~s.valid
  <2>1. PICK r \in BOOLEAN : q = ResetWindows(c, r)
    BY <1>1 DEF ContinuousEvaluate
  <2>2. q \in Continuous /\ q.base = c.base /\ q.windows = << >>
    BY <2>1, ResetContinuous
  <2> QED
    BY <2>2, EmptyChain DEF ContinuousOrder, Steady, Within
<1>2. CASE s.active /\ s.valid /\ (s.kpi = NoKey \/ s.kpi = c.lastKey)
  <2>1. q = c /\ Len(c.windows) \in Nat
    BY <1>2 DEF ContinuousEvaluate, Continuous
  <2> QED
    BY <1>2, <2>1 DEF Steady, Within
<1>3. CASE s.active /\ s.valid /\ ~(s.kpi = NoKey \/ s.kpi = c.lastKey)
  <2>1. /\ n \in Continuous /\ n.base = c.base /\ ContinuousOrder(n)
        /\ Within(c.windows, n.windows, TRUE)
    BY <1>3, CountedOrder
  <2>2. q \in {n, JudgeOutside(n, s, t, how), JudgeInside(n, s, t, how)}
    BY <1>3 DEF ContinuousEvaluate
  <2> HIDE DEF n, q
  <2>3. CASE q = n
    BY <1>3, <2>1, <2>3 DEF Steady, Within, q
  <2>4. CASE q # n
    <3>1. Judged(n, q, t)
      BY <2>1, <2>2, <2>4, JudgedOutside, JudgedInside
    <3>2. ContinuousOrder(q)
      BY <2>1, <3>1, SameWindowsOrder DEF Judged
    <3>3. Within(c.windows, q.windows, TRUE)
      BY <2>1, <3>1 DEF Judged, SameWindows, Within
    <3> QED
      BY <1>3, <2>1, <3>1, <3>2, <3>3 DEF Judged, Within, q
  <2> QED
    BY <2>3, <2>4
<1> QED
  BY <1>1, <1>2, <1>3

-------------------------------------------------------------------------------
(***************************************************************************)
(* The black box.                                                          *)
(***************************************************************************)
Blackboxes ==
  [base : Policies, matches : Nat, lastRec : States \cup {"none"}, seen : 0..2]

\* No decision: the matches are dropped, or this sample joins them.
Waits(d, q, s) ==
  /\ Steady(d.base, q.base)
  /\ q.matches = 0 \/ (q.matches = d.matches + 1 /\ Supports(d.base.state, s))

\* A decision: confirmed by the samples before and this one, or an expansion at
\* the first valid sample or after a shrink.
Decides(d, q, s, t) ==
  /\ Acts(d.base, q.base, t)
  /\ q.base.state = Other(d.base.state) /\ q.base.lastAction = Direction(q.base.state)
  /\ q.matches = 0 /\ s.valid
  /\ \/ ~Cooling(d.base, t) /\ d.matches + 1 >= DecisionWindow /\ Supports(d.base.state, s)
     \/ /\ d.base.state = "one_node" /\ q.base.lastAction = "expand"
        /\ q.seen = 1 \/ d.base.lastAction = "shrink"

\* A black box that forgets its matches, and its recommendation.
LEMMA BlackboxReset ==
  ASSUME NEW d \in Blackboxes, NEW q,
         q = [d EXCEPT !.matches = 0] \/ q = [d EXCEPT !.matches = 0, !.lastRec = "none"]
  PROVE  q \in Blackboxes /\ q.base = d.base /\ q.matches = 0 /\ q.seen = d.seen
<1>1. CASE q = [d EXCEPT !.matches = 0]
  BY <1>1 DEF Blackboxes
<1>2. CASE q = [d EXCEPT !.matches = 0, !.lastRec = "none"]
  BY <1>2 DEF Blackboxes
<1> QED
  BY <1>1, <1>2

\* A decision of the black box.
LEMMA BlackboxMoved ==
  ASSUME NEW d \in Blackboxes, NEW s \in States, NEW t \in Nat
  PROVE  /\ BlackboxMove(d, s, t) \in Blackboxes
         /\ BlackboxMove(d, s, t).base = Moved(d.base, s, t)
         /\ BlackboxMove(d, s, t).matches = 0 /\ BlackboxMove(d, s, t).seen = d.seen
<1>1. Moved(d.base, s, t) \in Policies
  BY MovedBase DEF Blackboxes
<1> QED
  BY <1>1 DEF BlackboxMove, Blackboxes

\* The judgement of a valid sample.
LEMMA BlackboxJudged ==
  ASSUME NEW d \in Blackboxes, NEW s, s.verdict \in BlackboxVerdicts, Usable(s),
         NEW t \in Nat, NEW how
  PROVE  LET q == BlackboxJudge(d, s, t, how)
         IN  /\ q \in Blackboxes /\ q.seen = d.seen
             /\ Waits(d, q, s) \/ Decides(d, q, s, t)
<1> DEFINE q      == BlackboxJudge(d, s, t, how)
           high   == d.base.state = "one_node" /\ s.high
           target == Other(d.base.state)
           more   == [d EXCEPT !.matches = @ + 1]
<1>1. /\ d.base \in Policies /\ d.base.state \in States /\ d.matches \in Nat
      /\ more \in Blackboxes /\ more.base = d.base /\ more.matches = d.matches + 1
      /\ more.seen = d.seen
  BY DEF Blackboxes, Policies
<1>2. target \in States /\ target # d.base.state /\ (d.base.state = "one_node" => target = "two_node")
  BY <1>1, OtherIsOther
<1>3. CASE /\ ~high /\ s.verdict \in {"insufficient", "loss"}
           /\ q = [d EXCEPT !.matches = 0] \/ q = [d EXCEPT !.matches = 0, !.lastRec = "none"]
  <2> HIDE DEF q, high
  <2>1. q \in Blackboxes /\ q.base = d.base /\ q.matches = 0 /\ q.seen = d.seen
    BY <1>3, BlackboxReset, Zenon
  <2> QED
    BY <2>1, Zenon DEF Waits, Steady, q
<1>4. CASE /\ high /\ (d.seen = 1 \/ d.base.lastAction = "shrink")
           /\ q = BlackboxMove(d, target, t)
  <2>1. d.base.state = "one_node" /\ target = "two_node"
    BY <1>2, <1>4
  <2> HIDE DEF q, target
  <2>2. /\ q \in Blackboxes /\ q.base = Moved(d.base, target, t) /\ q.matches = 0
        /\ q.seen = d.seen
    BY <1>2, <1>4, BlackboxMoved
  <2>3. /\ Acts(d.base, q.base, t) /\ q.base.state = target
        /\ q.base.lastAction = Direction(target)
    BY <1>1, <1>2, <2>1, <2>2, MovedBase
  <2>4. Direction(target) = "expand"
    BY <2>1 DEF Direction
  <2>5. s.valid
    BY DEF Usable
  <2> QED
    BY <1>4, <2>1, <2>2, <2>3, <2>4, <2>5 DEF Decides, q, target
<1>5. CASE high \/ s.verdict = "gain"
  <2>1. Supports(d.base.state, s)
    BY <1>5 DEF Supports, Usable
  <2>2. CASE q = more
    <3> HIDE DEF q, more
    <3> QED
      BY <1>1, <2>1, <2>2 DEF Waits, Steady, q
  <2>3. CASE q = [d EXCEPT !.matches = 0]
    <3> HIDE DEF q
    <3>1. q \in Blackboxes /\ q.base = d.base /\ q.matches = 0 /\ q.seen = d.seen
      BY <2>3 DEF Blackboxes
    <3> QED
      BY <3>1 DEF Waits, Steady, q
  <2>4. CASE /\ ~(more.matches < DecisionWindow) /\ ~Held(d.base, t)
             /\ q = BlackboxMove(more, target, t)
    <3> HIDE DEF q, target, more
    <3>1. /\ q \in Blackboxes /\ q.base = Moved(d.base, target, t) /\ q.matches = 0
          /\ q.seen = d.seen
      <4>1. /\ BlackboxMove(more, target, t) \in Blackboxes
            /\ BlackboxMove(more, target, t).base = Moved(more.base, target, t)
            /\ BlackboxMove(more, target, t).matches = 0
            /\ BlackboxMove(more, target, t).seen = more.seen
        BY <1>1, <1>2, BlackboxMoved
      <4> QED
        BY <1>1, <2>4, <4>1
    <3>2. /\ Acts(d.base, q.base, t) /\ q.base.state = target
          /\ q.base.lastAction = Direction(target)
      <4>1. /\ Moved(d.base, target, t).state = target
            /\ Moved(d.base, target, t).lastAction = Direction(target)
            /\ Acts(d.base, Moved(d.base, target, t), t)
        BY <1>1, <1>2, <2>4, MovedBase
      <4> QED
        BY <3>1, <4>1
    <3>3. ~Cooling(d.base, t) /\ s.valid
      BY <2>4 DEF Held, Usable
    <3>4. d.matches + 1 >= DecisionWindow
      BY <1>1, <2>4, PolicyAssumption
    <3> QED
      BY <2>1, <3>1, <3>2, <3>3, <3>4 DEF Decides, q, target
  <2>5. CASE \/ ~high /\ s.verdict \in {"insufficient", "loss"}
             \/ q = BlackboxMove(d, target, t) /\ high /\ (d.seen = 1 \/ d.base.lastAction = "shrink")
    BY <1>4, <1>5, <2>5
  <2>6. \/ q = more
        \/ q = [d EXCEPT !.matches = 0]
        \/ /\ ~(more.matches < DecisionWindow) /\ ~Held(d.base, t)
           /\ q = BlackboxMove(more, target, t)
        \/ ~high /\ s.verdict \in {"insufficient", "loss"}
        \/ q = BlackboxMove(d, target, t) /\ high /\ (d.seen = 1 \/ d.base.lastAction = "shrink")
    BY DEF BlackboxJudge
  <2> HIDE DEF q, more, target, high
  <2> QED
    BY <2>2, <2>3, <2>4, <2>5, <2>6
<1>6. CASE ~high /\ s.verdict # "gain"
  <2>1. s.verdict \in {"insufficient", "loss"}
    BY <1>6 DEF BlackboxVerdicts
  <2>2. q = [d EXCEPT !.matches = 0] \/ q = [d EXCEPT !.matches = 0, !.lastRec = "none"]
    BY <1>6, <2>1 DEF BlackboxJudge
  <2> QED
    BY <1>3, <1>6, <2>1, <2>2
<1> QED
  BY <1>5, <1>6

\* One evaluation of the black box.
LEMMA BlackboxEvaluation ==
  ASSUME NEW d \in Blackboxes, NEW s, s.verdict \in BlackboxVerdicts, NEW t \in Nat, NEW how
  PROVE  LET q == BlackboxEvaluate(d, s, t, how)
         IN  /\ q \in Blackboxes /\ q.seen >= d.seen /\ (q.seen = 1 /\ Decides(d, q, s, t) => d.seen = 0)
             /\ Waits(d, q, s) \/ (Decides(d, q, s, t) /\ q.seen # 0)
<1> DEFINE q == BlackboxEvaluate(d, s, t, how)
           e == [d EXCEPT !.seen = IF @ = 2 THEN 2 ELSE @ + 1]
<1>0. d.seen \in 0..2
  BY DEF Blackboxes
<1>1. CASE ~s.active \/ ~s.valid
  <2>1. q = [d EXCEPT !.matches = 0] \/ q = [d EXCEPT !.matches = 0, !.lastRec = "none"]
    BY <1>1 DEF BlackboxEvaluate
  <2> HIDE DEF q
  <2>2. q \in Blackboxes /\ q.base = d.base /\ q.matches = 0 /\ q.seen = d.seen
    BY <2>1, BlackboxReset, Zenon
  <2>3. Waits(d, q, s) /\ ~Decides(d, q, s, t)
    BY <2>2, Zenon DEF Waits, Steady, Decides, Acts
  <2>4. q.seen >= d.seen
    BY <1>0, <2>2
  <2> QED
    BY <2>2, <2>3, <2>4 DEF q
<1>2. CASE s.active /\ s.valid
  <2>1. /\ e \in Blackboxes /\ e.base = d.base /\ e.matches = d.matches
        /\ e.seen >= d.seen /\ e.seen # 0 /\ (e.seen = 1 => d.seen = 0)
    <3>1. (IF d.seen = 2 THEN 2 ELSE d.seen + 1) \in 1..2
      BY <1>0
    <3> QED
      BY <1>0, <3>1 DEF Blackboxes
  <2>2. q = BlackboxJudge(e, s, t, how)
    BY <1>2 DEF BlackboxEvaluate
  <2> HIDE DEF e, q
  <2>3. q \in Blackboxes /\ q.seen = e.seen /\ (Waits(e, q, s) \/ Decides(e, q, s, t))
    BY <1>2, <2>1, <2>2, BlackboxJudged DEF Usable
  <2>4. (Waits(e, q, s) => Waits(d, q, s)) /\ (Decides(e, q, s, t) => Decides(d, q, s, t))
    BY <2>1 DEF Waits, Decides
  <2> QED
    BY <2>1, <2>3, <2>4 DEF q
<1> QED
  BY <1>1, <1>2

-------------------------------------------------------------------------------
(***************************************************************************)
(* The loop around a model policy: the inductive invariant.                *)
(***************************************************************************)
ModelType ==
  /\ latest \in KpiWindows
  /\ kind \in Kinds \cup {"pressure"} /\ mode \in {"active", "shadow"}
  /\ kind = "benefit" => model \in Benefits
  /\ kind = "continuous" => model \in Continuous
  /\ kind = "blackbox" => model \in Blackboxes
  /\ deciding \in PolicyActions \cup {"none"}
  /\ u1 \in Times /\ u2 \in Times /\ support \in 0..DecisionWindow

\* The windows the policy remembers.
Ordered ==
  /\ kind = "benefit" => BenefitOrder(model, latest, wentBack)
  /\ kind = "continuous" => ContinuousOrder(model)

\* They are no more than the samples since they were last forgotten.
Kept ==
  /\ kind \in {"benefit", "continuous"} => Len(model.windows) <= support
  /\ kind = "continuous" /\ deciding # "none" => model.windows = << >>

\* The clock of the policy is never behind its last decision.
Paced ==
  /\ u1 # Never => /\ u1 <= now
                   /\ model.base.lastTransition # Never /\ u1 <= model.base.lastTransition
  /\ deciding # "none" => deciding = model.base.lastAction /\ kind # "pressure"
  /\ deciding # "none" /\ u2 # Never /\ u1 - u2 < Cooldown => deciding \in Widening

\* In shadow the state of the black box is put back, so that it never stands
\* in ONE after a shrink, and its first valid sample is its first chance.
Shadowed ==
  kind = "blackbox" /\ mode = "shadow" =>
    /\ model.seen = 0 => u1 = Never
    /\ model.base.lastAction = "shrink" =>
         model.base.state = IF deciding = "none" THEN "two_node" ELSE "one_node"
    /\ deciding # "none" /\ u2 # Never => u1 - u2 >= Cooldown

\* The matches of the black box are no more than the samples that support it,
\* and the threads it compared were those of the target.
Grounded ==
  /\ kind = "blackbox" =>
       /\ support < DecisionWindow => model.matches <= support
       /\ deciding # "none" => model.matches = 0
  /\ ~gone => source.previous \subseteq OwnTasks
  /\ DecisionsAreGrounded

LoopInv == ModelType /\ Ordered /\ Kept /\ Paced /\ Shadowed /\ Grounded

\* What every policy shares is a record of the pressure policy.
LEMMA BaseType == ASSUME ModelType, kind # "pressure" PROVE model.base \in Policies
BY DEF ModelType, Kinds, Benefits, Continuous, Blackboxes

-------------------------------------------------------------------------------
(* Arithmetic of the pace. *)

\* A decision soon after another one comes while the clock still cools down.
LEMMA StillCooling ==
  ASSUME NEW n \in Nat, NEW u \in Nat, NEW l \in Nat, NEW c \in Nat, u <= l, n - u < c
  PROVE  n - l < c
OBVIOUS

\* One that waited for the clock comes late enough.
LEMMA CooledDown ==
  ASSUME NEW n \in Nat, NEW u \in Nat, NEW l \in Nat, NEW c \in Nat, u <= l, ~(n - l < c)
  PROVE  n - u >= c
OBVIOUS

\* Counting a sample keeps the matches below the count.
LEMMA OneMore ==
  ASSUME NEW w \in Nat \ {0}, NEW m \in Nat, NEW s \in 0..w, NEW r \in 0..w,
         s < w => m <= s, r = IF s < w THEN s + 1 ELSE s
  PROVE  (r < w => m + 1 <= r) /\ (m + 1 >= w => r >= w)
OBVIOUS

-------------------------------------------------------------------------------
(***************************************************************************)
(* A sample.                                                               *)
(***************************************************************************)

\* The parts of a sample.
LEMMA SampleFields ==
  ASSUME NEW k \in Kinds, NEW file, NEW valid, NEW s \in ModelSamples(k, file, valid)
  PROVE  /\ s.kpi \in {NoKey, file} /\ s.verdict \in Verdicts(k) /\ s.valid = valid
         /\ s.active \in BOOLEAN
<1>1. /\ "outside" \in BenefitVerdicts /\ "outside" \in ContinuousVerdicts
      /\ "loss" \in ContinuousVerdicts /\ "loss" \in BlackboxVerdicts
  BY DEF BenefitVerdicts, ContinuousVerdicts, BlackboxVerdicts
<1>2. k # "benefit" => "loss" \in Verdicts(k)
  BY <1>1 DEF Verdicts
<1>3. k # "blackbox" => "outside" \in Verdicts(k)
  BY <1>1 DEF Verdicts, Kinds
<1> QED
  BY <1>2, <1>3 DEF ModelSamples

\* The windows are no more than a decision asks for.
LEMMA FewWindows ==
  ASSUME ModelType, Kept, kind \in {"benefit", "continuous"}
  PROVE  Len(model.windows) \in Nat /\ Len(model.windows) <= DecisionWindow
<1>1. model.windows \in Seq(KpiWindows)
  BY DEF ModelType, Benefits, Continuous
<1>2. Len(model.windows) \in Nat /\ support \in 0..DecisionWindow
  BY <1>1 DEF ModelType
<1>3. Len(model.windows) <= support
  BY DEF Kept
<1> QED
  BY <1>2, <1>3, PolicyAssumption

\* What the evaluation of a sample does to the model, whichever it is.
LEMMA SampledModel ==
  ASSUME ModelType, Ordered, Kept, kind # "pressure", now' \in Nat,
         NEW valid, NEW sample \in ModelSamples(kind, latest, valid),
         model' = Decide(kind, model, sample, now', mode),
         UNCHANGED <<kind, latest>>
  PROVE  /\ kind = "benefit" =>
              /\ model' \in Benefits /\ BenefitOrder(model', latest, wentBack)
              /\ Within(model.windows, model'.windows, sample.active)
         /\ kind = "continuous" =>
              /\ model' \in Continuous /\ ContinuousOrder(model')
              /\ Within(model.windows, model'.windows, sample.active /\ sample.valid)
              /\ Steady(model.base, model'.base) \/ model'.windows = << >>
         /\ kind = "blackbox" => model' \in Blackboxes
         /\ Steady(model.base, model'.base) \/ Acts(model.base, model'.base, now')
         /\ kind \in {"continuous", "blackbox"} =>
              Steady(model.base, model'.base) \/ valid
<1>0. kind \in Kinds
  BY DEF ModelType
<1>1. sample.kpi \in {NoKey, latest} /\ sample.verdict \in Verdicts(kind) /\ sample.valid = valid
  BY <1>0, SampleFields
<1>2. latest \in KpiWindows /\ NoKey \in KpiWindows
  BY DEF ModelType, NoKey, KpiWindows
<1>3. CASE kind = "benefit"
  <2>1. model' = BenefitEvaluate(model, sample, now') /\ sample.verdict \in BenefitVerdicts
    BY <1>1, <1>3 DEF Decide, Verdicts
  <2>2. /\ model \in Benefits /\ BenefitOrder(model, latest, wentBack)
        /\ Len(model.windows) <= DecisionWindow
    BY <1>3, FewWindows DEF ModelType, Ordered
  <2> QED
    BY <1>1, <1>2, <1>3, <2>1, <2>2, BenefitEvaluation
<1>4. CASE kind = "continuous"
  <2>1. model' = ContinuousEvaluate(model, sample, now', mode) /\ sample.kpi \in KpiWindows
    BY <1>1, <1>2, <1>4 DEF Decide
  <2>2. /\ model \in Continuous /\ ContinuousOrder(model)
        /\ Len(model.windows) <= DecisionWindow
    BY <1>4, FewWindows DEF ModelType, Ordered
  <2> QED
    BY <1>1, <1>4, <2>1, <2>2, ContinuousEvaluation
<1>5. CASE kind = "blackbox"
  <2>1. model' = BlackboxEvaluate(model, sample, now', mode) /\ sample.verdict \in BlackboxVerdicts
    BY <1>1, <1>5 DEF Decide, Verdicts
  <2>2. model \in Blackboxes
    BY <1>5 DEF ModelType
  <2>3. /\ model' \in Blackboxes
        /\ Waits(model, model', sample) \/ Decides(model, model', sample, now')
    BY <2>1, <2>2, BlackboxEvaluation
  <2> QED
    BY <1>1, <1>5, <2>3 DEF Waits, Decides
<1> QED
  BY <1>3, <1>4, <1>5 DEF ModelType, Kinds

\* The decision it amounts to.
LEMMA DecisionOf ==
  ASSUME NEW p, NEW q, NEW t
  PROVE  /\ Steady(p, q) => ActionOf(p, q) = "none"
         /\ Acts(p, q, t) => ActionOf(p, q) = q.lastAction /\ ActionOf(p, q) \in PolicyActions
BY DEF Steady, Acts, ActionOf

\* A valid sample compares threads of the target.
LEMMA OwnThreads ==
  ASSUME NEW r \in Readings(gone), ~gone => source.previous \subseteq OwnTasks
  PROVE  /\ Measures(source, r) =>
              \/ Common(source, r) # {} /\ r.status = "read"
              \/ MainTask \in Common(source, r)
         /\ LET gone1 == gone \/ r.status = "taken_over"
            IN  ~gone1 => AfterSample(source, r).previous \subseteq OwnTasks
<1>1. \/ r.status = "refused" /\ r.tasks = {}
      \/ ~gone /\ r.status = "read" /\ r.tasks \subseteq OwnTasks
      \/ ~gone /\ r.status = "taken_over" /\ r.tasks = ForeignTasks \cup {MainTask}
  BY DEF Readings
<1>2. CASE r.status = "refused"
  BY <1>2 DEF Measures, AfterSample
<1>3. CASE ~gone /\ r.status = "read" /\ r.tasks \subseteq OwnTasks
  <2>1. AfterSample(source, r).previous = r.tasks
    BY <1>3 DEF AfterSample
  <2> QED
    BY <1>3, <2>1 DEF Measures
<1>4. CASE ~gone /\ r.status = "taken_over" /\ r.tasks = ForeignTasks \cup {MainTask}
  <2>1. Common(source, r) # {} => MainTask \in Common(source, r)
    BY <1>4, SourceAssumption DEF Common
  <2> QED
    BY <1>4, <2>1 DEF Measures
<1> QED
  BY <1>1, <1>2, <1>3, <1>4

-------------------------------------------------------------------------------
(***************************************************************************)
(* A policy that is put back: it takes a state and starts to cool down.    *)
(***************************************************************************)

\* What forcing a state does to the pressure part.
LEMMA ForcedBase ==
  ASSUME NEW p \in Policies, NEW s \in States, NEW t \in Nat
  PROVE  /\ ForceState(p, s, t) \in Policies /\ ForceState(p, s, t).state = s
         /\ ForceState(p, s, t).lastTransition = t
         /\ ForceState(p, s, t).lastAction = p.lastAction
BY DEF ForceState, Policies, Times

\* The benefit policy forgets its windows.
LEMMA ForcedBenefit ==
  ASSUME NEW b \in Benefits, NEW file, NEW back, BenefitOrder(b, file, back),
         NEW s \in States, NEW t \in Nat
  PROVE  LET c == BenefitForce(b, s, t)
         IN  /\ c \in Benefits /\ BenefitOrder(c, file, back) /\ c.windows = << >>
             /\ c.base = ForceState(b.base, s, t)
<1> DEFINE c == BenefitForce(b, s, t)
<1>1. ForceState(b.base, s, t) \in Policies
  BY ForcedBase DEF Benefits
<1>2. /\ c \in Benefits /\ c.base = ForceState(b.base, s, t)
      /\ c.windows = << >> /\ c.lastKey = b.lastKey
  BY <1>1, EmptyChain DEF BenefitForce, Benefits
<1> HIDE DEF c
<1>3. BenefitOrder(c, file, back)
  BY <1>2, EmptyChain DEF BenefitOrder
<1> QED
  BY <1>2, <1>3 DEF c

\* So does the continuous policy, but it keeps its baseline.
LEMMA ForcedContinuous ==
  ASSUME NEW b \in Continuous, NEW s \in States, NEW t \in Nat
  PROVE  LET c == ContinuousForce(b, s, t)
         IN  /\ c \in Continuous /\ ContinuousOrder(c) /\ c.windows = << >>
             /\ c.base = ForceState(b.base, s, t)
<1> DEFINE r == ResetWindows(b, FALSE)
           c == ContinuousForce(b, s, t)
<1>1. r \in Continuous /\ r.base = b.base /\ r.windows = << >>
  BY ResetContinuous
<1>2. c = [r EXCEPT !.base = ForceState(r.base, s, t), !.rebase = FALSE]
  BY DEF ContinuousForce
<1>3. ForceState(b.base, s, t) \in Policies
  BY ForcedBase DEF Continuous
<1> HIDE DEF r, c
<1>4. c \in Continuous /\ c.base = ForceState(b.base, s, t) /\ c.windows = << >>
  BY <1>1, <1>2, <1>3 DEF Continuous
<1>5. ContinuousOrder(c)
  BY <1>4, EmptyChain DEF ContinuousOrder
<1> QED
  BY <1>4, <1>5 DEF c

\* The black box forgets its matches, but not that it has seen a sample.
LEMMA ForcedBlackbox ==
  ASSUME NEW d \in Blackboxes, NEW s \in States, NEW t \in Nat
  PROVE  LET q == BlackboxForce(d, s, t)
         IN  /\ q \in Blackboxes /\ q.base = ForceState(d.base, s, t)
             /\ q.matches = 0 /\ q.seen = d.seen
<1>1. ForceState(d.base, s, t) \in Policies
  BY ForcedBase DEF Blackboxes
<1> QED
  BY <1>1 DEF BlackboxForce, Blackboxes

\* Whichever the policy is.
LEMMA ForcedModel ==
  ASSUME ModelType, Ordered, kind # "pressure", NEW s \in States, NEW t \in Nat
  PROVE  LET f == Forced(kind, model, s, t)
         IN  /\ kind = "benefit" => f \in Benefits /\ BenefitOrder(f, latest, wentBack)
             /\ kind = "continuous" => f \in Continuous /\ ContinuousOrder(f)
             /\ kind \in {"benefit", "continuous"} => f.windows = << >>
             /\ kind = "blackbox" => f \in Blackboxes /\ f.matches = 0 /\ f.seen = model.seen
             /\ f.base = ForceState(model.base, s, t)
<1>1. CASE kind = "benefit"
  <2>1. Forced(kind, model, s, t) = BenefitForce(model, s, t)
    BY <1>1 DEF Forced
  <2> QED
    BY <1>1, <2>1, ForcedBenefit DEF ModelType, Ordered
<1>2. CASE kind = "continuous"
  <2>1. Forced(kind, model, s, t) = ContinuousForce(model, s, t)
    BY <1>2 DEF Forced
  <2> QED
    BY <1>2, <2>1, ForcedContinuous DEF ModelType
<1>3. CASE kind = "blackbox"
  <2>1. Forced(kind, model, s, t) = BlackboxForce(model, s, t)
    BY <1>3 DEF Forced
  <2> QED
    BY <1>3, <2>1, ForcedBlackbox DEF ModelType
<1> QED
  BY <1>1, <1>2, <1>3 DEF ModelType, Kinds

-------------------------------------------------------------------------------
(***************************************************************************)
(* The steps of the loop keep the invariant.                               *)
(***************************************************************************)

\* Time passes in the loop of the pressure policy.
LEMMA PressureClock ==
  ASSUME TypeOK, Next
  PROVE  now \in Nat /\ now' \in Nat /\ now <= now'
<1>1. now \in Nat /\ MaxGap \in Nat
  BY ClockAssumption DEF TypeOK
<1>2. ASSUME NEW gap \in 0..MaxGap, now' = now + gap PROVE now' \in Nat /\ now <= now'
  BY <1>1, <1>2
<1>3. CASE \E gap \in 1..MaxGap, sample \in Samples : Sample(gap, sample)
  <2> PICK gap \in 1..MaxGap, sample \in Samples : Sample(gap, sample)
    BY <1>3
  <2>1. now' = now + gap /\ gap \in 0..MaxGap
    BY <1>1 DEF Sample
  <2> QED
    BY <1>1, <1>2, <2>1
<1>4. CASE \E delay \in 0..MaxGap : ActionApplied(delay) \/ ActionFailed(delay)
  <2> PICK delay \in 0..MaxGap : ActionApplied(delay) \/ ActionFailed(delay)
    BY <1>4
  <2>1. now' = now + delay
    BY DEF ActionApplied, ActionFailed
  <2> QED
    BY <1>1, <1>2, <2>1
<1>5. CASE Ended
  BY <1>1, <1>5 DEF Ended, vars
<1> QED
  BY <1>3, <1>4, <1>5 DEF Next

\* The model rests while time passes.
LEMMA RestingStep ==
  ASSUME LoopInv, now \in Nat, now' \in Nat, now <= now', UNCHANGED loopVars
  PROVE  LoopInv'
<1>1. ModelType'
  BY DEF LoopInv, ModelType, loopVars, sourceVars
<1>2. Ordered'
  BY DEF LoopInv, Ordered, loopVars, sourceVars
<1>6. Kept'
  BY DEF LoopInv, Kept, loopVars, sourceVars
<1>3. Paced'
  <2>1. u1 # Never => u1 <= now'
    BY DEF LoopInv, Paced, ModelType, Times, Never
  <2> QED
    BY <2>1 DEF LoopInv, Paced, loopVars, sourceVars
<1>4. Shadowed'
  BY DEF LoopInv, Shadowed, loopVars, sourceVars
<1>5. Grounded'
  BY DEF LoopInv, Grounded, DecisionsAreGrounded, loopVars, sourceVars
<1> QED
  BY <1>1, <1>2, <1>3, <1>4, <1>5, <1>6 DEF LoopInv

\* What has been read stays older than the file, or the file went back.
LEMMA NewerFile ==
  ASSUME NEW key \in KpiWindows, NEW old \in KpiWindows, NEW back, UpTo(key, old, back),
         NEW file \in KpiWindows, NEW more, back \subseteq more,
         \/ old.phase < file.phase
         \/ old.phase = file.phase /\ (file.phase \in more \/ old.seq <= file.seq)
  PROVE  UpTo(key, file, more)
BY DEF UpTo, KpiWindows

\* A window arrives.
LEMMA KpiStep ==
  ASSUME LoopInv, NEW phase \in 1..MaxPhase, NEW seq \in 1..MaxSequence, KpiArrives(phase, seq)
  PROVE  LoopInv'
<1>1. /\ latest' = [phase |-> phase, seq |-> seq] /\ latest' \in KpiWindows
      /\ phase \in Nat /\ seq \in Nat
      /\ wentBack \subseteq wentBack'
      /\ phase = latest.phase /\ seq < latest.seq => phase \in wentBack'
  BY LoopAssumption DEF KpiArrives, KpiWindows
<1>2. UNCHANGED <<now, source, gone, sound, kind, mode, model, deciding, u1, u2, before, support>>
  BY DEF KpiArrives, sourceVars
<1>3. ModelType'
  BY <1>1, <1>2 DEF LoopInv, ModelType
<1>4. Ordered'
  <2>1. ASSUME kind = "benefit" PROVE BenefitOrder(model, latest', wentBack')
    <3>1. /\ model.lastKey \in KpiWindows /\ latest \in KpiWindows
          /\ BenefitOrder(model, latest, wentBack)
      BY <2>1 DEF LoopInv, ModelType, Ordered, Benefits
    <3>2. latest.phase \in Nat /\ latest.seq \in Nat
      BY <3>1 DEF KpiWindows
    <3>3. \/ latest.phase < phase
          \/ latest.phase = phase /\ (phase \in wentBack' \/ latest.seq <= seq)
      BY <1>1, <3>2 DEF KpiArrives
    <3>4. UpTo(model.lastKey, latest', wentBack')
      <4>1. latest'.phase = phase /\ latest'.seq = seq
        BY <1>1
      <4> QED
        BY <1>1, <3>1, <3>3, <4>1, NewerFile DEF BenefitOrder
    <3>5. Chain(model.windows, FALSE, wentBack')
      BY <1>1, <3>1, ChainAnyway DEF BenefitOrder
    <3> QED
      BY <3>1, <3>4, <3>5 DEF BenefitOrder
  <2> QED
    BY <1>2, <2>1 DEF LoopInv, Ordered
<1>8. Kept'
  BY <1>2 DEF LoopInv, Kept
<1>5. Paced'
  BY <1>2 DEF LoopInv, Paced
<1>6. Shadowed'
  BY <1>2 DEF LoopInv, Shadowed
<1>7. Grounded'
  BY <1>2 DEF LoopInv, Grounded, DecisionsAreGrounded
<1> QED
  BY <1>3, <1>4, <1>5, <1>6, <1>7, <1>8 DEF LoopInv

\* A decision is carried out.
LEMMA AppliedStep ==
  ASSUME LoopInv, now \in Nat, NEW delay \in 0..1, DecisionApplied(delay)
  PROVE  LoopInv'
<1>1. now' \in Nat /\ now <= now'
  BY DEF DecisionApplied
<1>2. /\ UNCHANGED <<source, gone, kind, mode, model, latest, wentBack, u1, u2, before>>
      /\ deciding # "none" /\ mode = "active" /\ deciding' = "none" /\ sound' = TRUE
      /\ support' = IF kind = "benefit" THEN support ELSE 0
  BY DEF DecisionApplied
<1>3. ModelType'
  BY <1>2, PolicyAssumption DEF LoopInv, ModelType
<1>4. Ordered'
  BY <1>2 DEF LoopInv, Ordered
<1>8. Kept'
  <2>1. kind = "benefit" => Len(model.windows) <= support'
    BY <1>2 DEF LoopInv, Kept
  <2>2. kind = "continuous" => Len(model.windows) <= support'
    BY <1>2 DEF LoopInv, Kept
  <2> QED
    BY <1>2, <2>1, <2>2 DEF Kept
<1>5. Paced'
  <2>1. u1 # Never => u1 <= now'
    BY <1>1 DEF LoopInv, Paced, ModelType, Times, Never
  <2> QED
    BY <1>2, <2>1 DEF LoopInv, Paced
<1>6. Shadowed'
  BY <1>2 DEF LoopInv, Shadowed
<1>7. Grounded'
  BY <1>2, PolicyAssumption DEF LoopInv, Grounded, DecisionsAreGrounded
<1> QED
  BY <1>3, <1>4, <1>5, <1>6, <1>7, <1>8 DEF LoopInv

\* A decision is taken back.
LEMMA RevertedStep ==
  ASSUME LoopInv, now \in Nat, NEW delay \in 0..1, DecisionReverted(delay)
  PROVE  LoopInv'
<1>1. now' \in Nat /\ now <= now'
  BY DEF DecisionReverted
<1>2. /\ UNCHANGED <<source, gone, kind, mode, latest, wentBack, u1, u2, before>>
      /\ deciding # "none" /\ deciding' = "none" /\ support' = 0 /\ sound' = TRUE
      /\ model' = Forced(kind, model, Other(model.base.state), now')
  BY DEF DecisionReverted
<1>3. kind # "pressure" /\ model.base \in Policies /\ model.base.state \in States
  BY <1>2, BaseType DEF LoopInv, Paced, Policies
<1>4. Other(model.base.state) \in States
  BY <1>3, OtherIsOther
<1>5. /\ kind = "benefit" => model' \in Benefits /\ BenefitOrder(model', latest, wentBack)
      /\ kind = "continuous" => model' \in Continuous /\ ContinuousOrder(model')
      /\ kind \in {"benefit", "continuous"} => model'.windows = << >>
      /\ kind = "blackbox" => model' \in Blackboxes /\ model'.matches = 0 /\ model'.seen = model.seen
      /\ model'.base = ForceState(model.base, Other(model.base.state), now')
  <2> DEFINE f == Forced(kind, model, Other(model.base.state), now')
  <2>1. ModelType /\ Ordered
    BY DEF LoopInv
  <2>2. /\ kind = "benefit" => f \in Benefits /\ BenefitOrder(f, latest, wentBack)
        /\ kind = "continuous" => f \in Continuous /\ ContinuousOrder(f)
        /\ kind \in {"benefit", "continuous"} => f.windows = << >>
        /\ kind = "blackbox" => f \in Blackboxes /\ f.matches = 0 /\ f.seen = model.seen
        /\ f.base = ForceState(model.base, Other(model.base.state), now')
    BY <1>1, <1>3, <1>4, <2>1, ForcedModel
  <2>3. model' = f
    BY <1>2
  <2> HIDE DEF f
  <2> QED
    BY <2>2, <2>3
<1>6. /\ model'.base.state = Other(model.base.state) /\ model'.base.lastTransition = now'
      /\ model'.base.lastAction = model.base.lastAction
  BY <1>1, <1>3, <1>4, <1>5, ForcedBase
<1>7. ModelType'
  BY <1>2, <1>5, PolicyAssumption DEF LoopInv, ModelType
<1>8. Ordered'
  BY <1>2, <1>5 DEF Ordered
<1>12. Kept'
  BY <1>2, <1>5 DEF Kept
<1>9. Paced'
  <2>1. now' # Never /\ (u1 # Never => u1 <= now')
    BY <1>1 DEF LoopInv, Paced, ModelType, Times, Never
  <2> QED
    BY <1>2, <1>6, <2>1 DEF Paced
<1>10. Shadowed'
  <2>1. model.base.state = "one_node" => Other(model.base.state) = "two_node"
    BY <1>3, OtherIsOther
  <2> QED
    BY <1>2, <1>5, <1>6, <2>1 DEF LoopInv, Shadowed
<1>11. Grounded'
  BY <1>2, <1>5, PolicyAssumption DEF LoopInv, Grounded, DecisionsAreGrounded
<1> QED
  BY <1>7, <1>8, <1>9, <1>10, <1>11, <1>12 DEF LoopInv

\* A sample is evaluated.
LEMMA SampleStep ==
  ASSUME LoopInv, now \in Nat, NEW reading \in Readings(gone),
         NEW sample \in ModelSamples(kind, latest, Measures(source, reading)),
         ModelSample(reading, sample)
  PROVE  LoopInv'
<1> DEFINE valid == Measures(source, reading)
           acts  == Acts(model.base, model'.base, now')
           rests == Steady(model.base, model'.base)
<1>1. now' \in Nat /\ now <= now'
  BY DEF ModelSample
<1>2. /\ kind # "pressure" /\ deciding = "none" /\ UNCHANGED <<kind, mode, latest, wentBack>>
      /\ model' = Decide(kind, model, sample, now', mode)
      /\ deciding' = ActionOf(model.base, model'.base)
      /\ source' = AfterSample(source, reading)
      /\ gone' = (gone \/ reading.status = "taken_over")
      /\ sound' = \/ deciding' = "none"
                  \/ Common(source, reading) # {} /\ reading.status = "read"
                  \/ MainTask \in Common(source, reading)
  BY DEF ModelSample
<1>3. IF deciding' = "none" THEN UNCHANGED <<u1, u2, before>>
      ELSE u1' = now' /\ u2' = u1 /\ before' = model.base.lastAction
  BY DEF ModelSample
<1>4. support' = IF Supports(model.base.state, sample)
                 THEN IF support < DecisionWindow THEN support + 1 ELSE support
                 ELSE 0
  BY DEF ModelSample
<1>5. ModelType /\ Ordered /\ Kept /\ Paced /\ Shadowed /\ Grounded
  BY DEF LoopInv
<1>6. model.base \in Policies
  BY <1>2, <1>5, BaseType
<1>7. /\ kind = "benefit" =>
           /\ model' \in Benefits /\ BenefitOrder(model', latest, wentBack)
           /\ Within(model.windows, model'.windows, sample.active)
      /\ kind = "continuous" =>
           /\ model' \in Continuous /\ ContinuousOrder(model')
           /\ Within(model.windows, model'.windows, sample.active /\ sample.valid)
           /\ rests \/ model'.windows = << >>
      /\ kind = "blackbox" => model' \in Blackboxes
      /\ rests \/ acts
      /\ kind \in {"continuous", "blackbox"} => rests \/ valid
  BY <1>1, <1>2, <1>5, SampledModel
<1>8. /\ rests => deciding' = "none"
      /\ acts => deciding' = model'.base.lastAction /\ deciding' \in PolicyActions
  BY <1>2, DecisionOf
<1>9. "none" \notin PolicyActions
  BY DEF PolicyActions
<1>10. kind = "blackbox" =>
         /\ model \in Blackboxes /\ model'.seen >= model.seen
         /\ model'.seen = 1 /\ Decides(model, model', sample, now') => model.seen = 0
         /\ \/ Waits(model, model', sample)
            \/ Decides(model, model', sample, now') /\ model'.seen # 0
  <2> SUFFICES ASSUME kind = "blackbox"
               PROVE  /\ model \in Blackboxes /\ model'.seen >= model.seen
                      /\ model'.seen = 1 /\ Decides(model, model', sample, now') => model.seen = 0
                      /\ \/ Waits(model, model', sample)
                         \/ Decides(model, model', sample, now') /\ model'.seen # 0
    OBVIOUS
  <2>1. model \in Blackboxes
    BY <1>5 DEF ModelType
  <2>2. model' = BlackboxEvaluate(model, sample, now', mode)
    BY <1>2 DEF Decide
  <2>3. sample.verdict \in BlackboxVerdicts
    <3>1. kind \in Kinds
      BY DEF Kinds
    <3> QED
      BY <3>1, SampleFields DEF Verdicts
  <2> QED
    BY <1>1, <2>1, <2>2, <2>3, BlackboxEvaluation
<1> HIDE DEF valid, acts, rests
<1>11. ModelType'
  <2>1. deciding' \in PolicyActions \cup {"none"}
    BY <1>7, <1>8
  <2>2. u1' \in Times /\ u2' \in Times
    BY <1>1, <1>3, <1>5 DEF ModelType, Times
  <2>3. support' \in 0..DecisionWindow
    BY <1>4, <1>5, PolicyAssumption DEF ModelType
  <2> QED
    BY <1>2, <1>5, <1>7, <2>1, <2>2, <2>3 DEF ModelType
<1>12. Ordered'
  BY <1>2, <1>7 DEF Ordered
<1>16. Kept'
  <2>1. ASSUME kind \in {"benefit", "continuous"}
        PROVE  Len(model'.windows) <= support'
    <3>1. /\ Len(model.windows) \in Nat /\ Len(model.windows) <= support
          /\ support \in 0..DecisionWindow
      BY <1>5, <2>1, FewWindows DEF Kept, ModelType
    <3>2. support' \in 0..DecisionWindow
      BY <1>11 DEF ModelType
    <3>3. PICK keeps \in BOOLEAN :
             /\ Within(model.windows, model'.windows, keeps)
             /\ keeps => Supports(model.base.state, sample)
      <4>1. CASE kind = "benefit"
        <5>1. Within(model.windows, model'.windows, sample.active) /\ sample.active \in BOOLEAN
          <6>1. kind \in Kinds
            BY <4>1 DEF Kinds
          <6> QED
            BY <1>7, <4>1, <6>1, SampleFields
        <5>2. sample.active => Supports(model.base.state, sample)
          BY <4>1 DEF Supports
        <5> QED
          BY <5>1, <5>2
      <4>2. CASE kind = "continuous"
        <5>1. Within(model.windows, model'.windows, sample.active /\ sample.valid)
          BY <1>7, <4>2
        <5>2. sample.active /\ sample.valid => Supports(model.base.state, sample)
          BY <4>2 DEF Supports
        <5> QED
          BY <5>1, <5>2
      <4> QED
        BY <2>1, <4>1, <4>2
    <3>4. CASE model'.windows = << >>
      BY <3>2, <3>4
    <3>5. CASE ~(model'.windows = << >>)
      <4>1. /\ Supports(model.base.state, sample) /\ Len(model'.windows) <= DecisionWindow
            /\ Len(model'.windows) <= Len(model.windows) + 1
        BY <3>3, <3>5 DEF Within
      <4>2. support' = IF support < DecisionWindow THEN support + 1 ELSE support
        BY <1>4, <4>1
      <4>3. Len(model'.windows) \in Nat
        <5>1. model'.windows \in Seq(KpiWindows)
          BY <1>7, <2>1 DEF Benefits, Continuous
        <5> QED
          BY <5>1
      <4> QED
        BY <3>1, <4>1, <4>2, <4>3, PolicyAssumption
    <3> QED
      BY <3>4, <3>5
  <2>2. kind = "continuous" /\ deciding' # "none" => model'.windows = << >>
    BY <1>7, <1>8
  <2> QED
    BY <1>2, <2>1, <2>2 DEF Kept
<1>13. Paced'
  <2>1. CASE rests
    <3>1. /\ deciding' = "none" /\ u1' = u1
          /\ model'.base.lastTransition = model.base.lastTransition
      BY <1>3, <1>8, <2>1 DEF rests, Steady
    <3>2. u1 # Never => u1 <= now'
      BY <1>1, <1>5 DEF Paced, ModelType, Times, Never
    <3> QED
      BY <1>5, <3>1, <3>2 DEF Paced
  <2>2. CASE acts
    <3>1. /\ deciding' # "none" /\ deciding' = model'.base.lastAction
          /\ u1' = now' /\ u2' = u1 /\ model'.base.lastTransition = now'
      BY <1>3, <1>8, <1>9, <2>2 DEF acts, Acts
    <3>2. now' # Never /\ now' <= now'
      BY <1>1 DEF Never
    <3>3. u2' # Never /\ u1' - u2' < Cooldown => deciding' \in Widening
      <4> SUFFICES ASSUME u1 # Never, now' - u1 < Cooldown
                   PROVE  model'.base.lastAction \in Widening
        BY <3>1
      <4>1. /\ model.base.lastTransition # Never /\ u1 <= model.base.lastTransition
            /\ u1 \in Nat /\ model.base.lastTransition \in Nat
        BY <1>5, <1>6 DEF Paced, ModelType, Times, Policies
      <4>2. now' - model.base.lastTransition < Cooldown
        BY <1>1, <4>1, PolicyAssumption, StillCooling
      <4>3. Cooling(model.base, now')
        BY <4>1, <4>2 DEF Cooling
      <4> QED
        BY <2>2, <4>3 DEF acts, Acts
    <3> QED
      BY <1>2, <3>1, <3>2, <3>3 DEF Paced
  <2> QED
    BY <1>7, <2>1, <2>2
<1>14. Shadowed'
  <2> SUFFICES ASSUME kind = "blackbox", mode = "shadow"
               PROVE  /\ model'.seen = 0 => u1' = Never
                      /\ model'.base.lastAction = "shrink" =>
                           model'.base.state = IF deciding' = "none" THEN "two_node" ELSE "one_node"
                      /\ deciding' # "none" /\ u2' # Never => u1' - u2' >= Cooldown
    BY <1>2 DEF Shadowed
  <2>1. /\ model.seen = 0 => u1 = Never
        /\ model.base.lastAction = "shrink" => model.base.state = "two_node"
    BY <1>2, <1>5 DEF Shadowed
  <2>2. CASE Waits(model, model', sample)
    <3>1. /\ rests /\ model'.base.state = model.base.state
          /\ model'.base.lastAction = model.base.lastAction
      BY <2>2 DEF Waits, rests, Steady
    <3>2. deciding' = "none" /\ u1' = u1
      BY <1>3, <1>8, <3>1
    <3>3. model'.seen = 0 => model.seen = 0
      BY <1>10 DEF Blackboxes
    <3> QED
      BY <2>1, <3>1, <3>2, <3>3
  <2>3. CASE Decides(model, model', sample, now') /\ model'.seen # 0
    <3>1. deciding' # "none" /\ u1' = now' /\ u2' = u1
      BY <1>3, <1>8, <1>9, <2>3 DEF Decides, acts
    <3>2. model'.base.lastAction = "shrink" => model'.base.state = "one_node"
      BY <1>6, <2>3 DEF Decides, Direction, Other, Policies, States
    <3>3. ASSUME u1 # Never PROVE now' - u1 >= Cooldown
      <4>1. /\ model.base.lastTransition # Never /\ u1 <= model.base.lastTransition
            /\ u1 \in Nat /\ model.base.lastTransition \in Nat
        BY <1>5, <1>6, <3>3 DEF Paced, ModelType, Times, Policies
      <4>2. ~Cooling(model.base, now')
        <5>1. model.seen # 0
          BY <2>1, <3>3
        <5>2. ~(model'.seen = 1)
          BY <1>10, <2>3, <5>1
        <5> QED
          BY <2>1, <2>3, <5>2 DEF Decides
      <4>3. ~(now' - model.base.lastTransition < Cooldown)
        BY <4>1, <4>2 DEF Cooling
      <4> QED
        BY <1>1, <4>1, <4>3, PolicyAssumption, CooledDown
    <3> QED
      BY <2>3, <3>1, <3>2, <3>3
  <2> QED
    BY <1>10, <2>2, <2>3
<1>15. Grounded'
  <2>1. ASSUME kind = "blackbox"
        PROVE  /\ support' < DecisionWindow => model'.matches <= support'
               /\ deciding' # "none" => model'.matches = 0
               /\ deciding' # "none" =>
                    \/ support' >= DecisionWindow
                    \/ deciding' = "expand" /\ (model'.seen = 1 \/ before' = "shrink")
    <3>1. /\ model \in Blackboxes /\ model.matches \in Nat /\ support \in 0..DecisionWindow
          /\ support < DecisionWindow => model.matches <= support
      BY <1>5, <1>10, <2>1 DEF Grounded, ModelType, Blackboxes
    <3>2. support' \in 0..DecisionWindow
      BY <1>11 DEF ModelType
    <3>3. Supports(model.base.state, sample) =>
            /\ support' < DecisionWindow => model.matches + 1 <= support'
            /\ model.matches + 1 >= DecisionWindow => support' >= DecisionWindow
      <4> SUFFICES ASSUME Supports(model.base.state, sample)
                   PROVE  /\ support' < DecisionWindow => model.matches + 1 <= support'
                          /\ model.matches + 1 >= DecisionWindow => support' >= DecisionWindow
        OBVIOUS
      <4>1. support' = IF support < DecisionWindow THEN support + 1 ELSE support
        BY <1>4, <2>1
      <4> QED
        BY <3>1, <3>2, <4>1, PolicyAssumption, OneMore
    <3>4. CASE Waits(model, model', sample)
      <4>1. deciding' = "none"
        BY <1>8, <3>4 DEF Waits, rests
      <4>2. CASE model'.matches = 0
        BY <3>2, <4>1, <4>2
      <4>3. CASE model'.matches = model.matches + 1 /\ Supports(model.base.state, sample)
        BY <3>3, <4>1, <4>3
      <4> QED
        BY <3>4, <4>2, <4>3 DEF Waits
    <3>5. CASE Decides(model, model', sample, now')
      <4>1. /\ deciding' # "none" /\ deciding' = model'.base.lastAction
            /\ before' = model.base.lastAction /\ model'.matches = 0
        BY <1>3, <1>8, <1>9, <3>5 DEF Decides, acts
      <4>2. support' < DecisionWindow => model'.matches <= support'
        BY <3>2, <4>1
      <4>3. \/ support' >= DecisionWindow
            \/ deciding' = "expand" /\ (model'.seen = 1 \/ before' = "shrink")
        BY <3>3, <3>5, <4>1 DEF Decides
      <4> QED
        BY <4>1, <4>2, <4>3
    <3> QED
      BY <1>10, <2>1, <3>4, <3>5
  <2>2. /\ valid => \/ Common(source, reading) # {} /\ reading.status = "read"
                    \/ MainTask \in Common(source, reading)
        /\ ~gone' => source'.previous \subseteq OwnTasks
    BY <1>2, <1>5, OwnThreads DEF Grounded, valid
  <2>3. kind \in {"continuous", "blackbox"} => sound'
    BY <1>2, <1>7, <1>8, <2>2
  <2> QED
    BY <1>2, <2>1, <2>2, <2>3 DEF Grounded, DecisionsAreGrounded
<1> QED
  BY <1>11, <1>12, <1>13, <1>14, <1>15, <1>16 DEF LoopInv

-------------------------------------------------------------------------------
(***************************************************************************)
(* The theorems about the loop.                                            *)
(***************************************************************************)

\* A new model fits its policy, and has decided nothing.
LEMMA NewModel ==
  ASSUME NEW k \in Kinds, NEW s \in States
  PROVE  LET m == InitialModel(k, s)
         IN  /\ k = "benefit" => m \in Benefits /\ BenefitOrder(m, NoKey, {})
             /\ k = "continuous" => m \in Continuous /\ ContinuousOrder(m)
             /\ k \in {"benefit", "continuous"} => m.windows = << >>
             /\ k = "blackbox" => m \in Blackboxes /\ m.matches = 0
             /\ m.base = InitialPolicy(s)
<1> DEFINE p == InitialPolicy(s)
<1>1. p \in Policies
  BY DEF InitialPolicy, Policies, Times
<1>2. NoKey \in KpiWindows /\ UpTo(NoKey, NoKey, {})
  BY DEF NoKey, KpiWindows, UpTo
<1> HIDE DEF p
<1>3. CASE k = "benefit"
  <2> DEFINE b == InitialBenefit(s)
  <2>1. /\ InitialModel(k, s) = b /\ b.base = p /\ b.windows = << >> /\ b.lastKey = NoKey
        /\ b \in Benefits
    BY <1>1, <1>2, <1>3, EmptyChain DEF InitialModel, InitialBenefit, Benefits, p
  <2> HIDE DEF b
  <2>2. BenefitOrder(b, NoKey, {})
    BY <1>2, <2>1, EmptyChain DEF BenefitOrder
  <2> QED
    BY <1>3, <2>1, <2>2 DEF p
<1>4. CASE k = "continuous"
  <2> DEFINE c == InitialContinuous(s)
  <2>1. InitialModel(k, s) = c /\ c.base = p /\ c.windows = << >> /\ c \in Continuous
    BY <1>1, <1>2, <1>4, EmptyChain DEF InitialModel, InitialContinuous, Continuous, p
  <2> HIDE DEF c
  <2>2. ContinuousOrder(c)
    BY <2>1, EmptyChain DEF ContinuousOrder
  <2> QED
    BY <1>4, <2>1, <2>2 DEF p
<1>5. CASE k = "blackbox"
  <2>1. /\ InitialModel(k, s) = InitialBlackbox(s) /\ InitialBlackbox(s).base = p
        /\ InitialBlackbox(s) \in Blackboxes /\ InitialBlackbox(s).matches = 0
    BY <1>1, <1>5 DEF InitialModel, InitialBlackbox, Blackboxes, p
  <2> QED
    BY <1>5, <2>1 DEF p
<1> QED
  BY <1>3, <1>4, <1>5 DEF Kinds

\* The invariant holds at first.
LEMMA LoopStart == ASSUME PolicyInit PROVE LoopInv
<1> PICK s \in States : model = InitialModel(kind, s)
  BY DEF PolicyInit
<1>1. /\ kind \in Kinds \cup {"pressure"} /\ mode \in {"active", "shadow"} /\ latest = NoKey
      /\ source = NewSource /\ sound = TRUE /\ deciding = "none"
      /\ u1 = Never /\ u2 = Never /\ support = 0 /\ wentBack = {}
  BY DEF PolicyInit
<1>2. /\ kind = "benefit" => model \in Benefits /\ BenefitOrder(model, NoKey, {})
      /\ kind = "continuous" => model \in Continuous /\ ContinuousOrder(model)
      /\ kind \in {"benefit", "continuous"} => model.windows = << >>
      /\ kind = "blackbox" => model \in Blackboxes /\ model.matches = 0
      /\ kind # "pressure" => model.base = InitialPolicy(s)
  <2>1. CASE kind = "pressure"
    BY <2>1
  <2>2. CASE kind # "pressure"
    BY <1>1, <2>2, NewModel
  <2> QED
    BY <2>1, <2>2
<1>3. ModelType
  BY <1>1, <1>2, PolicyAssumption DEF ModelType, KpiWindows, NoKey, Times
<1>4. Ordered
  BY <1>1, <1>2 DEF Ordered
<1>8. Kept
  BY <1>1, <1>2 DEF Kept
<1>5. Paced
  BY <1>1 DEF Paced
<1>6. Shadowed
  <2>1. kind # "pressure" => model.base.lastAction = "none"
    BY <1>2 DEF InitialPolicy
  <2> QED
    BY <1>1, <2>1 DEF Shadowed
<1>7. Grounded
  <2>1. source.previous = {}
    BY <1>1 DEF NewSource
  <2> QED
    BY <1>1, <1>2, <2>1 DEF Grounded, DecisionsAreGrounded
<1> QED
  BY <1>3, <1>4, <1>5, <1>6, <1>7, <1>8 DEF LoopInv

\* Every step keeps it.
LEMMA LoopStep == ASSUME TypeOK, LoopInv, [PolicyNext]_policyVars PROVE LoopInv'
<1>0. now \in Nat
  BY DEF TypeOK
<1>1. CASE kind = "pressure" /\ Next /\ UNCHANGED loopVars
  BY <1>1, PressureClock, RestingStep
<1>2. CASE \E phase \in 1..MaxPhase, seq \in 1..MaxSequence : KpiArrives(phase, seq)
  BY <1>2, KpiStep
<1>3. CASE \E reading \in Readings(gone) :
             \E sample \in ModelSamples(kind, latest, Measures(source, reading)) :
               ModelSample(reading, sample)
  BY <1>0, <1>3, SampleStep
<1>4. CASE \E delay \in 0..1 : DecisionApplied(delay) \/ DecisionReverted(delay)
  BY <1>0, <1>4, AppliedStep, RevertedStep
<1>5. CASE ModelEnded \/ UNCHANGED policyVars
  <2>1. now' = now /\ UNCHANGED loopVars
    BY <1>5 DEF ModelEnded, policyVars, vars
  <2>2. now' \in Nat /\ now <= now'
    BY <1>0, <2>1
  <2> QED
    BY <1>0, <2>1, <2>2, RestingStep
<1> QED
  BY <1>1, <1>2, <1>3, <1>4, <1>5 DEF PolicyNext

\* The invariant of the loop.
LEMMA LoopInvariant == PolicySpec => []LoopInv
<1>1. PolicyInit => LoopInv
  BY LoopStart
<1>2. TypeOK /\ Spacing /\ Evidence /\ LoopInv /\ [PolicyNext]_policyVars => LoopInv'
  BY LoopStep
<1> QED
  BY <1>1, <1>2, PressureInvariant, PTL DEF PolicySpec

(***************************************************************************)
(* For every decision window, whatever is written to kpi-latest.json: the  *)
(* KPI windows that the benefit and the continuous policy average are of   *)
(* one phase, two in a row are never the same, and none was read before    *)
(* what makes the policy forget them; they are in order, each counted      *)
(* once, in a phase whose file never went back, and those of the           *)
(* continuous policy follow one another in any case (policy.py 160-198,    *)
(* 312-389).                                                               *)
(***************************************************************************)
THEOREM WindowsOfOnePhase == PolicySpec => []WindowsAreComparable
<1>1. ASSUME LoopInv PROVE WindowsAreComparable
  <2>1. CASE kind = "benefit"
    <3>1. Chain(model.windows, FALSE, wentBack) /\ Len(model.windows) <= support
      BY <1>1, <2>1 DEF LoopInv, Ordered, BenefitOrder, Kept
    <3> QED
      BY <2>1, <3>1 DEF Chain, Comparable, WindowsAreComparable
  <2>2. CASE kind = "continuous"
    <3>1. Chain(model.windows, TRUE, {}) /\ Len(model.windows) <= support
      BY <1>1, <2>2 DEF LoopInv, Ordered, ContinuousOrder, Kept
    <3>2. Chain(model.windows, TRUE, wentBack)
      BY <3>1 DEF Chain
    <3> QED
      BY <2>2, <3>1, <3>2 DEF Chain, Comparable, WindowsAreComparable
  <2>3. CASE kind \notin {"benefit", "continuous"}
    BY <2>3 DEF WindowsAreComparable
  <2> QED
    BY <2>1, <2>2, <2>3
<1> QED
  BY <1>1, LoopInvariant, PTL

(***************************************************************************)
(* Inside the cooldown of a decision, a failed one included, no policy     *)
(* gives resources away, and the black box in shadow, which is put back    *)
(* after every recommendation, recommends nothing at all                   *)
(* (docs/system-blackbox-scheduling.md:82; policy.py 592-629; runtime.py   *)
(* 457-459).                                                               *)
(***************************************************************************)
THEOREM DecisionsKeepTheirDistance == PolicySpec => []DecisionsAreSpaced
<1>1. ASSUME LoopInv PROVE DecisionsAreSpaced
  <2>1. Paced /\ Shadowed
    BY <1>1 DEF LoopInv
  <2>2. u1 \in Int /\ u2 \in Int
    BY <1>1 DEF LoopInv, ModelType, Times, Never
  <2>3. ASSUME deciding # "none", u2 # Never, u1 - u2 < Cooldown
        PROVE  deciding \in Widening /\ ~(kind = "blackbox" /\ mode = "shadow")
    <3>1. deciding \in Widening
      BY <2>1, <2>3 DEF Paced
    <3>2. ~(u1 - u2 >= Cooldown)
      BY <2>2, <2>3, PolicyAssumption
    <3>3. ~(kind = "blackbox" /\ mode = "shadow")
      BY <2>1, <2>3, <3>2 DEF Shadowed
    <3> QED
      BY <3>1, <3>3
  <2> QED
    BY <2>3 DEF DecisionsAreSpaced
<1> QED
  BY <1>1, LoopInvariant, PTL

(***************************************************************************)
(* The black box decides on a full window of consecutive samples that      *)
(* support the decision, or expands at its first valid sample or right     *)
(* after a shrink (policy.py 585-616); and every decision of the           *)
(* continuous policy and of the black box rests on a sample in which a     *)
(* thread of the target was compared with itself, or with the main thread  *)
(* of the process that took over the PID while the sample was taken, if    *)
(* its times had not fallen behind (metrics.py 180-246).                   *)
(***************************************************************************)
THEOREM DecisionsRestOnEvidence == PolicySpec => []DecisionsAreGrounded
<1>1. LoopInv => DecisionsAreGrounded
  BY DEF LoopInv, Grounded
<1> QED
  BY <1>1, LoopInvariant, PTL

===============================================================================
