---------------------------- MODULE ModelPolicies ----------------------------
(***************************************************************************)
(* The policies of controller/policy.py that ask a calibrated model:       *)
(* BenefitPolicy, ContinuousBenefitPolicy and BlackboxBenefitPolicy.  Each *)
(* is a PressurePolicy with more memory: a record whose field base is the  *)
(* record of PressurePolicy, and an evaluate that is a function of it.     *)
(*                                                                         *)
(* What a model answers is part of the sample: a verdict, one of the       *)
(* classes the code tells apart after it compared the estimate with its    *)
(* gates.  The numbers behind a verdict are not modelled.                  *)
(***************************************************************************)
EXTENDS PressurePolicy, SequencesExt

CONSTANTS
  ChangeConfirm,  \* pressure_change_confirm_samples
  FastExpand      \* startup_fast_expand

ASSUME ModelAssumption == ChangeConfirm \in Nat \ {0} /\ FastExpand \in BOOLEAN

\* A KPI window: its phase, and its sequence number within the phase.
NoKey == [phase |-> 0, seq |-> 0]

Other(s) == IF s = "one_node" THEN "two_node" ELSE "one_node"
Direction(s) == IF s = "two_node" THEN "expand" ELSE "shrink"

\* The policy moves to s by a decision of the model; what the pressure part
\* counted is not touched.
Moved(p, s, now) ==
  [p EXCEPT !.state = s, !.lastTransition = now, !.lastAction = Direction(s)]

\* A move the cooldown, or the dwell in TWO, holds back.
Held(p, now) ==
  \/ Cooling(p, now)
  \/ p.state = "two_node" /\ ~Elapsed(now, p.lastTransition, MinimumDwell)

-------------------------------------------------------------------------------
(* BenefitPolicy: signatures calibrated per load.                          *)

InitialBenefit(s) == [base |-> InitialPolicy(s), windows |-> <<>>, lastKey |-> NoKey]

\* The KPI windows after a sample: a window is taken once, and windows of
\* another phase are forgotten.
Observed(b, key) ==
  IF key = NoKey \/ key = b.lastKey
  THEN b
  ELSE LET kept == IF b.windows # <<>> /\ Last(b.windows).phase # key.phase
                   THEN <<>> ELSE b.windows
           all  == Append(kept, key)
       IN  [b EXCEPT !.lastKey = key,
              !.windows = IF Len(all) > DecisionWindow THEN Tail(all) ELSE all]

(***************************************************************************)
(* verdict: "outside" when no signature is close enough, otherwise the     *)
(* state the signature prefers by more than the gate (the current one when *)
(* the gain is below it).  Without a verdict the pressure decides.         *)
(***************************************************************************)
BenefitEvaluate(b, sample, now) ==
  LET seen == Observed(b, sample.kpi)
  IN  IF ~sample.active
      THEN [b EXCEPT !.base = Evaluate(@, sample, now), !.windows = <<>>]
      ELSE IF Len(seen.windows) < DecisionWindow \/ sample.verdict = "outside"
      THEN [seen EXCEPT !.base = Evaluate(@, sample, now)]
      ELSE IF sample.verdict = seen.base.state \/ Held(seen.base, now)
      THEN seen
      ELSE [seen EXCEPT !.base = Moved(@, sample.verdict, now), !.windows = <<>>]

\* Defect: a forced state keeps the KPI windows.
BenefitForceKeepsWindows(b, s, now) == [b EXCEPT !.base = ForceState(@, s, now)]

BenefitForce(b, s, now) == [b EXCEPT !.base = ForceState(@, s, now), !.windows = <<>>]

-------------------------------------------------------------------------------
(* ContinuousBenefitPolicy: a regression over pressure, throughput, p99.   *)

InitialContinuous(s) ==
  [base |-> InitialPolicy(s), windows |-> <<>>, lastKey |-> NoKey,
   baseline |-> FALSE, changes |-> 0, shadowRec |-> "none", rebase |-> FALSE]

\* _reset_windows; the baseline is only forgotten when asked.
ResetWindows(c, resetBaseline) ==
  [c EXCEPT !.windows = <<>>, !.lastKey = NoKey, !.changes = 0,
            !.baseline = @ /\ ~resetBaseline,
            !.shadowRec = IF resetBaseline THEN "none" ELSE @,
            !.rebase = @ /\ ~resetBaseline]

\* Defect: a missing sequence number does not interrupt the windows.
CountedThroughGaps(c, key) ==
  LET from == IF c.lastKey # NoKey /\ key.phase # c.lastKey.phase
              THEN ResetWindows(c, TRUE) ELSE c
      all  == Append(from.windows, key)
  IN  [from EXCEPT !.lastKey = key,
         !.windows = IF Len(all) > DecisionWindow THEN Tail(all) ELSE all]

\* A new KPI window joins the ones it follows directly, or starts over.
Counted(c, key) ==
  LET follows == c.lastKey = NoKey \/ key = [c.lastKey EXCEPT !.seq = @ + 1]
      from    == IF follows THEN c ELSE ResetWindows(c, key.phase # c.lastKey.phase)
      all     == Append(from.windows, key)
  IN  [from EXCEPT !.lastKey = key,
         !.windows = IF Len(all) > DecisionWindow THEN Tail(all) ELSE all]

ContinuousMove(c, s, now) ==
  ResetWindows([c EXCEPT !.base = Moved(@, s, now), !.shadowRec = s], FALSE)

\* The pressure baseline moves to the observed pressure when there is none
\* yet, or once the pressure stayed away from it long enough.
Rebased(c, changed) ==
  LET changes == IF c.baseline /\ changed THEN c.changes + 1 ELSE 0
      moved   == ~c.baseline \/ changes >= ChangeConfirm
  IN  [c EXCEPT !.baseline = TRUE, !.rebase = @ \/ moved,
                !.changes = IF moved THEN 0 ELSE changes]

\* Outside the model only the pressure of ONE can move the state, and
\* neither the cooldown nor the dwell is looked at.
JudgeOutside(c, sample, now, mode) ==
  IF /\ c.base.state = "one_node"
     /\ sample.high
     /\ ~(mode = "shadow" /\ c.shadowRec = "two_node")
  THEN ContinuousMove(c, "two_node", now)
  ELSE c

JudgeInside(c, sample, now, mode) ==
  LET r         == Rebased(c, sample.changed)
      emergency == r.base.state = "one_node" /\ sample.high
      target    == Other(r.base.state)
  IN  IF ~r.rebase /\ ~emergency
      THEN r
      ELSE IF sample.verdict # "gain" /\ ~emergency
      THEN [r EXCEPT !.rebase = sample.verdict = "uncertain"]
      ELSE IF Held(r.base, now)
      THEN r
      ELSE IF mode = "shadow" /\ r.shadowRec = target
      THEN [r EXCEPT !.rebase = FALSE]
      ELSE ContinuousMove([r EXCEPT !.rebase = FALSE], target, now)

(***************************************************************************)
(* verdict: "unusable" KPI values; "outside" the model; inside it the      *)
(* lower bound of the gain passes the gate ("gain"), or does not while the *)
(* expected gain is positive ("uncertain") or not ("loss").                *)
(***************************************************************************)
ContinuousEvaluate(c, sample, now, mode) ==
  IF ~sample.active
  THEN ResetWindows(c, TRUE)
  ELSE IF ~sample.valid
  THEN ResetWindows(c, FALSE)
  ELSE IF sample.kpi = NoKey \/ sample.kpi = c.lastKey
  THEN c
  ELSE LET counted == Counted(c, sample.kpi)
       IN  IF Len(counted.windows) < DecisionWindow \/ sample.verdict = "unusable"
           THEN counted
           ELSE IF sample.verdict = "outside"
           THEN JudgeOutside(counted, sample, now, mode)
           ELSE JudgeInside(counted, sample, now, mode)

ContinuousForce(c, s, now) ==
  [ResetWindows(c, FALSE) EXCEPT !.base = ForceState(@, s, now), !.rebase = FALSE]

-------------------------------------------------------------------------------
(* BlackboxBenefitPolicy: system telemetry only, no KPI.                   *)

\* seen stops counting valid samples at 2: evaluate only asks for the first.
InitialBlackbox(s) ==
  [base |-> InitialPolicy(s), matches |-> 0, lastRec |-> "none", seen |-> 0]

BlackboxMove(d, s, now) ==
  [d EXCEPT !.base = Moved(@, s, now), !.lastRec = s, !.matches = 0]

\* Defect: weak evidence is passed over, the matches before it stay.
BlackboxJudgePausing(d, sample, now, mode) ==
  LET high   == d.base.state = "one_node" /\ sample.high
      target == Other(d.base.state)
      more   == [d EXCEPT !.matches = @ + 1]
  IN  IF ~high /\ sample.verdict = "insufficient"
      THEN d
      ELSE IF ~high /\ sample.verdict = "loss"
      THEN [d EXCEPT !.matches = 0, !.lastRec = "none"]
      ELSE IF more.matches < DecisionWindow \/ Held(d.base, now)
      THEN more
      ELSE BlackboxMove(more, target, now)

\* Defect: high pressure in ONE expands at once, not only at the first sample.
BlackboxJudgeEager(d, sample, now, mode) ==
  LET high   == d.base.state = "one_node" /\ sample.high
      target == Other(d.base.state)
      more   == [d EXCEPT !.matches = @ + 1]
  IN  IF high /\ FastExpand
      THEN BlackboxMove(d, target, now)
      ELSE IF sample.verdict = "insufficient"
      THEN [d EXCEPT !.matches = 0]
      ELSE IF sample.verdict = "loss"
      THEN [d EXCEPT !.matches = 0, !.lastRec = "none"]
      ELSE IF more.matches < DecisionWindow \/ Held(d.base, now)
      THEN more
      ELSE BlackboxMove(more, target, now)

(***************************************************************************)
(* verdict: "insufficient" coverage or confidence, "gain" when the         *)
(* predicted gain passes the gate of the direction, otherwise "loss".      *)
(***************************************************************************)
BlackboxJudge(d, sample, now, mode) ==
  LET high   == d.base.state = "one_node" /\ sample.high
      target == Other(d.base.state)
      more   == [d EXCEPT !.matches = @ + 1]
  IN  IF ~high /\ sample.verdict = "insufficient"
      THEN [d EXCEPT !.matches = 0]
      ELSE IF ~high /\ sample.verdict = "loss"
      THEN [d EXCEPT !.matches = 0, !.lastRec = "none"]
      ELSE IF high /\ FastExpand /\ (d.seen = 1 \/ d.base.lastAction = "shrink")
      THEN BlackboxMove(d, target, now)
      ELSE IF more.matches < DecisionWindow \/ Held(d.base, now)
      THEN more
      ELSE IF mode = "shadow" /\ d.lastRec = target
      THEN [d EXCEPT !.matches = 0]
      ELSE BlackboxMove(more, target, now)

BlackboxEvaluate(d, sample, now, mode) ==
  IF ~sample.active
  THEN [d EXCEPT !.matches = 0, !.lastRec = "none"]
  ELSE IF ~sample.valid
  THEN [d EXCEPT !.matches = 0]
  ELSE BlackboxJudge([d EXCEPT !.seen = IF @ = 2 THEN 2 ELSE @ + 1], sample, now, mode)

BlackboxForce(d, s, now) == [d EXCEPT !.base = ForceState(@, s, now), !.matches = 0]

===============================================================================
