--------------------------- MODULE PressureControl ---------------------------
(***************************************************************************)
(* The policy in its loop: a sample is evaluated, and a decision that      *)
(* carries an action is carried out before the next sample.  Carrying it   *)
(* out takes time and may fail, in which case the runtime forces the       *)
(* policy back to the state it left (runtime.py 295-314).                  *)
(***************************************************************************)
EXTENDS PressurePolicy

CONSTANTS
  MaxTime,    \* bound of the clock
  MaxGap      \* longest time between two samples, and longest action

ASSUME ClockAssumption == MaxTime \in Nat /\ MaxGap \in Nat \ {0}

VARIABLES
  now,
  policy,
  pending,    \* the action being carried out, or "none"
  \* History, for the properties only.
  decided,    \* the action of the last evaluation, or "none"
  t1, t2, t3, \* times of the last three decisions with an action
  highRun,    \* consecutive usable samples above the expansion gate since the
              \* last action, a failed one included
  lowSince,   \* time of the first of the consecutive low ones, or Never
  a1, a2      \* the last two of those actions, or "none"

vars == <<now, policy, pending, decided, t1, t2, t3, highRun, lowSince, a1, a2>>

Init ==
  /\ now = 1
  /\ \E s \in States : policy = InitialPolicy(s)
  /\ pending = "none"
  /\ decided = "none"
  /\ t1 = Never /\ t2 = Never /\ t3 = Never
  /\ highRun = 0
  /\ lowSince = Never
  /\ a1 = "none" /\ a2 = "none"

Usable(sample) == sample.active /\ sample.valid

Sample(gap, sample) ==
  /\ pending = "none"
  /\ now' = now + gap
  /\ now' <= MaxTime
  /\ policy' = Evaluate(policy, sample, now')
  /\ decided' = ActionOf(policy, policy')
  /\ pending' = decided'
  /\ highRun' = IF Usable(sample) /\ sample.high THEN highRun + 1 ELSE 0
  /\ lowSince' = IF Usable(sample) /\ sample.low
                 THEN IF lowSince = Never THEN now' ELSE lowSince
                 ELSE Never
  /\ IF decided' = "none"
     THEN UNCHANGED <<t1, t2, t3, a1, a2>>
     ELSE /\ t1' = now' /\ t2' = t1 /\ t3' = t2
          /\ a1' = decided' /\ a2' = a1

ActionApplied(delay) ==
  /\ pending # "none"
  /\ now' = now + delay
  /\ pending' = "none"
  /\ highRun' = 0 /\ lowSince' = Never
  /\ UNCHANGED <<policy, decided, t1, t2, t3, a1, a2>>

OtherState(s) == IF s = "one_node" THEN "two_node" ELSE "one_node"

ActionFailed(delay) ==
  /\ pending # "none"
  /\ now' = now + delay
  /\ pending' = "none"
  /\ policy' = ForceState(policy, OtherState(policy.state), now')
  /\ highRun' = 0 /\ lowSince' = Never
  /\ UNCHANGED <<decided, t1, t2, t3, a1, a2>>

\* The stop signal, or the bound of the clock, ends a run of the loop.
Ended == now >= MaxTime - MaxGap /\ UNCHANGED vars

Next ==
  \/ \E gap \in 1..MaxGap, sample \in Samples : Sample(gap, sample)
  \/ \E delay \in 0..MaxGap : ActionApplied(delay) \/ ActionFailed(delay)
  \/ Ended

Spec == Init /\ [][Next]_vars

-------------------------------------------------------------------------------
TypeOK ==
  /\ now \in Nat
  /\ policy \in Policies
  /\ pending \in PolicyActions \cup {"none"}
  /\ decided \in PolicyActions \cup {"none"}
  /\ t1 \in Times /\ t2 \in Times /\ t3 \in Times
  /\ highRun \in Nat
  /\ lowSince \in Times
  /\ a1 \in PolicyActions \cup {"none"} /\ a2 \in PolicyActions \cup {"none"}

(***************************************************************************)
(* No flapping: any three consecutive actions, failed ones included, span  *)
(* at least the cooldown.  The rollback exemption of policy.py 106-112     *)
(* lets a second action come early, never a third.                         *)
(***************************************************************************)
ActionsAreSpaced == t3 # Never => t1 - t3 >= Cooldown

(***************************************************************************)
(* An action inside the cooldown of the one before it is the rollback of a *)
(* shrink and nothing else.                                                *)
(***************************************************************************)
OnlyRollbackIsEarly ==
  t2 # Never /\ t1 - t2 < Cooldown => a1 = "rollback_expand" /\ a2 = "shrink"

(***************************************************************************)
(* Every action rests on uninterrupted evidence: what was seen before an   *)
(* inactive or invalid sample, before a change of state or before a failed *)
(* action never counts for a later decision (policy.py 56-64, 76-144).     *)
(***************************************************************************)
ActionsHaveEvidence ==
  pending # "none" =>
    CASE pending = "expand"          -> highRun >= DecisionWindow
      [] pending = "rollback_expand" -> highRun >= RollbackConfirm
      [] pending = "shrink"          -> /\ lowSince # Never
                                        /\ t1 - lowSince >= ShrinkConfirm
                                        /\ t2 # Never => t1 - t2 >= MinimumDwell

===============================================================================
