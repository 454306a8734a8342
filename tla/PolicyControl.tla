---------------------------- MODULE PolicyControl ----------------------------
(***************************************************************************)
(* The control loop with the policy its configuration names: the pressure  *)
(* policy alone (PressureControl), or one of ModelPolicies in shadow or    *)
(* active mode.  In shadow mode a decision is recorded and the policy is   *)
(* put back to the state the resources are in (runtime.py 457-459); in     *)
(* active mode it is carried out and may fail.                             *)
(*                                                                         *)
(* latest is the KPI window in kpi-latest.json: any other window of the    *)
(* phase may replace it, an earlier one too (KpiForwarding: a receiver     *)
(* that outlives its channel writes last), or one of the next phase.  The  *)
(* names of phases are distinct, so they are numbered; a window of a phase *)
(* that is over counts as none (runtime.py 386).                           *)
(***************************************************************************)
EXTENDS PressureControl, ModelPolicies, MetricSource

CONSTANTS
  MaxPhase,      \* bound of the phases, which are numbered as they come
  MaxSequence,   \* bound of the KPI sequence numbers
  ModelTime      \* bound of the clock in the loops of ModelPolicies

ASSUME LoopAssumption == MaxPhase \in Nat /\ MaxSequence \in Nat /\ ModelTime \in Nat

VARIABLES
  kind,      \* the policy: "pressure" or one of Kinds
  mode,      \* "shadow" or "active"
  model,     \* the record of the model policy
  source,    \* the record of MetricSource
  gone,      \* the PID of the target is another process
  latest,    \* kpi-latest.json
  deciding,  \* the decision being carried out, or "none"
  \* History, for the properties only.
  u1, u2,    \* times of the last two decisions with an action
  before,    \* the earlier one of the two, or "none"
  support,   \* consecutive samples that Supports holds of
  wentBack,  \* the phases in which kpi-latest.json went back
  sound      \* the decision is about a sample of the target

sourceVars == <<source, gone, sound>>
loopVars ==
  <<kind, mode, model, sourceVars, latest, deciding, u1, u2, before, support, wentBack>>
pressureVars == <<policy, pending, decided, t1, t2, t3, highRun, lowSince, a1, a2>>
policyVars == <<vars, loopVars>>

Kinds == {"benefit", "continuous", "blackbox"}

InitialModel(k, s) ==
  CASE k = "benefit"    -> InitialBenefit(s)
    [] k = "continuous" -> InitialContinuous(s)
    [] OTHER            -> InitialBlackbox(s)

PolicyInit ==
  /\ Init
  /\ kind \in Kinds \cup {"pressure"}
  /\ mode \in IF kind = "pressure" THEN {"active"} ELSE {"active", "shadow"}
  /\ kind # "pressure" => policy = InitialPolicy("one_node")
  /\ \E s \in States : model = InitialModel(kind, s) /\ (kind = "pressure" => s = "one_node")
  /\ source = NewSource
  /\ gone = FALSE
  /\ sound = TRUE
  /\ latest = NoKey
  /\ deciding = "none"
  /\ u1 = Never /\ u2 = Never
  /\ before = "none"
  /\ support = 0
  /\ wentBack = {}

\* The answers of a model, in the classes the gates of the policy make.
BenefitVerdicts == States \cup {"outside"}
ContinuousVerdicts == {"unusable", "outside", "gain", "uncertain", "loss"}
BlackboxVerdicts == {"insufficient", "gain", "loss"}

Verdicts(k) ==
  CASE k = "benefit"    -> BenefitVerdicts
    [] k = "continuous" -> ContinuousVerdicts
    [] OTHER            -> BlackboxVerdicts

\* A black box has no KPI and no activity marker; the baseline matters to the
\* continuous policy.  An invalid sample has no pressure, and only the benefit
\* policy asks its model about one; of an inactive sample nothing matters.
ModelSamples(k, file, valid) ==
  LET asked == IF valid \/ k = "benefit" THEN Verdicts(k) ELSE {"loss"}
  IN  [active : {TRUE}, valid : {valid},
       high : IF valid THEN BOOLEAN ELSE {FALSE},
       low : IF valid /\ k = "benefit" THEN BOOLEAN ELSE {FALSE},
       kpi : IF k = "blackbox" THEN {NoKey} ELSE {NoKey, file},
       changed : IF valid /\ k = "continuous" THEN BOOLEAN ELSE {FALSE},
       verdict : asked]
      \cup
      IF k = "blackbox"
      THEN {}
      ELSE [active : {FALSE}, valid : {valid}, high : {FALSE}, low : {FALSE},
            kpi : {NoKey}, changed : {FALSE}, verdict : {"outside"}]

Decide(k, m, sample, time, how) ==
  CASE k = "benefit"    -> BenefitEvaluate(m, sample, time)
    [] k = "continuous" -> ContinuousEvaluate(m, sample, time, how)
    [] OTHER            -> BlackboxEvaluate(m, sample, time, how)

Forced(k, m, s, time) ==
  CASE k = "benefit"    -> BenefitForce(m, s, time)
    [] k = "continuous" -> ContinuousForce(m, s, time)
    [] OTHER            -> BlackboxForce(m, s, time)

\* A window is written to kpi-latest.json.
KpiArrives(phase, seq) ==
  /\ kind \in {"benefit", "continuous"}
  /\ deciding = "none"
  /\ phase \in {latest.phase, latest.phase + 1} \ {0}
  /\ latest' = [phase |-> phase, seq |-> seq]
  /\ wentBack' = IF phase = latest.phase /\ seq < latest.seq
                 THEN wentBack \cup {phase} ELSE wentBack
  /\ UNCHANGED <<now, pressureVars, sourceVars, kind, mode, model, deciding, u1, u2, before, support>>

\* What a sample must be to speak for leaving the state s (the black box: the
\* verdict does, or the pressure in ONE), or for its KPI windows to be kept.
Supports(s, sample) ==
  /\ sample.active
  /\ kind # "benefit" => sample.valid
  /\ kind = "blackbox" => sample.verdict = "gain" \/ (s = "one_node" /\ sample.high)

ModelSample(reading, sample) ==
  /\ kind # "pressure"
  /\ deciding = "none"
  /\ now' = now + 1
  /\ now' <= ModelTime
  /\ model' = Decide(kind, model, sample, now', mode)
  /\ deciding' = ActionOf(model.base, model'.base)
  /\ source' = AfterSample(source, reading)
  /\ gone' = (gone \/ reading.status = "taken_over")
  /\ sound' = \/ deciding' = "none"
              \/ Common(source, reading) # {} /\ reading.status = "read"
              \/ MainTask \in Common(source, reading)
  /\ support' = IF Supports(model.base.state, sample)
                THEN IF support < DecisionWindow THEN support + 1 ELSE support
                ELSE 0
  /\ IF deciding' = "none"
     THEN UNCHANGED <<u1, u2, before>>
     ELSE u1' = now' /\ u2' = u1 /\ before' = model.base.lastAction
  /\ UNCHANGED <<pressureVars, kind, mode, latest, wentBack>>

\* _action returned; a failed or a shadow one puts the policy back.  The
\* benefit policy keeps its windows after an action of its pressure part.
DecisionApplied(delay) ==
  /\ deciding # "none"
  /\ mode = "active"
  /\ now' = now + delay
  /\ deciding' = "none"
  /\ support' = IF kind = "benefit" THEN support ELSE 0
  /\ sound' = TRUE
  /\ UNCHANGED <<pressureVars, source, gone, kind, mode, model, latest, wentBack, u1, u2, before>>

DecisionReverted(delay) ==
  /\ deciding # "none"
  /\ mode = "shadow" => delay = 0
  /\ now' = now + delay
  /\ model' = Forced(kind, model, Other(model.base.state), now')
  /\ deciding' = "none"
  /\ support' = 0
  /\ sound' = TRUE
  /\ UNCHANGED <<pressureVars, source, gone, kind, mode, latest, wentBack, u1, u2, before>>

\* The stop signal, or the bound of the clock, ends a run of the loop.
ModelEnded == kind # "pressure" /\ now >= ModelTime - 1 /\ UNCHANGED policyVars

PolicyNext ==
  \/ kind = "pressure" /\ Next /\ UNCHANGED loopVars
  \/ \E phase \in 1..MaxPhase, seq \in 1..MaxSequence : KpiArrives(phase, seq)
  \/ \E reading \in Readings(gone) :
       \E sample \in ModelSamples(kind, latest, Measures(source, reading)) :
         ModelSample(reading, sample)
  \/ \E delay \in 0..1 : DecisionApplied(delay) \/ DecisionReverted(delay)
  \/ ModelEnded

PolicySpec == PolicyInit /\ [][PolicyNext]_policyVars

-------------------------------------------------------------------------------
Widening == {"expand", "rollback_expand"}

Comparable(w) ==
  \A i \in 1 .. Len(w) - 1 :
    /\ w[i + 1].phase = w[i].phase
    /\ w[i + 1] # w[i]
    /\ w[i].phase \notin wentBack => w[i + 1].seq > w[i].seq
    /\ kind = "continuous" => w[i + 1].seq = w[i].seq + 1

(***************************************************************************)
(* The KPI windows a decision rests on are of one phase, and no two in a   *)
(* row are the same; while the file of the phase never went back none is   *)
(* counted twice, and those of the continuous policy follow one another    *)
(* without a gap even if it did.  They were all read since the last        *)
(* inactive sample and the last failed action, and for the continuous      *)
(* policy since the last invalid sample and any action as well             *)
(* (policy.py 160-198, 312-389).                                           *)
(***************************************************************************)
WindowsAreComparable ==
  kind \in {"benefit", "continuous"} =>
    Len(model.windows) <= support /\ Comparable(model.windows)

(***************************************************************************)
(* Inside the cooldown of an action, a failed one included, no policy      *)
(* gives resources away; in shadow the black box recommends nothing at all *)
(* (docs/system-blackbox-scheduling.md:82; policy.py 592-629).             *)
(***************************************************************************)
DecisionsAreSpaced ==
  deciding # "none" /\ u2 # Never /\ u1 - u2 < Cooldown =>
    /\ deciding \in Widening
    /\ ~(kind = "blackbox" /\ mode = "shadow")

(***************************************************************************)
(* A decision of the black box was confirmed by a full window of           *)
(* consecutive samples since the last action, or it is an expansion at the *)
(* very first valid sample or right after a shrink (policy.py 585-616);    *)
(* and only the benefit policy, which judges old KPI windows, decides at a *)
(* sample that did not compare a thread of the target with itself, or with *)
(* the main thread of a process that took over its PID in that very sample *)
(* and whose times had not fallen behind (metrics.py 180-246).             *)
(***************************************************************************)
DecisionsAreGrounded ==
  /\ kind = "blackbox" /\ deciding # "none" =>
       \/ support >= DecisionWindow
       \/ deciding = "expand" /\ (model.seen = 1 \/ before = "shrink")
  /\ kind \in {"continuous", "blackbox"} => sound

===============================================================================
