-------------------------- MODULE ExperimentRunner --------------------------
(***************************************************************************)
(* The AffinityGraph experiment runner, over the lifecycles of             *)
(* TreatmentLifecycle.  An experiment lives in a directory: a JSON state   *)
(* that the runner loads when it starts and saves after each step, the     *)
(* smoke report, and what people do between two executions: they edit the  *)
(* code, approve the report, recover from a hard failure, kill the runner. *)
(*                                                                         *)
(* A paired experiment deploys, runs the smoke steps with a gate after     *)
(* each, waits for the approval of the report, and runs the formal rows in *)
(* pairs.  A formal (Doris) experiment freezes the source, deploys, runs a *)
(* canary, and runs its rows.  The others deploy and run steps: a control  *)
(* experiment and the validation of a thread profile with a gate after     *)
(* each, the controls of a profile without gates, and an observe           *)
(* diagnostic whose one step is judged in a report.                        *)
(***************************************************************************)
EXTENDS TreatmentLifecycle, FiniteSets

CONSTANTS
    SmokeSteps,       \* the smoke steps of a paired experiment, in order
    Pairs,            \* number of pairs of rows
    MaxEdits,         \* bound on the edits of the code
    MaxKills,         \* bound on the kills of the runner
    MaxRecoveries     \* bound on the recoveries

StepNames == {"deploy", "prism_compatibility", "smoke_baseline",
              "smoke_observe", "smoke_plan", "smoke_active", "plan_canary",
              "control_1", "control_2", "unrestricted", "profile",
              "other_fallback", "runtime_only", "observe_diagnostic"}
Kinds == {"paired", "formal", "control", "profile", "fallback", "runtime_only",
          "diagnostic"}

ASSUME StepsAssumption == SmokeSteps \in Seq(StepNames)
ASSUME BoundsAssumption ==
    /\ Pairs \in Nat \ {0}
    /\ MaxEdits \in Nat /\ MaxKills \in Nat /\ MaxRecoveries \in Nat

VARIABLES
    exp,        \* the experiment: its kind, its gates, the order of its rows
    root,       \* the saved state
    mem,        \* the state of the runner, while it runs
    pc, at,     \* where the runner is; the step or the row it is at
    code,       \* the version of the code on disk
    report,     \* the fingerprint in the smoke report, 0 without a report
    rec,        \* the state a recovery has read
    kills, era, \* kills and recoveries so far
    alarm, lost, reviewed    \* histories, for the properties only

experiment == <<exp, root, mem, pc, at, code, report, rec, kills, era>>
history == <<alarm, lost, reviewed>>
vars == <<lifecycle, faults, experiment, history>>

Rows == 1 .. 2 * Pairs
Pair(i) == (i + 1) \div 2
Others(i) == {j \in Rows \ {i} : Pair(j) = Pair(i)}
Unrun == [status |-> "none", valid |-> TRUE, era |-> 0]

\* Two controls, observed; one round of a thread profile against a baseline.
ControlSteps == <<"control_1", "control_2">>
ProfileSteps == <<"unrestricted", "profile">>

\* The control matrix of a profile: with the other threads left alone, or
\* with the runtime and no profile at all.
FallbackSteps == <<"profile", "other_fallback">>
RuntimeOnlySteps == <<"runtime_only">>

DiagnosticSteps == <<"observe_diagnostic">>

Order ==
    <<"deploy">> \o
    CASE exp.kind = "paired" -> SmokeSteps
      [] exp.kind = "formal" -> <<"plan_canary">>
      [] exp.kind = "control" -> ControlSteps
      [] exp.kind = "profile" -> ProfileSteps
      [] exp.kind = "fallback" -> FallbackSteps
      [] exp.kind = "runtime_only" -> RuntimeOnlySteps
      [] exp.kind = "diagnostic" -> DiagnosticSteps

TreatmentOf(step) ==
    CASE step \in {"smoke_baseline", "unrestricted"} -> "baseline"
      [] step \in {"smoke_active", "profile", "other_fallback"} -> "active"
      [] step \in {"smoke_plan", "plan_canary"} -> "plan"
      [] OTHER -> "observe"

NewState == [steps |-> [s \in StepNames |-> "none"], fp |-> 0, approval |-> 0,
             freeze |-> 0, failure |-> "none", status |-> "open", rows |-> [i \in Rows |-> Unrun]]

\* A cold start has a profile and no preparation.
ColdKinds == {"profile", "fallback", "runtime_only"}

\* The order inside a pair is drawn at random when a paired experiment is
\* made; the design of a formal one has both orders.
Schedules ==
    {s \in [Rows -> {"baseline", "active"}] :
        \A i, j \in Rows : i # j /\ Pair(i) = Pair(j) => s[i] # s[j]}

Init ==
    /\ NoLifecycle /\ faults = 0
    /\ exp \in [kind : Kinds, soft : BOOLEAN, rows : Schedules]
    /\ exp.kind # "paired" => exp.soft = FALSE
    /\ exp.kind \notin {"paired", "formal"} =>
          \A i \in Rows : i % 2 = 1 => exp.rows[i] = "baseline"
    /\ root = NewState /\ mem = NewState /\ rec = {}
    /\ pc = "off" /\ at = 1 /\ code = 1 /\ report = 0
    /\ kills = 0 /\ era = 0
    /\ alarm = FALSE /\ lost = FALSE /\ reviewed = {}

-----------------------------------------------------------------------------
(* The runner.                                                             *)

Save(state) == mem' = state /\ root' = state
Goto(label, index) == pc' = label /\ at' = index
Exits == Goto("off", 1)
People == <<code, rec, kills, era, exp>>

\* What the fingerprint of an experiment is taken of.
Fingerprint == code

\* A formal experiment has the commits it began with, and nothing else in
\* its work trees.
CleanSource == root.freeze \in {0, code}

\* The gate on the state: no hard failure that is not recovered.  Only the
\* experiments with rows look at it.
Unblocked ==
    /\ exp.kind \in {"paired", "formal"} => root.failure # "open"
    /\ exp.kind = "formal" => CleanSource

Execute ==
    /\ pc = "off" /\ Unblocked
    /\ Save([root EXCEPT !.freeze = IF exp.kind = "formal" THEN code ELSE 0])
    /\ Goto("steps", 1)
    /\ UNCHANGED <<lifecycle, faults, report, People, history>>

Step == Order[at]
Done(step) == mem.steps[step] \in {"good", "poor", "bad"}

\* The build or the preflight on the target fails.
DeployFails == Save([mem EXCEPT !.steps["deploy"] = "failed"]) /\ Exits

\* A step that completed is not run again, in any execution.
Cached == Done("deploy") /\ Goto("check", 1) /\ UNCHANGED <<mem, root>>

Deploy ==
    /\ pc = "steps" /\ at = 1
    /\ \/ Cached
       \/ /\ ~Done("deploy")
          /\ \/ /\ Save([mem EXCEPT !.steps["deploy"] = "good", !.fp = Fingerprint])
                /\ Goto("check", 1)
             \/ DeployFails
    /\ UNCHANGED <<lifecycle, faults, report, People, history>>

\* Code that is not the code the experiment was deployed with: the approval
\* is void, a formal experiment ends, the others do not look.
CheckFingerprint ==
    /\ pc = "check"
    /\ \/ mem.fp = Fingerprint /\ Goto("steps", 2) /\ UNCHANGED <<mem, root>>
       \/ /\ mem.fp # Fingerprint /\ exp.kind = "paired"
          /\ Save([mem EXCEPT !.fp = Fingerprint, !.approval = 0, !.status = "open"])
          /\ Goto("steps", 2)
       \/ /\ mem.fp # Fingerprint /\ exp.kind # "paired"
          /\ IF exp.kind = "formal" THEN Exits ELSE Goto("steps", 2)
          /\ UNCHANGED <<mem, root>>
    /\ UNCHANGED <<lifecycle, faults, report, People, history>>

\* After every step, run now or in an earlier execution, its gate.  The
\* diagnostic has a report instead.
GatePasses(step, result) ==
    \/ result = "good" \/ step = "observe_diagnostic"
    \/ result = "poor" /\ (exp.soft \/ step = "prism_compatibility")

Gate ==
    /\ pc = "steps" /\ at \in 2 .. Len(Order) /\ Done(Step)
    /\ IF GatePasses(Step, mem.steps[Step]) THEN Goto("steps", at + 1) ELSE Exits
    /\ UNCHANGED <<lifecycle, faults, mem, root, report, People, history>>

\* The host is clean and idle, or the step or the row ends before it began.
\* A failed row of a paired experiment stays "running".
Fails(state) ==
    IF pc \in {"steps", "step"} THEN [state EXCEPT !.steps[Step] = "failed"]
    ELSE IF exp.kind = "formal"
    THEN [state EXCEPT !.rows[at].status = "failed", !.status = "open"]
    ELSE state

Unclean(state) == Save(Fails(state)) /\ Exits /\ UNCHANGED lifecycle

Runs(treatment, soft, label, state) ==
    \/ /\ Save(state) /\ Goto(label, at)
       /\ IF treatment = "baseline" THEN UNCHANGED lifecycle
          ELSE BeginLifecycle(treatment, exp.kind \in ColdKinds, soft,
                              exp.kind = "formal")
    \/ Unclean(state)

BeginStep ==
    /\ pc = "steps" /\ at \in 2 .. Len(Order) /\ ~Done(Step)
    /\ Runs(TreatmentOf(Step), exp.soft /\ Step # "prism_compatibility", "step",
            [mem EXCEPT !.steps[Step] = "running"])
    /\ UNCHANGED <<faults, report, People, history>>

\* The smoke report is written; without an approval of this code the
\* experiment waits for one.
Review ==
    /\ pc = "steps" /\ at > Len(Order)
    /\ exp.kind = "paired"
    /\ report' = mem.fp
    /\ \/ mem.approval = mem.fp /\ Goto("rows", 1) /\ UNCHANGED <<mem, root>>
       \/ mem.approval # mem.fp /\ Exits /\ Save([mem EXCEPT !.status = "open"])
    /\ UNCHANGED <<lifecycle, faults, People, history>>

\* The canary of a formal experiment passed.
CanaryPassed ==
    /\ pc = "steps" /\ at > Len(Order) /\ exp.kind = "formal"
    /\ Goto("rows", 1)
    /\ UNCHANGED <<lifecycle, faults, mem, root, report, People, history>>

\* The other experiments are at their end; what their reports find.  Every
\* contrast of a control experiment has its two rows when its gates passed,
\* and the validation of a profile has its pair.
ControlComplete == \A i \in DOMAIN ControlSteps : mem.steps[ControlSteps[i]] = "good"
Verdict ==
    CASE exp.kind = "control" -> ControlComplete
      [] exp.kind = "diagnostic" -> mem.steps["observe_diagnostic"] = "good"
      [] OTHER -> TRUE

StepsReport ==
    /\ pc = "steps" /\ at > Len(Order) /\ exp.kind \notin {"paired", "formal"}
    /\ Save([mem EXCEPT !.status = IF Verdict THEN "complete" ELSE "incomplete"])
    /\ Exits
    /\ UNCHANGED <<lifecycle, faults, report, People, history>>

\* The exported placements of a profile do not agree between the rounds.
ExportsDisagree ==
    /\ pc = "steps" /\ at > Len(Order) /\ exp.kind = "profile"
    /\ Exits
    /\ UNCHANGED <<lifecycle, faults, mem, root, report, People, history>>

BeginRow ==
    /\ pc = "rows" /\ at \in Rows
    /\ IF mem.rows[at].status = "complete"
       THEN Goto("rows", at + 1) /\ UNCHANGED <<mem, root, lifecycle>>
       ELSE Runs(exp.rows[at], FALSE, "row",
                 [mem EXCEPT !.rows[at] = [Unrun EXCEPT !.status = "running"]])
    /\ UNCHANGED <<faults, report, People, history>>

Counted(rows) == {i \in Rows : rows[i].status = "complete" /\ rows[i].valid}

\* A paired report needs the effect of every pair of the load, if the load has
\* a row that counts: with none there is no load, and nothing is missing.
PairedComplete(rows) ==
    LET effects == {p \in 1 .. Pairs : \A i \in Rows : Pair(i) = p => i \in Counted(rows)}
    IN  Counted(rows) # {} => Cardinality(effects) = Pairs

\* A formal report needs both baselines and an effect of every active row.
FormalComplete(rows) ==
    LET effects == {i \in Counted(rows) :
                      exp.rows[i] = "active" /\ Others(i) \subseteq Counted(rows)}
    IN  \A i \in Rows : exp.rows[i] = "active" => i \in effects

Report ==
    /\ pc = "rows" /\ at \notin Rows
    /\ LET whole == IF exp.kind = "paired" THEN PairedComplete(mem.rows)
                    ELSE FormalComplete(mem.rows)
       IN  Save([mem EXCEPT !.status = IF whole THEN "complete" ELSE "incomplete"])
    /\ Exits
    /\ UNCHANGED <<lifecycle, faults, report, People, history>>

-----------------------------------------------------------------------------
(* The end of a lifecycle.                                                 *)

Running == pc \in {"step", "row"}
Treatment == IF pc = "step" THEN TreatmentOf(Step) ELSE exp.rows[at]
Monitored == Running /\ Treatment # "baseline"
Over == Running /\ (Monitored => mon.pc = "done")
Aside == <<report, People>>

\* The benchmark measured every phase, though its tear-down may have failed.
MayBeComplete == bench.code = 0 \/ bench.next >= Len(Course)

\* An exception, anywhere in the lifecycle, that is no hard failure.
Raises == Save(Fails(mem)) /\ Exits /\ EndLifecycle

\* A lifecycle that ends without a result and without a verdict in the state.
MonitorRaises ==
    /\ mon.pc = "raised"
    /\ Raises
    /\ UNCHANGED <<faults, Aside, history>>

BaselineFails ==
    /\ Running /\ ~Monitored /\ Fault
    /\ Raises
    /\ UNCHANGED <<Aside, history>>

\* The files of the hook are fetched before the verdict of the monitor is
\* looked at.
FetchFails ==
    /\ Monitored /\ Over /\ Fault
    /\ Raises
    /\ lost' = (lost \/ mon.verdict)
    /\ UNCHANGED <<Aside, alarm, reviewed>>

\* Defect: the verdict is not saved.
HardFailsUnsaved ==
    /\ Over /\ Monitored
    /\ mon.verdict
    /\ Save(Fails(mem))
    /\ alarm' = TRUE
    /\ Exits /\ EndLifecycle
    /\ UNCHANGED <<faults, Aside, lost, reviewed>>

\* The verdict is saved, as is that of a target that failed before its BPF
\* collector was seen at work.
StartupMarker == IF life.cold THEN Ready ELSE Warmup
NeverObserved == outputs[StartupMarker] = "none" /\ outputs[Ready] # "good"

HardFails ==
    /\ Over /\ Monitored
    /\ mon.verdict \/ (bench.code # 0 /\ NeverObserved)
    /\ Save([Fails(mem) EXCEPT !.failure = "open"])
    /\ alarm' = TRUE
    /\ Exits /\ EndLifecycle
    /\ UNCHANGED <<faults, Aside, lost, reviewed>>

\* The benchmark failed, or the last event left no phase_after.json.
BenchmarkFails ==
    /\ Over /\ Monitored /\ ~mon.verdict
    /\ bench.code # 0 \/ outputs[Final] # "good"
    /\ Raises
    /\ UNCHANGED <<faults, Aside, history>>

\* Defect: the evidence of the last event is not asked for.
EvidenceOfBenchmark == Monitored => ~mon.verdict /\ MayBeComplete

\* The evidence of a result: the masks were restored.
Evidence == Monitored => ~mon.verdict /\ MayBeComplete /\ outputs[Final] = "good"

\* The summary of the measurement cannot be read, a log cannot be copied, or
\* a process of the target outlived its benchmark.
ResultFails ==
    /\ Over /\ Evidence /\ Fault
    /\ Raises
    /\ UNCHANGED <<Aside, history>>

\* What the log of the runtime and the files of the hook say of a result.
\* The samples, losses, drops and resources of the log are free; nothing is
\* good that was not restored.
Judged(restored) == IF restored THEN {"good", "poor"} ELSE {"poor"}
Restored == outputs[Final] = "good"

\* "active" must also have found its placement effective at every start.
RuntimeHealth ==
    Judged(Restored /\ (Treatment = "active" => outputs[Measured] = "good"))

\* A plan is bad when it moved threads or found the wrong families.
PlanHealth == RuntimeHealth \cup {"bad"}

\* The rules of a profile matched exactly the threads they are for.
ProfileValidation == Judged(Restored)

\* Complete windows without a loss, a drop, an unreadable sample or a
\* supervisor that is too large.
DiagnosticReport == Judged(Restored)

Results ==
    CASE Treatment = "baseline" \/ exp.kind \in {"fallback", "runtime_only"} -> {"good"}
      [] Treatment = "plan" -> PlanHealth
      [] Step = "profile" -> ProfileValidation
      [] Step = "observe_diagnostic" -> DiagnosticReport
      [] OTHER -> RuntimeHealth

StepCompletes ==
    /\ pc = "step" /\ Over /\ Evidence /\ Step # "plan_canary"
    /\ \E result \in Results : Save([mem EXCEPT !.steps[Step] = result])
    /\ Goto("steps", at)
    /\ EndLifecycle
    /\ UNCHANGED <<faults, Aside, history>>

\* A canary that is not good is a step that failed: it is run again by the
\* next execution.
CanaryCompletes ==
    /\ pc = "step" /\ Over /\ Evidence /\ Step = "plan_canary"
    /\ \E result \in PlanHealth :
          IF result = "good"
          THEN Save([mem EXCEPT !.steps[Step] = result]) /\ Goto("steps", at)
          ELSE Save(Fails(mem)) /\ Exits
    /\ EndLifecycle
    /\ UNCHANGED <<faults, Aside, history>>

\* Defect: a row that is not valid leaves its pair alone.
CompletedAlone(i, valid) ==
    [mem.rows EXCEPT ![i] = [status |-> "complete", valid |-> valid, era |-> era]]

\* The rows after row i completed: an active row that is not valid takes its
\* baseline with it, whichever was first.
Completed(i, valid) ==
    LET spoiled == \E j \in Others(i) :
                      /\ exp.rows[j] = "active" /\ mem.rows[j].status = "complete"
                      /\ ~mem.rows[j].valid
    IN  [j \in Rows |->
           IF j = i THEN [status |-> "complete", valid |-> valid /\ ~spoiled, era |-> era]
           ELSE IF j \in Others(i) /\ exp.rows[i] = "active" /\ ~valid
           THEN [mem.rows[j] EXCEPT !.valid = FALSE]
           ELSE mem.rows[j]]

RowCompletes ==
    /\ pc = "row" /\ exp.kind = "paired" /\ Over /\ Evidence
    /\ \E valid \in BOOLEAN :
          /\ Treatment = "baseline" => valid
          /\ Save([mem EXCEPT !.rows = Completed(at, valid)])
    /\ Goto("rows", at + 1)
    /\ EndLifecycle
    /\ UNCHANGED <<faults, Aside, history>>

\* The throughput of the baselines is compared as soon as all are there.
Comparable(rows) ==
    \A i \in Rows : exp.rows[i] = "baseline" => rows[i].status = "complete"

\* A formal row that is not valid, or baselines that are not stable, stop
\* the experiment after the row was saved as complete.
FormalRowCompletes ==
    /\ pc = "row" /\ exp.kind = "formal" /\ Over /\ Evidence
    /\ \E valid, stable \in BOOLEAN :
          LET rows == [mem.rows EXCEPT ![at] =
                         [status |-> "complete", valid |-> valid, era |-> era]]
              stops == ~valid \/ (Comparable(rows) /\ ~stable)
          IN  /\ Save([mem EXCEPT !.rows = rows, !.status = IF stops THEN "open" ELSE @])
              /\ IF stops THEN Exits ELSE Goto("rows", at + 1)
    /\ EndLifecycle
    /\ UNCHANGED <<faults, Aside, history>>

Beside ==
    /\ alarm' = (alarm \/ mon'.verdict)
    /\ UNCHANGED <<experiment, lost, reviewed>>

MonitorSteps == Monitored /\ Monitor /\ Beside
BenchmarkSteps == Monitored /\ Benchmark /\ Beside
TargetSteps == Monitored /\ Target /\ Beside
LifecycleSteps == MonitorSteps \/ BenchmarkSteps \/ TargetSteps

-----------------------------------------------------------------------------
(* The people.                                                             *)

\* The runner is killed, or its host; what it had not saved is gone.  Its
\* benchmark has a session of its own and may live on: nobody serves its
\* events, and while its server is up the host is not idle (Unclean).
Kill ==
    /\ pc # "off" /\ kills < MaxKills
    /\ kills' = kills + 1
    /\ Exits /\ EndLifecycle
    /\ lost' = (lost \/ mon.verdict)
    /\ UNCHANGED <<faults, exp, root, mem, code, report, rec, era, alarm, reviewed>>

\* Nothing reads the code or the approval while a benchmark runs: people do
\* their work before or after.
Edit ==
    /\ ~Running /\ code <= MaxEdits
    /\ code' = code + 1
    /\ UNCHANGED <<lifecycle, faults, exp, root, mem, pc, at, report, rec, kills, era, history>>

\* Defect: the fingerprint of the report is not looked at.
ApproveStale ==
    /\ ~Running /\ exp.kind = "paired" /\ report # 0
    /\ root' = [root EXCEPT !.approval = root.fp, !.status = "open"]
    /\ reviewed' = reviewed \cup {report}
    /\ UNCHANGED <<lifecycle, faults, exp, mem, pc, at, code, report, rec, kills, era,
                   alarm, lost>>

\* "affinitygraph approve": the report is of the code the state is about.
Approve ==
    /\ ~Running /\ exp.kind = "paired" /\ report # 0 /\ report = root.fp
    /\ root' = [root EXCEPT !.approval = root.fp, !.status = "open"]
    /\ reviewed' = reviewed \cup {report}
    /\ UNCHANGED <<lifecycle, faults, exp, mem, pc, at, code, report, rec, kills, era,
                   alarm, lost>>

\* "affinitygraph recover" reads the state, looks at the host, and writes
\* what it read; the pair of the first row found running is run again.  With a
\* changed code it asks for the root of a diagnostic that passed.
RecoverReads ==
    /\ exp.kind = "paired" /\ rec = {} /\ era < MaxRecoveries
    /\ root.failure = "open"
    /\ rec' = {root}
    /\ UNCHANGED <<lifecycle, faults, exp, root, mem, pc, at, code, report, kills, era, history>>

Superseded(rows) ==
    LET pairs == {Pair(i) : i \in {j \in Rows : rows[j].status = "running"}}
    IN  [i \in Rows |-> IF Pair(i) \in pairs /\ \A p \in pairs : Pair(i) <= p
                        THEN [rows[i] EXCEPT !.status = "superseded"] ELSE rows[i]]

RecoverWrites ==
    /\ rec # {}
    /\ \E state \in rec :
          root' = [state EXCEPT !.failure = "recovered", !.status = "open",
                                 !.rows = Superseded(@)]
    /\ rec' = {} /\ era' = era + 1
    /\ alarm' = FALSE /\ lost' = FALSE
    /\ UNCHANGED <<lifecycle, faults, exp, mem, pc, at, code, report, kills, reviewed>>

RecoverFails ==
    /\ rec # {} /\ rec' = {}
    /\ UNCHANGED <<lifecycle, faults, exp, root, mem, pc, at, code, report, kills, era, history>>

-----------------------------------------------------------------------------

LifecycleEnds ==
    \/ MonitorRaises \/ BaselineFails \/ FetchFails \/ HardFails
    \/ BenchmarkFails \/ ResultFails
    \/ StepCompletes \/ CanaryCompletes \/ RowCompletes \/ FormalRowCompletes

Runner ==
    \/ Deploy \/ CheckFingerprint \/ Gate \/ BeginStep \/ Review \/ CanaryPassed
    \/ StepsReport \/ ExportsDisagree \/ BeginRow \/ Report \/ LifecycleEnds

Operators == Execute \/ Kill \/ Edit \/ Approve \/ RecoverReads \/ RecoverWrites \/ RecoverFails

Next == Runner \/ LifecycleSteps \/ Operators

\* The runner, whose monitor is part of it, takes its steps, and the benchmark,
\* whose phases have a duration, takes its own.  Nothing is assumed of the
\* target, of the people, or of a benchmark that was sent SIGTERM.
Fairness ==
    /\ WF_vars(Runner \/ MonitorSteps)
    /\ WF_vars(bench.pc # "stopping" /\ BenchmarkSteps)

Spec == Init /\ [][Next]_vars /\ Fairness

-----------------------------------------------------------------------------
(* Properties.                                                             *)

State == [steps : [StepNames -> {"none", "running", "failed", "good", "poor", "bad"}],
          fp : 0 .. MaxEdits + 1, approval : 0 .. MaxEdits + 1,
          freeze : 0 .. MaxEdits + 1, failure : {"none", "open", "recovered"},
          status : {"open", "complete", "incomplete"},
          rows : [Rows -> [status : {"none", "running", "complete", "superseded", "failed"},
                           valid : BOOLEAN, era : 0 .. MaxRecoveries]]]

\* Every variable has its type; the monitor and the benchmark exist exactly
\* while a step or a row with a treatment runs, and the runner and the saved
\* state disagree only about an approval.
TypeOK ==
    /\ LifecycleTypeOK
    /\ root \in State /\ mem \in State
    /\ pc \in {"off", "steps", "check", "step", "rows", "row"}
    /\ at \in 1 .. Len(Order) + 2 * Pairs + 1
    /\ report \in 0 .. MaxEdits + 1
    /\ Monitored <=> life # NoLife
    /\ LET rest(state) == [state EXCEPT !.approval = 0, !.status = "open"]
       IN  pc # "off" => rest(mem) = rest(root)

Begins == ~Running /\ Running'

\* A hard failure of the BPF collector blocks every further benchmark until
\* somebody recovered, however often the experiment is executed, killed or
\* edited - unless the runner died between the verdict and its record.
RecordedFailureBlocks == [][exp.kind \in {"paired", "formal"} /\ Begins => ~alarm \/ lost]_vars

\* The same of a paired experiment, without the exception: a hard failure
\* blocks the resume.
HardFailureBlocksResume == [][exp.kind = "paired" /\ Begins => ~alarm]_vars

Completes ==
    \/ \E s \in StepNames \ {"deploy"} : ~Done(s) /\ Done(s)'
    \/ \E i \in Rows : mem.rows[i].status # "complete" /\ mem'.rows[i].status = "complete"

\* A result that counts was measured from the first phase to the last, with
\* the placement in effect when the measurement of "active" started, and the
\* masks of the threads were given back before the server went down -
\* whatever exit code of the benchmark was forgiven.
ResultsAreMeasured ==
    [][Completes /\ Monitored =>
          /\ target.paused
          /\ bench.next >= Len(Course)
          /\ Treatment = "active" /\ ~life.cold => outputs[Measured] = "good"]_vars

\* The rows of a paired experiment run only with code whose own smoke report
\* was approved, though the code, the report and the state all change while
\* nobody looks.
FormalIsReviewed == pc = "row" /\ exp.kind = "paired" => mem.fp \in reviewed

\* The two rows of a pair agree: both count or none does, and no recovery
\* from a hard failure lies between them.  A report that is "complete" has
\* the effect of every pair - or, of a paired experiment, of none, when no
\* row at all was valid.
PairsAgree ==
    /\ exp.kind = "paired" =>
          \A i \in Rows : \A j \in Others(i) :
              root.rows[i].status = "complete" /\ root.rows[j].status = "complete" =>
                  /\ root.rows[i].valid = root.rows[j].valid
                  /\ root.rows[i].era = root.rows[j].era
    /\ exp.kind \in {"paired", "formal"} /\ root.status = "complete" =>
          /\ \A i \in Rows : root.rows[i].status = "complete"
          /\ Counted(root.rows) \in {Rows} \cup (IF exp.kind = "paired" THEN {{}} ELSE {})

\* Every execution returns: a benchmark that ignores SIGTERM is killed.
ExecuteReturns == pc # "off" ~> pc = "off"
=============================================================================
