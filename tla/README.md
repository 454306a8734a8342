# Formal verification of prism-sampler

prism-sampler watches a running database service, decides whether it should run
on one NUMA node or on two, and moves it: the CPU masks of every thread and the
number of ClickHouse thread slots change together, guarded by hysteresis and by
the throughput the application itself reports. Around that controller the
repository has collectors with their hooks, a live relationship graph, and
experiment runners.

This directory holds TLA+ models of that code, TLC configurations that check
them on small instances, and TLAPS proofs of the main results for every value
of the constants. The models are translated from the code; `PROJECT.json` maps
every definition to its lines, names the defect each property finds, and lists
the hazards the properties are about.

## 1. Inventory

| Part | State it keeps | Operations | Hard behaviour | Modelled |
|---|---|---|---|---|
| CPU affinity actuator (`controller/actuator.py`, `TasksetActuator`) | masks recorded at start-up | `apply`, `restore` | threads spawn, inherit masks and end while they are listed, set and verified; retries | `AffinityActuator` |
| Slots actuator (`ClickHouseSlotsActuator`) | original file and value | `apply`, `restore`, `metrics` | file replaced, reload, read-back: a call fails after any of them | inside `ControllerRuntime`, partly |
| Pressure policy (`controller/policy.py`) | state, confirmation counters, last transition | `evaluate`, `force_state` | windows, dwell, cooldown and the rollback exemption over long sequences; failed actions | `PressurePolicy`, `PressureControl` |
| Benefit, continuous, blackbox policies (`controller/policy.py`) | windows of KPI and of verdicts, baselines | `evaluate`, `force_state` | expansions that pass the cooldown; windows of other phases or of before a gap | `ModelPolicies`, `PolicyControl` |
| Metric source (`controller/metrics.py`) | previous counters per thread | `sample` | threads that come and go between samples; a PID that becomes another process | `MetricSource`, partly |
| Controller runtime (`controller/runtime.py`) | actual state, policy, script position, KPI history, pending validation | `run`, `_action`, `_scripted_decision`, `_validate_pending_action` | two-resource transactions with rollback; exceptions, signals and kills at any step; state that outlives its phase | `ControllerRuntime`, partly |
| KPI store, forwarder (`controller/kpi*.py`) | acknowledged keys, file position, index, latest window | `ingest`, `forward` | lost acknowledgements, duplicates, crashes between three writes, receivers that outlive their channel | `KpiForwarding` |
| Controller integration (`controller/integration.py`, `agent_cli.py`) | pid record, status, control file | `start`, `mark`, `stop` | a status that outlives its process; a start that is given up | `CollectionHook`, partly |
| Hooks and collector sessions (`hooks.py`, `collectors/session.py`) | one state file per phase, pid files | `server_ready`, `phase_before`, `phase_after`, `run_abort` | a crash between starting collectors and recording them; repeated events | `CollectionHook` |
| Live pipeline (`live/`) | windows, group names, confidence, two files | `ingest`, `score`, the agent | lost snapshots, expiry, stop and kill between two writes | `LiveGraph`, `LivePipeline` |
| Fine placement (`controller/fine_placement.py`) | last polled key | `poll`, partition, relief, clusters | capacity of a greedy partition; a candidate of another graph or scaling state | `FinePlacement`, `LivePipeline` |
| AffinityGraph runner and relay (`affinitygraph_runner.py`, `affinitygraph_hook.py`) | `resume-state.json`, smoke report, request and response files | execute, approve, recover, `handle` | resume after a crash in any step, hard failures, health monitoring, late responses, edits of the code between two executions | `ExperimentRunner`, `TreatmentLifecycle` |
| AffinityGraph placement, pressure and blackbox runners, offline analysis, deployment, CLI, reports | none across calls, or the same resume state | | numerical, or input and output | no, section 6 |

How they interact: the workload driver calls the hook around every phase; the
hook starts and stops the collectors on the target, starts the controller at
`server_ready` and the KPI forwarder in `phase_before`. Hooks write
`control.json` (`mark`) and the forwarder's receiver writes `kpi-latest.json`;
the controller process reads both once per iteration, samples `/proc`, asks the
policy, and calls the two actuators in order. The live analyzer replaces
`live-candidates-latest.json`, which the controller polls for a shadow
placement. The experiment runner starts a benchmark whose events come back to
it as request files, runs the hook for each and answers with response files,
and polls the control socket of the target in between.

What makes the parts correct, in the order of importance:

* the resources change in an order that never gives the server more slots than
  CPUs, through every failure (`NeverOversubscribed`);
* a failed action is as if it had not been tried, or is known to be torn
  (`ActualIsTrue`), and the policy reasons from the true state
  (`PolicyFollowsActual`);
* every change of the resources is a transaction, the last of which restores the
  target (`Transactional`); a stop ends the process (`StopIsHonoured`), and shadow
  mode never touches it (`ShadowTouchesNothing`);
* what `apply` and `restore` promise holds for threads spawned meanwhile
  (`AppliedIsComplete`, `RestoredKeepsOriginals`);
* decisions do not flap and rest on uninterrupted evidence (`ActionsAreSpaced`,
  `OnlyRollbackIsEarly`, `ActionsHaveEvidence`, and for the policies with a model
  `DecisionsAreSpaced`, `DecisionsAreGrounded`, `WindowsAreComparable`),
  rollbacks on windows of after the action (`GuardIsEarned`);
* KPI windows reach the store in order, none is acknowledged before it is
  stored, and retries are harmless (`InOrderDelivery`, `AckedIsStored`,
  `RetriesAreHarmless`, `DoneMeansDrained`, `StopDrains`);
* collectors are not orphaned, a phase that is ready is collected, and there is
  one controller and one forwarder (`NoOrphans`, `ReadyMeansCollecting`,
  `OneOfEach`, `EventsReturn`);
* a hard failure blocks an experiment until somebody recovered, and a result
  that counts was measured under its treatment with reviewed code
  (`RecordedFailureBlocks`, `ResultsAreMeasured`, `FormalIsReviewed`,
  `PairsAgree`, `ExecuteReturns`);
* a placement rests on what was observed, and fits (`PlacedIsObserved`,
  `LatestKeepsUp`, `PlacementIsSound`).

## 2. Modules

| Module | Models |
|---|---|
| `AffinityActuator` | `TasksetActuator`, one step per task that is set, read or restored, beside a service whose threads spawn and end |
| `PressurePolicy` | the policy object as a record and `evaluate` as a function of it |
| `PressureControl` (extends `PressurePolicy`) | that function in its loop: irregular samples, actions that take time and may fail, history variables for the properties |
| `ModelPolicies` (extends `PressurePolicy`) | the three policies that ask a calibrated model, each a record around that of the pressure policy |
| `MetricSource` | which threads a sample compares, and when it is valid |
| `PolicyControl` (extends the three above) | every policy in the control loop, in active and in shadow mode, with the KPI file and the target's process |
| `ResourceTransaction` | what the controller promises of the target: complete states, and transactions between them |
| `ControllerRuntime` (extends `PressurePolicy`) | the controller process that implements it, one step per actuator call and per stage of an iteration, with the files it reads and the signals it gets |
| `KpiDelivery` | what forwarding promises: an in-order delivery with a record of acknowledgements |
| `KpiForwarding` | file, forwarder, channels, receivers and store, which implement `KpiDelivery` |
| `CollectionHook` | the hook process of every event with what it starts and stops |
| `TreatmentLifecycle` | one benchmark under a treatment: benchmark, relay, target and monitor |
| `ExperimentRunner` (extends `TreatmentLifecycle`) | the resumable experiments over those lifecycles, and the people between two executions |
| `LiveGraph` | the sliding window of the live graph and its confidence |
| `FinePlacement` | partition, relief and CPU clusters as operators |
| `LivePipeline` (extends both) | Prism's stream, the analyzer, its two files and the poll of the controller |
| `MC...` | the instances TLC checks, where a `.cfg` cannot write the constants |
| `PressurePolicyLemmas`, `...Proofs` | the lemmas about the policy as a function, and the theorems about the module each is named after (those about `PressureControl` are in `PolicyControlProofs`) |

### AffinityActuator

`mask` is the kernel's affinity of every task, `Unborn` before it is spawned and
`Gone` after it ended. `Spawn` lets the child inherit its parent's mask; while
`taskset -a` walks the task directory a new task may be seen by the walk or
missed. `Apply` is the identity check and the first round; `SetTask` one
`sched_setaffinity`; `ListForVerify` the second listing; `CheckTask` one status
file, whose `OSError` is skipped; `NoMask` one without a mask, which fails the
call; `Verified` and `Mismatched` the end of a round.
`Restore` chooses between the verified uniform branch and the unverified
thread-by-thread one, like the code. `vanished` is a history variable: some
listed task was gone when its status was read.

All target processes are one directory of tasks: the code treats the union of
their listings, and the order in which several PIDs are handled only adds
interleavings the per-task steps already have. Task ids are not reused.

### PressurePolicy and PressureControl

A sample is four facts: workload active, sample valid, high pressure, low
pressure; how `/proc` yields them is arithmetic left out. They are independent,
since the configuration does not keep the two thresholds apart.
`rollback_matches` of the code is never read and is left out. The clock starts
at 1: a monotonic clock of 0 would make `shrink_since or now` lose its first low
sample, which a running host does not have.

`PressureControl` closes the loop: after a decision the action takes some time
and is applied, or fails and forces the policy back.

### ModelPolicies, MetricSource and PolicyControl

A policy is a record whose field `base` is the record of `PressurePolicy`, since
the classes inherit from it; `BenefitEvaluate`, `ContinuousEvaluate` and
`BlackboxEvaluate` are the three `evaluate` methods with every early return. The
answer of a regression enters with the sample as a verdict, one of the classes
the gates of the code tell apart ("outside" its calibration, "unusable", a gain,
a loss, uncertain), and the run chooses it freely: what is checked is what the
policies make of any sequence of answers.

`MetricSource` keeps the threads of the last sample. A sample is valid when it
compares a thread with itself; the PID may be another process, found by the
check of its start time or, when it is taken over after the check, not. The main
thread of such a process has the TID of the old one: it is compared with it
unless its times have fallen behind (`behind`), and that one sample is the
exception `DecisionsAreGrounded` states.

`PolicyControl` chooses the policy and the mode at the start. `latest` is
`kpi-latest.json`: any other window of the phase may replace it, also an earlier
one, which a receiver that outlives its channel may write last (`KpiForwarding`);
or it begins again with the next phase (whose names are distinct, so they are
numbered). `wentBack` remembers the phases in which an earlier window came back:
`WindowsAreComparable` asks of them that no window follows itself, of the others
that none is counted twice. A shadow decision is put back, an active one is
carried out and may fail. With `kind = "pressure"` the steps are those of
`PressureControl`, so one run checks its properties too.

### ResourceTransaction and ControllerRuntime

`pc` is the place in `run()`: `boot`; `forward` and `rollback` inside `_action`;
`observe`, `decide`, `report`, `wait` for one iteration; `restoreAffinity` and
`restoreSlots` for the `finally` block; and three ways to be gone. `op` holds the
local variables of `_action`, its `origin` says who called it (initialize, a
decision, the KPI guard). One actuator call is one step. It succeeds, or it fails
after any part of its effect: `AffinityFails` and `PartialSlots` say what may be
left behind. `AffinityActuator` has the inside of the calls.

An affinity call that succeeds need not have moved every task: that is the second
finding below, and a restore does not verify at all when the tasks had different
masks. `AffinityMoves` is therefore such a call: the tasks it saw have the new
mask, and up to `MaxEscapes` masks that tasks had before may stay in use by tasks
that escaped it. `masks` is the set of masks of the tasks that escaped no call,
`escaped` that of the others; the next call moves both. `slots.file` and
`slots.live` separate the configuration file from what the server runs with. The
properties of the resources are about `masks` and the slots: an escaped task is
outside what this code can promise, and they say so.

KPI windows have one of three qualities. A median over at most three windows is
then one of three levels, which is all the comparison with the baseline needs:
throughput and p99 move together in the model, either being enough in the code.
`control.json` and `kpi-latest.json` are read in one place, so the writes of the
world happen just before it. `PublishKpi` writes any window of the current phase,
a later one or an earlier one again; `newest` and `returns` count how often it was
an earlier one, at most `MaxReturns` times.

The runtime is modelled with `PressurePolicy`, the policy it uses when neither a
model nor benefit signatures are configured; the others run in `PolicyControl`.
An action's record is a line in a journal and is left out; a journal that cannot
be written is one of the reasons for `LoopRaises`.

`ResourceTransaction` knows no masks and no slots, only the state the target is in:
one of the complete states, the original one, or a mixture. It changes between
`Open` and `Commit`, `Undo` or `Tear`, and between `Close` and `Restore` or
`FailToRestore`; `Commit` is allowed where the target has arrived, `Undo` where it
is back in the recorded state. `strays` says that part of the target is elsewhere:
it may change only in a step that moves, commits, takes back, tears or restores. The
refinement (`Transactional`) maps masks and slots to the state they make up
(`Shown`), escaped tasks to strays, `actual_state` to the recorded one and the place
in `run()` to the stage; a rollback that failed too, which the code
records as `rollback_error`, is a torn transaction. A kill or a failed initialize
ends it in any state: that is `Vanish`, and the finding below.

### KpiDelivery and KpiForwarding

Windows are numbered in the order the application writes them; `written` counts
the complete lines of the file and `partial` says that its last line is half
written, which makes a poll raise. `fwd` holds the local variables of
`forward()`, `saved` the state file. `Poll`, `Skip`, `Send`, `Answered`,
`SendFails`, `Save`, `AllSent` and `Check` are the statements of its loop, in
their order.

Every channel has a receiver of its own: `Boot` loads the index, `Receive`
reads a line and rejects it, knows it, or goes on to `AppendRow`, `WriteLatest`
and `WriteIndex`, the three writes of an ingest. `Closed` cuts the link only:
closing waits for the local ssh, and a receiver with a line in its pipe goes on
beside its successor, with the index it loaded. Faults break a channel, with or
without the line in it, kill a receiver or kill the forwarder, at any step.
`rejected` is fixed: a window that lacks a field lacks it at every retry.

`KpiDelivery` knows three counters only: what was written, what is stored, what
is recorded as acknowledged. The refinement maps the rows of `kpi.jsonl` to its
store and the state file to its record; what a receiver or the forwarder still
believes maps to nothing.

### CollectionHook

One event is one hook process, `hook` with its place in `handle()`; one process
or file it touches is one step. What a later event knows of an earlier one is
on disk: `files` (the state file of a phase), `running` (collectors a pid file
names), `ctl.named` and `ctl.status`, `fwd.named`. What nobody can find any more
is `stray`, a controller beyond the named one, or `fwd.strays`. Starting a
collector can fail, find it dead, retry (`prism` only) or lose its ssh; a failed
start stops all plugins again, in reverse. A stop waits for the collector, sends a
last SIGTERM and removes the pid file without another look: the collector may
outlive it and is then in `survivors`. `NoOrphans` is about the others, and a
survivor must not cost another collector its pid file. A query for the status of a
controller that runs may fail, or answer no JSON; another one is then launched
(mishap "unasked"). Collectors, controller and forwarder end at any time, a
controller with or without its last status, and the hook process may be killed
anywhere.

`mishaps` is a history of the kinds of event this code has no answer to; the
properties name those they except, so each says which mishaps leave an orphan
and which do not.

### TreatmentLifecycle and ExperimentRunner

`bench` is YBA, which is external: it delivers the events of `Course` through
request files and takes an answer other than success as the end. `mon` is the
loop of the runner that looks for a request, runs the hook, answers, and polls
the health of the target between two looks; `relay` and `outputs` are the files
they share. `target` degrades, recovers, loses its placement, pauses or goes
away on its own. Faults strike anywhere. A health poll is healthy, lossy, sick
or unanswered; which of these count as a failure depends on the gates, on the
treatment, and on whether the placement is in effect yet.

`ExperimentRunner` has the state of an experiment twice: `root`, the saved
file, and `mem`, what the running process loaded. A paired experiment deploys,
runs its smoke steps with a gate after each, waits for the approval of the smoke
report, and runs its rows in pairs; a formal one freezes the source and runs a
canary first; control, profile, fallback and diagnostic experiments run steps
only. `Execute`, `Kill`, `Edit`, `Approve` and the two halves of a recovery
(which reads the state, looks at the host, and writes what it had read) are what
people do. The version of the code stands for the fingerprint taken of it. A killed
runner leaves its benchmark, which has a session of its own, with nobody to answer
its events: while its server is up the next row finds the host not idle
(`Unclean`), and it ends when the relay times out. That it has no server yet and
starts one in the middle of a later lifecycle is left out.
`alarm`, `lost` and `reviewed` are histories.

### LiveGraph, FinePlacement and LivePipeline

A graph is a record and `Ingest` a function of it: the groups named by taskstats
and forgotten after `Expiry`, the windows inside the horizon with the snapshots
missing before each, and from them the coverage, the mapped share and the
eligible groups. A snapshot covers one tick, so a sequence number is also a
time. Confidence is the exact product of its fractions.

`Partition` is the assignment of least objective and, among equals, the first in
the order of enumeration; `Relieved` moves parts of groups from a node that is
too full to the other one; `Clusters` hands out whole clusters, the largest part
first, until none are left; the last cluster of a node is shorter when its CPUs do
not divide evenly, which the code does not look at either. More than `MaxGroups`
groups are refused. Demands are in thousandths of a CPU and added without rounding,
so the tolerance of 1e-9 that the code allows its floating-point sums has no
counterpart; a score is a whole number of 0 to 100, the most that 100 times a signal
times a stability, each at most 1, can be. An objective is kept exactly, as its whole
part and the rest.

`PlacementIsSound` says what such a placement may be, not what one would wish: a
group is short of CPUs only by what the last cluster lacks, and whole groups that
would fit are split only when the overload, squared and weighed, is not above the
objective of the assignment that fits. Both happen in the run: two groups of three
and two CPUs on one node of five get four and one, and 4.003 and 1 CPUs with an edge between
them are split by three thousandths though a node for each would do.

`LivePipeline` composes them: a stream that may lose a snapshot anywhere, an
analyzer that looks at the stop event, waits for a line, ingests, appends to the
journal and replaces the latest file in separate steps, ends or is killed in any
of them; a controller that changes its scaling state and polls. A poll chooses
one of `Relations`: groups, their demands and the scored edges between them.

## 3. What is checked

| Run | Bounds | Shows |
|---|---|---|
| `affinity_apply` | three task ids, two masks, two attempts | `apply` is complete when every listed task could be read; `restore` gives back the recorded masks; calls return |
| `affinity_escape` | the same | without that condition it is not: a finding |
| `pressure_control` | window 2, confirm 1/1, dwell 4, cooldown 3, gaps up to 2, clock 16; for the policies with a model clock 7, two phases, KPI sequence 3, two own threads, the main one among them, and a foreign one | three pressure actions span the cooldown, only the rollback of a shrink is early, every action has uninterrupted evidence; what the other policies may do inside the cooldown, on which windows and samples |
| `controller_transactions` | five configurations (both initial states, no slots, shadow, scripted), two failing calls and one escaped mask per call, clock 6 | the order of the resources, the transactions of `ResourceTransaction`, the policy's state, shadow mode and stop |
| `controller_kpi` | two phases, three KPI windows of each, good or failing, one of which comes back; no slots, clock 5 | a rollback of the guard rests on three windows of one phase and of after the action |
| `controller_exit` | as `controller_transactions` | a failing initialize leaves without restoring: a finding |
| `kpi_forwarding` | two windows, the second possibly rejected; two channels, two faults | in-order delivery, acknowledged windows stored, harmless retries, a drained end that is reached |
| `collection_hook` | three phases, two collected; three plugins, two attempts; three events, one mishap | which mishaps leave an orphan; what "ready" means; one controller and forwarder; every event ends |
| `collection_repeat` | four events, no mishap | a repeated `phase_before` orphans the collectors of the first: a finding |
| `experiment` | one measured phase, one smoke step, one pair; one fault, edit, kill and recovery | blocking, reviewed code, measured results, pairs that agree; executions return |
| `experiment_record` | two faults, one recovery | a verdict that is lost before it is recorded: a finding |
| `live_placement` | horizon 3, expiry 2, two evidence windows, confidence 3/4, six snapshots; up to three groups on nodes of five CPUs in clusters of two, two and one, demands of 0 to 7 CPUs with some a few thousandths off a boundary, scores 10 and 100 | placements rest on observed windows and fit; the latest file keeps up |

Why the bounds are enough. Three tasks are a spawner the walk missed, its child,
and a bystander, or a chain of two spawns; the verification compares masks
only, so more masks add no case. With two attempts a chain of two spawns fails
the last one; three attempts, the default of the code, would need a fourth task.
The pressure windows are chosen so that confirming is much quicker than the
cooldown (otherwise the spacing would follow from the confirmation alone), and
the clock leaves room for four actions. Two failing calls are an action that
fails and a rollback that fails; the third call of an action does not exist. One
baseline window and three settled ones are what a guard rollback takes, of which
three different ones can be had from three windows, or from two when one comes
back; two phases interrupt them. The windows are good or failing, since the run asks
when a rollback may be decided and not which of the three comparisons decides it. Two windows, two channels and two faults are a receiver
that still writes the first window while its successor gets the same one again,
after which either process dies. A collected phase before another and three
events are a start, a start or stop that fails, and the event that should clean
up; the second collected phase shows what the first left. One fault ends a
lifecycle in each of its places, and the kill, the edit and the recovery of the
same behaviour fall before and after it; a pair is the unit in which rows are
superseded, so more pairs repeat it. Six snapshots fill the horizon of three
twice and leave room for a gap in the middle; the demands lie below, at and
above a cluster and a node, or a few thousandths beyond, and the fifth CPU of a node
is a cluster of its own.

With one pair and one phase a partial report of a paired experiment is out of
reach: such a report needs a valid pair beside an invalid one.

Every property has a mutant in `PROJECT.json`, a defect of the same code that
the run finds: a retry that is not counted, a rollback that is left out, masks
that always move first, an answer taken for an acknowledgement, a gap that is
not recorded. Definitions marked "Defect" in the modules are these and are used
nowhere else.

Fairness. `FairSpec` of `AffinityActuator` asks that a call that has started
continues (`WF_vars(Step)`): the controller is one thread and the commands it
waits for end. `FairSpec` of `ControllerRuntime` asks the same of the process
(`WF_vars(Process)`), that of `KpiForwarding` of the forwarder and of each
receiver: sends have the timeouts of ssh. `FairSpec` of `CollectionHook` asks
that a hook that runs goes on and that a controller that was launched comes up
or ends. `Spec` of `ExperimentRunner` asks it of the runner with its monitor,
and of a benchmark that was not sent SIGTERM, whose phases have a duration.
Nothing is asked of the service, the target, the application, the driver, the
operator, or of anybody who would have to start a process again.

### Findings

1. `controller_exit`: `run()` applies the initial state before the `try` whose
   `finally` restores (runtime.py 352-355). If that action fails, its rollback
   goes to the initial state too, the exception leaves `run`, and the target
   keeps masks and possibly slots it did not have before. The design note says
   that active mode "restores original affinity/config on exit"
   (docs/pressure-aware-numa-scaling.md:54).
2. `affinity_escape`: thread A is not seen by the walk of `taskset -a`, is listed
   for verification, spawns B, and ends before its status is read. The read
   fails and is skipped (actuator.py 250-253), B was never listed, and `apply`
   reports `applied` with B on the old mask. The note says that `taskset` is
   applied "to every target task" and the result verified (lines 52-54).
3. `collection_repeat`: a second `phase_before` of a phase resets the remote
   directory and with it the pid files of the collectors that run
   (session.py 475), then starts another set. No later event can stop the first.
   docs/architecture.md:40 says "Hook and stop operations are idempotent."
4. `experiment_record`: `run_lifecycle` fetches the files of the hook before it
   looks at the verdict of the monitor (affinitygraph_runner.py 2016-2018). When
   the fetch raises, `hard_failure` is not recorded and the next execution starts
   a benchmark. README.md:90 says that a hard BPF failure blocks the resume.

Behaviour the models show that no document contradicts, and that is therefore no
finding:

* the KPI guard compares with a baseline of an earlier phase, and a failed guard
  rollback leaves the policy in another state than the target (runtime.py 220,
  245); a KPI window counts from when it is observed (180);
* the benefit policy decides on a KPI window that is old, and at invalid samples;
  the continuous policy counts the window that triggered a move again, and its
  expansion for safety ignores the cooldown (policy.py 186-198, 367-389);
* a `taskset` that returned may have missed a task, which then keeps an old mask
  until the next call, also after the controller restored and left (actuator.py
  294-304);
* a collector that outlives SIGTERM is not looked for again (remote.py 95-98), a
  query for a status that fails launches a second controller, and a status that says
  running outlives its controller (integration.py 46-56);
* an earlier KPI window that comes back is counted again (policy.py 180, runtime.py
  175);
* a group whose CPUs are those of a shorter last cluster has fewer than its demand
  (fine_placement.py 172-185);
* a window the receiver rejects is retried for ever and nothing behind it is
  sent (kpi_forwarder.py 104-110);
* the failure counter of the monitor is not reset by a lossy poll under soft
  gates, so "consecutive" failures need not be (affinitygraph_runner.py 1737);
  an exception in the monitor leaves the benchmark unsupervised; an event name
  that repeats is never answered; the `run_abort` of a benchmark that was sent
  SIGTERM is not answered while it is reaped;
* control, profile and diagnostic experiments do not look at a recorded hard
  failure (3014), a formal one cannot be recovered, and a formal "stopped"
  status is looked at in the base runner only (2440);
* an approval written while a runner or a recovery has the state loaded is
  overwritten; nothing keeps two runners from the same directory; after a new
  approval the rows of one pair may have been run by different code.

## 4. What is proved

For every value of the constants; TLC checked each inductive invariant first.

* `AffinityActuatorProofs`: `TypeCorrect`; `AppliedCompleteness` and
  `RestoreCorrectness` from one invariant, whose heart is that during a
  verification that has found nothing wrong and lost no task, a task with a wrong
  mask means that one is still to be visited, because masks are inherited; while
  the task-by-task restore runs, every recorded task has its original mask or is
  still to be visited.
* `PolicyControlProofs`, of `PressureControl`: `NoFlapping` and `EarlyMeansRollback`. The policy's last
  transition is never before the last action; a policy whose last action is a
  shrink had a full cooldown before it, so the exemption is used once at most.
  `EvidenceForActions` rests on `Evidence`: the policy's counters never claim more
  than the samples gave, its matches being at most the present run of high samples
  and its low period no older than the samples' own; the dwell of a shrink follows
  because the last transition is never before the last action.
* `ControllerRuntimeProofs`: `TypeCorrect`; `OrderIsSafe`, `RecordedStateIsTrue`,
  `StopRestores`, `ShadowIsPassive` and `ChangesAreTransactions` from the invariant `Ordered`. Its core is
  `Reached(s)`: halfway through an action towards `s` the resource that goes first
  has arrived, but for the tasks that escaped it. None of the properties is inductive alone, since the state in
  which only one resource has moved satisfies them and its successor need not.
  `ChangesAreTransactions` is the refinement of `ResourceTransaction`: every step of
  the process is one of its actions or leaves what is seen of the target alone. At
  the end of an action `Reached` says that the state shown is the one to commit or
  the one to go back to; a restore is complete because the masks are back when the
  slots follow. `StopRestores` states the end of it as an invariant, and is the one
  theorem about a state that no run lists: the refinement covers it there.
  `PolicyFollows` adds `Followed`, where the policy stands at each place of
  `run()` when no guard runs. `GuardRests` proves `GuardIsEarned` from `Earned`: the
  history is a run of windows of one phase, none followed by itself, that ends with
  the one of `last_kpi_key`; as long as the file never went back it holds the newest
  window of its phase, and the history ascends; and a pending validation waits for the settling of the last applied action and of no other.
* `KpiForwardingProofs`: `OrderAlways` is the inductive invariant. The store has a
  prefix of the windows; the queue is the end of what was read, and what is
  before it is acknowledged; whatever is on its way into the store, also in a
  receiver that lost its channel, has all its predecessors stored; only the
  forwarder's channel is open, it is quiet unless an answer is awaited, and
  carries the head of the queue then. `AckedAreStored` and `DeliveredInOrder` (the
  refinement of `KpiDelivery`, step by step) follow. `DoneIsDrained` adds that an
  empty poll after the stop file saw the whole file. `RetriesHarmless` adds what
  holds while no fault hits a window on its way: at most one receiver writes, it
  is linked, it knows the index, and every stored window is in the index or in
  that receiver's hands.
* `PolicyControlProofs`, of `PolicyControl`: `LoopInv` is the inductive invariant of the loop with any
  policy. `PressureInEveryLoop` shows that a step of this loop is one of
  `PressureControl` or leaves the pressure policy alone, so that its theorems hold
  here. For the model policies the invariant says that the windows in hand are a
  run of one phase that ends with the last one seen
  (`WindowsOfOnePhase`), in their order unless the file of that phase went back, and no
  more than the samples since they were last forgotten (`Kept`); that the last
  transition of a policy is not before the last decision, unless that was taken back (`DecisionsKeepTheirDistance`); and
  that the votes of the black box and the windows of the continuous policy were
  given by consecutive samples of one process (`DecisionsRestOnEvidence`).
* `CollectionHookProofs`: the invariant `HookInv` follows the hook through an
  event. `CollectorsAreFound` needs to know which plugins may run in the phase at
  hand: in a start those that had their turn, in a stop those that have not, so
  that a stop leaves none behind; a session that is starting has no file yet, and
  whatever fails goes through the stop. `OneAtATime` rests on a controller that
  comes up only while the hook that launched it waits, and on a forwarder that is
  unrecorded only for the hook about to record it.
* `ExperimentRunnerProofs`: two invariants that are inductive together
  (`Invariance`). `LifeInv` follows a benchmark through its script: the events
  before the one it waits for were answered, the monitor answers well only what
  the hook wrote as good, and the last good output gave the masks back. `RunnerInv` says of the saved state that its rows are complete
  from the first to the last, that complete rows of a pair agree, and that the only
  complete row of a pair is of the present era and waits for its partner; of the
  state in memory that it differs from the saved one in an approval or a status
  only; of a recovery under way that what it read is the saved state but for an
  approval. `ResultsWereMeasured` follows from the first, the others from the
  second; none of them is inductive alone, since a resume, a kill or a recovery
  finds a state in the middle of a pair.

* `LivePipelineProofs`: `PipeInv` says of the graph that its windows are those
  observed inside the horizon, in order, with the number of missing snapshots
  between any two; of the socket that it holds what is to come; of both files that a
  trusted row is backed by enough observed snapshots; and how far the files are at
  each place of the analyzer. That confidence is enough only with enough windows
  (`ConfidenceIsObserved`) is where the sums come in: windows and missing snapshots
  are at least the span, mapped rows at most all rows. These are inductions; they
  are done over sets of numbers (`Induction`, from the least element of a set),
  where no operator has to be instantiated.
  `PlacementsAreSound` is about one row, and rests on lemmas about the operators.
  The sums and the relief are folds; `FoldExists` gives the recursive function
  behind a fold over a finite set, and `SetInduction`, over a set of subsets, what
  it keeps. A relief keeps what a group has in all and what a node carries
  (`ShiftKeeps`, `SplitKeeps`); a group's clusters start where those of the groups
  before it end (`ClustersAreApart`), and the clusters of a part
  have its CPUs but for what the last cluster of the node lacks (`PartIsCovered`).
  Which assignment is chosen is a comparison of exact costs: none is cheaper
  (`PartitionIsLeast`), also none with the first group on the other node, since
  exchanging the nodes changes no cost (`Exchanged`), and the cost of the chosen one
  is at least the square of its overload (`OverloadIsPaid`). The relief moves no more
  than that (`AwayIsPaid`), whence the last part of the property. It cannot be made
  stronger: with the weights of the code an overload of a hundredth of a CPU costs
  100, what one edge does, and the code may then keep the edge and split a group
  although an assignment of whole groups fits.


The assumptions are the named `ASSUME`s of the modules: task ids are naturals
whose sets have smallest members (listings are sorted), the values the
configuration validation ensures, and `rollback_confirm_samples` positive, which
that validation does not look at. The nodes of a host are alike; the wall clock
does not go back; the names of phases are distinct;
a benchmark has a phase; the plugins of a profile are distinct.

Model-checked only: the liveness properties (`CallsReturn`, `StopIsHonoured`,
`StopDrains`, `EventsReturn`, `ExecuteReturns`), since TLAPS does not handle
fairness through `ENABLED`.

## 5. How the project grew, and what is left

The order was that of the list in section 1: actuator, policy and controller
first, then the transport of the KPI with its abstract specification, the hooks,
the experiments, the other policies, and the live pipeline.

What would be next: a controller that starts after one that was killed, which takes the masks it finds
for the original ones (actuator.py 184); two sessions whose names share a prefix
(hooks.py 271).

## 6. Not modelled

* AffinityGraph placement and its simulator, the regressions, calibration,
  resource curves, quality scores and acceptance statistics: computations in
  floating point over finished data, without state across calls. Where their
  results steer control, the models choose the result freely.
* Pressure and blackbox experiment runners: a list of completed steps in one
  state file, the step machine `ExperimentRunner` has with its hazards; the
  bodies of their steps are fits and plots.
* Journals and artifacts after a run, spreadsheets, reports: nothing decides from
  them.
* Deployment, platform probing, SSH transport and argument parsing.
* In modelled parts: the truncation of the KPI input file and the clock offsets;
  raw files and clock measurement of a collection session, and its clean-up by
  prefix; the validation of placement journals; amounts of scores; the
  `phase_after` events of preparation phases; a second runner in the same
  directory.
