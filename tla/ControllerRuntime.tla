-------------------------- MODULE ControllerRuntime --------------------------
(***************************************************************************)
(* ControllerRuntime (controller/runtime.py): the process that samples the *)
(* target, runs the policy, moves two resources between the complete       *)
(* states ONE and TWO, and watches the KPI windows after an action.        *)
(*                                                                         *)
(* The resources are the CPU masks of the target's tasks and ClickHouse's  *)
(* thread slots (slots.file is the configuration file, slots.live what the *)
(* server runs with).  One call of an actuator is one step, and it may     *)
(* fail after any part of its effect.  AffinityActuator has the inside of  *)
(* an affinity call, which may also return while a task it did not see is  *)
(* on an old mask: escaped holds the masks of the tasks that escaped a     *)
(* call in this way, masks those of all others.  The process may be        *)
(* stopped or killed between any two steps.                                *)
(***************************************************************************)
EXTENDS PressurePolicy, Sequences, FiniteSets

CONSTANTS
  Configs,     \* runtime configurations to consider, see ConfigType
  Phases,      \* workload phases named in control.json
  Settling,    \* settling_seconds
  MaxTime,     \* bound of the clock
  MaxDelay,    \* bound of the time an action takes
  MaxFaults,   \* bound of the failing actuator calls of one action
  MaxEscapes,  \* bound of the masks of tasks that escape one call
  Published,   \* bound of the KPI windows published: their qualities ...
  MaxWindows,  \* ... and their number for each phase
  MaxReturns,  \* bound of the times kpi-latest.json goes back to an earlier one
  Signals      \* bound of what the operator may do: "stop", "kill"

ASSUME RuntimeAssumption ==
  /\ Settling \in Nat /\ MaxTime \in Nat /\ MaxDelay \in Nat
  /\ MaxFaults \in Nat /\ MaxEscapes \in Nat /\ MaxWindows \in Nat /\ MaxReturns \in Nat
  /\ Phases # {} /\ Published \subseteq {"good", "slow", "error"}

ScriptItems == [at : Nat, state : States]

ConfigType ==
  [mode : {"active", "shadow"}, useKpi : BOOLEAN, useMarker : BOOLEAN,
   hasSlots : BOOLEAN, initial : States, script : Seq(ScriptItems)]

ASSUME ConfigAssumption == Configs \subseteq ConfigType

VARIABLES
  config,      \* resolved-config.json, fixed for the life of the process
  now,         \* monotonic clock
  pc,          \* where run() is
  policy,      \* self.policy
  script,      \* script_phase, script_started_ns, script_index
  actual,      \* self.actual_state
  op,          \* the local variables of _action
  masks,       \* CPU masks in use by the tasks that escaped no call
  escaped,     \* CPU masks in use by the tasks that escaped a call
  slots,       \* ClickHouse slots: configuration file and running value
  kpis,        \* kpi_history; only its last three rows are ever looked at
  lastKey,     \* last_kpi_key
  pending,     \* pending_validation
  sample,      \* sample and phase of the current iteration
  rolledBack,  \* the local variable rolled_back
  restore,     \* outcome of the restore in the finally block
  status,      \* status.json
  stop,        \* stop_event
  control,     \* control.json, written by the workload hooks
  latest,      \* kpi-latest.json, written by the KPI ingest
  faults,      \* bound: failed calls of the current action
  torn,        \* history: the last action recorded a rollback_error
  appliedAt,   \* history: end of the last applied decision, or Never
  newest,      \* history: the highest window published for each phase
  returns      \* history: how often kpi-latest.json went back to an earlier one

process == <<policy, script, actual, kpis, lastKey, pending, rolledBack>>
world == <<control, latest, newest, returns, stop>>
resources == <<masks, escaped, slots>>
history == <<torn, appliedAt>>
vars == <<config, now, pc, process, op, resources, sample, restore, status,
          world, faults, history>>

Original == "original"
Steps == {"affinity", "slots", "done"}
Loop == {"observe", "decide", "report", "wait"}
Acting == {"forward", "rollback"}
Restoring == {"restoreAffinity", "restoreSlots"}
Final == {"stopped", "aborted", "killed"}

Qualities == {"good", "slow", "error"}
Rows == [phase : Phases, seq : Nat, quality : Qualities, seen : Nat]

NoSample == [active |-> FALSE, valid |-> FALSE, high |-> FALSE, low |-> FALSE,
             at |-> 0, phase |-> CHOOSE p \in Phases : TRUE]
NoPending == [on |-> FALSE, previous |-> "one_node", settle |-> 0, baseline |-> 0]
NoOp == [origin |-> "none", target |-> "one_node", previous |-> "one_node",
         step |-> "done", baseline |-> 0]

-------------------------------------------------------------------------------
(***************************************************************************)
(* The order of a resource change: towards TWO the masks widen before the  *)
(* slots grow, towards ONE the slots shrink before the masks narrow.       *)
(***************************************************************************)
\* Defect: the masks always move first.
FirstStepAffinity(s) == "affinity"

FirstStep(s) == IF s = "two_node" \/ ~config.hasSlots THEN "affinity" ELSE "slots"

NextStep(s, step) ==
  CASE s = "two_node" /\ step = "affinity" /\ config.hasSlots -> "slots"
    [] s = "one_node" /\ step = "slots"                       -> "affinity"
    [] OTHER                                                  -> "done"

Begin(origin, target, baseline) ==
  [origin |-> origin, target |-> target, previous |-> actual,
   step |-> FirstStep(target), baseline |-> baseline]

\* A TasksetActuator call that returns has set every task it saw.  A task that
\* another one started meanwhile inherits the mask of that one, and the call may
\* return without having seen it (actuator.py 249-264, 294-310).
AffinityMoves(s) ==
  /\ masks' = {s}
  /\ escaped' \in {left \in SUBSET ((masks \cup escaped) \ {s}) :
                     Cardinality(left) <= MaxEscapes}

\* What a TasksetActuator call that fails may leave behind: it has moved no task,
\* some or all of them, those that escaped an earlier call as well ...
AffinityFails(s) ==
  \/ UNCHANGED <<masks, escaped>>
  \/ /\ \E kept \in SUBSET masks : masks' = kept \cup {s}
     /\ escaped' \in SUBSET escaped
\* ... and a failing ClickHouseSlotsActuator call: the file is replaced first,
\* then the server reloads it, then the running value is read back.
PartialSlots(v, s) == {v, [file |-> s, live |-> v.live], [file |-> s, live |-> s]}

-------------------------------------------------------------------------------
(***************************************************************************)
(* KPI windows.  A median is compared with the baseline median: 0 stands   *)
(* for no baseline, 1 for a slow, 2 for a mixed, 3 for a normal one.       *)
(***************************************************************************)
LastThree(rows) ==
  IF Len(rows) <= 3 THEN rows ELSE SubSeq(rows, Len(rows) - 2, Len(rows))

\* Defect: a new phase continues the history.
RecordedAcrossPhases(rows, row) == LastThree(Append(rows, row))

\* A new phase starts the history again.
Recorded(rows, row) ==
  IF rows # << >> /\ rows[Len(rows)].phase # row.phase
  THEN <<row>>
  ELSE LastThree(Append(rows, row))

SlowRows(rows) == {i \in DOMAIN rows : rows[i].quality = "slow"}

\* At most three rows: one slow row is a majority of one, half of two.
Level(rows) ==
  CASE rows = << >>                                               -> 0
    [] SlowRows(rows) # {} /\ Len(rows) = 1                       -> 1
    [] \E i, j \in SlowRows(rows) : i # j                         -> 1
    [] SlowRows(rows) # {} /\ Len(rows) = 2                       -> 2
    [] OTHER                                                      -> 3

\* Defect: windows from before the action count as well.
SettledAtOnce(rows, from) == Len(rows) = 3

Settled(rows, from) ==
  Len(rows) = 3 /\ \A i \in DOMAIN rows : rows[i].seen >= from

\* throughput_drop, p99_increase or errors.
Worse(rows, baseline) ==
  \/ baseline # 0 /\ Level(rows) < baseline
  \/ \E i \in DOMAIN rows : rows[i].quality = "error"

-------------------------------------------------------------------------------
Init ==
  /\ config \in Configs
  /\ now = 1
  /\ pc = "boot"
  /\ policy = InitialPolicy(config.initial)
  /\ script = [phase |-> NoSample.phase, started |-> Never, index |-> 1]
  /\ actual = config.initial
  /\ op = NoOp
  /\ masks = {Original}
  /\ escaped = {}
  /\ slots = [file |-> Original, live |-> Original]
  /\ kpis = << >>
  /\ lastKey = <<NoSample.phase, 0>>
  /\ pending = NoPending
  /\ sample = NoSample
  /\ rolledBack = FALSE
  /\ restore = "none"
  /\ status = "absent"
  /\ stop = FALSE
  /\ control = [active |-> FALSE, phase |-> NoSample.phase]
  /\ latest = [phase |-> NoSample.phase, seq |-> 0, quality |-> "good"]
  /\ faults = 0
  /\ torn = FALSE
  /\ appliedAt = Never
  /\ newest = [p \in Phases |-> 0]
  /\ returns = 0

-------------------------------------------------------------------------------
(***************************************************************************)
(* The rest of the system: workload hooks, KPI ingest, the operator.       *)
(* control.json and kpi-latest.json are read in one place, so a write made *)
(* at any other time is the same as one made just before that.             *)
(***************************************************************************)
Mark(active, phase) ==
  /\ pc = "observe"
  /\ config.useMarker \/ config.useKpi
  /\ control' = [active |-> active, phase |-> phase]
  /\ UNCHANGED <<config, now, pc, process, op, resources, sample, restore,
                 status, latest, newest, returns, stop, faults, history>>

\* kpi-latest.json holds the window that was ingested last: a later one, or an
\* earlier one again, since nothing compares the two (kpi.py 53-58).  A window
\* that is replaced before the controller reads it leaves no trace here.
PublishKpi(n, quality) ==
  /\ pc = "observe"
  /\ config.useKpi
  /\ control.active
  /\ latest.phase = control.phase /\ latest.seq > 0 =>
       /\ <<latest.phase, latest.seq>> = lastKey
       /\ n # latest.seq
  /\ latest' = [phase |-> control.phase, seq |-> n, quality |-> quality]
  /\ returns' = IF n < newest[control.phase] THEN returns + 1 ELSE returns
  /\ returns' <= MaxReturns
  /\ newest' = IF n > newest[control.phase]
               THEN [newest EXCEPT ![control.phase] = n] ELSE newest
  /\ UNCHANGED <<config, now, pc, process, op, resources, sample, restore,
                 status, control, stop, faults, history>>

\* SIGTERM or SIGINT; run() installed the handlers before anything else.
Stop ==
  /\ "stop" \in Signals /\ ~stop
  /\ pc \notin Final
  /\ stop' = TRUE
  /\ UNCHANGED <<config, now, pc, process, op, resources, sample, restore,
                 status, control, latest, newest, returns, faults, history>>

Kill ==
  /\ "kill" \in Signals
  /\ pc \notin Final
  /\ pc' = "killed"
  /\ UNCHANGED <<config, now, process, op, resources, sample, restore,
                 status, world, faults, history>>

-------------------------------------------------------------------------------
\* In active mode the initial state is applied before the loop, and before the
\* try block whose finally restores.
Start ==
  /\ pc = "boot"
  /\ IF config.mode = "active"
     THEN /\ pc' = "forward"
          /\ op' = Begin("initialize", actual, 0)
     ELSE pc' = "wait" /\ UNCHANGED op
  /\ faults' = 0
  /\ UNCHANGED <<config, now, process, resources, sample, restore, status,
                 world, history>>

(***************************************************************************)
(* _action, call by call.                                                  *)
(***************************************************************************)
Towards == IF pc = "forward" THEN op.target ELSE op.previous

AffinityApplied ==
  /\ pc \in Acting
  /\ op.step = "affinity"
  /\ AffinityMoves(Towards)
  /\ op' = [op EXCEPT !.step = NextStep(Towards, "affinity")]
  /\ UNCHANGED <<config, now, pc, process, slots, sample, restore, status,
                 world, faults, history>>

SlotsApplied ==
  /\ pc \in Acting
  /\ op.step = "slots"
  /\ slots' = [file |-> Towards, live |-> Towards]
  /\ op' = [op EXCEPT !.step = NextStep(Towards, "slots")]
  /\ UNCHANGED <<config, now, pc, process, masks, escaped, sample, restore,
                 status, world, faults, history>>

\* Defect: the exception is recorded, but nothing is rolled back.
CallFailsNoRollback ==
  /\ pc \in Acting
  /\ op.step # "done"
  /\ faults < MaxFaults
  /\ faults' = faults + 1
  /\ IF op.step = "affinity"
     THEN AffinityFails(Towards) /\ UNCHANGED slots
     ELSE slots' \in PartialSlots(slots, Towards) /\ UNCHANGED <<masks, escaped>>
  /\ pc' = "rollback"
  /\ op' = [op EXCEPT !.step = "done"]
  /\ torn' = FALSE
  /\ UNCHANGED <<config, now, process, sample, restore, status, world, appliedAt>>

\* The exception of the call that fails; the resource is left anywhere between.
CallFails ==
  /\ pc \in Acting
  /\ op.step # "done"
  /\ faults < MaxFaults
  /\ faults' = faults + 1
  /\ IF op.step = "affinity"
     THEN AffinityFails(Towards) /\ UNCHANGED slots
     ELSE slots' \in PartialSlots(slots, Towards) /\ UNCHANGED <<masks, escaped>>
  /\ pc' = "rollback"
  /\ op' = [op EXCEPT !.step = IF pc = "forward" THEN FirstStep(op.previous) ELSE "done"]
  /\ torn' = (pc = "rollback")
  /\ UNCHANGED <<config, now, process, sample, restore, status, world, appliedAt>>

\* What the caller of _action does next.
Resume(origin) ==
  CASE origin = "initialize" -> "wait"
    [] origin = "guard"      -> "decide"
    [] OTHER                 -> "report"  \* a decision

\* _validate_pending_action forces the policy to the state it asked for,
\* whatever _action returned.
GuardForces(p) ==
  IF op.origin = "guard" THEN ForceState(p, op.target, sample.at) ELSE p

\* status "applied".
ActionApplied(delay) ==
  /\ pc = "forward"
  /\ op.step = "done"
  /\ now' = now + delay /\ now' <= MaxTime
  /\ actual' = op.target
  /\ policy' = GuardForces(policy)
  /\ rolledBack' = (op.origin = "guard")
  /\ IF op.origin = "decision"
     THEN /\ appliedAt' = now'
          /\ pending' = IF config.useKpi /\ config.script = << >>
                        THEN [on |-> TRUE, previous |-> op.previous,
                              settle |-> now' + Settling, baseline |-> op.baseline]
                        ELSE pending
     ELSE UNCHANGED <<appliedAt, pending>>
  /\ pc' = Resume(op.origin)
  /\ op' = NoOp
  /\ torn' = FALSE
  /\ faults' = 0
  /\ UNCHANGED <<config, script, kpis, lastKey, resources, sample, restore,
                 status, world>>

\* status "failed", with or without a rollback_error; fatal for initialize.
ActionFailed(delay) ==
  /\ pc = "rollback"
  /\ op.step = "done"
  /\ now' = now + delay /\ now' <= MaxTime
  /\ policy' = GuardForces(ForceState(policy, op.previous, now'))
  /\ rolledBack' = (op.origin = "guard")
  /\ pc' = IF op.origin = "initialize" THEN "aborted" ELSE Resume(op.origin)
  /\ op' = NoOp
  /\ faults' = 0
  /\ UNCHANGED <<config, script, actual, kpis, lastKey, pending, resources,
                 sample, restore, status, world, history>>

-------------------------------------------------------------------------------
(***************************************************************************)
(* One iteration of the loop: observe (control, sample, KPI, validation of *)
(* the last action), decide, report, wait.                                 *)
(***************************************************************************)
Observe(s) ==
  LET seen == /\ config.useKpi
              /\ latest.seq > 0
              /\ latest.phase = control.phase
              /\ <<latest.phase, latest.seq>> # lastKey
      row  == [phase |-> latest.phase, seq |-> latest.seq,
               quality |-> latest.quality, seen |-> now]
      rows == IF seen THEN Recorded(kpis, row) ELSE kpis
      due  == /\ config.useKpi /\ pending.on
              /\ now >= pending.settle
              /\ Settled(rows, pending.settle)
  IN  /\ pc = "observe"
      /\ s.active = (control.active \/ ~config.useMarker)
      /\ sample' = [active |-> s.active, valid |-> s.valid, high |-> s.high,
                    low |-> s.low, at |-> now, phase |-> control.phase]
      /\ kpis' = rows
      /\ lastKey' = IF seen THEN <<latest.phase, latest.seq>> ELSE lastKey
      /\ pending' = IF due THEN NoPending ELSE pending
      /\ rolledBack' = FALSE
      /\ IF due /\ Worse(rows, pending.baseline)
         THEN /\ pc' = "forward"
              /\ op' = Begin("guard", pending.previous, 0)
         ELSE pc' = "decide" /\ UNCHANGED op
      /\ UNCHANGED <<config, now, policy, script, actual, resources, restore,
                     status, world, faults, history>>

\* Defect: the mode is not looked at.
LaunchAlways(p) ==
  /\ policy' = p
  /\ pc' = "forward"
  /\ op' = Begin("decision", p.state, 0)

\* The action of a decision that moved the policy to p.  After a guard rollback
\* it is dropped, but the policy stays where it moved to; in shadow mode it is
\* recorded and taken back.
Launch(p) ==
  IF ~rolledBack /\ config.mode = "active"
  THEN /\ policy' = p
       /\ pc' = "forward"
       /\ op' = Begin("decision", p.state, IF config.useKpi THEN Level(kpis) ELSE 0)
  ELSE /\ policy' = IF rolledBack THEN p ELSE ForceState(p, actual, sample.at)
       /\ pc' = "report"
       /\ UNCHANGED op

Decide ==
  /\ pc = "decide"
  /\ config.script = << >>
  /\ LET p == Evaluate(policy, sample, sample.at)
     IN  IF ActionOf(policy, p) # "none"
         THEN Launch(p)
         ELSE policy' = p /\ pc' = "report" /\ UNCHANGED op
  /\ UNCHANGED <<config, now, script, actual, kpis, lastKey, pending, rolledBack,
                 resources, sample, restore, status, world, faults, history>>

\* A scripted run: transitions at fixed times after the phase became active.
DecideScripted ==
  /\ pc = "decide"
  /\ config.script # << >>
  /\ LET fresh == [phase |-> sample.phase, index |-> 1,
                   started |-> IF sample.active THEN sample.at ELSE Never]
         base  == IF \/ ~sample.active
                     \/ script.started = Never
                     \/ script.phase # sample.phase
                  THEN fresh ELSE script
         due   == /\ sample.active
                  /\ base.index <= Len(config.script)
                  /\ sample.at - base.started >= config.script[base.index].at
     IN  IF due
         THEN /\ script' = [base EXCEPT !.index = @ + 1]
              /\ LET target == config.script[base.index].state
                 IN  IF target # policy.state
                     THEN Launch(ForceState(policy, target, sample.at))
                     ELSE pc' = "report" /\ UNCHANGED <<policy, op>>
         ELSE script' = base /\ pc' = "report" /\ UNCHANGED <<policy, op>>
  /\ UNCHANGED <<config, now, actual, kpis, lastKey, pending, rolledBack, resources,
                 sample, restore, status, world, faults, history>>

\* status.json; the sample of the iteration is not read again.
Report ==
  /\ pc = "report"
  /\ status' = "running"
  /\ pc' = "wait"
  /\ sample' = NoSample
  /\ rolledBack' = FALSE
  /\ UNCHANGED <<config, now, policy, script, actual, kpis, lastKey, pending, op,
                 resources, restore, world, faults, history>>

\* The while condition, after the wait for the next deadline.
NextIteration ==
  /\ pc = "wait"
  /\ ~stop
  /\ now < MaxTime
  /\ now' = now + 1
  /\ pc' = "observe"
  /\ UNCHANGED <<config, process, op, resources, sample, restore, status,
                 world, faults, history>>

-------------------------------------------------------------------------------
(***************************************************************************)
(* The finally block: masks first, then slots, in one try.                 *)
(***************************************************************************)
Leave ==
  /\ pc' = IF config.mode = "active" THEN "restoreAffinity" ELSE "stopped"
  /\ status' = IF config.mode = "active" THEN status ELSE "stopped"
  /\ UNCHANGED <<config, now, process, op, resources, sample, restore, world,
                 faults, history>>

\* Defect: the stop event is only looked at while the workload is active.
LoopEndsWhenActive == pc = "wait" /\ stop /\ control.active /\ Leave

LoopEnds == pc = "wait" /\ stop /\ Leave

\* An exception of the loop, such as a journal that cannot be written.
LoopRaises == pc \in {"observe", "decide", "report"} /\ Leave

Finish(outcome) ==
  /\ pc' = "stopped"
  /\ status' = "stopped"
  /\ restore' = outcome

\* Defect: the slots are forgotten.
AffinityRestoredOnly ==
  /\ pc = "restoreAffinity"
  /\ AffinityMoves(Original)
  /\ Finish("restored")
  /\ UNCHANGED <<config, now, process, op, slots, sample, world, faults, history>>

AffinityRestored ==
  /\ pc = "restoreAffinity"
  /\ AffinityMoves(Original)
  /\ IF config.hasSlots
     THEN pc' = "restoreSlots" /\ UNCHANGED <<status, restore>>
     ELSE Finish("restored")
  /\ UNCHANGED <<config, now, process, op, slots, sample, world, faults, history>>

SlotsRestored ==
  /\ pc = "restoreSlots"
  /\ slots' = [file |-> Original, live |-> Original]
  /\ Finish("restored")
  /\ UNCHANGED <<config, now, process, op, masks, escaped, sample, world, faults,
                 history>>

RestoreFails ==
  /\ pc \in Restoring
  /\ MaxFaults > 0
  /\ IF pc = "restoreAffinity"
     THEN AffinityFails(Original) /\ UNCHANGED slots
     ELSE slots' \in PartialSlots(slots, Original) /\ UNCHANGED <<masks, escaped>>
  /\ Finish("failed")
  /\ UNCHANGED <<config, now, process, op, sample, world, faults, history>>

\* The process is gone, or the bounded clock of the instance has run out.
Exited ==
  /\ pc \in Final \/ (pc = "wait" /\ now = MaxTime)
  /\ UNCHANGED vars

-------------------------------------------------------------------------------
Process ==
  \/ Start
  \/ AffinityApplied \/ SlotsApplied \/ CallFails
  \/ \E d \in 0..MaxDelay : ActionApplied(d) \/ ActionFailed(d)
  \/ \E s \in Samples : Observe(s)
  \/ Decide \/ DecideScripted \/ Report \/ NextIteration
  \/ LoopEnds \/ LoopRaises
  \/ AffinityRestored \/ SlotsRestored \/ RestoreFails

World ==
  \/ \E a \in BOOLEAN, p \in Phases : Mark(a, p)
  \/ \E n \in 1..MaxWindows, q \in Published : PublishKpi(n, q)
  \/ Stop
  \/ Kill

Next == Process \/ World \/ Exited

Spec == Init /\ [][Next]_vars

\* One thread runs the process; nothing it calls blocks for ever.
FairSpec == Spec /\ WF_vars(Process)

-------------------------------------------------------------------------------
ResourceStates == States \cup {Original}

Operations ==
  [origin : {"none", "initialize", "guard", "decision"},
   target : States, previous : States, step : Steps, baseline : 0..3]

TypeOK ==
  /\ config \in Configs
  /\ pc \in {"boot"} \cup Loop \cup Acting \cup Restoring \cup Final
  /\ now \in Nat
  /\ policy \in Policies
  /\ script \in [phase : Phases, started : Times, index : Nat \ {0}]
  /\ actual \in States
  /\ op \in Operations
  /\ masks \in SUBSET ResourceStates
  /\ escaped \in SUBSET ResourceStates
  /\ slots \in [file : ResourceStates, live : ResourceStates]
  /\ kpis \in Seq(Rows)
  /\ lastKey \in Phases \X Nat
  /\ pending \in [on : BOOLEAN, previous : States, settle : Nat, baseline : 0..3]
  /\ sample \in [active : BOOLEAN, valid : BOOLEAN, high : BOOLEAN, low : BOOLEAN,
                 at : Nat, phase : Phases]
  /\ rolledBack \in BOOLEAN
  /\ restore \in {"none", "restored", "failed"}
  /\ status \in {"absent", "running", "stopped"}
  /\ stop \in BOOLEAN
  /\ control \in [active : BOOLEAN, phase : Phases]
  /\ latest \in [phase : Phases, seq : 0..MaxWindows, quality : Qualities]
  /\ faults \in 0..MaxFaults
  /\ torn \in BOOLEAN
  /\ appliedAt \in Times
  /\ newest \in [Phases -> 0..MaxWindows]
  /\ returns \in 0..MaxReturns

(***************************************************************************)
(* The order of the two resources, whatever fails and wherever the process *)
(* dies: the server never runs with the slots of two nodes while a task is *)
(* confined to one, unless that task escaped a call (runtime.py 285-308,   *)
(* 484-490).                                                               *)
(***************************************************************************)
NeverOversubscribed == slots.live = "two_node" => "one_node" \notin masks

(***************************************************************************)
(* Outside an action, unless the last action recorded a rollback_error,    *)
(* actual_state is what the slots and the tasks that escaped no call are   *)
(* in: a failed action is as if it had never been tried (runtime.py        *)
(* 283-314).                                                               *)
(***************************************************************************)
ActualIsTrue ==
  pc \in Loop /\ config.mode = "active" /\ ~torn =>
    /\ masks = {actual}
    /\ config.hasSlots => slots = [file |-> actual, live |-> actual]

(***************************************************************************)
(* Without the KPI guard the policy never reasons from another state than  *)
(* the one the target is in: the forced states after a failed, a shadow    *)
(* and a scripted action leave no difference (runtime.py 156, 314, 457).   *)
(***************************************************************************)
PolicyFollowsActual ==
  pc = "wait" /\ (~config.useKpi \/ config.mode = "shadow") => policy.state = actual

(***************************************************************************)
(* A guard rollback rests on three KPI windows of one phase, all of them   *)
(* seen after the last applied action had settled.  No window is followed  *)
(* by itself, and they are three different ones in their order as long as  *)
(* kpi-latest.json never goes back (runtime.py 171-181, 209-246).          *)
(***************************************************************************)
GuardIsEarned ==
  pc \in Acting /\ op.origin = "guard" =>
    /\ appliedAt # Never
    /\ Len(kpis) = 3
    /\ \A i \in 1..3 : kpis[i].seen >= appliedAt + Settling /\ kpis[i].phase = kpis[1].phase
    /\ \A i \in 1..2 : /\ kpis[i].seq # kpis[i + 1].seq
                       /\ returns = 0 => kpis[i].seq < kpis[i + 1].seq

\* A stop that restored without an error left both resources as they were,
\* but for the tasks that escaped the restore.
StoppedIsRestored ==
  pc = "stopped" /\ restore # "failed" =>
    masks = {Original} /\ slots = [file |-> Original, live |-> Original]

(***************************************************************************)
(* The same for every exit the process chooses itself, as the design note  *)
(* puts it: active mode restores the original affinity and configuration   *)
(* on exit.                                                                *)
(***************************************************************************)
ExitRestores ==
  pc \in {"stopped", "aborted"} /\ restore # "failed" =>
    masks = {Original} /\ slots = [file |-> Original, live |-> Original]

(***************************************************************************)
(* Changing the resources is a transaction: the steps of the process       *)
(* implement those of ResourceTransaction.  Seen from outside an action    *)
(* the target is in the recorded state, a failing action takes it back     *)
(* there or is known to be torn, nothing else touches it, and an end that  *)
(* reports no failure has restored it (runtime.py 271-316, 482-507).  The  *)
(* tasks that escaped a call are the strays.                               *)
(***************************************************************************)
Mixed == "mixed"

Complete(s) ==
  masks = {s} /\ (config.hasSlots => slots = [file |-> s, live |-> s])

Shown ==
  IF \E s \in ResourceStates : Complete(s)
  THEN CHOOSE s \in ResourceStates : Complete(s)
  ELSE Mixed

Stage ==
  CASE pc \in Final                             -> "over"
    [] pc \in Acting                            -> "open"
    [] pc \in Restoring                         -> "restoring"
    [] pc = "boot" \/ (pc \in Loop /\ config.mode # "active") -> "untouched"
    [] OTHER                                    -> IF torn THEN "torn" ELSE "settled"

Transaction ==
  INSTANCE ResourceTransaction
    WITH target <- Shown, strays <- (escaped # {}), recorded <- actual,
         stage <- Stage, outcome <- restore

Transactional == Transaction!Spec

\* Shadow mode decides, but no step of it touches a resource (runtime.py 278-281).
ShadowTouchesNothing == [][config.mode = "shadow" => UNCHANGED resources]_vars

\* A stop signal ends the process, in the middle of an action too.
StopIsHonoured == stop ~> pc \in Final

===============================================================================
