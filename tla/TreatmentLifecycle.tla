------------------------- MODULE TreatmentLifecycle -------------------------
(***************************************************************************)
(* One benchmark lifecycle under an AffinityGraph treatment: the benchmark *)
(* (YBA, external) delivers the events of its phases through a relay of    *)
(* request and response files, the monitor of the runner serves them by    *)
(* running the hook, and between two looks at the relay it polls the       *)
(* control socket of the target and ends the benchmark when the required   *)
(* BPF collector is not what it must be.                                   *)
(*                                                                         *)
(* The benchmark, the target and the monitor step independently.  A fault  *)
(* (a copy that fails, a collector that degrades, a workload that breaks)  *)
(* may strike anywhere, at most MaxFaults times.                           *)
(***************************************************************************)
EXTENDS Integers, Sequences, SequencesExt

CONSTANTS
    Phases,       \* the measurement phases of the scenario, in order
    MaxFaults     \* bound on the faults of a behaviour

ASSUME PhasesAssumption == Phases \in Seq(STRING) /\ Phases # <<>>
ASSUME FaultsAssumption == MaxFaults \in Nat

VARIABLES
    life,     \* what the lifecycle is about: its treatment, whether it is a
              \* cold start with a static profile, its gates, whether it is
              \* a trajectory of a formal experiment
    bench,    \* the benchmark: where it is, its next event, its exit code
    relay,    \* the request and the response of each event
    outputs,  \* the output files of the hook, in the runner's hook directory
    target,   \* the server under the treatment
    mon,      \* the monitor: program counter, event, failures, verdict
    faults    \* faults so far

lifecycle == <<life, bench, relay, outputs, target, mon>>

Treatments == {"observe", "plan", "active"}
Event(kind, phase) == <<kind, phase>>
Ready == Event("server_ready", "server")
Warmup == Event("phase_before", "WARMUP")
Placement == Event("phase_before", "PLACEMENT")
Abort == Event("run_abort", "server")
Measured == Event("phase_before", Phases[1])
Final == Event("phase_after", Phases[Len(Phases)])

\* The phases before the measurement: "active" has one to find its placement,
\* a trajectory has it whatever the treatment, a cold start has none.
Preparation(treatment, cold, formal) ==
    IF cold THEN <<>>
    ELSE IF treatment = "active" \/ formal THEN <<Placement, Warmup>>
    ELSE <<Warmup>>

\* The events of a scenario.  The phase_after events of the preparation
\* phases, which repeat the health check, are left out.
Script(treatment, cold, formal) ==
    <<Ready>> \o Preparation(treatment, cold, formal)
    \o [i \in 1 .. 2 * Len(Phases) |->
          IF i % 2 = 1 THEN Event("phase_before", Phases[(i + 1) \div 2])
                       ELSE Event("phase_after", Phases[i \div 2])]

Events == ToSet(Script("active", FALSE, FALSE)) \cup {Abort}

\* The placement must be effective when a measurement starts; a static
\* profile is believed.
RequiresReadiness(e) ==
    life.treatment = "active" /\ ~life.cold /\ e[1] = "phase_before" /\ e[2] \in ToSet(Phases)

\* The output whose presence starts the status polls.
PollsAfter == IF life.cold THEN Ready
              ELSE IF life.treatment = "active" THEN Placement ELSE Warmup

NoLife == [treatment |-> "none", cold |-> FALSE, soft |-> FALSE, formal |-> FALSE]
NoBench == [pc |-> "off", next |-> 1, code |-> 0]
NoMon == [pc |-> "off", event |-> Abort, rc |-> "ok", failures |-> 0,
          verdict |-> FALSE]
Down == [health |-> "down", placed |-> FALSE, paused |-> FALSE]

NoLifecycle ==
    /\ life = NoLife /\ bench = NoBench /\ mon = NoMon /\ target = Down
    /\ relay = [e \in Events |-> "none"]
    /\ outputs = [e \in Events |-> "none"]

\* The hook has a directory of its own, on both hosts, and it is empty.
EmptyRelay ==
    /\ relay' = [e \in Events |-> "none"]
    /\ outputs' = [e \in Events |-> "none"]

\* The runtime gets the mode of the treatment, in a directory and with a
\* socket of its own.
Configured(treatment, cold, soft, formal) ==
    life' = [treatment |-> treatment, cold |-> cold, soft |-> soft,
             formal |-> formal]

EndLifecycle ==
    /\ life' = NoLife /\ bench' = NoBench /\ mon' = NoMon /\ target' = Down
    /\ EmptyRelay

\* The benchmark has a session of its own and the monitor watches it.
BeginLifecycle(treatment, cold, soft, formal) ==
    /\ Configured(treatment, cold, soft, formal)
    /\ EmptyRelay
    /\ bench' = [NoBench EXCEPT !.pc = "boot"]
    /\ mon' = [NoMon EXCEPT !.pc = "poll"]
    /\ target' = Down

Fault == faults < MaxFaults /\ faults' = faults + 1

-----------------------------------------------------------------------------
(* The target: the server and the supervisor that started it.              *)

Unreachable == target.health \in {"down", "mute"}

\* The collector degrades or fails, loses events, or the control socket no
\* longer answers; a placement is lost.
Degrades ==
    /\ target.health = "healthy" /\ Fault
    /\ \/ \E h \in {"lossy", "mute", "sick"} : target' = [target EXCEPT !.health = h]
       \/ target.placed /\ target' = [target EXCEPT !.placed = FALSE]
    /\ UNCHANGED <<life, bench, relay, outputs, mon>>

Improves ==
    /\ \/ target.health \in {"lossy", "mute"} /\ target' = [target EXCEPT !.health = "healthy"]
       \/ /\ life.treatment = "active" /\ target.health = "healthy"
          /\ ~target.placed /\ ~target.paused
          /\ target' = [target EXCEPT !.placed = TRUE]
    /\ UNCHANGED <<life, bench, relay, outputs, mon, faults>>

-----------------------------------------------------------------------------
(* The benchmark.                                                          *)

Course == Script(life.treatment, life.cold, life.formal)
Current == Course[bench.next]

\* The server starts, its supervisor answering or not yet, or the benchmark
\* ends without one.
Boot ==
    /\ bench.pc = "boot"
    /\ \/ /\ bench' = [bench EXCEPT !.pc = "work"] /\ UNCHANGED faults
          /\ \E h \in {"healthy", "mute"} : target' = [target EXCEPT !.health = h]
       \/ /\ Fault
          /\ bench' = [bench EXCEPT !.pc = "ended", !.code = 1]
          /\ UNCHANGED target
    /\ UNCHANGED <<life, relay, outputs, mon>>

\* The remote hook removes an old response and writes its request.
Request(e) == relay' = [relay EXCEPT ![e] = "requested"]

Call ==
    /\ bench.pc = "work" /\ bench.next <= Len(Course)
    /\ bench' = [bench EXCEPT !.pc = "wait"]
    /\ Request(Current)
    /\ UNCHANGED <<life, outputs, target, mon, faults>>

Answered ==
    /\ bench.pc = "wait" /\ relay[Current] = "ok"
    /\ bench' = [bench EXCEPT !.pc = "work", !.next = @ + 1]
    /\ UNCHANGED <<life, relay, outputs, target, mon, faults>>

\* A required hook that fails, one without a response within the timeout of
\* the relay, or a workload that breaks: the benchmark delivers run_abort.
Aborts ==
    /\ \/ bench.pc = "wait" /\ relay[Current] = "failed" /\ UNCHANGED faults
       \/ bench.pc = "wait" /\ relay[Current] = "requested" /\ Fault
       \/ bench.pc = "work" /\ Fault
    /\ bench' = [bench EXCEPT !.pc = "abort"]
    /\ Request(Abort)
    /\ UNCHANGED <<life, outputs, target, mon>>

\* Aborted, finished (its tear-down may still return an error), or stopped
\* by the signal: it takes the server down.
Ends ==
    /\ \/ bench.pc \in {"abort", "stopping"} /\ bench' = [bench EXCEPT !.pc = "ended", !.code = 1]
       \/ /\ bench.pc = "work" /\ bench.next > Len(Course)
          /\ \E c \in {0, 1} : bench' = [bench EXCEPT !.pc = "ended", !.code = c]
    /\ target' = [target EXCEPT !.health = "down"]
    /\ UNCHANGED <<life, relay, outputs, mon, faults>>

-----------------------------------------------------------------------------
(* The hook, run by the monitor in a process of its own.                   *)

Returns(rc) == mon' = [mon EXCEPT !.pc = "respond", !.rc = rc]
Writes(value) == outputs' = [outputs EXCEPT ![mon.event] = value]
InHook == mon.pc = "hook"

\* The request cannot be copied, the process of the server is not the one
\* of the first event, or the control socket does not answer: no output.
HookRaises ==
    /\ InHook /\ mon.event # Abort
    /\ \/ Unreachable /\ UNCHANGED faults
       \/ ~Unreachable /\ Fault
    /\ Returns("failed")
    /\ UNCHANGED <<life, bench, relay, outputs, target>>

\* The BPF collector is not healthy, or the placement of "active" is not
\* effective when its time is over.
HookRefuses ==
    /\ InHook /\ mon.event # Abort
    /\ \/ target.health \in {"lossy", "sick"}
       \/ target.health = "healthy" /\ RequiresReadiness(mon.event) /\ ~target.placed
    /\ Writes("bad") /\ Returns("failed")
    /\ UNCHANGED <<life, bench, relay, target, faults>>

HookAccepts ==
    /\ InHook /\ mon.event \notin {Abort, Final}
    /\ target.health = "healthy"
    /\ RequiresReadiness(mon.event) => target.placed
    /\ Writes("good") /\ Returns("ok")
    /\ UNCHANGED <<life, bench, relay, target, faults>>

\* The last event gives the threads their own masks back: confirmed by the
\* status, refused by it, or with a status that cannot be read.
HookPauses ==
    /\ InHook /\ mon.event = Final /\ target.health = "healthy"
    /\ \/ /\ target' = [target EXCEPT !.paused = TRUE, !.placed = FALSE]
          /\ Writes("good") /\ Returns("ok") /\ UNCHANGED faults
       \/ /\ Writes("bad") /\ Returns("failed") /\ Fault /\ UNCHANGED target
       \/ /\ target' = [target EXCEPT !.paused = TRUE, !.placed = FALSE]
          /\ Returns("failed") /\ Fault /\ UNCHANGED outputs
    /\ UNCHANGED <<life, bench, relay>>

\* run_abort asks for the pause and does not look at its result.
HookAborts ==
    /\ InHook /\ mon.event = Abort
    /\ target' = IF Unreachable THEN target
                 ELSE [target EXCEPT !.paused = TRUE, !.placed = FALSE]
    /\ Returns("ok")
    /\ UNCHANGED <<life, bench, relay, outputs, faults>>

Hook == HookRaises \/ HookRefuses \/ HookAccepts \/ HookPauses \/ HookAborts

-----------------------------------------------------------------------------
(* The monitor.                                                            *)

\* Sends SIGTERM to the session of the benchmark; one that has ended is
\* past harm.
Stops == bench' = IF bench.pc = "ended" THEN bench
                  ELSE [bench EXCEPT !.pc = "stopping"]

\* A cold start and a trajectory have a time limit.
Limited == life.cold \/ life.formal

\* One turn: the end of the benchmark, the time limit, the requests not yet
\* served, the status.
Poll ==
    /\ mon.pc = "poll"
    /\ \/ /\ bench.pc = "ended"
          /\ mon' = [mon EXCEPT !.pc = "reap"]
          /\ UNCHANGED <<bench, faults>>
       \/ /\ bench.pc # "ended" /\ Limited /\ Fault
          /\ mon' = [mon EXCEPT !.pc = "reap", !.verdict = TRUE]
          /\ Stops
       \/ /\ bench.pc # "ended"
          /\ \E e \in Events : /\ relay[e] = "requested"
                               /\ mon' = [mon EXCEPT !.pc = "hook", !.event = e]
          /\ UNCHANGED <<bench, faults>>
       \/ /\ bench.pc # "ended"
          /\ \A e \in Events : relay[e] # "requested"
          /\ mon' = [mon EXCEPT !.pc = "status"]
          /\ UNCHANGED <<bench, faults>>
    /\ UNCHANGED <<life, relay, outputs, target>>

\* Copies the response to the client host.  A copy that fails ends the
\* monitor with an exception: nothing stops the benchmark.
Respond ==
    /\ mon.pc = "respond"
    /\ \/ /\ relay' = [relay EXCEPT ![mon.event] = mon.rc]
          /\ mon' = [mon EXCEPT !.pc = "status", !.event = Abort, !.rc = "ok"]
          /\ UNCHANGED faults
       \/ Fault /\ mon' = [mon EXCEPT !.pc = "raised"] /\ UNCHANGED relay
    /\ UNCHANGED <<life, bench, outputs, target>>

Watching == outputs[PollsAfter] # "none" /\ outputs[Final] = "none"

\* What a status is to the monitor.
Silent == Watching /\ Unreachable
Broken == Watching /\ target.health = "sick"
Lossy == Watching /\ target.health = "lossy"

\* Defect: one poll more.
HardFailureLate ==
    \/ Silent /\ mon.failures = 3
    \/ Broken
    \/ Lossy /\ ~life.soft

\* Three polls without a status, a collector that is not what is required,
\* or a loss that a strict gate does not accept.
HardFailure ==
    \/ Silent /\ mon.failures = 2
    \/ Broken
    \/ Lossy /\ ~life.soft

StatusFails ==
    /\ mon.pc = "status" /\ HardFailure
    /\ mon' = [mon EXCEPT !.pc = "reap", !.failures = 0, !.verdict = TRUE]
    /\ Stops
    /\ UNCHANGED <<life, relay, outputs, target, faults>>

\* A lossy status under soft gates is a warning; it leaves the count alone.
StatusPasses ==
    /\ mon.pc = "status" /\ ~HardFailure
    /\ mon' = [mon EXCEPT !.pc = "poll",
                 !.failures = IF Silent THEN @ + 1
                              ELSE IF Watching /\ ~Lossy THEN 0 ELSE @]
    /\ UNCHANGED <<life, bench, relay, outputs, target, faults>>

\* A status that is no JSON, or one without a supervisor.
StatusRaises ==
    /\ mon.pc = "status" /\ outputs[PollsAfter] # "none" /\ ~Unreachable /\ Fault
    /\ mon' = [mon EXCEPT !.pc = "raised"]
    /\ UNCHANGED <<life, bench, relay, outputs, target>>

\* Defect: waits without a time limit.
ReapPatiently ==
    /\ mon.pc = "reap" /\ bench.pc = "ended"
    /\ mon' = [mon EXCEPT !.pc = "done"]
    /\ UNCHANGED <<life, bench, relay, outputs, target, faults>>

\* Waits for the benchmark; SIGKILL ends one that does not end in time.
Reap ==
    /\ mon.pc = "reap"
    /\ mon' = [mon EXCEPT !.pc = "done"]
    /\ bench' = IF bench.pc = "ended" THEN bench
                ELSE [bench EXCEPT !.pc = "ended", !.code = 1]
    /\ UNCHANGED <<life, relay, outputs, target, faults>>

Monitor == Poll \/ Hook \/ Respond \/ StatusFails \/ StatusPasses \/ StatusRaises \/ Reap
Benchmark == Boot \/ Call \/ Answered \/ Aborts \/ Ends
Target == Degrades \/ Improves

LifecycleTypeOK ==
    /\ life \in {NoLife} \cup [treatment : Treatments, cold : BOOLEAN, soft : BOOLEAN, formal : BOOLEAN]
    /\ bench \in [pc : {"off", "boot", "work", "wait", "abort", "stopping", "ended"},
                  next : 1 .. 2 * Len(Phases) + 4, code : {0, 1}]
    /\ relay \in [Events -> {"none", "requested", "ok", "failed"}]
    /\ outputs \in [Events -> {"none", "good", "bad"}]
    /\ target \in [health : {"down", "healthy", "lossy", "mute", "sick"},
                   placed : BOOLEAN, paused : BOOLEAN]
    /\ mon \in [pc : {"off", "poll", "hook", "respond", "status", "reap", "done", "raised"},
                event : Events, rc : {"ok", "failed"}, failures : 0 .. 2, verdict : BOOLEAN]
    /\ faults \in 0 .. MaxFaults
=============================================================================
