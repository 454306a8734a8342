---------------------------- MODULE CollectionHook ----------------------------
(***************************************************************************)
(* The hook the workload driver calls around every phase (hooks.py), with  *)
(* what it starts and stops: the collectors of a phase on the target       *)
(* (collectors/session.py), the controller (controller/integration.py) and *)
(* the KPI forwarder (controller/kpi_integration.py).                      *)
(*                                                                         *)
(* One event is one hook process, and one process or file it touches is    *)
(* one step.  What a later event can know of an earlier one is on disk:    *)
(* the state file of a phase, the pid files on the target, the status and  *)
(* pid record of the controller, the record of the forwarder.              *)
(***************************************************************************)
EXTENDS Naturals, Sequences, FiniteSets, Functions, SequencesExt

CONSTANTS
  Phases,       \* phases of the session, each with one round
  Collected,    \* those that match collect_phase_patterns
  Requested,    \* plugins of the sampling profile, in their order
  Required,     \* the required ones
  Attempts,     \* startup_attempts of "prism"
  MaxEvents,    \* bound of the hook events
  MaxFaults     \* bound of the mishaps of the environment

Plugins == Range(Requested)

\* The plugins of a profile are its keys in order, none of them twice.
ASSUME HookAssumption ==
  /\ Phases # {} /\ Collected \subseteq Phases
  /\ Requested \in Seq(STRING) /\ IsInjective(Requested) /\ Required \subseteq Plugins
  /\ Attempts \in Nat \ {0} /\ MaxEvents \in Nat /\ MaxFaults \in Nat

VARIABLES
  hook,      \* the hook process: its event and where handle() is
  files,     \* phases whose state file exists
  running,   \* phases and plugins whose pid file names a running collector
  stray,     \* phases and plugins with a running collector no pid file names
  survivors, \* history: those whose collector outlived the signals of its stop
  ctl,       \* controllers, their status file and the pid record of the last
  fwd,       \* forwarders and their record
  ready,     \* phases whose phase_before returned "ready" and are not over
  events,    \* bound: events so far
  faults,    \* bound: mishaps so far
  mishaps    \* history: the mishaps this code does not recover from

target == <<running, stray, survivors>>
counted == <<events, faults, mishaps>>
vars == <<hook, files, target, ctl, fwd, ready, counted>>

Events == {"server_ready", "phase_before", "phase_after", "run_abort"}

Idle == [event |-> "none", phase |-> CHOOSE p \in Phases : TRUE, pc |-> "idle",
         todo |-> << >>, healthy |-> {}, attempt |-> 1, failed |-> FALSE]

Keys == Phases \X Plugins

Init ==
  /\ hook = Idle
  /\ files = {}
  /\ running = {} /\ stray = {} /\ survivors = {}
  /\ ctl = [launching |-> 0, up |-> 0, named |-> FALSE, status |-> "absent"]
  /\ fwd = [named |-> FALSE, fresh |-> FALSE, strays |-> 0]
  /\ ready = {}
  /\ events = 0 /\ faults = 0 /\ mishaps = {}

At(pc) == hook.pc = pc
Goto(pc) == hook' = [hook EXCEPT !.pc = pc]
Returns == hook' = Idle
Raises == hook' = Idle

-------------------------------------------------------------------------------
(* The workload driver calls the next event when the last one is over. *)

FirstPc(event, phase) ==
  CASE event = "server_ready" -> "status"
    [] event = "run_abort"    -> "stopController"
    [] event = "phase_before" -> IF phase \in Collected THEN "reset" ELSE "skip"
    [] event = "phase_after"  -> IF phase \in Collected THEN "stopForwarder" ELSE "skip"

\* _append_event writes phase.json.
Event(event, phase) ==
  /\ At("idle") /\ events < MaxEvents
  /\ events' = events + 1
  /\ hook' = [Idle EXCEPT !.event = event, !.phase = phase, !.pc = FirstPc(event, phase)]
  /\ ready' = CASE event = "run_abort" -> {}
                [] event = "server_ready" -> ready
                [] OTHER -> ready \ {phase}
  /\ mishaps' = IF event = "phase_before" /\ phase \in files
                THEN mishaps \cup {"repeated"} ELSE mishaps
  /\ UNCHANGED <<files, target, ctl, fwd, faults>>

\* A phase that is not collected is only marked.
Skipped == At("skip") /\ Returns /\ UNCHANGED <<files, target, ctl, fwd, ready, counted>>

-------------------------------------------------------------------------------
(* server_ready: start_controller(). *)

\* Defect: the status of an earlier start is not looked at.
StatusIgnored ==
  /\ At("status")
  /\ Goto("launch")
  /\ UNCHANGED <<files, target, ctl, fwd, ready, counted>>

\* A query that fails, or whose answer is no JSON, is taken for "not running".
Status ==
  /\ At("status")
  /\ \/ /\ IF ctl.status = "running" THEN Returns ELSE Goto("launch")
        /\ UNCHANGED counted
     \/ /\ ctl.status = "running" /\ faults < MaxFaults
        /\ faults' = faults + 1 /\ mishaps' = mishaps \cup {"unasked"}
        /\ Goto("launch") /\ UNCHANGED events
  /\ UNCHANGED <<files, target, ctl, fwd, ready>>

Launch ==
  /\ At("launch")
  /\ ctl' = [ctl EXCEPT !.launching = @ + 1]
  /\ Goto("await")
  /\ UNCHANGED <<files, target, fwd, ready, counted>>

\* Polled for fifteen seconds, then given up, whatever became of the process.
Await ==
  /\ At("await")
  /\ \/ ctl.status = "running" /\ UNCHANGED counted
     \/ ctl.status # "running" /\ ctl.launching = 0 /\ UNCHANGED counted
     \/ /\ ctl.status # "running" /\ ctl.launching > 0 /\ faults < MaxFaults
        /\ faults' = faults + 1 /\ mishaps' = mishaps \cup {"launch"}
        /\ UNCHANGED events
  /\ Returns
  /\ UNCHANGED <<files, target, ctl, fwd, ready>>

-------------------------------------------------------------------------------
(* phase_before: CollectionSession.start(), the state file, the forwarder. *)

\* The remote directory is removed, and the pid files with it.
Reset ==
  /\ At("reset")
  /\ \/ /\ stray' = stray \cup {k \in running : k[1] = hook.phase}
        /\ running' = {k \in running : k[1] # hook.phase}
        /\ UNCHANGED survivors
        /\ hook' = [hook EXCEPT !.pc = "start", !.todo = Requested]
     \/ UNCHANGED target /\ Raises   \* the host or a target process is gone
  /\ UNCHANGED <<files, ctl, fwd, ready, counted>>

Starting == At("start") /\ hook.todo # << >>
Plugin == Head(hook.todo)

\* Defect: the exception of a failed start goes on at once.
AbandonAtOnce == hook' = Idle

\* stop(copy=False) of every plugin, then the exception goes on.
Abandon == hook' = [hook EXCEPT !.pc = "stop", !.todo = Reverse(Requested), !.failed = TRUE]

\* The events or the device of an optional or a required plugin do not exist.
Unavailable ==
  /\ Starting /\ Plugin # "prism"
  /\ hook' = [hook EXCEPT !.todo = Tail(@)]
  /\ UNCHANGED <<files, target, ctl, fwd, ready, counted>>

\* The pid file is written anew, whichever process it named.
Spawn ==
  /\ Starting
  /\ LET k == <<hook.phase, Plugin>> IN
     /\ running' = running \cup {k}
     /\ stray' = stray \cup ({k} \cap running)
  /\ UNCHANGED survivors
  /\ Goto("alive")
  /\ UNCHANGED <<files, ctl, fwd, ready, counted>>

\* The plugin is found alive after its start; for "prism", the target too.
FoundAlive ==
  /\ At("alive") /\ <<hook.phase, Plugin>> \in running
  /\ hook' = [hook EXCEPT !.pc = "start", !.todo = Tail(@), !.attempt = 1,
                          !.healthy = @ \cup {Plugin}]
  /\ UNCHANGED <<files, target, ctl, fwd, ready, counted>>

\* It is not, or the call that asks fails: an optional plugin stays without.
FoundDead ==
  /\ At("alive") /\ Plugin # "prism"
  /\ IF Plugin \in Required THEN Abandon
     ELSE hook' = [hook EXCEPT !.pc = "start", !.todo = Tail(@)]
  /\ UNCHANGED <<files, target, ctl, fwd, ready, counted>>

\* Host.stop(): a signal, a wait, SIGTERM for one that is still there, and the
\* pid file is removed, even that of one that has not ended by then.  An ssh that
\* fails is not noticed.
Stopped(k) ==
  \/ /\ running' = running \ {k}
     /\ UNCHANGED <<stray, survivors, counted>>
  \/ /\ k \in running
     /\ faults < MaxFaults /\ faults' = faults + 1 /\ UNCHANGED events
     /\ \/ /\ running' = running \ {k} /\ survivors' = survivors \cup {k}
           /\ UNCHANGED <<stray, mishaps>>
        \/ mishaps' = mishaps \cup {"lost"} /\ UNCHANGED target

\* Defect: the attempts are counted from one too few.
RetryPrismOnceMore ==
  /\ At("alive") /\ Plugin = "prism"
  /\ Stopped(<<hook.phase, "prism">>)
  /\ IF hook.attempt > Attempts THEN Abandon
     ELSE hook' = [hook EXCEPT !.pc = "start", !.attempt = @ + 1]
  /\ UNCHANGED <<files, ctl, fwd, ready>>

\* Defect: a startup attempt is not counted.
RetryPrismForEver ==
  /\ At("alive") /\ Plugin = "prism"
  /\ Stopped(<<hook.phase, "prism">>)
  /\ Goto("start")
  /\ UNCHANGED <<files, ctl, fwd, ready>>

\* The attempt is cleaned up and tried again, or given up, whether the plugin
\* is required or not.
RetryPrism ==
  /\ At("alive") /\ Plugin = "prism"
  /\ Stopped(<<hook.phase, "prism">>)
  /\ IF hook.attempt = Attempts THEN Abandon
     ELSE hook' = [hook EXCEPT !.pc = "start", !.attempt = @ + 1]
  /\ UNCHANGED <<files, ctl, fwd, ready>>

\* Defect: nobody asks whether the required plugins are healthy.
StartedAnyway ==
  /\ At("start") /\ hook.todo = << >>
  /\ Goto("capabilities") \/ Abandon
  /\ UNCHANGED <<files, target, ctl, fwd, ready, counted>>

\* All required plugins are healthy and the clocks were measured, or not.
Started ==
  /\ At("start") /\ hook.todo = << >>
  /\ \/ Required \subseteq hook.healthy /\ Goto("capabilities")
     \/ Abandon
  /\ UNCHANGED <<files, target, ctl, fwd, ready, counted>>

\* capabilities.json is written outside of the block that stops the plugins.
Capabilities ==
  /\ At("capabilities")
  /\ \/ Goto("state") /\ UNCHANGED counted
     \/ /\ faults < MaxFaults /\ faults' = faults + 1
        /\ mishaps' = mishaps \cup {"unrecorded"}
        /\ Raises /\ UNCHANGED events
  /\ UNCHANGED <<files, target, ctl, fwd, ready>>

\* The controller is marked next, which never fails.
WriteState ==
  /\ At("state")
  /\ files' = files \cup {hook.phase}
  /\ Goto("forwarder")
  /\ UNCHANGED <<target, ctl, fwd, ready, counted>>

\* Started unless the recorded one runs; its identity is recorded afterwards.
StartForwarder ==
  /\ At("forwarder")
  /\ IF fwd.named
     THEN Returns /\ ready' = ready \cup {hook.phase} /\ UNCHANGED fwd
     ELSE Goto("record") /\ fwd' = [fwd EXCEPT !.fresh = TRUE] /\ UNCHANGED ready
  /\ UNCHANGED <<files, target, ctl, counted>>

\* One that has ended before that is an exception.
RecordForwarder ==
  /\ At("record")
  /\ ready' = IF fwd.fresh THEN ready \cup {hook.phase} ELSE ready
  /\ fwd' = [fwd EXCEPT !.named = fwd.fresh, !.fresh = FALSE]
  /\ Returns
  /\ UNCHANGED <<files, target, ctl, counted>>

-------------------------------------------------------------------------------
(* phase_after: stop_kpi_forwarder(), CollectionSession.stop(copy=True).   *)

\* It leaves by itself after the stop file of the application, or is killed,
\* or survives both: then the event fails here.
StopForwarder ==
  /\ At("stopForwarder")
  /\ \/ /\ fwd' = [fwd EXCEPT !.named = FALSE]
        /\ IF hook.phase \in files
           THEN hook' = [hook EXCEPT !.pc = "stop", !.todo = Reverse(Requested)]
           ELSE Raises   \* "collection state is missing"
     \/ fwd.named /\ UNCHANGED fwd /\ Raises
  /\ UNCHANGED <<files, target, ctl, ready, counted>>

StopPlugin ==
  /\ At("stop") /\ hook.todo # << >>
  /\ Stopped(<<hook.phase, Plugin>>)
  /\ hook' = [hook EXCEPT !.todo = Tail(@)]
  /\ UNCHANGED <<files, ctl, fwd, ready>>

\* After the plugins: the exception of a failed start goes on; phase_after
\* copies and validates the raw files; a clean-up takes the next state file.
StopDone ==
  /\ At("stop") /\ hook.todo = << >>
  /\ IF hook.failed THEN Raises
     ELSE Goto(IF hook.event = "phase_after" THEN "copy" ELSE "unlink")
  /\ UNCHANGED <<files, target, ctl, fwd, ready, counted>>

Copy ==
  /\ At("copy")
  /\ Goto("unlink") \/ Raises
  /\ UNCHANGED <<files, target, ctl, fwd, ready, counted>>

Unlink ==
  /\ At("unlink")
  /\ files' = files \ {hook.phase}
  /\ IF hook.event = "run_abort" THEN Goto("nextFile") ELSE Returns
  /\ UNCHANGED <<target, ctl, fwd, ready, counted>>

-------------------------------------------------------------------------------
(* run_abort, cleanup: stop_controller(), then every state file.           *)

\* SIGTERM to the recorded controller; one that does not end in two minutes is
\* left alone.  Copying its results may fail, and then nothing else happens.
StopController ==
  /\ At("stopController")
  /\ \/ /\ ctl.named
        /\ ctl' = [ctl EXCEPT !.up = @ - 1, !.named = FALSE, !.status = "stopped"]
     \/ UNCHANGED ctl
  /\ Goto("nextFile") \/ Raises
  /\ UNCHANGED <<files, target, fwd, ready, counted>>

NextFile ==
  /\ At("nextFile")
  /\ \/ \E p \in files : hook' = [hook EXCEPT !.pc = "stop", !.phase = p,
                                             !.todo = Reverse(Requested)]
     \/ files = {} /\ Returns
  /\ UNCHANGED <<files, target, ctl, fwd, ready, counted>>

-------------------------------------------------------------------------------
(* The environment. *)

Undisturbed == UNCHANGED <<hook, files, ready, counted>>

CollectorEnds(k) ==
  /\ k \in running
  /\ running' = running \ {k}
  /\ UNCHANGED <<stray, survivors, ctl, fwd>> /\ Undisturbed

ControllerUp ==
  /\ ctl.launching > 0
  /\ ctl' = [launching |-> ctl.launching - 1, up |-> ctl.up + 1, named |-> TRUE,
             status |-> "running"]
  /\ UNCHANGED <<target, fwd>> /\ Undisturbed

\* One that is killed, or raises before its loop, leaves the status as it is; one
\* that is up may also write it at its end.  An older one, whose pid record was
\* overwritten, ends like the last.
ControllerEnds ==
  /\ \/ ctl.launching > 0 /\ ctl' = [ctl EXCEPT !.launching = @ - 1]
     \/ \E status \in {ctl.status, "stopped"} :
          \/ ctl.named /\ ctl' = [ctl EXCEPT !.up = @ - 1, !.named = FALSE, !.status = status]
          \/ /\ ctl.up > (IF ctl.named THEN 1 ELSE 0)
             /\ ctl' = [ctl EXCEPT !.up = @ - 1, !.status = status]
  /\ UNCHANGED <<target, fwd>> /\ Undisturbed

ForwarderEnds ==
  /\ \/ fwd.named /\ fwd' = [fwd EXCEPT !.named = FALSE]
     \/ fwd.fresh /\ fwd' = [fwd EXCEPT !.fresh = FALSE]
  /\ UNCHANGED <<target, ctl>> /\ Undisturbed

\* Where a hook that dies leaves something that no file names yet.
Unrecorded ==
  CASE hook.pc = "await" -> {"launch"}
    [] hook.pc = "record" /\ fwd.fresh -> {"forwarder"}
    [] hook.pc \in {"start", "alive", "capabilities", "state"} \/ hook.failed -> {"unrecorded"}
    [] OTHER -> {}

\* The hook is killed, for instance because the driver waited long enough.
HookDies ==
  /\ ~At("idle") /\ faults < MaxFaults
  /\ hook' = Idle
  /\ faults' = faults + 1
  /\ mishaps' = mishaps \cup Unrecorded
  /\ fwd' = IF fwd.fresh THEN [fwd EXCEPT !.fresh = FALSE, !.strays = @ + 1] ELSE fwd
  /\ UNCHANGED <<files, target, ctl, ready, events>>

-------------------------------------------------------------------------------
Handle ==
  \/ Skipped \/ Status \/ Launch \/ Await
  \/ Reset \/ Unavailable \/ Spawn \/ FoundAlive \/ FoundDead \/ RetryPrism \/ Started
  \/ Capabilities \/ WriteState \/ StartForwarder \/ RecordForwarder
  \/ StopForwarder \/ StopPlugin \/ StopDone \/ Copy \/ Unlink
  \/ StopController \/ NextFile

Environment ==
  \/ \E k \in Keys : CollectorEnds(k)
  \/ ControllerUp \/ ControllerEnds \/ ForwarderEnds
  \/ HookDies

Next ==
  \/ \E e \in {"phase_before", "phase_after"}, p \in Phases : Event(e, p)
  \/ \E e \in {"server_ready", "run_abort"} : Event(e, Idle.phase)
  \/ Handle \/ Environment

Spec == Init /\ [][Next]_vars

\* A hook process goes on, and a controller that is launched comes up or ends.
FairSpec ==
  /\ Spec /\ WF_vars(Handle)
  /\ WF_vars(ctl.launching > 0 /\ (ControllerUp \/ ControllerEnds))

-------------------------------------------------------------------------------
TypeOK ==
  /\ hook \in [event : Events \cup {"none"}, phase : Phases, todo : Seq(Plugins),
               pc : {"idle", "skip", "status", "launch", "await", "reset", "start", "alive",
                     "capabilities", "state", "forwarder", "record", "stopForwarder",
                     "stop", "copy", "unlink", "stopController", "nextFile"},
               healthy : SUBSET Plugins, attempt : 1..Attempts, failed : BOOLEAN]
  /\ files \in SUBSET Phases
  /\ running \in SUBSET Keys /\ stray \in SUBSET Keys /\ survivors \in SUBSET Keys
  /\ ctl \in [launching : Nat, up : Nat, named : BOOLEAN,
              status : {"absent", "running", "stopped"}]
  /\ fwd \in [named : BOOLEAN, fresh : BOOLEAN, strays : Nat]
  /\ ready \in SUBSET Phases
  /\ events \in 0..MaxEvents /\ faults \in 0..MaxFaults
  /\ mishaps \in SUBSET {"repeated", "launch", "unasked", "unrecorded", "lost", "forwarder"}

\* The hook that runs is the one that will stop the collectors of phase p.
InHand(p) ==
  hook.phase = p /\ (hook.pc \in {"start", "alive", "capabilities", "state"} \/ hook.failed)

\* Every running collector that was not told to end can be found by a later
\* event: its pid file names it, and the state file of its phase leads there.
Found ==
  /\ stray = {}
  /\ \A k \in running : InHand(k[1]) \/ k[1] \in files

(***************************************************************************)
(* No collector is orphaned by an event that fails, is repeated after its  *)
(* failure, or dies between two calls: only by a hook that dies before it  *)
(* has written the state file, a stop whose ssh is lost, or a second       *)
(* phase_before.  A collector that outlives the signals of its stop is not *)
(* looked for again (survivors), and orphans no other one                  *)
(* (hooks.py 158-229, session.py 220-241, 419-500, remote.py 78-102).      *)
(***************************************************************************)
NoOrphans == mishaps \cap {"unrecorded", "lost", "repeated"} = {} => Found

(***************************************************************************)
(* The same when the driver repeats an event, as the design note has it:   *)
(* "Hook and stop operations are idempotent".                              *)
(***************************************************************************)
RepeatedEventsAreHarmless == mishaps \cap {"unrecorded", "lost"} = {} => Found

(***************************************************************************)
(* A required plugin that failed prevents the workload: a phase becomes    *)
(* ready only with every required plugin found alive and its state on      *)
(* disk, however many attempts it took (session.py 301-325, 419-447).      *)
(***************************************************************************)
ReadyMeansCollecting ==
  [][\A p \in ready' \ ready : Required \subseteq hook.healthy /\ p \in files]_vars

(***************************************************************************)
(* There is one controller, and one forwarder, at a time, over repeated    *)
(* and failed events; unless a start was given up or died between the      *)
(* launch and the record of it, or was not told that one runs because its  *)
(* query failed (integration.py 46-101, kpi_integration.py 30-85).         *)
(***************************************************************************)
OneOfEach ==
  /\ mishaps \cap {"launch", "unasked"} = {} => ctl.launching + ctl.up <= 1
  /\ "forwarder" \notin mishaps => fwd.strays = 0 /\ ~(fwd.named /\ fwd.fresh)

\* Every event returns.
EventsReturn == []<>At("idle")

===============================================================================
