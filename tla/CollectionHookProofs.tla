------------------------- MODULE CollectionHookProofs -------------------------
(***************************************************************************)
(* Proofs about the hook and what it starts, for any phases, plugins,      *)
(* startup attempts, events and mishaps.                                   *)
(***************************************************************************)
EXTENDS CollectionHook, SequenceTheorems, TLAPS

-------------------------------------------------------------------------------
(***************************************************************************)
(* The inductive invariant.                                                *)
(***************************************************************************)

\* Where the hook is, and what its record says there.
Placed ==
  /\ hook.failed => At("stop")
  /\ At("alive") => hook.todo # << >>
  /\ hook.pc \in {"start", "alive"} => IsInjective(hook.todo)
  /\ hook.pc \in {"capabilities", "state", "forwarder", "record"} => Required \subseteq hook.healthy
  /\ hook.pc \in {"forwarder", "record"} => hook.phase \in files

\* No mishap has struck the collectors yet.
Undamaged == mishaps \cap {"unrecorded", "lost", "repeated"} = {}

\* The session that is starting has no state file yet.
Unsaved == hook.pc \in {"reset", "start", "alive", "capabilities", "state"} \/ hook.failed

\* The plugins that may run in the hook's phase: those that have had their
\* turn in a start, those that have not in a stop, none after it.
InTurn ==
  {q \in Plugins : /\ At("start") => q \notin Range(hook.todo)
                   /\ At("alive") => q \notin Range(Tail(hook.todo))
                   /\ At("stop") => q \in Range(hook.todo)
                   /\ hook.pc \notin {"copy", "unlink"}}

\* Those that do.
Busy == {q \in Plugins : <<hook.phase, q>> \in running}

Tracked ==
  Undamaged =>
    /\ Found
    /\ Unsaved => hook.phase \notin files
    /\ Busy \subseteq InTurn

\* No mishap has struck the start of a controller yet.
Single == mishaps \cap {"launch", "unasked"} = {}

\* A controller is launching only while its hook awaits it, and one that is
\* named runs and says so.
Controlled ==
  /\ ctl.named => ctl.up > 0
  /\ Single =>
       /\ ctl.launching + ctl.up <= 1
       /\ ctl.up > 0 => ctl.named /\ ctl.status = "running"
       /\ ctl.launching > 0 => At("await") /\ ctl.status # "running"
       /\ At("launch") => ctl.status # "running"

\* A forwarder that is not recorded yet belongs to the hook that records it.
Forwarded ==
  /\ fwd.fresh => At("record")
  /\ At("record") => ~fwd.named
  /\ "forwarder" \notin mishaps => fwd.strays = 0

-------------------------------------------------------------------------------
(***************************************************************************)
(* Lemmas about the plugins that still have their turn.                    *)
(***************************************************************************)

\* The elements of a sequence are its head and those of its tail.
LEMMA HeadAndTail ==
  ASSUME NEW S, NEW s \in Seq(S), s # << >>
  PROVE  /\ Head(s) \in S /\ Tail(s) \in Seq(S)
         /\ Range(s) = {Head(s)} \cup Range(Tail(s))
<1>1. Len(s) \in Nat \ {0} /\ DOMAIN s = 1..Len(s)
  OBVIOUS
<1>2. Head(s) = s[1] /\ Tail(s) \in Seq(S) /\ Len(Tail(s)) = Len(s) - 1
  OBVIOUS
<1>3. \A i \in 1..Len(s) - 1 : Tail(s)[i] = s[i + 1]
  OBVIOUS
<1>4. DOMAIN Tail(s) = 1..Len(s) - 1
  BY <1>2
<1>5. ASSUME NEW x \in Range(s), x # Head(s)
      PROVE  x \in Range(Tail(s))
  <2>1. PICK i \in 1..Len(s) : x = s[i]
    BY <1>1, <1>5 DEF Range
  <2>2. i - 1 \in 1..Len(s) - 1 /\ Tail(s)[i - 1] = x
    BY <1>1, <1>2, <1>3, <1>5, <2>1
  <2> QED
    BY <2>2, <1>4 DEF Range
<1>6. ASSUME NEW x \in Range(Tail(s))
      PROVE  x \in Range(s)
  <2>1. PICK i \in 1..Len(s) - 1 : x = Tail(s)[i]
    BY <1>4, <1>6 DEF Range
  <2>2. i + 1 \in 1..Len(s) /\ s[i + 1] = x
    BY <1>1, <1>3, <2>1
  <2> QED
    BY <2>2, <1>1 DEF Range
<1>7. Head(s) \in Range(s)
  BY <1>1, <1>2 DEF Range
<1> QED
  BY <1>1, <1>2, <1>5, <1>6, <1>7

\* No plugin has its turn twice.
LEMMA OneTurnEach ==
  ASSUME NEW S, NEW s \in Seq(S), s # << >>, IsInjective(s)
  PROVE  IsInjective(Tail(s)) /\ Head(s) \notin Range(Tail(s))
<1>1. Len(s) \in Nat \ {0} /\ DOMAIN s = 1..Len(s)
  OBVIOUS
<1>2. Head(s) = s[1] /\ Tail(s) \in Seq(S) /\ Len(Tail(s)) = Len(s) - 1
  OBVIOUS
<1>3. \A i \in 1..Len(s) - 1 : Tail(s)[i] = s[i + 1]
  OBVIOUS
<1>4. DOMAIN Tail(s) = 1..Len(s) - 1
  BY <1>2
<1>5. \A a, b \in 1..Len(s) : s[a] = s[b] => a = b
  BY <1>1 DEF IsInjective
<1>6. ASSUME NEW a \in 1..Len(s) - 1, NEW b \in 1..Len(s) - 1, Tail(s)[a] = Tail(s)[b]
      PROVE  a = b
  <2>1. a + 1 \in 1..Len(s) /\ b + 1 \in 1..Len(s) /\ s[a + 1] = s[b + 1]
    BY <1>1, <1>3, <1>6
  <2>2. a + 1 = b + 1
    BY <1>5, <2>1
  <2> QED
    BY <2>2, <1>1
<1>7. ASSUME NEW a \in 1..Len(s) - 1, Tail(s)[a] = Head(s)
      PROVE  FALSE
  <2>1. a + 1 \in 1..Len(s) /\ 1 \in 1..Len(s) /\ s[a + 1] = s[1]
    BY <1>1, <1>2, <1>3, <1>7
  <2>2. a + 1 = 1
    BY <1>5, <2>1
  <2> QED
    BY <2>2, <1>1
<1> QED
  BY <1>4, <1>6, <1>7 DEF IsInjective, Range

\* The plugins of the profile, in the order of the start and of the stop.
LEMMA RequestedPlugins ==
  /\ Requested \in Seq(Plugins) /\ Reverse(Requested) \in Seq(Plugins)
  /\ Range(Requested) = Plugins /\ Range(Reverse(Requested)) = Plugins
  /\ IsInjective(Requested)
<1>1. Requested \in Seq(STRING) /\ IsInjective(Requested)
  BY HookAssumption
<1>2. Len(Requested) \in Nat /\ DOMAIN Requested = 1..Len(Requested)
  BY <1>1
<1>3. Requested \in Seq(Plugins)
  <2>1. \A i \in 1..Len(Requested) : Requested[i] \in Plugins
    BY <1>2 DEF Plugins, Range
  <2> QED
    BY <1>1, <1>2, <2>1, ElementOfSeq, SeqDef
<1>4. Reverse(Requested) = [i \in 1..Len(Requested) |-> Requested[(Len(Requested) - i) + 1]]
  BY DEF Reverse
<1>5. \A i \in 1..Len(Requested) : (Len(Requested) - i) + 1 \in 1..Len(Requested)
  BY <1>2
<1>6. Reverse(Requested) \in Seq(Plugins)
  <2>1. Reverse(Requested) \in [1..Len(Requested) -> Plugins]
    BY <1>2, <1>4, <1>5 DEF Plugins, Range
  <2> QED
    BY <1>2, <2>1, SeqDef
<1>7. ASSUME NEW x \in Plugins PROVE x \in Range(Reverse(Requested))
  <2>1. PICK i \in 1..Len(Requested) : x = Requested[i]
    BY <1>2, <1>7 DEF Plugins, Range
  <2>2. /\ (Len(Requested) - i) + 1 \in 1..Len(Requested)
        /\ (Len(Requested) - ((Len(Requested) - i) + 1)) + 1 = i
    BY <1>2, <2>1
  <2>3. Reverse(Requested)[(Len(Requested) - i) + 1] = x
    BY <1>4, <2>1, <2>2
  <2> QED
    BY <1>4, <2>2, <2>3 DEF Range
<1>8. Range(Reverse(Requested)) \subseteq Plugins
  BY <1>2, <1>4, <1>5 DEF Plugins, Range
<1> QED
  BY <1>1, <1>3, <1>6, <1>7, <1>8 DEF Plugins

-------------------------------------------------------------------------------
(***************************************************************************)
(* Type correctness.                                                       *)
(***************************************************************************)

\* The set of the records the hook can have.
Hooks ==
  [event : Events \cup {"none"}, phase : Phases, todo : Seq(Plugins),
   pc : {"idle", "skip", "status", "launch", "await", "reset", "start", "alive",
         "capabilities", "state", "forwarder", "record", "stopForwarder",
         "stop", "copy", "unlink", "stopController", "nextFile"},
   healthy : SUBSET Plugins, attempt : 1..Attempts, failed : BOOLEAN]

\* A hook that has returned.
LEMMA IdleHook ==
  /\ Idle \in Hooks
  /\ Idle.event = "none" /\ Idle.pc = "idle" /\ Idle.phase \in Phases /\ Idle.todo = << >>
  /\ Idle.failed = FALSE /\ Idle.attempt = 1 /\ Idle.healthy = {}
<1>1. PICK p \in Phases : TRUE
  BY HookAssumption
<1>2. (CHOOSE q \in Phases : TRUE) \in Phases
  BY <1>1
<1>3. << >> \in Seq(Plugins) /\ 1 \in 1..Attempts
  BY HookAssumption
<1> QED
  BY <1>2, <1>3 DEF Idle, Hooks, Events

\* The initial state.
LEMMA TypeInit == Init => TypeOK
<1> SUFFICES ASSUME Init PROVE TypeOK
  OBVIOUS
<1>1. hook \in Hooks
  BY IdleHook DEF Init
<1>2. events \in 0..MaxEvents /\ faults \in 0..MaxFaults
  BY HookAssumption DEF Init
<1> QED
  BY <1>1, <1>2 DEF Init, TypeOK, Hooks

\* The records of the controller and of the forwarder, and the marks of a mishap.
Controllers ==
  [launching : Nat, up : Nat, named : BOOLEAN, status : {"absent", "running", "stopped"}]
Forwarders == [named : BOOLEAN, fresh : BOOLEAN, strays : Nat]
Mishaps == {"repeated", "launch", "unasked", "unrecorded", "lost", "forwarder"}

\* The types of the files and of the counters.
Kept == files \in SUBSET Phases /\ ready \in SUBSET Phases
Owned == running \in SUBSET Keys /\ stray \in SUBSET Keys /\ survivors \in SUBSET Keys
Counts ==
  events \in 0..MaxEvents /\ faults \in 0..MaxFaults /\ mishaps \in SUBSET Mishaps

\* TypeOK, with a name for the type of each part of the state.
LEMMA TypeParts ==
  TypeOK <=> /\ hook \in Hooks /\ Kept /\ Owned
             /\ ctl \in Controllers /\ fwd \in Forwarders /\ Counts
BY DEF TypeOK, Hooks, Kept, Owned, Controllers, Forwarders, Counts, Mishaps

\* The same of the next state.
LEMMA TypePartsNext ==
  ASSUME hook' \in Hooks, Kept', Owned', ctl' \in Controllers, fwd' \in Forwarders, Counts'
  PROVE  TypeOK'
BY DEF TypeOK, Hooks, Kept, Owned, Controllers, Forwarders, Counts, Mishaps

\* The steps that change a part and leave the type of the rest alone.
LEMMA TypeKept ==
  /\ UNCHANGED files /\ Kept /\ ready' \in SUBSET Phases => Kept'
  /\ UNCHANGED ready /\ Kept /\ files' \in SUBSET Phases => Kept'
  /\ UNCHANGED target /\ Owned => Owned'
  /\ UNCHANGED counted /\ Counts => Counts'
BY DEF Kept, Owned, Counts, target, counted

\* A hook that goes on to its next call.
LEMMA HookGoes ==
  ASSUME hook \in Hooks,
         \/ Goto("launch") \/ Goto("await") \/ Goto("alive") \/ Goto("capabilities")
         \/ Goto("state") \/ Goto("forwarder") \/ Goto("record") \/ Goto("copy")
         \/ Goto("unlink") \/ Goto("nextFile")
  PROVE  hook' \in Hooks
<1>1. ASSUME NEW pc \in {"launch", "await", "alive", "capabilities", "state", "forwarder",
                         "record", "copy", "unlink", "nextFile"},
             hook' = [hook EXCEPT !.pc = pc]
      PROVE  hook' \in Hooks
  BY <1>1 DEF Hooks
<1> QED
  BY <1>1 DEF Goto

\* A hook that turns to other collectors.
LEMMA HookTurns ==
  ASSUME hook \in Hooks, NEW todo \in Seq(Plugins),
         \/ hook' = [hook EXCEPT !.todo = todo]
         \/ hook' = [hook EXCEPT !.pc = "start", !.todo = todo]
         \/ hook' = [hook EXCEPT !.pc = "stop", !.todo = todo]
  PROVE  hook' \in Hooks
<1>1. CASE hook' = [hook EXCEPT !.todo = todo]
  BY <1>1 DEF Hooks
<1>2. ASSUME NEW pc \in {"start", "stop"}, hook' = [hook EXCEPT !.pc = pc, !.todo = todo]
      PROVE  hook' \in Hooks
  BY <1>2 DEF Hooks
<1> QED
  BY <1>1, <1>2

\* A hook that gives up still has the collectors to stop.
LEMMA AbandonedHook == hook \in Hooks /\ Abandon => hook' \in Hooks
<1> SUFFICES ASSUME hook \in Hooks, Abandon PROVE hook' \in Hooks
  OBVIOUS
<1>1. Reverse(Requested) \in Seq(Plugins)
  BY RequestedPlugins
<1> QED
  BY <1>1 DEF Abandon, Hooks

\* What a stop of a collector does to the collectors and to the counters.
LEMMA StoppedTypes ==
  ASSUME NEW k, Owned, Counts, Stopped(k)
  PROVE  Owned' /\ Counts'
<1>0. MaxFaults \in Nat
  BY HookAssumption
<1>1. Owned'
  <2>1. CASE running' = running \ {k} /\ UNCHANGED <<stray, survivors>>
    BY <2>1 DEF Owned
  <2>2. CASE /\ k \in running /\ running' = running \ {k}
             /\ survivors' = survivors \cup {k} /\ UNCHANGED stray
    BY <2>2 DEF Owned
  <2>3. CASE UNCHANGED target
    BY <2>3 DEF Owned, target
  <2> QED
    BY <2>1, <2>2, <2>3 DEF Stopped
<1>2. CASE UNCHANGED counted
  BY <1>1, <1>2, TypeKept
<1>3. CASE /\ faults < MaxFaults /\ faults' = faults + 1 /\ UNCHANGED events
           /\ mishaps' \in {mishaps, mishaps \cup {"lost"}}
  <2>1. faults' \in 0..MaxFaults
    BY <1>0, <1>3 DEF Counts
  <2>2. mishaps' \in SUBSET Mishaps
    BY <1>3 DEF Counts, Mishaps
  <2> QED
    BY <1>1, <1>3, <2>1, <2>2 DEF Counts
<1> QED
  BY <1>2, <1>3 DEF Stopped

\* Every step of the hook and of what surrounds it.
LEMMA TypeStep == TypeOK /\ Placed /\ Controlled /\ [Next]_vars => TypeOK'
<1> SUFFICES ASSUME TypeOK, Placed, Controlled, [Next]_vars PROVE TypeOK'
  OBVIOUS
<1>0. /\ hook \in Hooks /\ Kept /\ Owned /\ ctl \in Controllers /\ fwd \in Forwarders /\ Counts
      /\ MaxEvents \in Nat /\ MaxFaults \in Nat /\ Attempts \in Nat /\ 1 \in 1..Attempts
  BY TypeParts, HookAssumption
<1>p. hook.phase \in Phases /\ hook.todo \in Seq(Plugins)
  BY <1>0 DEF Hooks
<1>h. ASSUME hook' \in Hooks, UNCHANGED <<files, target, ctl, fwd, ready, counted>>
      PROVE  TypeOK'
  <2>1. Kept' /\ Owned' /\ Counts'
    BY <1>0, <1>h, TypeKept DEF Kept
  <2>2. ctl' \in Controllers /\ fwd' \in Forwarders
    BY <1>0, <1>h
  <2> QED
    BY <1>h, <2>1, <2>2, TypePartsNext
<1>r. Returns \/ Raises => hook' \in Hooks
  BY IdleHook DEF Returns, Raises
<1>f. /\ faults < MaxFaults /\ faults' = faults + 1 => faults' \in 0..MaxFaults
      /\ events < MaxEvents /\ events' = events + 1 => events' \in 0..MaxEvents
  BY <1>0 DEF Counts
<1>e. ASSUME NEW e \in Events, NEW p \in Phases, Event(e, p)
      PROVE  TypeOK'
  <2>1. FirstPc(e, p) \in {"reset", "skip", "stopForwarder", "status", "stopController"}
    BY DEF FirstPc, Events
  <2>3. hook' = [Idle EXCEPT !.event = e, !.phase = p, !.pc = FirstPc(e, p)]
    BY <1>e DEF Event
  <2>4. hook' \in Hooks
    BY <2>1, <2>3, IdleHook DEF Hooks
  <2>5. ready' \in SUBSET Phases
    BY <1>0, <1>e DEF Event, Kept
  <2>6. Kept'
    BY <1>0, <1>e, <2>5, TypeKept DEF Event
  <2>7. Owned' /\ ctl' \in Controllers /\ fwd' \in Forwarders
    BY <1>0, <1>e, TypeKept DEF Event
  <2>8. mishaps' \in SUBSET Mishaps
    BY <1>0, <1>e DEF Event, Counts, Mishaps
  <2>9. Counts'
    BY <1>0, <1>e, <1>f, <2>8 DEF Event, Counts
  <2> QED
    BY <2>4, <2>6, <2>7, <2>9, TypePartsNext
<1>1. CASE \E e \in {"phase_before", "phase_after"}, p \in Phases : Event(e, p)
  BY <1>1, <1>e DEF Events
<1>2. CASE \E e \in {"server_ready", "run_abort"} : Event(e, Idle.phase)
  BY <1>2, <1>e, IdleHook DEF Events
<1>3. CASE Handle
  <2>1. CASE Skipped
    BY <2>1, <1>h, <1>r DEF Skipped
  <2>2. CASE Status
    <3>1. hook' \in Hooks
      BY <2>2, <1>0, <1>r, HookGoes DEF Status
    <3>2. \/ UNCHANGED counted
          \/ /\ faults < MaxFaults /\ faults' = faults + 1
             /\ mishaps' = mishaps \cup {"unasked"} /\ UNCHANGED events
      BY <2>2 DEF Status
    <3>3. Counts'
      BY <3>2, <1>0, <1>f, TypeKept DEF Counts, Mishaps
    <3>4. Kept' /\ Owned' /\ ctl' \in Controllers /\ fwd' \in Forwarders
      BY <2>2, <1>0, TypeKept DEF Status, Kept
    <3> QED
      BY <3>1, <3>3, <3>4, TypePartsNext
  <2>3. CASE Launch
    <3>1. hook' \in Hooks
      BY <2>3, <1>0, HookGoes DEF Launch
    <3>2. ctl' \in Controllers
      BY <2>3, <1>0 DEF Launch, Controllers
    <3>3. Kept' /\ Owned' /\ fwd' \in Forwarders /\ Counts'
      BY <2>3, <1>0, TypeKept DEF Launch, Kept
    <3> QED
      BY <3>1, <3>2, <3>3, TypePartsNext
  <2>4. CASE Await
    <3>1. hook' \in Hooks
      BY <2>4, <1>r DEF Await
    <3>2. \/ UNCHANGED counted
          \/ /\ faults < MaxFaults /\ faults' = faults + 1
             /\ mishaps' = mishaps \cup {"launch"} /\ UNCHANGED events
      BY <2>4 DEF Await
    <3>3. Counts'
      BY <3>2, <1>0, <1>f, TypeKept DEF Counts, Mishaps
    <3>4. Kept' /\ Owned' /\ ctl' \in Controllers /\ fwd' \in Forwarders
      BY <2>4, <1>0, TypeKept DEF Await, Kept
    <3> QED
      BY <3>1, <3>3, <3>4, TypePartsNext
  <2>5. CASE Reset
    <3>1. hook' \in Hooks
      <4>1. CASE hook' = [hook EXCEPT !.pc = "start", !.todo = Requested]
        BY <4>1, <1>0, RequestedPlugins, HookTurns, Zenon
      <4>2. CASE Raises
        BY <4>2, <1>r
      <4> QED
        BY <2>5, <4>1, <4>2 DEF Reset
    <3>2. Owned'
      BY <2>5, <1>0 DEF Reset, Owned, target
    <3>3. Kept' /\ ctl' \in Controllers /\ fwd' \in Forwarders /\ Counts'
      BY <2>5, <1>0, TypeKept DEF Reset, Kept
    <3> QED
      BY <3>1, <3>2, <3>3, TypePartsNext
  <2>6. CASE Unavailable \/ FoundAlive \/ FoundDead
    <3>1. hook.todo # << >>
      BY <2>6 DEF Unavailable, FoundAlive, FoundDead, Starting, Placed, At
    <3>2. Plugin \in Plugins /\ Tail(hook.todo) \in Seq(Plugins)
      BY <3>1, <1>p, HeadAndTail DEF Plugin
    <3>3. CASE Unavailable
      <4>1. hook' \in Hooks
        BY <3>2, <3>3, <1>0, HookTurns, Zenon DEF Unavailable
      <4> QED
        BY <3>3, <4>1, <1>h DEF Unavailable
    <3>4. CASE FoundAlive
      <4>1. hook' \in Hooks
        <5>1. hook' = [hook EXCEPT !.pc = "start", !.todo = Tail(hook.todo), !.attempt = 1,
                                   !.healthy = hook.healthy \cup {Plugin}]
          BY <3>4 DEF FoundAlive
        <5>2. hook.healthy \cup {Plugin} \in SUBSET Plugins
          BY <3>2, <1>0 DEF Hooks
        <5> QED
          BY <5>1, <5>2, <3>2, <1>0 DEF Hooks
      <4> QED
        BY <3>4, <4>1, <1>h DEF FoundAlive
    <3>5. CASE FoundDead
      <4>1. hook' \in Hooks
        <5>1. CASE hook' = [hook EXCEPT !.pc = "start", !.todo = Tail(hook.todo)]
          BY <5>1, <3>2, <1>0, HookTurns, Zenon
        <5>2. CASE Abandon
          BY <5>2, <1>0, AbandonedHook
        <5> QED
          BY <3>5, <5>1, <5>2 DEF FoundDead
      <4> QED
        BY <3>5, <4>1, <1>h DEF FoundDead
    <3> QED
      BY <2>6, <3>3, <3>4, <3>5
  <2>7. CASE Spawn
    <3>1. hook.todo # << >>
      BY <2>7 DEF Spawn, Starting
    <3>2. Plugin \in Plugins
      BY <3>1, <1>p, HeadAndTail DEF Plugin
    <3>3. <<hook.phase, Plugin>> \in Keys
      BY <3>2, <1>p DEF Keys
    <3>4. Owned'
      BY <2>7, <3>3, <1>0 DEF Spawn, Owned
    <3>5. hook' \in Hooks
      BY <2>7, <1>0, HookGoes DEF Spawn
    <3>6. Kept' /\ ctl' \in Controllers /\ fwd' \in Forwarders /\ Counts'
      BY <2>7, <1>0, TypeKept DEF Spawn, Kept
    <3> QED
      BY <3>4, <3>5, <3>6, TypePartsNext
  <2>8. CASE RetryPrism
    <3>1. Owned' /\ Counts'
      BY <2>8, <1>0, StoppedTypes DEF RetryPrism
    <3>2. Kept' /\ ctl' \in Controllers /\ fwd' \in Forwarders
      BY <2>8, <1>0, TypeKept DEF RetryPrism, Kept
    <3>3. CASE Abandon
      BY <3>1, <3>2, <3>3, <1>0, AbandonedHook, TypePartsNext
    <3>4. CASE /\ hook.attempt # Attempts
               /\ hook' = [hook EXCEPT !.pc = "start", !.attempt = @ + 1]
      <4>1. hook.attempt + 1 \in 1..Attempts
        BY <3>4, <1>0 DEF Hooks
      <4>2. hook' \in Hooks
        BY <3>4, <4>1, <1>0 DEF Hooks
      <4> QED
        BY <3>1, <3>2, <4>2, TypePartsNext
    <3> QED
      BY <2>8, <3>3, <3>4 DEF RetryPrism
  <2>9. CASE Started
    <3>1. hook' \in Hooks
      BY <2>9, <1>0, HookGoes, AbandonedHook DEF Started
    <3> QED
      BY <2>9, <3>1, <1>h DEF Started
  <2>10. CASE WriteState
    <3>1. hook' \in Hooks
      BY <2>10, <1>0, HookGoes DEF WriteState
    <3>2. Kept'
      BY <2>10, <1>0, <1>p DEF WriteState, Kept
    <3>3. Owned' /\ ctl' \in Controllers /\ fwd' \in Forwarders /\ Counts'
      BY <2>10, <1>0, TypeKept DEF WriteState
    <3> QED
      BY <3>1, <3>2, <3>3, TypePartsNext
  <2>11. CASE Capabilities
    <3>1. hook' \in Hooks
      BY <2>11, <1>0, <1>r, HookGoes DEF Capabilities
    <3>2. \/ UNCHANGED counted
          \/ /\ faults < MaxFaults /\ faults' = faults + 1
             /\ mishaps' = mishaps \cup {"unrecorded"} /\ UNCHANGED events
      BY <2>11 DEF Capabilities
    <3>3. Counts'
      BY <3>2, <1>0, <1>f, TypeKept DEF Counts, Mishaps
    <3>4. Kept' /\ Owned' /\ ctl' \in Controllers /\ fwd' \in Forwarders
      BY <2>11, <1>0, TypeKept DEF Capabilities, Kept
    <3> QED
      BY <3>1, <3>3, <3>4, TypePartsNext
  <2>12. CASE StartForwarder
    <3>1. hook' \in Hooks
      BY <2>12, <1>0, <1>r, HookGoes DEF StartForwarder
    <3>2. fwd' \in Forwarders
      BY <2>12, <1>0 DEF StartForwarder, Forwarders
    <3>3. Kept'
      BY <2>12, <1>0, <1>p DEF StartForwarder, Kept
    <3>4. Owned' /\ ctl' \in Controllers /\ Counts'
      BY <2>12, <1>0, TypeKept DEF StartForwarder
    <3> QED
      BY <3>1, <3>2, <3>3, <3>4, TypePartsNext
  <2>13. CASE RecordForwarder
    <3>1. hook' \in Hooks
      BY <2>13, <1>r DEF RecordForwarder
    <3>2. fwd' \in Forwarders
      BY <2>13, <1>0 DEF RecordForwarder, Forwarders
    <3>3. Kept'
      BY <2>13, <1>0, <1>p DEF RecordForwarder, Kept
    <3>4. Owned' /\ ctl' \in Controllers /\ Counts'
      BY <2>13, <1>0, TypeKept DEF RecordForwarder
    <3> QED
      BY <3>1, <3>2, <3>3, <3>4, TypePartsNext
  <2>14. CASE StopForwarder
    <3>1. hook' \in Hooks
      <4>1. CASE hook' = [hook EXCEPT !.pc = "stop", !.todo = Reverse(Requested)]
        BY <4>1, <1>0, RequestedPlugins, HookTurns, Zenon
      <4>2. CASE Raises
        BY <4>2, <1>r
      <4> QED
        BY <2>14, <4>1, <4>2 DEF StopForwarder
    <3>2. fwd' \in Forwarders
      BY <2>14, <1>0 DEF StopForwarder, Forwarders
    <3>3. Kept' /\ Owned' /\ ctl' \in Controllers /\ Counts'
      BY <2>14, <1>0, TypeKept DEF StopForwarder, Kept
    <3> QED
      BY <3>1, <3>2, <3>3, TypePartsNext
  <2>15. CASE StopPlugin
    <3>1. Owned' /\ Counts'
      BY <2>15, <1>0, StoppedTypes DEF StopPlugin
    <3>2. Tail(hook.todo) \in Seq(Plugins)
      BY <2>15, <1>p, HeadAndTail DEF StopPlugin
    <3>3. hook' \in Hooks
      BY <2>15, <3>2, <1>0, HookTurns, Zenon DEF StopPlugin
    <3>4. Kept' /\ ctl' \in Controllers /\ fwd' \in Forwarders
      BY <2>15, <1>0, TypeKept DEF StopPlugin, Kept
    <3> QED
      BY <3>1, <3>3, <3>4, TypePartsNext
  <2>16. CASE StopDone
    <3>1. Raises \/ Goto("copy") \/ Goto("unlink")
      BY <2>16 DEF StopDone
    <3>2. hook' \in Hooks
      BY <3>1, <1>0, <1>r, HookGoes
    <3> QED
      BY <2>16, <3>2, <1>h DEF StopDone
  <2>17. CASE Copy
    <3>1. hook' \in Hooks
      BY <2>17, <1>0, <1>r, HookGoes DEF Copy
    <3> QED
      BY <2>17, <3>1, <1>h DEF Copy
  <2>18. CASE Unlink
    <3>1. hook' \in Hooks
      BY <2>18, <1>0, <1>r, HookGoes DEF Unlink
    <3>2. Kept'
      BY <2>18, <1>0 DEF Unlink, Kept
    <3>3. Owned' /\ ctl' \in Controllers /\ fwd' \in Forwarders /\ Counts'
      BY <2>18, <1>0, TypeKept DEF Unlink
    <3> QED
      BY <3>1, <3>2, <3>3, TypePartsNext
  <2>19. CASE NextFile
    <3>1. ASSUME NEW p \in files,
                 hook' = [hook EXCEPT !.pc = "stop", !.phase = p, !.todo = Reverse(Requested)]
          PROVE  hook' \in Hooks
      <4>1. p \in Phases /\ Reverse(Requested) \in Seq(Plugins)
        BY <3>1, <1>0, RequestedPlugins DEF Kept
      <4> QED
        BY <3>1, <4>1, <1>0 DEF Hooks
    <3>2. hook' \in Hooks
      BY <2>19, <3>1, <1>r DEF NextFile
    <3> QED
      BY <2>19, <3>2, <1>h DEF NextFile
  <2>20. CASE StopController
    <3>1. hook' \in Hooks
      BY <2>20, <1>0, <1>r, HookGoes DEF StopController
    <3>2. ctl.named => ctl.up - 1 \in Nat
      BY <1>0 DEF Controllers, Controlled
    <3>3. ctl' \in Controllers
      BY <2>20, <3>2, <1>0 DEF StopController, Controllers
    <3>4. Kept' /\ Owned' /\ fwd' \in Forwarders /\ Counts'
      BY <2>20, <1>0, TypeKept DEF StopController, Kept
    <3> QED
      BY <3>1, <3>3, <3>4, TypePartsNext
  <2> QED
    BY <1>3, <2>1, <2>2, <2>3, <2>4, <2>5, <2>6, <2>7, <2>8, <2>9, <2>10, <2>11, <2>12,
       <2>13, <2>14, <2>15, <2>16, <2>17, <2>18, <2>19, <2>20 DEF Handle
<1>4. CASE Environment
  <2>u. ASSUME Undisturbed
        PROVE  hook' \in Hooks /\ Kept' /\ Counts'
    BY <2>u, <1>0, TypeKept DEF Undisturbed, Kept
  <2>1. ASSUME NEW k \in Keys, CollectorEnds(k)
        PROVE  TypeOK'
    <3>1. Owned'
      BY <2>1, <1>0 DEF CollectorEnds, Owned
    <3>2. ctl' \in Controllers /\ fwd' \in Forwarders
      BY <2>1, <1>0 DEF CollectorEnds
    <3> QED
      BY <2>1, <2>u, <3>1, <3>2, TypePartsNext DEF CollectorEnds
  <2>2. CASE ControllerUp
    <3>1. ctl' \in Controllers
      BY <2>2, <1>0 DEF ControllerUp, Controllers
    <3>2. Owned' /\ fwd' \in Forwarders
      BY <2>2, <1>0, TypeKept DEF ControllerUp
    <3> QED
      BY <2>2, <2>u, <3>1, <3>2, TypePartsNext DEF ControllerUp
  <2>3. CASE ControllerEnds
    <3>1. /\ ctl.launching > 0 => ctl.launching - 1 \in Nat
          /\ ctl.named \/ ctl.up > (IF ctl.named THEN 1 ELSE 0) => ctl.up - 1 \in Nat
      BY <1>0 DEF Controllers, Controlled
    <3>2. ctl' \in Controllers
      BY <2>3, <3>1, <1>0 DEF ControllerEnds, Controllers
    <3>3. Owned' /\ fwd' \in Forwarders
      BY <2>3, <1>0, TypeKept DEF ControllerEnds
    <3> QED
      BY <2>3, <2>u, <3>2, <3>3, TypePartsNext DEF ControllerEnds
  <2>4. CASE ForwarderEnds
    <3>1. fwd' \in Forwarders
      BY <2>4, <1>0 DEF ForwarderEnds, Forwarders
    <3>2. Owned' /\ ctl' \in Controllers
      BY <2>4, <1>0, TypeKept DEF ForwarderEnds
    <3> QED
      BY <2>4, <2>u, <3>1, <3>2, TypePartsNext DEF ForwarderEnds
  <2>5. CASE HookDies
    <3>1. hook' \in Hooks
      BY <2>5, IdleHook DEF HookDies
    <3>2. Unrecorded \in SUBSET Mishaps
      BY DEF Unrecorded, Mishaps
    <3>3. Counts'
      BY <2>5, <3>2, <1>0, <1>f DEF HookDies, Counts
    <3>4. fwd' \in Forwarders
      <4>1. fwd.strays + 1 \in Nat
        BY <1>0 DEF Forwarders
      <4>2. CASE fwd.fresh
        BY <4>1, <4>2, <2>5, <1>0 DEF HookDies, Forwarders
      <4>3. CASE ~fwd.fresh
        BY <4>3, <2>5, <1>0 DEF HookDies
      <4> QED
        BY <4>2, <4>3
    <3>5. Kept' /\ Owned' /\ ctl' \in Controllers
      BY <2>5, <1>0, TypeKept DEF HookDies, Kept
    <3> QED
      BY <3>1, <3>3, <3>4, <3>5, TypePartsNext
  <2> QED
    BY <1>4, <2>1, <2>2, <2>3, <2>4, <2>5 DEF Environment
<1>5. CASE UNCHANGED vars
  <2>1. hook' \in Hooks
    BY <1>0, <1>5 DEF vars
  <2> QED
    BY <2>1, <1>5, <1>h DEF vars, target, counted
<1> QED
  BY <1>1, <1>2, <1>3, <1>4, <1>5 DEF Next

-------------------------------------------------------------------------------
(***************************************************************************)
(* One controller and one forwarder.                                       *)
(***************************************************************************)

\* The steps of the hook that have to do with neither of them.
Collecting ==
  \/ Skipped \/ Reset \/ Unavailable \/ Spawn \/ FoundAlive \/ FoundDead \/ RetryPrism
  \/ Started \/ Capabilities \/ WriteState \/ StopPlugin \/ StopDone \/ Copy \/ Unlink
  \/ NextFile

\* They leave both alone, and the hook where nothing of either is under way.
LEMMA CollectingElsewhere ==
  ASSUME TypeOK, Collecting
  PROVE  /\ UNCHANGED <<ctl, fwd>> /\ mishaps \subseteq mishaps'
         /\ hook.pc \notin {"status", "launch", "await", "record"}
         /\ hook'.pc \notin {"status", "launch", "await", "record"}
<1> USE DEF Goto, Returns, Raises, At, target, counted
<1>0. hook \in Hooks
  BY DEF TypeOK, Hooks
<1>1. CASE Skipped \/ Reset
  BY <1>1, <1>0, IdleHook DEF Skipped, Reset, Hooks
<1>2. CASE Unavailable \/ Spawn
  BY <1>2, <1>0 DEF Unavailable, Starting, Spawn, Hooks
<1>3. CASE FoundAlive \/ FoundDead
  BY <1>3, <1>0 DEF FoundAlive, FoundDead, Abandon, Hooks
<1>4. CASE RetryPrism
  <2>1. UNCHANGED <<ctl, fwd>> /\ mishaps \subseteq mishaps' /\ hook.pc = "alive"
    BY <1>4 DEF RetryPrism, Stopped
  <2>2. hook'.pc \in {"start", "stop"}
    BY <1>4, <1>0 DEF RetryPrism, Abandon, Hooks
  <2> QED
    BY <2>1, <2>2
<1>5. CASE Started \/ WriteState
  BY <1>5, <1>0 DEF Started, WriteState, Abandon, Hooks
<1>6. CASE Capabilities
  BY <1>6, <1>0, IdleHook DEF Capabilities, Hooks
<1>7. CASE StopPlugin
  <2>1. UNCHANGED <<ctl, fwd>> /\ mishaps \subseteq mishaps' /\ hook.pc = "stop"
    BY <1>7 DEF StopPlugin, Stopped
  <2>2. hook'.pc = "stop"
    BY <1>7, <1>0 DEF StopPlugin, Hooks
  <2> QED
    BY <2>1, <2>2
<1>8. CASE StopDone
  BY <1>8, <1>0, IdleHook DEF StopDone, Hooks
<1>9. CASE Copy \/ Unlink
  BY <1>9, <1>0, IdleHook DEF Copy, Unlink, Hooks
<1>10. CASE NextFile
  BY <1>10, <1>0, IdleHook DEF NextFile, Hooks
<1> QED
  BY <1>1, <1>2, <1>3, <1>4, <1>5, <1>6, <1>7, <1>8, <1>9, <1>10 DEF Collecting

\* So does the beginning of an event.
LEMMA EventElsewhere ==
  ASSUME NEW e, NEW p, Event(e, p), e \in Events
  PROVE  /\ UNCHANGED <<ctl, fwd>> /\ mishaps \subseteq mishaps'
         /\ hook.pc = "idle"
         /\ hook'.pc = FirstPc(e, p) /\ hook'.phase = p /\ hook'.todo = << >>
         /\ hook'.failed = FALSE /\ hook'.healthy = {}
         /\ hook'.pc \in {"status", "reset", "skip", "stopController", "stopForwarder"}
<1>1. hook' = [Idle EXCEPT !.event = e, !.phase = p, !.pc = FirstPc(e, p)]
  BY DEF Event
<1>2. FirstPc(e, p) \in {"status", "reset", "skip", "stopController", "stopForwarder"}
  BY DEF Events, FirstPc
<1> QED
  BY <1>1, <1>2, IdleHook DEF Event, At, Hooks

\* What a step that leaves the controller alone can break.
LEMMA ControllerAlone ==
  ASSUME TypeOK, Controlled, UNCHANGED ctl, mishaps \subseteq mishaps',
         hook'.pc # "launch", hook.pc = "await" => hook'.pc = "await"
  PROVE  Controlled'
BY DEF Controlled, Single, TypeOK, At

\* The controller that is launched, up or recorded is the only one.
LEMMA ControlledStep == TypeOK /\ Placed /\ Controlled /\ [Next]_vars => Controlled'
<1> SUFFICES ASSUME TypeOK, Placed, Controlled, [Next]_vars PROVE Controlled'
  OBVIOUS
<1> USE DEF Goto, Returns, Raises, At, target, counted
<1>0. hook \in Hooks /\ ctl.launching \in Nat /\ ctl.up \in Nat
  BY DEF TypeOK, Hooks
<1>1. CASE Collecting
  BY <1>1, CollectingElsewhere, ControllerAlone
<1>2. CASE \E e \in Events, p \in Phases : Event(e, p)
  BY <1>2, EventElsewhere, ControllerAlone
<1>3. CASE Status
  <2>1. UNCHANGED ctl /\ hook.pc = "status" /\ hook'.pc \in {"idle", "launch"}
        /\ mishaps \subseteq mishaps'
    BY <1>3, <1>0, IdleHook DEF Status, Hooks
  <2>2. Single' /\ hook'.pc = "launch" => ctl.status # "running"
    BY <1>3, <2>1, IdleHook DEF Status, Single
  <2>3. Single' => Single
    BY <2>1 DEF Single
  <2> QED
    BY <2>1, <2>2, <2>3 DEF Controlled
<1>4. CASE Launch
  <2>1. /\ ctl'.launching = ctl.launching + 1 /\ ctl'.up = ctl.up
        /\ ctl'.named = ctl.named /\ ctl'.status = ctl.status /\ hook'.pc = "await"
        /\ hook.pc = "launch" /\ mishaps' = mishaps
    BY <1>4, <1>0 DEF Launch, TypeOK, Hooks
  <2>2. Single => ctl.launching = 0 /\ ctl.up = 0 /\ ctl.status # "running"
    BY <2>1, <1>0 DEF Controlled
  <2>3. Single' = Single
    BY <2>1 DEF Single
  <2> QED
    BY <2>1, <2>2, <2>3, <1>0 DEF Controlled
<1>5. CASE Await
  <2>1. UNCHANGED ctl /\ hook'.pc = "idle" /\ mishaps \subseteq mishaps'
    BY <1>5, IdleHook DEF Await
  <2>2. Single' => Single
    BY <2>1 DEF Single
  <2>3. Single' => ctl.launching = 0
    BY <1>5, <1>0, <2>2 DEF Await, Controlled, Single
  <2> QED
    BY <2>1, <2>2, <2>3, <1>0 DEF Controlled
<1>6. CASE StartForwarder \/ RecordForwarder \/ StopForwarder
  <2>1. hook'.pc \in {"idle", "record", "stop"} /\ hook.pc # "await"
    BY <1>6, <1>0, IdleHook DEF StartForwarder, RecordForwarder, StopForwarder, Hooks
  <2> QED
    BY <2>1, <1>6, ControllerAlone DEF StartForwarder, RecordForwarder, StopForwarder
<1>7. CASE StopController
  <2>1. hook'.pc \in {"idle", "nextFile"} /\ hook.pc = "stopController" /\ mishaps' = mishaps
    BY <1>7, <1>0, IdleHook DEF StopController, Hooks
  <2>2. CASE UNCHANGED ctl
    BY <2>1, <2>2, ControllerAlone
  <2>3. CASE ctl.named /\ ctl' = [ctl EXCEPT !.up = @ - 1, !.named = FALSE, !.status = "stopped"]
    <3>1. /\ ctl'.launching = ctl.launching /\ ctl'.up = ctl.up - 1 /\ ctl'.named = FALSE
          /\ ctl'.status = "stopped"
      BY <2>3 DEF TypeOK
    <3>2. (Single' = Single) /\ (Single => ctl.up = 1 /\ ctl.launching = 0)
      BY <2>1, <2>3, <1>0 DEF Single, Controlled
    <3> QED
      BY <2>1, <2>3, <3>1, <3>2, <1>0 DEF Controlled
  <2> QED
    BY <1>7, <2>2, <2>3 DEF StopController
<1>8. CASE \E k \in Keys : CollectorEnds(k)
  BY <1>8 DEF CollectorEnds, Undisturbed, Controlled, Single
<1>9. CASE ControllerUp
  <2>1. /\ ctl'.launching = ctl.launching - 1 /\ ctl'.up = ctl.up + 1 /\ ctl'.named = TRUE
        /\ ctl'.status = "running" /\ mishaps' = mishaps /\ hook' = hook
    BY <1>9 DEF ControllerUp, Undisturbed
  <2>2. ctl.launching > 0
    BY <1>9 DEF ControllerUp
  <2>3. (Single' = Single)
        /\ (Single => ctl.launching = 1 /\ ctl.up = 0 /\ hook.pc = "await")
    BY <2>1, <2>2, <1>0 DEF Controlled, Single
  <2> QED
    BY <2>1, <2>2, <2>3, <1>0 DEF Controlled
<1>10. CASE ControllerEnds
  <2>1. hook' = hook /\ (Single' = Single)
    BY <1>10 DEF ControllerEnds, Undisturbed, Single
  <2>2. CASE ctl.launching > 0 /\ ctl' = [ctl EXCEPT !.launching = @ - 1]
    <3>1. /\ ctl'.launching = ctl.launching - 1 /\ ctl'.up = ctl.up /\ ctl'.named = ctl.named
          /\ ctl'.status = ctl.status
      BY <2>2 DEF TypeOK
    <3> QED
      BY <2>1, <2>2, <3>1, <1>0 DEF Controlled
  <2>3. ASSUME ctl.named, NEW status,
               ctl' = [ctl EXCEPT !.up = @ - 1, !.named = FALSE, !.status = status]
        PROVE  Controlled'
    <3>1. /\ ctl'.launching = ctl.launching /\ ctl'.up = ctl.up - 1 /\ ctl'.named = FALSE
      BY <2>3 DEF TypeOK
    <3>2. Single => ctl.up = 1 /\ ctl.launching = 0 /\ hook.pc # "launch"
      BY <2>3, <1>0 DEF Controlled
    <3>3. Single' => ctl'.launching = 0 /\ ctl'.up = 0 /\ hook'.pc # "launch"
      BY <2>1, <3>1, <3>2
    <3> QED
      BY <3>1, <3>3 DEF Controlled
  <2>4. ASSUME ctl.up > (IF ctl.named THEN 1 ELSE 0), NEW status,
               ctl' = [ctl EXCEPT !.up = @ - 1, !.status = status]
        PROVE  Controlled'
    <3>1. /\ ctl'.launching = ctl.launching /\ ctl'.up = ctl.up - 1 /\ ctl'.named = ctl.named
      BY <2>4 DEF TypeOK
    <3>2. ~Single
      BY <2>4, <1>0 DEF Controlled
    <3>3. ctl'.named => ctl'.up > 0
      BY <2>4, <3>1, <1>0
    <3> QED
      BY <2>1, <3>2, <3>3 DEF Controlled
  <2> QED
    BY <1>10, <2>2, <2>3, <2>4 DEF ControllerEnds
<1>11. CASE ForwarderEnds
  BY <1>11 DEF ForwarderEnds, Undisturbed, Controlled, Single
<1>12. CASE HookDies
  <2>1. UNCHANGED ctl /\ hook'.pc = "idle" /\ mishaps \subseteq mishaps'
    BY <1>12, IdleHook DEF HookDies
  <2>2. Single' => Single /\ hook.pc # "await"
    BY <1>12, <2>1 DEF HookDies, Unrecorded, Placed, Single
  <2> QED
    BY <2>1, <2>2, <1>0 DEF Controlled
<1>13. CASE UNCHANGED vars
  BY <1>13 DEF vars, Controlled, Single
<1>14. Idle.phase \in Phases
  BY IdleHook
<1> QED
  BY <1>1, <1>2, <1>3, <1>4, <1>5, <1>6, <1>7, <1>8, <1>9, <1>10, <1>11, <1>12, <1>13, <1>14
  DEF Next, Handle, Collecting, Environment, Events

\* A forwarder that is started is recorded by its hook, or the hook has died.
LEMMA ForwardedStep == TypeOK /\ Placed /\ Forwarded /\ [Next]_vars => Forwarded'
<1> SUFFICES ASSUME TypeOK, Placed, Forwarded, [Next]_vars PROVE Forwarded'
  OBVIOUS
<1> USE DEF Goto, Returns, Raises, At, target, counted
<1>0. hook \in Hooks /\ fwd \in [named : BOOLEAN, fresh : BOOLEAN, strays : Nat]
  BY DEF TypeOK, Hooks
<1>1. CASE Collecting
  BY <1>1, CollectingElsewhere DEF Forwarded
<1>2. CASE \E e \in Events, p \in Phases : Event(e, p)
  BY <1>2, EventElsewhere DEF Forwarded
<1>3. CASE Status \/ Launch \/ Await \/ StopController
  <2>1. /\ hook'.pc \notin {"record"} /\ hook.pc # "record"
        /\ UNCHANGED fwd /\ mishaps \subseteq mishaps'
    BY <1>3, <1>0, IdleHook DEF Status, Launch, Await, StopController, Hooks
  <2> QED
    BY <2>1 DEF Forwarded
<1>4. CASE StartForwarder
  <2>1. CASE fwd.named
    BY <1>4, <2>1, IdleHook DEF StartForwarder, Forwarded
  <2>2. CASE ~fwd.named
    <3>1. /\ hook'.pc = "record" /\ fwd'.fresh = TRUE /\ fwd'.named = FALSE
          /\ fwd'.strays = fwd.strays /\ mishaps' = mishaps
      BY <1>4, <2>2, <1>0 DEF StartForwarder, Hooks
    <3> QED
      BY <3>1 DEF Forwarded
  <2> QED
    BY <2>1, <2>2
<1>5. CASE RecordForwarder
  <2>1. /\ hook'.pc = "idle" /\ fwd'.fresh = FALSE
        /\ fwd'.strays = fwd.strays /\ mishaps' = mishaps
    BY <1>5, <1>0, IdleHook DEF RecordForwarder
  <2> QED
    BY <2>1 DEF Forwarded
<1>6. CASE StopForwarder
  <2>1. /\ hook'.pc \in {"idle", "stop"} /\ hook.pc = "stopForwarder" /\ fwd'.fresh = fwd.fresh
        /\ fwd'.strays = fwd.strays /\ mishaps' = mishaps
    BY <1>6, <1>0, IdleHook DEF StopForwarder, Hooks
  <2> QED
    BY <2>1 DEF Forwarded
<1>7. CASE (\E k \in Keys : CollectorEnds(k)) \/ ControllerUp \/ ControllerEnds
  BY <1>7 DEF CollectorEnds, ControllerUp, ControllerEnds, Undisturbed, Forwarded
<1>8. CASE ForwarderEnds
  <2>1. /\ hook' = hook /\ mishaps' = mishaps /\ fwd'.strays = fwd.strays
        /\ fwd'.fresh => fwd.fresh
        /\ fwd'.named => fwd.named
    BY <1>8, <1>0 DEF ForwarderEnds, Undisturbed
  <2> QED
    BY <2>1 DEF Forwarded
<1>9. CASE HookDies
  <2>1. hook'.pc = "idle" /\ fwd'.fresh = FALSE /\ mishaps' = mishaps \cup Unrecorded
    BY <1>9, <1>0, IdleHook DEF HookDies
  <2>2. CASE fwd.fresh
    <3>1. hook.pc = "record" /\ ~hook.failed
      BY <2>2 DEF Forwarded, Placed
    <3>2. "forwarder" \in Unrecorded
      BY <2>2, <3>1 DEF Unrecorded
    <3> QED
      BY <2>1, <3>2 DEF Forwarded
  <2>3. CASE ~fwd.fresh
    BY <1>9, <2>1, <2>3 DEF HookDies, Forwarded
  <2> QED
    BY <2>2, <2>3
<1>10. CASE UNCHANGED vars
  BY <1>10 DEF vars, Forwarded
<1>11. Idle.phase \in Phases
  BY IdleHook
<1> QED
  BY <1>1, <1>2, <1>3, <1>4, <1>5, <1>6, <1>7, <1>8, <1>9, <1>10, <1>11
  DEF Next, Handle, Collecting, Environment, Events

-------------------------------------------------------------------------------
(***************************************************************************)
(* The place of the hook in the start and in the stop.                     *)
(***************************************************************************)

\* A hook that has returned is nowhere in either.
LEMMA ReturnedPlaced == ASSUME hook' = Idle PROVE Placed'
BY IdleHook DEF Placed, At

\* Every plugin has one turn, and only healthy sessions are written down.
LEMMA PlacedStep == TypeOK /\ Placed /\ [Next]_vars => Placed'
<1> SUFFICES ASSUME TypeOK, Placed, [Next]_vars PROVE Placed'
  OBVIOUS
<1> USE DEF Goto, Returns, Raises, At, target, counted
<1>0. hook \in Hooks
  BY DEF TypeOK, Hooks
<1>1. CASE \E e \in Events, p \in Phases : Event(e, p)
  BY <1>1, EventElsewhere DEF Placed
<1>2. CASE Skipped \/ Status \/ Launch \/ Await \/ StopController
  BY <1>2, <1>0, ReturnedPlaced DEF Skipped, Status, Launch, Await, StopController, Placed, Hooks
<1>3. CASE Reset
  BY <1>3, <1>0, RequestedPlugins, ReturnedPlaced DEF Reset, Placed, Hooks
<1>4. CASE Unavailable
  <2>1. hook.todo \in Seq(Plugins) /\ hook.todo # << >> /\ IsInjective(hook.todo)
    BY <1>4, <1>0 DEF Unavailable, Starting, Placed, Hooks
  <2>2. IsInjective(Tail(hook.todo))
    BY <2>1, OneTurnEach
  <2>3. hook' = [hook EXCEPT !.todo = Tail(@)] /\ hook.pc = "start"
    BY <1>4 DEF Unavailable, Starting
  <2> QED
    BY <1>0, <2>2, <2>3 DEF Placed, Hooks
<1>5. CASE Spawn
  BY <1>5, <1>0 DEF Spawn, Starting, Placed, Hooks
<1>6. CASE FoundAlive \/ FoundDead \/ RetryPrism
  <2>1. hook.todo \in Seq(Plugins) /\ hook.todo # << >> /\ IsInjective(hook.todo)
    BY <1>6, <1>0 DEF FoundAlive, FoundDead, RetryPrism, Placed, Hooks
  <2>2. IsInjective(Tail(hook.todo))
    BY <2>1, OneTurnEach
  <2>3. CASE FoundAlive
    <3>1. /\ hook'.pc = "start" /\ hook'.todo = Tail(hook.todo) /\ hook'.failed = hook.failed
          /\ hook.pc = "alive"
      BY <2>3, <1>0 DEF FoundAlive, Hooks
    <3> QED
      BY <2>2, <3>1 DEF Placed
  <2>4. CASE Abandon
    BY <2>4, <1>0 DEF Abandon, Placed, Hooks
  <2>5. CASE hook' = [hook EXCEPT !.pc = "start", !.todo = Tail(@)] /\ hook.pc = "alive"
    BY <2>5, <2>2, <1>0 DEF Placed, Hooks
  <2>6. CASE hook' = [hook EXCEPT !.pc = "start", !.attempt = @ + 1] /\ hook.pc = "alive"
    BY <2>6, <2>1, <1>0 DEF Placed, Hooks
  <2> QED
    BY <1>6, <2>3, <2>4, <2>5, <2>6 DEF FoundDead, RetryPrism
<1>7. CASE Started
  <2>1. CASE Required \subseteq hook.healthy /\ Goto("capabilities")
    BY <1>7, <2>1, <1>0 DEF Started, Placed, Hooks
  <2>2. CASE Abandon
    BY <2>2, <1>0 DEF Abandon, Placed, Hooks
  <2> QED
    BY <1>7, <2>1, <2>2 DEF Started
<1>8. CASE Capabilities
  BY <1>8, <1>0, ReturnedPlaced DEF Capabilities, Placed, Hooks
<1>9. CASE WriteState
  <2>1. /\ hook.pc = "state" /\ hook'.pc = "forwarder" /\ hook'.failed = hook.failed
        /\ hook'.healthy = hook.healthy /\ hook'.phase = hook.phase
        /\ hook.phase \in files'
    BY <1>9, <1>0 DEF WriteState, Hooks
  <2> QED
    BY <2>1 DEF Placed
<1>10. CASE StartForwarder \/ RecordForwarder
  <2>1. CASE hook' = Idle
    BY <2>1, ReturnedPlaced
  <2>2. CASE StartForwarder /\ Goto("record")
    <3>1. /\ hook.pc = "forwarder" /\ hook'.pc = "record" /\ hook'.failed = hook.failed
          /\ hook'.healthy = hook.healthy /\ hook'.phase = hook.phase
          /\ files' = files
      BY <2>2, <1>0 DEF StartForwarder, Hooks
    <3> QED
      BY <3>1 DEF Placed
  <2> QED
    BY <1>10, <2>1, <2>2 DEF StartForwarder, RecordForwarder
<1>11. CASE StopForwarder
  BY <1>11, <1>0, ReturnedPlaced DEF StopForwarder, Placed, Hooks
<1>12. CASE StopPlugin
  BY <1>12, <1>0 DEF StopPlugin, Placed, Hooks
<1>13. CASE StopDone
  BY <1>13, <1>0, ReturnedPlaced DEF StopDone, Placed, Hooks
<1>14. CASE Copy \/ Unlink
  BY <1>14, <1>0, ReturnedPlaced DEF Copy, Unlink, Placed, Hooks
<1>15. CASE NextFile
  BY <1>15, <1>0, ReturnedPlaced DEF NextFile, Placed, Hooks
<1>16. CASE (\E k \in Keys : CollectorEnds(k)) \/ ControllerUp \/ ControllerEnds \/ ForwarderEnds
  <2>1. hook' = hook /\ files' = files
    BY <1>16 DEF CollectorEnds, ControllerUp, ControllerEnds, ForwarderEnds, Undisturbed
  <2> QED
    BY <2>1 DEF Placed
<1>17. CASE HookDies
  BY <1>17, ReturnedPlaced DEF HookDies
<1>18. CASE UNCHANGED vars
  BY <1>18 DEF vars, Placed
<1>19. Idle.phase \in Phases
  BY IdleHook
<1> QED
  BY <1>1, <1>2, <1>3, <1>4, <1>5, <1>6, <1>7, <1>8, <1>9, <1>10, <1>11, <1>12, <1>13, <1>14,
     <1>15, <1>16, <1>17, <1>18, <1>19
  DEF Next, Handle, Environment, Events

-------------------------------------------------------------------------------
(***************************************************************************)
(* Every collector can be found.                                           *)
(***************************************************************************)

\* The places of a hook whose session has collectors and no state file.
Starts == {"start", "alive", "capabilities", "state"}

\* A step between two places where nothing of the collectors is under way.
LEMMA TrackedQuiet ==
  ASSUME Tracked, UNCHANGED <<files, running, stray>>, mishaps \subseteq mishaps',
         hook.pc \notin Starts, ~hook.failed,
         hook'.pc \notin Starts \cup {"reset", "stop", "copy", "unlink"}, ~hook'.failed
  PROVE  Tracked'
<1> SUFFICES ASSUME Undamaged' PROVE Found' /\ ~Unsaved' /\ InTurn' = Plugins
  BY DEF Tracked, Busy
<1>1. Undamaged
  BY DEF Undamaged
<1>2. stray' = {} /\ \A k \in running' : k[1] \in files'
  BY <1>1 DEF Tracked, Found, InHand, Starts
<1> QED
  BY <1>2 DEF Found, Unsaved, InTurn, Starts, At

\* A hook that begins to stop the collectors of its phase, which has a state
\* file or was never written down.
LEMMA TrackedStopping ==
  ASSUME TypeOK, Tracked, UNCHANGED <<files, stray>>, running' \subseteq running,
         mishaps \subseteq mishaps', hook'.pc = "stop", hook'.todo = Reverse(Requested),
         \/ /\ hook.pc \notin Starts /\ ~hook.failed /\ ~hook'.failed
         \/ hook.pc \in Starts /\ hook'.phase = hook.phase /\ hook'.failed
  PROVE  Tracked'
<1> SUFFICES ASSUME Undamaged'
             PROVE  /\ Found' /\ (Unsaved => hook.phase \notin files)'
                    /\ InTurn' = Plugins
  BY DEF Tracked, Busy
<1>1. Undamaged
  BY DEF Undamaged
<1>2. stray = {} /\ \A k \in running : InHand(k[1]) \/ k[1] \in files
  BY <1>1 DEF Tracked, Found
<1>3. InTurn' = Plugins
  BY RequestedPlugins DEF InTurn, At
<1>4. Found'
  BY <1>2 DEF Found, InHand, Starts
<1>5. (Unsaved => hook.phase \notin files)'
  BY <1>1 DEF Unsaved, Tracked, Starts
<1> QED
  BY <1>3, <1>4, <1>5

\* A step within the start, or within the stop, of one session.
LEMMA TrackedWithin ==
  ASSUME TypeOK, Tracked, UNCHANGED <<files, stray>>, running' \subseteq running,
         mishaps \subseteq mishaps', hook'.phase = hook.phase, hook'.failed = hook.failed,
         (hook.pc \in Starts /\ hook'.pc \in Starts) \/ (hook.pc = "stop" /\ hook'.pc = "stop"),
         Undamaged' => InTurn \cap Busy' \subseteq InTurn'
  PROVE  Tracked'
<1> SUFFICES ASSUME Undamaged'
             PROVE  /\ Found' /\ (Unsaved => hook.phase \notin files)'
                    /\ Busy' \subseteq InTurn'
  BY DEF Tracked
<1>1. Undamaged
  BY DEF Undamaged
<1>2. Found'
  BY <1>1 DEF Tracked, Found, InHand, Starts
<1>3. (Unsaved => hook.phase \notin files)'
  BY <1>1 DEF Unsaved, Tracked, Starts
<1>4. Busy' \subseteq Busy
  BY DEF Busy
<1>5. Busy' \subseteq InTurn'
  BY <1>1, <1>4 DEF Tracked
<1> QED
  BY <1>2, <1>3, <1>5

\* Host.stop() of a plugin: no pid file names it, unless the call was lost.
LEMMA StoppedGone ==
  ASSUME NEW k, Stopped(k)
  PROVE  /\ running' \subseteq running /\ stray' = stray /\ mishaps \subseteq mishaps'
         /\ Undamaged' => k \notin running'
BY DEF Stopped, Undamaged, target, counted

\* Nothing of a phase runs when the collectors of its session are stopped.
LEMMA NoneLeft ==
  ASSUME TypeOK, Placed, Tracked, Undamaged, NEW k \in running,
         (hook.pc = "stop" /\ hook.todo = << >>) \/ hook.pc \in {"copy", "unlink"}
  PROVE  k[1] # hook.phase /\ k[1] \in files
<1>1. k \in Phases \X Plugins
  BY DEF TypeOK, Keys
<1>2. k[2] \notin InTurn
  BY DEF InTurn, At, Range
<1>3. k[1] # hook.phase
  BY <1>1, <1>2 DEF Tracked, Busy
<1>4. InHand(k[1]) \/ k[1] \in files
  BY DEF Tracked, Found
<1> QED
  BY <1>3, <1>4 DEF InHand

\* Nothing of a phase runs before its first plugin is started.
LEMMA NoneYet ==
  ASSUME TypeOK, Placed, Tracked, Undamaged, hook.pc = "reset", NEW k \in running
  PROVE  k[1] # hook.phase /\ k[1] \in files
<1>1. ~hook.failed
  BY DEF Placed, At
<1>2. hook.phase \notin files
  BY DEF Tracked, Unsaved
<1>3. InHand(k[1]) \/ k[1] \in files
  BY DEF Tracked, Found
<1> QED
  BY <1>1, <1>2, <1>3 DEF InHand

\* The steps of a start.
LEMMA TrackedStart ==
  ASSUME TypeOK, Placed, Tracked,
         \/ Reset \/ Unavailable \/ Spawn \/ FoundAlive \/ FoundDead \/ RetryPrism
         \/ Started \/ Capabilities \/ WriteState
  PROVE  Tracked'
<1> USE DEF Goto, Returns, Raises, At, target, counted
<1>0. hook \in Hooks
  BY DEF TypeOK, Hooks
<1>1. CASE Reset
  <2>1. CASE UNCHANGED target /\ hook' = Idle
    <3>1. hook.pc = "reset" /\ ~hook.failed
      BY <1>1 DEF Reset, Placed
    <3> QED
      BY <1>1, <2>1, <3>1, IdleHook, TrackedQuiet DEF Reset, Starts
  <2>2. CASE /\ stray' = stray \cup {k \in running : k[1] = hook.phase}
             /\ running' = {k \in running : k[1] # hook.phase}
             /\ hook' = [hook EXCEPT !.pc = "start", !.todo = Requested]
    <3> SUFFICES ASSUME Undamaged'
                 PROVE  /\ Found' /\ (hook.phase \notin files)'
                        /\ Busy' = {}
      BY DEF Tracked
    <3>1. hook.pc = "reset" /\ files' = files /\ mishaps' = mishaps
      BY <1>1 DEF Reset
    <3>2. hook'.phase = hook.phase
      BY <2>2, <1>0 DEF Hooks
    <3>3. Undamaged
      BY <3>1 DEF Undamaged
    <3>4. \A k \in running : k[1] # hook.phase /\ k[1] \in files
      BY <3>1, <3>3, NoneYet
    <3>5. stray' = {} /\ running' = running
      BY <2>2, <3>3, <3>4 DEF Tracked, Found
    <3>6. hook.phase \notin files
      BY <3>1, <3>3 DEF Tracked, Unsaved
    <3> QED
      BY <3>1, <3>2, <3>4, <3>5, <3>6 DEF Found, Busy
  <2> QED
    BY <1>1, <2>1, <2>2 DEF Reset
<1>2. CASE Unavailable \/ FoundAlive \/ (FoundDead /\ ~(Plugin \in Required))
  <2>1. /\ hook'.phase = hook.phase /\ hook'.failed = hook.failed /\ hook'.pc = "start"
        /\ hook.pc \in {"start", "alive"} /\ UNCHANGED <<files, running, stray, mishaps>>
        /\ hook'.todo = Tail(hook.todo)
    BY <1>2, <1>0 DEF Unavailable, Starting, FoundAlive, FoundDead, Hooks
  <2>2. hook.todo \in Seq(Plugins) /\ hook.todo # << >>
    BY <1>2, <1>0 DEF Unavailable, Starting, FoundAlive, FoundDead, Placed, Hooks
  <2>3. Range(hook.todo) = {Plugin} \cup Range(Tail(hook.todo))
    BY <2>2, HeadAndTail DEF Plugin
  <2>4. InTurn \cap Busy' \subseteq InTurn'
    BY <2>1, <2>3 DEF InTurn
  <2>5. hook.pc \in Starts /\ hook'.pc \in Starts
    BY <2>1 DEF Starts
  <2> QED
    BY <2>1, <2>4, <2>5, TrackedWithin
<1>3. CASE RetryPrism /\ hook.attempt # Attempts
  <2>1. /\ hook'.phase = hook.phase /\ hook'.failed = hook.failed /\ hook'.pc = "start"
        /\ hook.pc = "alive" /\ UNCHANGED files
        /\ hook'.todo = hook.todo
    BY <1>3, <1>0 DEF RetryPrism, Hooks
  <2>2. hook.todo \in Seq(Plugins) /\ hook.todo # << >>
    BY <2>1, <1>0 DEF Placed, Hooks
  <2>3. Range(hook.todo) = {Plugin} \cup Range(Tail(hook.todo))
    BY <2>2, HeadAndTail DEF Plugin
  <2>4. Plugin = "prism" /\ Stopped(<<hook.phase, "prism">>)
    BY <1>3 DEF RetryPrism
  <2>5. /\ running' \subseteq running /\ stray' = stray /\ mishaps \subseteq mishaps'
        /\ Undamaged' => <<hook.phase, "prism">> \notin running'
    BY <2>4, StoppedGone
  <2>6. InTurn \ {"prism"} \subseteq InTurn'
    BY <2>1, <2>3, <2>4 DEF InTurn
  <2>7. Undamaged' => "prism" \notin Busy'
    BY <2>1, <2>5 DEF Busy
  <2>8. Undamaged' => InTurn \cap Busy' \subseteq InTurn'
    BY <2>6, <2>7
  <2>9. hook.pc \in Starts /\ hook'.pc \in Starts
    BY <2>1 DEF Starts
  <2> QED
    BY <2>1, <2>5, <2>8, <2>9, TrackedWithin
<1>4. CASE Spawn
  <2> DEFINE c == <<hook.phase, Plugin>>
  <2>1. /\ hook'.phase = hook.phase /\ hook'.failed = hook.failed /\ hook'.pc = "alive"
        /\ hook'.todo = hook.todo /\ hook.pc = "start" /\ UNCHANGED <<files, mishaps>>
    BY <1>4, <1>0 DEF Spawn, Starting, Hooks
  <2>2. hook.todo \in Seq(Plugins) /\ hook.todo # << >> /\ IsInjective(hook.todo)
    BY <1>4, <1>0 DEF Spawn, Starting, Placed, Hooks
  <2>3. /\ Plugin \in Plugins /\ Plugin \notin Range(Tail(hook.todo))
        /\ Range(hook.todo) = {Plugin} \cup Range(Tail(hook.todo))
    BY <2>2, HeadAndTail, OneTurnEach DEF Plugin
  <2>4. running' = running \cup {c} /\ stray' = stray \cup ({c} \cap running)
    BY <1>4 DEF Spawn
  <2> SUFFICES ASSUME Undamaged'
               PROVE  /\ Found' /\ (hook.phase \notin files)'
                      /\ Busy' \subseteq InTurn'
    BY DEF Tracked
  <2>5. Undamaged
    BY <2>1 DEF Undamaged
  <2>6. c \notin running
    <3>1. Plugin \notin InTurn
      BY <2>1, <2>3 DEF InTurn
    <3> QED
      BY <3>1, <2>3, <2>5 DEF Tracked, Busy
  <2>7. \A k \in running' : InHand(k[1])' \/ k[1] \in files'
    <3>1. \A k \in running : InHand(k[1]) \/ k[1] \in files
      BY <2>5 DEF Tracked, Found
    <3>2. c[1] = hook.phase
      OBVIOUS
    <3> QED
      BY <2>1, <2>4, <3>1, <3>2 DEF InHand
  <2>8. stray' = {}
    BY <2>4, <2>5, <2>6 DEF Tracked, Found
  <2>9. hook'.phase \notin files'
    BY <2>1, <2>5 DEF Tracked, Unsaved
  <2>10. ASSUME NEW q \in Plugins, <<hook'.phase, q>> \in running'
         PROVE  q \notin Range(Tail(hook.todo))
    <3>1. CASE q = Plugin
      BY <3>1, <2>3
    <3>2. CASE q # Plugin
      <4>1. <<hook.phase, q>> \in running
        BY <3>2, <2>1, <2>4, <2>10
      <4>2. q \in InTurn
        BY <4>1, <2>5 DEF Tracked, Busy
      <4> QED
        BY <4>2, <2>1, <2>3 DEF InTurn
    <3> QED
      BY <3>1, <3>2
  <2>11. Busy' \subseteq InTurn'
    BY <2>1, <2>10 DEF InTurn, Busy
  <2> QED
    BY <2>7, <2>8, <2>9, <2>11 DEF Found
<1>5. CASE (FoundDead \/ RetryPrism \/ Started) /\ Abandon
  <2>1. /\ hook'.phase = hook.phase /\ hook'.failed /\ hook'.pc = "stop"
        /\ hook'.todo = Reverse(Requested) /\ hook.pc \in Starts
    BY <1>5, <1>0 DEF FoundDead, RetryPrism, Started, Abandon, Starts, Hooks
  <2>2. UNCHANGED <<files, stray>> /\ running' \subseteq running /\ mishaps \subseteq mishaps'
    BY <1>5, StoppedGone DEF FoundDead, RetryPrism, Started
  <2> QED
    BY <2>1, <2>2, TrackedStopping
<1>6. CASE Started /\ Goto("capabilities")
  <2>1. /\ hook'.phase = hook.phase /\ hook'.failed = hook.failed /\ hook'.pc = "capabilities"
        /\ hook.pc = "start" /\ UNCHANGED <<files, running, stray, mishaps>>
    BY <1>6, <1>0 DEF Started, Hooks
  <2>2. InTurn \cap Busy' \subseteq InTurn'
    BY <2>1 DEF InTurn
  <2>3. hook.pc \in Starts /\ hook'.pc \in Starts
    BY <2>1 DEF Starts
  <2> QED
    BY <2>1, <2>2, <2>3, TrackedWithin
<1>7. CASE Capabilities
  <2>1. CASE "unrecorded" \in mishaps'
    BY <2>1 DEF Tracked, Undamaged
  <2>2. CASE Goto("state") /\ UNCHANGED counted
    <3>1. /\ hook'.phase = hook.phase /\ hook'.failed = hook.failed /\ hook'.pc = "state"
          /\ hook.pc = "capabilities" /\ UNCHANGED <<files, running, stray, mishaps>>
      BY <1>7, <2>2, <1>0 DEF Capabilities, Hooks
    <3>2. InTurn \cap Busy' \subseteq InTurn'
      BY <3>1 DEF InTurn
    <3>3. hook.pc \in Starts /\ hook'.pc \in Starts
      BY <3>1 DEF Starts
    <3> QED
      BY <3>1, <3>2, <3>3, TrackedWithin
  <2> QED
    BY <1>7, <2>1, <2>2 DEF Capabilities
<1>8. CASE WriteState
  <2>1. /\ hook'.phase = hook.phase /\ hook'.failed = hook.failed /\ hook'.pc = "forwarder"
        /\ hook.pc = "state" /\ UNCHANGED <<running, stray, mishaps>>
        /\ files' = files \cup {hook.phase} /\ ~hook.failed
    BY <1>8, <1>0 DEF WriteState, Placed, Hooks
  <2>2. Undamaged' => Found'
    BY <2>1 DEF Undamaged, Tracked, Found, InHand
  <2>3. ~Unsaved' /\ InTurn' = Plugins
    BY <2>1 DEF Unsaved, InTurn
  <2> QED
    BY <2>2, <2>3 DEF Tracked, Busy
<1>9. /\ FoundDead => Abandon \/ ~(Plugin \in Required)
      /\ RetryPrism => Abandon \/ hook.attempt # Attempts
      /\ Started => Abandon \/ Goto("capabilities")
  BY DEF FoundDead, RetryPrism, Started
<1>10. CASE FoundDead
  BY <1>2, <1>5, <1>9, <1>10
<1>11. CASE RetryPrism
  BY <1>3, <1>5, <1>9, <1>11
<1>12. CASE Started
  BY <1>5, <1>6, <1>9, <1>12
<1> QED
  BY <1>1, <1>2, <1>4, <1>7, <1>8, <1>10, <1>11, <1>12

\* The steps of a stop, of one session or of every one.
LEMMA TrackedStop ==
  ASSUME TypeOK, Placed, Tracked,
         StopForwarder \/ StopPlugin \/ StopDone \/ Copy \/ Unlink \/ NextFile
  PROVE  Tracked'
<1> USE DEF Goto, Returns, Raises, At, target, counted
<1>0. hook \in Hooks
  BY DEF TypeOK, Hooks
<1>1. CASE (StopForwarder \/ NextFile) /\ hook' = Idle
  <2>1. hook.pc \in {"stopForwarder", "nextFile"} /\ UNCHANGED <<files, target, mishaps>>
    BY <1>1 DEF StopForwarder, NextFile
  <2>2. hook.pc \notin Starts /\ ~hook.failed
    BY <2>1 DEF Starts, Placed
  <2> QED
    BY <1>1, <2>1, <2>2, IdleHook, TrackedQuiet DEF Starts
<1>2. CASE (StopForwarder \/ NextFile) /\ hook' # Idle
  <2>1. /\ hook.pc \in {"stopForwarder", "nextFile"} /\ UNCHANGED <<files, target, mishaps>>
        /\ hook'.pc = "stop" /\ hook'.todo = Reverse(Requested) /\ hook'.failed = hook.failed
    BY <1>2, <1>0 DEF StopForwarder, NextFile, Hooks
  <2>2. hook.pc \notin Starts /\ ~hook.failed
    BY <2>1 DEF Starts, Placed
  <2> QED
    BY <2>1, <2>2, TrackedStopping
<1>3. CASE StopPlugin
  <2>1. /\ hook'.phase = hook.phase /\ hook'.failed = hook.failed /\ hook'.todo = Tail(hook.todo)
        /\ hook.pc = "stop" /\ hook'.pc = "stop" /\ UNCHANGED files
        /\ hook.todo \in Seq(Plugins) /\ hook.todo # << >> /\ Stopped(<<hook.phase, Plugin>>)
    BY <1>3, <1>0 DEF StopPlugin, Hooks
  <2>2. Range(hook.todo) = {Plugin} \cup Range(Tail(hook.todo))
    BY <2>1, HeadAndTail DEF Plugin
  <2>3. /\ running' \subseteq running /\ stray' = stray /\ mishaps \subseteq mishaps'
        /\ Undamaged' => <<hook.phase, Plugin>> \notin running'
    BY <2>1, StoppedGone
  <2>4. InTurn \ {Plugin} \subseteq InTurn'
    BY <2>1, <2>2 DEF InTurn
  <2>5. Undamaged' => Plugin \notin Busy'
    BY <2>1, <2>3 DEF Busy
  <2>6. Undamaged' => InTurn \cap Busy' \subseteq InTurn'
    BY <2>4, <2>5
  <2> QED
    BY <2>1, <2>3, <2>6, TrackedWithin
<1>4. CASE StopDone \/ Copy \/ Unlink
  <2>1. /\ (hook.pc = "stop" /\ hook.todo = << >>) \/ hook.pc \in {"copy", "unlink"}
        /\ UNCHANGED <<running, stray, mishaps>>
        /\ files' = IF hook.pc = "unlink" THEN files \ {hook.phase} ELSE files
        /\ \/ hook' = Idle
           \/ /\ hook'.pc \in {"copy", "unlink", "nextFile"} /\ hook'.phase = hook.phase
              /\ hook'.failed = FALSE
    <3>1. CASE StopDone
      BY <3>1, <1>0 DEF StopDone, Hooks
    <3>2. CASE Copy \/ Unlink
      BY <3>2, <1>0 DEF Copy, Unlink, Placed, Hooks
    <3> QED
      BY <1>4, <3>1, <3>2
  <2> SUFFICES ASSUME Undamaged'
               PROVE  Found' /\ ~Unsaved' /\ Busy' \subseteq InTurn'
    BY DEF Tracked
  <2>2. Undamaged
    BY <2>1 DEF Undamaged
  <2>3. \A k \in running : k[1] # hook.phase /\ k[1] \in files
    BY <2>1, <2>2, NoneLeft
  <2>4. Found'
    BY <2>1, <2>2, <2>3 DEF Tracked, Found
  <2>5. ~Unsaved'
    BY <2>1, IdleHook DEF Unsaved
  <2>6. CASE hook' = Idle
    <3>1. InTurn' = Plugins
      BY <2>6, IdleHook DEF InTurn
    <3> QED
      BY <2>4, <2>5, <3>1 DEF Busy
  <2>7. CASE hook'.phase = hook.phase
    <3>1. Busy' = {}
      BY <2>1, <2>3, <2>7 DEF Busy
    <3> QED
      BY <2>4, <2>5, <3>1
  <2> QED
    BY <2>1, <2>6, <2>7
<1> QED
  BY <1>1, <1>2, <1>3, <1>4

\* Every running collector is found, through every step without a mishap.
LEMMA TrackedStep == TypeOK /\ Placed /\ Tracked /\ [Next]_vars => Tracked'
<1> SUFFICES ASSUME TypeOK, Placed, Tracked, [Next]_vars PROVE Tracked'
  OBVIOUS
<1> USE DEF Goto, Returns, Raises, At, target, counted
<1>0. hook \in Hooks
  BY DEF TypeOK, Hooks
<1>1. CASE \E e \in Events, p \in Phases : Event(e, p)
  <2> PICK e \in Events, p \in Phases : Event(e, p)
    BY <1>1
  <2>1. /\ hook.pc = "idle" /\ ~hook.failed /\ hook'.phase = p /\ ~hook'.failed
        /\ hook'.pc = FirstPc(e, p)
        /\ hook'.pc \in {"status", "reset", "skip", "stopController", "stopForwarder"}
        /\ UNCHANGED <<files, running, stray>> /\ mishaps \subseteq mishaps'
    <3>1. /\ hook.pc = "idle" /\ hook'.phase = p /\ ~hook'.failed
          /\ hook'.pc = FirstPc(e, p) /\ mishaps \subseteq mishaps'
          /\ hook'.pc \in {"status", "reset", "skip", "stopController", "stopForwarder"}
      BY EventElsewhere
    <3>2. ~hook.failed
      BY <3>1 DEF Placed
    <3>3. UNCHANGED <<files, running, stray>>
      BY DEF Event
    <3> QED
      BY <3>1, <3>2, <3>3
  <2>2. hook.pc \notin Starts
    BY <2>1 DEF Starts
  <2>3. CASE hook'.pc # "reset"
    BY <2>1, <2>2, <2>3, TrackedQuiet DEF Starts
  <2>4. CASE hook'.pc = "reset"
    <3>1. e = "phase_before"
      BY <2>1, <2>4 DEF FirstPc, Events
    <3>2. Undamaged' => Undamaged /\ p \notin files
      BY <2>1, <3>1 DEF Event, Undamaged
    <3>3. Undamaged' => Found'
      BY <2>1, <2>2, <3>2 DEF Tracked, Found, InHand, Starts
    <3>4. InTurn' = Plugins
      BY <2>4 DEF InTurn
    <3> QED
      BY <2>1, <3>2, <3>3, <3>4 DEF Tracked, Busy
  <2> QED
    BY <2>3, <2>4
<1>2. CASE \/ Skipped \/ Status \/ Launch \/ Await \/ StartForwarder \/ RecordForwarder
           \/ StopController
  <2>1. /\ hook.pc \in {"skip", "status", "launch", "await", "forwarder", "record", "stopController"}
        /\ UNCHANGED <<files, running, stray>> /\ mishaps \subseteq mishaps'
    BY <1>2
    DEF Skipped, Status, Launch, Await, StartForwarder, RecordForwarder, StopController
  <2>2. ~hook.failed
    BY <2>1 DEF Placed
  <2>3. /\ hook'.pc \in {"idle", "launch", "await", "record", "nextFile"}
        /\ ~hook'.failed
    <3>1. CASE hook' = Idle
      BY <3>1, IdleHook
    <3>2. CASE hook' # Idle
      BY <1>2, <3>2, <2>2, <1>0
      DEF Skipped, Status, Launch, Await, StartForwarder, RecordForwarder, StopController, Hooks
    <3> QED
      BY <3>1, <3>2
  <2> QED
    BY <2>1, <2>2, <2>3, TrackedQuiet DEF Starts
<1>3. CASE \/ Reset \/ Unavailable \/ Spawn \/ FoundAlive \/ FoundDead \/ RetryPrism
           \/ Started \/ Capabilities \/ WriteState
  BY <1>3, TrackedStart
<1>4. CASE StopForwarder \/ StopPlugin \/ StopDone \/ Copy \/ Unlink \/ NextFile
  BY <1>4, TrackedStop
<1>5. CASE (\E k \in Keys : CollectorEnds(k)) \/ ControllerUp \/ ControllerEnds \/ ForwarderEnds
  <2>1. UNCHANGED <<hook, files, stray, mishaps>> /\ running' \subseteq running
    BY <1>5 DEF CollectorEnds, ControllerUp, ControllerEnds, ForwarderEnds, Undisturbed
  <2>2. Undamaged' = Undamaged /\ Unsaved' = Unsaved /\ InTurn' = InTurn
    BY <2>1 DEF Undamaged, Unsaved, InTurn
  <2>3. Busy' \subseteq Busy /\ (Found => Found')
    BY <2>1 DEF Busy, Found, InHand
  <2> QED
    BY <2>1, <2>2, <2>3 DEF Tracked
<1>6. CASE HookDies
  <2>1. /\ UNCHANGED <<files, running, stray>> /\ mishaps' = mishaps \cup Unrecorded
        /\ hook' = Idle
    BY <1>6 DEF HookDies
  <2>2. CASE hook.pc \in Starts \/ hook.failed
    <3>1. "unrecorded" \in Unrecorded
      BY <2>2 DEF Unrecorded, Starts, Placed
    <3> QED
      BY <2>1, <3>1 DEF Tracked, Undamaged
  <2>3. CASE hook.pc \notin Starts /\ ~hook.failed
    BY <2>1, <2>3, IdleHook, TrackedQuiet DEF Starts
  <2> QED
    BY <2>2, <2>3
<1>7. CASE UNCHANGED vars
  BY <1>7 DEF vars, Tracked, Undamaged, Found, InHand, Unsaved, Busy, InTurn
<1>8. Idle.phase \in Phases
  BY IdleHook
<1> QED
  BY <1>1, <1>2, <1>3, <1>4, <1>5, <1>6, <1>7, <1>8 DEF Next, Handle, Environment, Events

-------------------------------------------------------------------------------
(***************************************************************************)
(* The properties.                                                         *)
(***************************************************************************)

\* The parts of the inductive invariant together.
HookInv == TypeOK /\ Placed /\ Tracked /\ Controlled /\ Forwarded

\* It holds of every state of the hook.
LEMMA HookInvariant == Spec => []HookInv
<1>1. Init => HookInv
  <2> SUFFICES ASSUME Init PROVE HookInv
    OBVIOUS
  <2>1. hook.pc = "idle" /\ ~hook.failed
    BY IdleHook DEF Init
  <2>2. Placed /\ Controlled /\ Forwarded
    BY <2>1 DEF Init, Placed, Controlled, Forwarded, At
  <2>3. Tracked
    BY <2>1 DEF Init, Tracked, Found, Unsaved, Busy
  <2> QED
    BY <2>2, <2>3, TypeInit DEF HookInv
<1>2. HookInv /\ [Next]_vars => HookInv'
  BY TypeStep, PlacedStep, TrackedStep, ControlledStep, ForwardedStep DEF HookInv
<1> QED
  BY <1>1, <1>2, PTL DEF Spec

(***************************************************************************)
(* The variables keep their types: a controller or a forwarder is stopped  *)
(* only when there is one, and a start takes no more attempts than it has  *)
(* (integration.py 46-171, session.py 325-366).                            *)
(***************************************************************************)
THEOREM TypeCorrect == Spec => []TypeOK
<1>1. HookInv => TypeOK
  BY DEF HookInv
<1> QED
  BY <1>1, HookInvariant, PTL

(***************************************************************************)
(* Every running collector that did not outlive the signals of its own     *)
(* stop can be found by a later event: its pid file names it, and its      *)
(* session is in hand or on disk; unless a hook died in a start, a stop    *)
(* was lost or a phase was begun twice (hooks.py 158-229, session.py       *)
(* 220-241, 419-500, remote.py 78-102).                                    *)
(***************************************************************************)
THEOREM CollectorsAreFound == Spec => []NoOrphans
<1>1. HookInv => NoOrphans
  BY DEF HookInv, Tracked, Undamaged, NoOrphans
<1> QED
  BY <1>1, HookInvariant, PTL

(***************************************************************************)
(* One controller and one forwarder at a time, over repeated and failed    *)
(* events, unless a start was given up, or its hook died before it was     *)
(* recorded, or it was not told of the controller that runs                *)
(* (integration.py 46-101, kpi_integration.py 30-85).                      *)
(***************************************************************************)
THEOREM OneAtATime == Spec => []OneOfEach
<1>1. HookInv => OneOfEach
  <2> SUFFICES ASSUME HookInv PROVE OneOfEach
    OBVIOUS
  <2>1. mishaps \cap {"launch", "unasked"} = {} => ctl.launching + ctl.up <= 1
    BY DEF HookInv, Controlled, Single
  <2>2. "forwarder" \notin mishaps => fwd.strays = 0 /\ ~(fwd.named /\ fwd.fresh)
    BY DEF HookInv, Forwarded
  <2> QED
    BY <2>1, <2>2 DEF OneOfEach
<1> QED
  BY <1>1, HookInvariant, PTL

\* What a phase that becomes ready has.
LEMMA ReadyStep ==
  HookInv /\ [Next]_vars
    => [\A p \in ready' \ ready : Required \subseteq hook.healthy /\ p \in files]_vars
<1> SUFFICES ASSUME HookInv, Next, NEW p \in ready' \ ready
             PROVE  Required \subseteq hook.healthy /\ p \in files
  BY DEF vars
<1>1. ~(ready' \subseteq ready)
  OBVIOUS
<1>2. ~\E e \in Events, q \in Phases : Event(e, q)
  <2>1. ASSUME NEW e \in Events, NEW q \in Phases, Event(e, q) PROVE FALSE
    <3>1. ready' \subseteq ready
      BY <2>1 DEF Event, Events
    <3> QED
      BY <1>1, <3>1
  <2> QED
    BY <2>1
<1>3. Idle.phase \in Phases
  BY IdleHook
<1>4. ~Environment
  BY <1>1 DEF Environment, CollectorEnds, ControllerUp, ControllerEnds, ForwarderEnds,
              HookDies, Undisturbed
<1>5. Handle
  BY <1>2, <1>3, <1>4 DEF Next, Events
<1>6. StartForwarder \/ RecordForwarder
  BY <1>1, <1>5
  DEF Handle, Skipped, Status, Launch, Await, Reset, Unavailable, Spawn, FoundAlive, FoundDead,
      RetryPrism, Started, Capabilities, WriteState, StopForwarder, StopPlugin, StopDone, Copy,
      Unlink, StopController, NextFile
<1>7. p = hook.phase /\ hook.pc \in {"forwarder", "record"}
  BY <1>6 DEF StartForwarder, RecordForwarder, At
<1> QED
  BY <1>7 DEF HookInv, Placed

(***************************************************************************)
(* A phase becomes ready only with every required plugin found alive and   *)
(* its state on disk (session.py 301-325, 419-447).                        *)
(***************************************************************************)
THEOREM ReadyIsCollecting == Spec => ReadyMeansCollecting
BY HookInvariant, ReadyStep, PTL DEF Spec, ReadyMeansCollecting

===============================================================================
