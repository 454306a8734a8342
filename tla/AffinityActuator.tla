--------------------------- MODULE AffinityActuator ---------------------------
(***************************************************************************)
(* TasksetActuator (controller/actuator.py): it moves every task of the    *)
(* target service to one CPU mask and checks that it did, while the        *)
(* service keeps spawning and ending threads.                              *)
(*                                                                         *)
(* The kernel side is explicit: mask holds the affinity of every task, a   *)
(* new task inherits the mask of the task that spawned it, and a task may  *)
(* end at any moment, between any two steps of the actuator.  Task ids are *)
(* not reused while the controller runs (the kernel hands them out         *)
(* cyclically).                                                            *)
(***************************************************************************)
EXTENDS Naturals

CONSTANTS
  Tids,      \* task ids the service may ever use
  Masks,     \* CPU masks: the two the controller applies and the original ones
  Unborn,    \* mask of a task that has not been spawned yet
  Gone,      \* mask of a task that has ended
  Retries    \* TasksetActuator(retries=3)

ASSUME TidsAssumption == Tids \subseteq Nat
\* Every set of ids has a smallest member: the listings are sorted.
ASSUME SortedAssumption ==
  \A S \in SUBSET Tids : S # {} => \E t \in S : \A u \in S : t <= u
ASSUME MasksAssumption == Unborn \notin Masks /\ Gone \notin Masks /\ Unborn # Gone
ASSUME RetriesAssumption == Retries \in Nat \ {0}

VARIABLES
  mask,        \* kernel: affinity of each task, Unborn or Gone
  identity,    \* the PID still belongs to the process of start_times
  original,    \* original_affinity, read once by __init__
  pc,          \* where the actuator is
  target,      \* the mask being applied
  attempt,     \* the loop variable of apply
  todo,        \* tasks the current loop has still to visit
  mismatches,  \* tasks found with another mask
  vanished     \* a listed task was gone when its status was read

kernel == <<mask, identity>>
vars == <<mask, identity, original, pc, target, attempt, todo, mismatches, vanished>>

Live == {t \in Tids : mask[t] \in Masks}

Calls == {"idle", "applied", "failed"}          \* a call may start
Final == {"restored", "lost"}                   \* the controller has exited
Busy  == {"set", "verify", "setAll", "verifyAll", "setEach"}

(***************************************************************************)
(* restore() looks at the originals it recorded: one common mask is put    *)
(* back with one command per process and verified, several are put back    *)
(* task by task and not verified.                                          *)
(***************************************************************************)
OriginalMasks == {original[t] : t \in DOMAIN original}
Uniform == \E m \in Masks : OriginalMasks = {m}

\* The first entry of original_affinity, which was filled in sorted order.
Fallback ==
  original[CHOOSE t \in DOMAIN original : \A u \in DOMAIN original : t <= u]

\* Defect: the fallback for every task.
RestoreMaskFallback(t) == Fallback

\* original_affinity.get(tid, fallback); with no originals the task is skipped.
RestoreMask(t) == IF t \in DOMAIN original THEN original[t] ELSE Fallback

-------------------------------------------------------------------------------
Init ==
  /\ mask \in [Tids -> Masks \cup {Unborn}]
  /\ identity = TRUE
  /\ original = [t \in Live |-> mask[t]]
  /\ pc = "idle"
  /\ target \in Masks
  /\ attempt = 0
  /\ todo = {}
  /\ mismatches = {}
  /\ vanished = FALSE

(***************************************************************************)
(* The service.  A task spawned while taskset walks the task directory may *)
(* or may not be seen by that walk.                                        *)
(***************************************************************************)
Spawn(parent, child) ==
  /\ parent \in Live
  /\ mask[child] = Unborn
  /\ mask' = [mask EXCEPT ![child] = mask[parent]]
  /\ \/ UNCHANGED todo
     \/ pc \in {"set", "setAll"} /\ todo' = todo \cup {child}
  /\ UNCHANGED <<identity, original, pc, target, attempt, mismatches, vanished>>

Exit(t) ==
  /\ t \in Live
  /\ mask' = [mask EXCEPT ![t] = Gone]
  /\ UNCHANGED <<identity, original, pc, target, attempt, todo, mismatches, vanished>>

\* The whole process ends; its PID then names no process or another one.
Die ==
  /\ identity
  /\ identity' = FALSE
  /\ mask' = [t \in Tids |-> IF mask[t] \in Masks THEN Gone ELSE mask[t]]
  /\ UNCHANGED <<original, pc, target, attempt, todo, mismatches, vanished>>

-------------------------------------------------------------------------------
(***************************************************************************)
(* apply(cpus): _validate_pids, then up to Retries rounds of taskset on    *)
(* every task followed by a fresh listing whose every mask is compared.    *)
(***************************************************************************)
Apply(cpus) ==
  /\ pc \in Calls
  /\ target' = cpus
  /\ IF identity
     THEN /\ pc' = "set" /\ attempt' = 1 /\ todo' = Live
     ELSE /\ pc' = "failed" /\ UNCHANGED <<attempt, todo>>
  /\ mismatches' = {}
  /\ vanished' = FALSE
  /\ UNCHANGED <<kernel, original>>

\* taskset -apc changes the next task; one that ended is passed over.
SetTask(t) ==
  /\ pc \in {"set", "setAll"}
  /\ t \in todo
  /\ mask' = IF t \in Live THEN [mask EXCEPT ![t] = target] ELSE mask
  /\ todo' = todo \ {t}
  /\ UNCHANGED <<identity, original, pc, target, attempt, mismatches, vanished>>

\* taskset returns non-zero: not permitted, or the task ended under it.
TasksetFails ==
  /\ pc \in {"set", "setAll"}
  /\ pc' = IF pc = "set" THEN "failed" ELSE "lost"
  /\ todo' = {}
  /\ UNCHANGED <<kernel, original, target, attempt, mismatches, vanished>>

\* The directory is listed again for the verification.
ListForVerify ==
  /\ pc \in {"set", "setAll"}
  /\ todo = {}
  /\ pc' = IF pc = "set" THEN "verify" ELSE "verifyAll"
  /\ todo' = Live
  /\ mismatches' = {}
  /\ vanished' = FALSE
  /\ UNCHANGED <<kernel, original, target, attempt>>

\* _status_affinity of one listed task; an OSError is skipped with continue.
CheckTask(t) ==
  /\ pc \in {"verify", "verifyAll"}
  /\ t \in todo
  /\ todo' = todo \ {t}
  /\ vanished' = (vanished \/ t \notin Live)
  /\ mismatches' = IF t \in Live /\ mask[t] # target THEN mismatches \cup {t} ELSE mismatches
  /\ UNCHANGED <<kernel, original, pc, target, attempt>>

\* The status of a listed task has no mask to read: the call fails, at once.
NoMask(t) ==
  /\ pc \in {"verify", "verifyAll"}
  /\ t \in todo
  /\ pc' = IF pc = "verify" THEN "failed" ELSE "lost"
  /\ todo' = {}
  /\ UNCHANGED <<kernel, original, target, attempt, mismatches, vanished>>

\* Defect: the last attempt is not compared.
VerifiedAtLast ==
  /\ pc \in {"verify", "verifyAll"}
  /\ todo = {}
  /\ mismatches = {} \/ attempt = Retries
  /\ pc' = IF pc = "verify" THEN "applied" ELSE "restored"
  /\ UNCHANGED <<kernel, original, target, attempt, todo, mismatches, vanished>>

Verified ==
  /\ pc \in {"verify", "verifyAll"}
  /\ todo = {}
  /\ mismatches = {}
  /\ pc' = IF pc = "verify" THEN "applied" ELSE "restored"
  /\ UNCHANGED <<kernel, original, target, attempt, todo, mismatches, vanished>>

\* Defect: one attempt too many.
MismatchedOnceMore ==
  /\ pc \in {"verify", "verifyAll"}
  /\ todo = {}
  /\ mismatches # {}
  /\ IF pc = "verify" /\ attempt <= Retries
     THEN /\ pc' = "set" /\ attempt' = attempt + 1 /\ todo' = Live
     ELSE /\ pc' = (IF pc = "verify" THEN "failed" ELSE "lost")
          /\ UNCHANGED <<attempt, todo>>
  /\ UNCHANGED <<kernel, original, target, mismatches, vanished>>

\* Defect: a retry only verifies again, and is not counted.
MismatchedVerifiesAgain ==
  /\ pc \in {"verify", "verifyAll"}
  /\ todo = {}
  /\ mismatches # {}
  /\ pc' = pc
  /\ todo' = Live
  /\ mismatches' = {}
  /\ UNCHANGED <<kernel, original, target, attempt, vanished>>

\* Only apply retries; the last attempt raises.
Mismatched ==
  /\ pc \in {"verify", "verifyAll"}
  /\ todo = {}
  /\ mismatches # {}
  /\ IF pc = "verify" /\ attempt < Retries
     THEN /\ pc' = "set" /\ attempt' = attempt + 1 /\ todo' = Live
     ELSE /\ pc' = (IF pc = "verify" THEN "failed" ELSE "lost")
          /\ UNCHANGED <<attempt, todo>>
  /\ UNCHANGED <<kernel, original, target, mismatches, vanished>>

-------------------------------------------------------------------------------
(***************************************************************************)
(* restore(): same identity check; the listing the task-by-task loop walks *)
(* is taken once, before the loop.                                         *)
(***************************************************************************)
Restore ==
  /\ pc \in Calls
  /\ mismatches' = {}
  /\ vanished' = FALSE
  /\ IF ~identity
     THEN /\ pc' = "lost" /\ UNCHANGED <<target, todo>>
     ELSE /\ todo' = Live
          /\ IF Uniform
             THEN /\ pc' = "setAll" /\ target' \in OriginalMasks
             ELSE /\ pc' = "setEach" /\ UNCHANGED target
  /\ UNCHANGED <<kernel, original, attempt>>

\* taskset -pc on one task; a failure on a task that has ended is tolerated.
RestoreTask(t) ==
  /\ pc = "setEach"
  /\ t \in todo
  /\ mask' = IF t \in Live /\ DOMAIN original # {}
             THEN [mask EXCEPT ![t] = RestoreMask(t)]
             ELSE mask
  /\ todo' = todo \ {t}
  /\ UNCHANGED <<identity, original, pc, target, attempt, mismatches, vanished>>

RestoreTaskFails(t) ==
  /\ pc = "setEach"
  /\ t \in todo \cap Live
  /\ pc' = "lost"
  /\ todo' = {}
  /\ UNCHANGED <<kernel, original, target, attempt, mismatches, vanished>>

RestoredEach ==
  /\ pc = "setEach"
  /\ todo = {}
  /\ pc' = "restored"
  /\ UNCHANGED <<kernel, original, target, attempt, todo, mismatches, vanished>>

Exited == pc \in Final /\ UNCHANGED vars

-------------------------------------------------------------------------------
Service ==
  \/ \E p, c \in Tids : Spawn(p, c)
  \/ \E t \in Tids : Exit(t)
  \/ Die

\* The steps of a call that has started.
Step ==
  \/ \E t \in Tids : SetTask(t) \/ CheckTask(t) \/ RestoreTask(t) \/ RestoreTaskFails(t)
  \/ \E t \in Tids : NoMask(t)
  \/ TasksetFails \/ ListForVerify \/ Verified \/ Mismatched \/ RestoredEach

Next ==
  \/ Service
  \/ Step
  \/ \E m \in Masks : Apply(m)
  \/ Restore
  \/ Exited

Spec == Init /\ [][Next]_vars

\* The controller thread runs the call it started; nothing blocks it.
FairSpec == Spec /\ WF_vars(Step)

-------------------------------------------------------------------------------
TypeOK ==
  /\ mask \in [Tids -> Masks \cup {Unborn, Gone}]
  /\ identity \in BOOLEAN
  /\ DOMAIN original \subseteq Tids
  /\ \A t \in DOMAIN original : original[t] \in Masks
  /\ pc \in Calls \cup Final \cup Busy
  /\ target \in Masks
  /\ attempt \in 0..Retries
  /\ todo \subseteq Tids
  /\ mismatches \subseteq Tids
  /\ vanished \in BOOLEAN

(***************************************************************************)
(* What apply promises when it returns "applied" (actuator.py 245-264): if *)
(* every listed task could be read, then every task alive now has the      *)
(* target mask, also the ones spawned after the listing.                   *)
(***************************************************************************)
AppliedIsComplete ==
  pc = "applied" /\ ~vanished => \A t \in Live : mask[t] = target

(***************************************************************************)
(* The promise without its condition, as the design note words it: taskset *)
(* is applied to every target task and the result verified.                *)
(***************************************************************************)
AppliedCoversEveryTask ==
  pc = "applied" => \A t \in Live : mask[t] = target

(***************************************************************************)
(* A restore that returns "restored" gave every task that the actuator     *)
(* recorded, and that still runs, the mask it had before the controller    *)
(* (uniform and task-by-task branches, actuator.py 267-310).               *)
(***************************************************************************)
RestoredKeepsOriginals ==
  pc = "restored" /\ ~vanished =>
    \A t \in Live \cap DOMAIN original : mask[t] = original[t]

\* A call always ends: retries are bounded and listings finite.
CallsReturn == pc \in Busy ~> pc \notin Busy

===============================================================================
