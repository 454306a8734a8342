------------------------ MODULE AffinityActuatorProofs ------------------------
(***************************************************************************)
(* Proofs about AffinityActuator, for any set of tasks, any masks and any  *)
(* number of retries.                                                      *)
(***************************************************************************)
EXTENDS AffinityActuator, TLAPS

(***************************************************************************)
(* While a verification is under way and has found nothing wrong, a task   *)
(* with a wrong mask implies that one with a wrong mask is still to be     *)
(* visited: a child inherits its mask, so it cannot be wrong unless its    *)
(* parent was wrong, and the parent was in the listing or descends from a  *)
(* task that was.                                                          *)
(***************************************************************************)
WrongIsAhead ==
  pc \in {"verify", "verifyAll"} /\ mismatches = {} /\ ~vanished =>
    ((\E t \in Live : mask[t] # target) => (\E u \in todo : mask[u] # target))

\* After the uniform branch the target is the only original mask.
UniformTarget ==
  pc \in {"setAll", "verifyAll"} =>
    \A t \in DOMAIN original : original[t] = target

\* The task-by-task branch has already given back what it no longer lists.
EachRestored ==
  pc = "setEach" =>
    \A t \in Live \cap DOMAIN original : t \in todo \/ mask[t] = original[t]

\* A task is recorded only if it existed, so it is never spawned later.
OriginalsExisted == \A t \in DOMAIN original : mask[t] # Unborn

\* The same holds of the tasks of the current listing.
ListedExisted == \A t \in todo : mask[t] # Unborn

-------------------------------------------------------------------------------
LEMMA FirstAttempts == 0 \in 0..Retries /\ 1 \in 0..Retries
  BY RetriesAssumption

LEMMA FallbackType ==
  ASSUME TypeOK, DOMAIN original # {}
  PROVE  Fallback \in Masks
<1>1. \E t \in DOMAIN original : \A u \in DOMAIN original : t <= u
  BY SortedAssumption DEF TypeOK
<1>2. QED
  BY <1>1 DEF TypeOK, Fallback

LEMMA RestoreMaskType ==
  ASSUME TypeOK, DOMAIN original # {}, NEW t \in Tids
  PROVE  RestoreMask(t) \in Masks
  BY FallbackType DEF TypeOK, RestoreMask

(***************************************************************************)
(* Type correctness.                                                       *)
(***************************************************************************)
THEOREM TypeCorrect == Spec => []TypeOK
<1>1. Init => TypeOK
  BY FirstAttempts, MasksAssumption DEF Init, TypeOK, Live, Calls
<1>2. TypeOK /\ [Next]_vars => TypeOK'
  <2> SUFFICES ASSUME TypeOK, [Next]_vars
               PROVE  TypeOK'
    OBVIOUS
  <2> USE MasksAssumption, RetriesAssumption DEF TypeOK, Live, Calls, Final, Busy, kernel
  <2>1. ASSUME NEW p \in Tids, NEW c \in Tids, Spawn(p, c)
        PROVE  TypeOK'
    BY <2>1 DEF Spawn
  <2>2. ASSUME NEW t \in Tids, Exit(t)
        PROVE  TypeOK'
    BY <2>2 DEF Exit
  <2>3. CASE Die
    BY <2>3 DEF Die
  <2>4. ASSUME NEW t \in Tids, SetTask(t)
        PROVE  TypeOK'
    BY <2>4 DEF SetTask
  <2>5. ASSUME NEW t \in Tids, CheckTask(t)
        PROVE  TypeOK'
    BY <2>5 DEF CheckTask
  <2>6. ASSUME NEW t \in Tids, RestoreTask(t)
        PROVE  TypeOK'
    BY <2>6, RestoreMaskType DEF RestoreTask
  <2>7. ASSUME NEW t \in Tids, RestoreTaskFails(t)
        PROVE  TypeOK'
    BY <2>7 DEF RestoreTaskFails
  <2>8. CASE TasksetFails \/ \E t \in Tids : NoMask(t)
    BY <2>8 DEF TasksetFails, NoMask
  <2>9. CASE ListForVerify
    BY <2>9 DEF ListForVerify
  <2>10. CASE Verified
    BY <2>10 DEF Verified
  <2>11. CASE Mismatched
    BY <2>11 DEF Mismatched
  <2>12. CASE RestoredEach
    BY <2>12 DEF RestoredEach
  <2>13. ASSUME NEW m \in Masks, Apply(m)
         PROVE  TypeOK'
    BY <2>13, FirstAttempts DEF Apply
  <2>14. CASE Restore
    BY <2>14 DEF Restore, OriginalMasks
  <2>15. CASE UNCHANGED vars
    BY <2>15 DEF vars
  <2>16. QED
    BY <2>1, <2>2, <2>3, <2>4, <2>5, <2>6, <2>7, <2>8, <2>9, <2>10, <2>11,
       <2>12, <2>13, <2>14, <2>15 DEF Next, Service, Step, Exited
<1>3. QED
  BY <1>1, <1>2, PTL DEF Spec

Safe ==
  /\ WrongIsAhead
  /\ UniformTarget
  /\ EachRestored
  /\ OriginalsExisted
  /\ ListedExisted
  /\ AppliedIsComplete
  /\ RestoredKeepsOriginals

LEMMA SafeStep == TypeOK /\ Safe /\ [Next]_vars => Safe'
<1> SUFFICES ASSUME TypeOK, Safe, [Next]_vars
             PROVE  Safe'
  OBVIOUS
<1> USE MasksAssumption DEF TypeOK, Safe, Live, Calls, Final, Busy, kernel,
      WrongIsAhead, UniformTarget, EachRestored, OriginalsExisted, ListedExisted,
      AppliedIsComplete, RestoredKeepsOriginals
<1>1. ASSUME NEW p \in Tids, NEW c \in Tids, Spawn(p, c)
      PROVE  Safe'
  <2>1. \A t \in Live' : t # c => t \in Live /\ mask'[t] = mask[t]
    BY <1>1 DEF Spawn
  <2>2. p \in Live /\ mask'[c] = mask[p] /\ c \notin DOMAIN original
    BY <1>1 DEF Spawn
  <2>3. WrongIsAhead'
    <3> SUFFICES ASSUME pc \in {"verify", "verifyAll"}, mismatches = {}, ~vanished,
                        NEW t \in Live', mask'[t] # target
                 PROVE  \E u \in todo : mask'[u] # target
      BY <1>1 DEF Spawn
    <3>1. \E v \in Live : mask[v] # target
      BY <2>1, <2>2
    <3>2. PICK u \in todo : mask[u] # target
      BY <3>1
    <3>3. mask'[u] # target
      BY <1>1, <3>2 DEF Spawn
    <3>4. QED
      BY <3>3
  <2>4. UniformTarget' /\ OriginalsExisted' /\ ListedExisted'
    BY <1>1, <2>2 DEF Spawn
  <2>5. EachRestored' /\ RestoredKeepsOriginals'
    BY <1>1, <2>1, <2>2 DEF Spawn
  <2>6. AppliedIsComplete'
    BY <1>1, <2>1, <2>2 DEF Spawn
  <2>7. QED
    BY <2>3, <2>4, <2>5, <2>6
<1>2. ASSUME NEW t \in Tids, Exit(t)
      PROVE  Safe'
  BY <1>2 DEF Exit
<1>3. CASE Die
  BY <1>3 DEF Die
<1>4. ASSUME NEW t \in Tids, SetTask(t)
      PROVE  Safe'
  BY <1>4 DEF SetTask
<1>5. ASSUME NEW t \in Tids, CheckTask(t)
      PROVE  Safe'
  <2>1. WrongIsAhead'
    BY <1>5 DEF CheckTask
  <2>2. UniformTarget' /\ EachRestored' /\ OriginalsExisted' /\ ListedExisted'
    BY <1>5 DEF CheckTask
  <2>3. AppliedIsComplete' /\ RestoredKeepsOriginals'
    BY <1>5 DEF CheckTask
  <2>4. QED
    BY <2>1, <2>2, <2>3
<1>6. ASSUME NEW t \in Tids, RestoreTask(t)
      PROVE  Safe'
  <2>1. CASE t \in Live /\ DOMAIN original # {}
    <3>1. mask' = [mask EXCEPT ![t] = RestoreMask(t)] /\ RestoreMask(t) \in Masks
      BY <1>6, <2>1, RestoreMaskType DEF RestoreTask
    <3>2. EachRestored'
      BY <1>6, <3>1 DEF RestoreTask, RestoreMask
    <3>3. OriginalsExisted' /\ ListedExisted'
      BY <1>6, <3>1 DEF RestoreTask
    <3>4. QED
      BY <1>6, <3>2, <3>3 DEF RestoreTask
  <2>2. CASE ~(t \in Live /\ DOMAIN original # {})
    BY <1>6, <2>2 DEF RestoreTask
  <2>3. QED
    BY <2>1, <2>2
<1>7. ASSUME NEW t \in Tids, RestoreTaskFails(t)
      PROVE  Safe'
  BY <1>7 DEF RestoreTaskFails
<1>8. CASE TasksetFails \/ \E t \in Tids : NoMask(t)
  BY <1>8 DEF TasksetFails, NoMask
<1>9. CASE ListForVerify
  BY <1>9 DEF ListForVerify
<1>10. CASE Verified
  BY <1>10 DEF Verified
<1>11. CASE Mismatched
  BY <1>11 DEF Mismatched
<1>12. CASE RestoredEach
  BY <1>12 DEF RestoredEach
<1>13. ASSUME NEW m \in Masks, Apply(m)
      PROVE  Safe'
  BY <1>13 DEF Apply
<1>14. CASE Restore
  <2>1. OriginalsExisted' /\ ListedExisted'
    BY <1>14 DEF Restore
  <2>2. pc' \in {"lost", "setAll", "setEach"}
    BY <1>14 DEF Restore
  <2>3. WrongIsAhead' /\ AppliedIsComplete' /\ RestoredKeepsOriginals'
    BY <2>2
  <2>4. UniformTarget'
    <3> SUFFICES ASSUME pc' = "setAll", NEW t \in DOMAIN original
                 PROVE  original[t] = target'
      BY <1>14, <2>2 DEF Restore
    <3>1. Uniform /\ target' \in OriginalMasks
      BY <1>14 DEF Restore
    <3>2. original[t] \in OriginalMasks
      BY DEF OriginalMasks
    <3> QED
      BY <3>1, <3>2 DEF Uniform
  <2>5. EachRestored'
    BY <1>14 DEF Restore
  <2> QED
    BY <2>1, <2>3, <2>4, <2>5
<1>15. CASE UNCHANGED vars
  BY <1>15 DEF vars
<1> QED
  BY <1>1, <1>2, <1>3, <1>4, <1>5, <1>6, <1>7, <1>8, <1>9, <1>10, <1>11,
     <1>12, <1>13, <1>14, <1>15 DEF Next, Service, Step, Exited

LEMMA SafeInit == Init => Safe
  BY MasksAssumption DEF Init, Safe, Live, WrongIsAhead, UniformTarget,
     EachRestored, OriginalsExisted, ListedExisted, AppliedIsComplete,
     RestoredKeepsOriginals

LEMMA SafeAlways == Spec => []Safe
  BY TypeCorrect, SafeInit, SafeStep, PTL DEF Spec

(***************************************************************************)
(* An apply that returns "applied" after reading every listed task covers  *)
(* every task alive, for any number of tasks and whatever they spawn or    *)
(* end meanwhile.                                                          *)
(***************************************************************************)
THEOREM AppliedCompleteness == Spec => []AppliedIsComplete
<1>1. Safe => AppliedIsComplete
  BY DEF Safe
<1>2. QED
  BY SafeAlways, <1>1, PTL

(***************************************************************************)
(* A restore that returns "restored" gave every recorded task that still   *)
(* runs its original mask back, in the uniform and in the task-by-task     *)
(* branch.                                                                 *)
(***************************************************************************)
THEOREM RestoreCorrectness == Spec => []RestoredKeepsOriginals
<1>1. Safe => RestoredKeepsOriginals
  BY DEF Safe
<1>2. QED
  BY SafeAlways, <1>1, PTL
===============================================================================
