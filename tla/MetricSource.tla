----------------------------- MODULE MetricSource -----------------------------
(***************************************************************************)
(* ProcMetricSource (controller/metrics.py): when a sample of the run and  *)
(* run-queue times of a process is valid.  Of the times only their order   *)
(* is kept: those of a thread grow, those of a thread of another process   *)
(* under a TID that was seen before may be ahead of the old ones or behind *)
(* them.  A TID is reused only with the PID, whose main thread has it.     *)
(***************************************************************************)
EXTENDS Integers, FiniteSets

CONSTANTS
  OwnTasks,     \* the TIDs of the target
  MainTask,     \* the one of its main thread, which is its PID
  ForeignTasks  \* the other TIDs of a process that took over the PID

ASSUME SourceAssumption == MainTask \in OwnTasks /\ OwnTasks \cap ForeignTasks = {}

\* The threads of the last sample that raised nothing; primed once there is one.
NewSource == [primed |-> FALSE, previous |-> {}]

(***************************************************************************)
(* What a sample can meet: the target is the recorded one, or its PID is   *)
(* another process: found by the check of its start time ("refused"), or   *)
(* not, when it was taken over after the check.  A file that cannot be     *)
(* read makes a sample raise as well.  behind: the TIDs with times that    *)
(* went back.                                                              *)
(***************************************************************************)
Readings(gone) ==
  {[status |-> "refused", tasks |-> {}, behind |-> {}]} \cup
  IF gone
  THEN {}
  ELSE [status : {"read"}, tasks : SUBSET OwnTasks, behind : {{}}] \cup
       [status : {"taken_over"}, tasks : {ForeignTasks \cup {MainTask}},
        behind : SUBSET {MainTask}]

\* The TIDs with times that can be subtracted.
Common(source, reading) == (reading.tasks \cap source.previous) \ reading.behind

\* Defect: times that went back are subtracted like any other.
MeasuresBackwards(source, reading) ==
  /\ reading.status # "refused"
  /\ source.primed
  /\ reading.tasks \cap source.previous # {}

\* A valid sample compares some TID with itself.
Measures(source, reading) ==
  /\ reading.status # "refused"
  /\ source.primed
  /\ Common(source, reading) # {}

\* A sample that raises keeps the counters of the one before.
AfterSample(source, reading) ==
  IF reading.status = "refused" THEN source
  ELSE [primed |-> TRUE, previous |-> reading.tasks]

===============================================================================
