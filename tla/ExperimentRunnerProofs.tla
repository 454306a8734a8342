------------------------ MODULE ExperimentRunnerProofs ------------------------
(***************************************************************************)
(* Proofs about the experiment runner, for every scenario, every number of *)
(* pairs and every bound on the faults, edits, kills and recoveries: the   *)
(* variables keep their types, a hard failure blocks the rows until        *)
(* somebody recovered, what counts was measured, the rows run with code    *)
(* that was reviewed, and the rows of a pair agree.                        *)
(***************************************************************************)
EXTENDS ExperimentRunner, SequenceTheorems, FiniteSetTheorems, TLAPS

-------------------------------------------------------------------------------
(***************************************************************************)
(* The inductive invariant of a lifecycle.                                 *)
(***************************************************************************)

\* With b the benchmark, r the relay and c the course: an event before the one
\* the benchmark is at was answered (the same event may be the one it is at).
Served(b, r, c) ==
  \A j \in 1 .. b.next - 1 :
    r[c[j]] = "ok" \/ (b.next <= Len(c) /\ c[j] = c[b.next])

\* The benchmark ends with code 0 only after its last event.
Driven(b, r, c) ==
  /\ b.next <= Len(c) + 1
  /\ b.pc = "wait" => b.next <= Len(c)
  /\ b.pc = "ended" /\ b.code = 0 => b.next > Len(c)
  /\ Served(b, r, c)

\* With m the monitor: it gives its verdict at the end, and not before the
\* benchmark ended.
Judging(m, b) ==
  /\ m.verdict => m.pc \in {"reap", "done"}
  /\ m.pc = "done" => b.pc = "ended"

\* With o the outputs: the monitor answers "ok" what the hook wrote as good.
Answering(m, r, o) ==
  /\ m.pc \in {"hook", "respond"} => r[m.event] = "requested"
  /\ m.pc = "respond" /\ m.rc = "ok" /\ m.event # Abort => o[m.event] = "good"
  /\ \A e \in Events : e # Abort /\ r[e] = "ok" => o[e] = "good"

\* With t the target: the last event gave the masks back.
Restoring(o, t) == o[Final] = "good" => t.paused

LifeInv ==
  /\ LifecycleTypeOK
  /\ Driven(bench, relay, Course)
  /\ Judging(mon, bench)
  /\ Answering(mon, relay, outputs)
  /\ Restoring(outputs, target)

-------------------------------------------------------------------------------
(***************************************************************************)
(* The invariant of a state of the experiment: S is the state, x the       *)
(* experiment, o its order of steps, e the era, v what was reviewed.       *)
(***************************************************************************)
Begun(S) == {i \in Rows : S.rows[i].status # "none"}
Complete(S) == {i \in Rows : S.rows[i].status = "complete"}
DoneIn(S, s) == S.steps[s] \in {"good", "poor", "bad"}
AllDone(S, o) == \A k \in 1 .. Len(o) : DoneIn(S, o[k])

\* The rows are completed one after the other, and the steps before them.
InOrder(S, o) ==
  /\ \A i, j \in Rows : i < j /\ j \in Complete(S) => i \in Complete(S)
  /\ \A i, j \in Rows : Pair(i) < Pair(j) /\ j \in Begun(S) => i \in Complete(S)
  /\ Begun(S) # {} => AllDone(S, o)

\* Two complete rows of a pair agree.
Agree(S) ==
  \A i, j \in Complete(S) :
    j \in Others(i) => S.rows[i].valid = S.rows[j].valid /\ S.rows[i].era = S.rows[j].era

\* The only complete row of a pair is of this era, its baseline counts, and a
\* recovery finds the other one running.
Halves(S, x, e) ==
  \A i \in Complete(S), j \in Rows \ Complete(S) :
    j \in Others(i) =>
      /\ S.rows[i].era = e
      /\ x.rows[i] = "baseline" => S.rows[i].valid
      /\ S.failure = "open" => S.rows[j].status = "running"

Paired(S, x, o, e) == x.kind = "paired" => InOrder(S, o) /\ Agree(S) /\ Halves(S, x, e)

\* A report that is complete has all rows.
Finished(S, x) ==
  x.kind \in {"paired", "formal"} /\ S.status = "complete" =>
    /\ Complete(S) = Rows
    /\ Counted(S.rows) = Rows \/ (x.kind = "paired" /\ Counted(S.rows) = {})

\* The code of the experiment, and the one that was approved.
Named(S, v) ==
  /\ DoneIn(S, "deploy") => S.fp # 0
  /\ S.approval # 0 => S.approval \in v

Sound(S, x, o, e, v) == S \in State /\ Paired(S, x, o, e) /\ Finished(S, x) /\ Named(S, v)

-------------------------------------------------------------------------------
(***************************************************************************)
(* Where the runner is, with state S in its memory: p its program counter, *)
(* a the step or the row it is at.                                         *)
(***************************************************************************)

\* The steps and rows before a are done.
Positioned(p, a, S, o) ==
  /\ p \in {"off", "check"} => a = 1
  /\ p = "check" => DoneIn(S, "deploy")
  /\ p = "steps" => a \in 1 .. Len(o) + 1
  /\ p = "step" => a \in 2 .. Len(o) /\ S.steps[o[a]] = "running"
  /\ p \in {"steps", "step"} => \A k \in 1 .. a - 1 : DoneIn(S, o[k])
  /\ p = "rows" => a \in 1 .. 2 * Pairs + 1
  /\ p = "row" => a \in Rows /\ S.rows[a].status = "running"
  /\ p \in {"rows", "row"} => AllDone(S, o) /\ \A i \in Rows : i < a => i \in Complete(S)

\* What the runner may rely on there.
Permitted(p, a, S, x, v) ==
  /\ p \in {"check", "step", "rows", "row"} \/ (p = "steps" /\ a > 1) => S.fp # 0
  /\ p \in {"rows", "row"} => x.kind \in {"paired", "formal"}
  /\ p \in {"rows", "row"} /\ x.kind = "paired" => S.fp \in v
  /\ p # "off" /\ x.kind \in {"paired", "formal"} => S.failure # "open"

At(p, a, S, x, o, v) ==
  p \in {"off", "steps", "check", "step", "rows", "row"} /\ Positioned(p, a, S, o)
  /\ Permitted(p, a, S, x, v)

Rest(S) == [S EXCEPT !.approval = 0, !.status = "open"]

\* A recovery is under way: nothing but an approval changed since it read.
Recovering ==
  /\ rec \subseteq State
  /\ rec # {} => pc = "off" /\ root.failure = "open" /\ exp.kind = "paired" /\ era < MaxRecoveries
  /\ \A S \in rec : Rest(S) = Rest(root) /\ Named(S, reviewed)

\* A hard failure is on record, or about to be, or was lost with the runner.
Alarmed == alarm => lost \/ root.failure = "open" \/ (Monitored /\ mon.verdict)

\* The monitor is there while a step or a row with a treatment runs.
Attached == (Monitored <=> life # NoLife) /\ (~Monitored => mon = NoMon)

RunnerInv ==
  /\ exp \in [kind : Kinds, soft : BOOLEAN, rows : Schedules]
  /\ code \in 1 .. MaxEdits + 1 /\ report \in 0 .. MaxEdits + 1 /\ era \in 0 .. MaxRecoveries
  /\ mem \in State
  /\ Sound(root, exp, Order, era, reviewed)
  /\ pc # "off" => Sound(mem, exp, Order, era, reviewed) /\ Rest(mem) = Rest(root)
  /\ At(pc, at, mem, exp, Order, reviewed)
  /\ Attached
  /\ Recovering
  /\ Alarmed

-------------------------------------------------------------------------------
(***************************************************************************)
(* Scripts, events and steps.                                              *)
(***************************************************************************)

\* A function on 1..n is a sequence of length n.
LEMMA FunctionIsSequence ==
  ASSUME NEW T, NEW n \in Nat, NEW f \in [1 .. n -> T]
  PROVE  f \in Seq(T) /\ Len(f) = n
<1>1. f \in Seq(T)
  BY SeqDef
<1>2. Len(f) \in Nat /\ 1 .. Len(f) = 1 .. n
  BY <1>1, LenProperties
<1>3. ASSUME NEW m \in Nat, 1 .. m = 1 .. n PROVE m = n
  <2>1. CASE m < n
    <3>1. n \in 1 .. n /\ n \notin 1 .. m
      BY <2>1
    <3> QED
      BY <1>3, <3>1
  <2>2. CASE m > n
    <3>1. m \in 1 .. m /\ m \notin 1 .. n
      BY <2>2
    <3> QED
      BY <1>3, <3>1
  <2> QED
    BY <2>1, <2>2
<1> QED
  BY <1>1, <1>2, <1>3

EventTypes ==
  {"server_ready", "phase_before", "phase_after"}
    \X (STRING \cup {"server", "WARMUP", "PLACEMENT"})

\* An event of a phase.
LEMMA PhaseEvent ==
  ASSUME NEW k \in {"phase_before", "phase_after"}, NEW x \in STRING
  PROVE  Event(k, x) \in EventTypes
BY DEF Event, EventTypes

\* The measured phases of a script.
Measuring ==
  [i \in 1 .. 2 * Len(Phases) |->
     IF i % 2 = 1 THEN Event("phase_before", Phases[(i + 1) \div 2])
                  ELSE Event("phase_after", Phases[i \div 2])]

\* Two events for each phase, from the first measurement to the last.
LEMMA MeasuringShape ==
  /\ Len(Phases) \in Nat \ {0}
  /\ Measuring \in Seq(EventTypes) /\ Len(Measuring) = 2 * Len(Phases)
  /\ Measuring[1] = Measured /\ Measuring[2 * Len(Phases)] = Final
<1> DEFINE n == Len(Phases)
<1>1. n \in Nat /\ n # 0
  BY PhasesAssumption, EmptySeq, LenProperties
<1>2. ASSUME NEW i \in 1 .. 2 * n
      PROVE  (i % 2 = 1 => (i + 1) \div 2 \in 1 .. n) /\ (i % 2 # 1 => i \div 2 \in 1 .. n)
  BY <1>1
<1>3. \A k \in 1 .. n : Phases[k] \in STRING
  BY PhasesAssumption, ElementOfSeq
<1>4. Measuring \in [1 .. 2 * n -> EventTypes]
  <2>1. ASSUME NEW i \in 1 .. 2 * n PROVE Measuring[i] \in EventTypes
    <3>1. CASE i % 2 = 1
      BY <1>2, <1>3, <3>1, PhaseEvent DEF Measuring
    <3>2. CASE i % 2 # 1
      BY <1>2, <1>3, <3>2, PhaseEvent DEF Measuring
    <3> QED
      BY <3>1, <3>2
  <2> QED
    BY <2>1 DEF Measuring
<1>5. 2 * n \in Nat /\ 1 \in 1 .. 2 * n /\ 2 * n \in 1 .. 2 * n
  BY <1>1
<1>6. Measuring \in Seq(EventTypes) /\ Len(Measuring) = 2 * n
  BY <1>4, <1>5, FunctionIsSequence
<1>7. Measuring[1] = Measured
  <2>1. 1 % 2 = 1 /\ (1 + 1) \div 2 = 1
    OBVIOUS
  <2> QED
    BY <1>5, <2>1 DEF Measuring, Measured
<1>8. Measuring[2 * n] = Final
  <2>1. (2 * n) % 2 # 1 /\ (2 * n) \div 2 = n
    BY <1>1
  <2> QED
    BY <1>5, <2>1 DEF Measuring, Final
<1> QED
  BY <1>1, <1>6, <1>7, <1>8

\* The events before the measurement.
LEMMA PreparationShape ==
  ASSUME NEW t, NEW c, NEW f
  PROVE  Preparation(t, c, f) \in Seq(EventTypes) /\ Len(Preparation(t, c, f)) \in 0 .. 2
<1>1. Placement \in EventTypes /\ Warmup \in EventTypes
  BY DEF Placement, Warmup, Event, EventTypes
<1>2. /\ << >> \in Seq(EventTypes) /\ Len(<< >>) = 0
      /\ <<Warmup>> \in Seq(EventTypes) /\ Len(<<Warmup>>) = 1
      /\ <<Placement, Warmup>> \in Seq(EventTypes) /\ Len(<<Placement, Warmup>>) = 2
  BY <1>1
<1> QED
  BY <1>2 DEF Preparation

\* A script measures before its last event, which is the last phase's end.
LEMMA ScriptShape ==
  ASSUME NEW t, NEW c, NEW f
  PROVE  LET s == Script(t, c, f)
         IN  /\ s \in Seq(EventTypes) /\ Len(s) \in 1 .. 2 * Len(Phases) + 3
             /\ s[Len(s)] = Final
             /\ \E j \in 1 .. Len(s) - 1 : s[j] = Measured
<1> DEFINE p == Preparation(t, c, f)
           h == <<Ready>> \o p
           s == h \o Measuring
<1>0. s = Script(t, c, f)
  BY DEF Script, Measuring
<1>1. <<Ready>> \in Seq(EventTypes) /\ Len(<<Ready>>) = 1
  BY DEF Ready, Event, EventTypes
<1>2. p \in Seq(EventTypes) /\ Len(p) \in 0 .. 2
  BY PreparationShape
<1> HIDE DEF p
<1>3. h \in Seq(EventTypes) /\ Len(h) = 1 + Len(p)
  <2> DEFINE r == <<Ready>>
  <2>1. r \in Seq(EventTypes) /\ Len(r) = 1
    BY <1>1
  <2> HIDE DEF r
  <2>2. r \o p \in Seq(EventTypes) /\ Len(r \o p) = Len(r) + Len(p)
    BY <2>1, <1>2, ConcatProperties
  <2> QED
    BY <2>1, <2>2 DEF r
<1> HIDE DEF h
<1>4. /\ s \in Seq(EventTypes) /\ Len(s) = Len(h) + Len(Measuring)
      /\ \A i \in 1 .. Len(h) + Len(Measuring) :
           s[i] = IF i <= Len(h) THEN h[i] ELSE Measuring[i - Len(h)]
  <2>1. h \in Seq(EventTypes) /\ Measuring \in Seq(EventTypes)
    BY <1>3, MeasuringShape
  <2> QED
    BY <2>1, ConcatProperties
<1> HIDE DEF s
<1>5. /\ Len(Phases) \in Nat \ {0} /\ Len(Measuring) = 2 * Len(Phases)
      /\ Measuring[1] = Measured /\ Measuring[2 * Len(Phases)] = Final
  BY MeasuringShape
<1>6. Len(s) = 1 + Len(p) + 2 * Len(Phases) /\ Len(s) \in 1 .. 2 * Len(Phases) + 3
  <2>1. Len(s) = 1 + Len(p) + 2 * Len(Phases)
    BY <1>2, <1>3, <1>4, <1>5
  <2>2. ASSUME NEW m \in 0 .. 2, NEW n \in Nat PROVE 1 + m + 2 * n \in 1 .. 2 * n + 3
    OBVIOUS
  <2> QED
    BY <1>2, <1>5, <2>1, <2>2
<1>7. s[Len(s)] = Final
  <2>1. /\ Len(s) \in 1 .. Len(h) + Len(Measuring) /\ ~(Len(s) <= Len(h))
        /\ Len(s) - Len(h) = 2 * Len(Phases)
    BY <1>2, <1>3, <1>5, <1>6
  <2> QED
    BY <1>4, <1>5, <2>1
<1>8. s[Len(h) + 1] = Measured /\ Len(h) + 1 \in 1 .. Len(s) - 1
  <2>1. /\ Len(h) + 1 \in 1 .. Len(h) + Len(Measuring) /\ ~(Len(h) + 1 <= Len(h))
        /\ (Len(h) + 1) - Len(h) = 1 /\ Len(h) + 1 \in 1 .. Len(s) - 1
    BY <1>2, <1>3, <1>5, <1>6
  <2> QED
    BY <1>4, <1>5, <2>1
<1> QED
  BY <1>0, <1>4, <1>6, <1>7, <1>8

\* The first and the last event of the measurement are events, and no aborts.
LEMMA EventFacts ==
  /\ Measured \in Events /\ Final \in Events /\ Abort \in Events
  /\ Measured # Abort /\ Final # Abort /\ Measured # Final
<1> DEFINE s == Script("active", FALSE, FALSE)
<1>1. /\ s \in Seq(EventTypes) /\ Len(s) \in 1 .. 2 * Len(Phases) + 3 /\ s[Len(s)] = Final
      /\ \E j \in 1 .. Len(s) - 1 : s[j] = Measured
  BY ScriptShape
<1>2. ToSet(s) \subseteq Events /\ Abort \in Events
  BY DEF Events
<1> HIDE DEF s
<1>3. Len(Phases) \in Nat
  BY MeasuringShape
<1>4. \A j \in 1 .. Len(s) : s[j] \in ToSet(s)
  BY <1>1, LenProperties DEF ToSet
<1>5. Len(s) \in 1 .. Len(s) /\ 1 .. Len(s) - 1 \subseteq 1 .. Len(s)
  BY <1>1, <1>3
<1>6. Measured # Abort /\ Final # Abort /\ Measured # Final
  BY DEF Measured, Final, Abort, Event
<1> QED
  BY <1>1, <1>2, <1>4, <1>5, <1>6

\* What two sequences have together.
LEMMA ToSetConcat ==
  ASSUME NEW T, NEW a \in Seq(T), NEW b \in Seq(T)
  PROVE  ToSet(a \o b) = ToSet(a) \cup ToSet(b)
<1> DEFINE c == a \o b
<1>1. /\ c \in Seq(T) /\ Len(c) = Len(a) + Len(b)
      /\ \A i \in 1 .. Len(a) + Len(b) : c[i] = IF i <= Len(a) THEN a[i] ELSE b[i - Len(a)]
  BY ConcatProperties
<1> HIDE DEF c
<1>2. /\ Len(a) \in Nat /\ DOMAIN a = 1 .. Len(a)
      /\ Len(b) \in Nat /\ DOMAIN b = 1 .. Len(b)
      /\ DOMAIN c = 1 .. Len(c)
  BY <1>1, LenProperties
<1>3. ToSet(c) \subseteq ToSet(a) \cup ToSet(b)
  <2> SUFFICES ASSUME NEW x \in ToSet(c) PROVE x \in ToSet(a) \cup ToSet(b)
    OBVIOUS
  <2>0. PICK i \in DOMAIN c : x = c[i]
    BY DEF ToSet
  <2>1. i \in 1 .. Len(a) + Len(b)
    BY <1>1, <1>2
  <2>2. CASE i <= Len(a)
    <3>1. x = a[i] /\ i \in DOMAIN a
      BY <1>1, <1>2, <2>0, <2>1, <2>2
    <3> QED
      BY <3>1 DEF ToSet
  <2>3. CASE ~(i <= Len(a))
    <3>1. i - Len(a) \in DOMAIN b
      BY <1>2, <2>1, <2>3
    <3>2. x = b[i - Len(a)]
      BY <1>1, <2>0, <2>1, <2>3
    <3> QED
      BY <3>1, <3>2 DEF ToSet
  <2> QED
    BY <2>2, <2>3
<1>4. ToSet(a) \subseteq ToSet(c)
  <2> SUFFICES ASSUME NEW x \in ToSet(a) PROVE x \in ToSet(c)
    OBVIOUS
  <2>1. PICK i \in 1 .. Len(a) : x = a[i]
    BY <1>2 DEF ToSet
  <2>2. i \in 1 .. Len(a) + Len(b) /\ i <= Len(a)
    BY <1>2
  <2> QED
    BY <1>1, <1>2, <2>1, <2>2 DEF ToSet
<1>5. ToSet(b) \subseteq ToSet(c)
  <2> SUFFICES ASSUME NEW x \in ToSet(b) PROVE x \in ToSet(c)
    OBVIOUS
  <2>1. PICK i \in 1 .. Len(b) : x = b[i]
    BY <1>2 DEF ToSet
  <2>2. /\ i + Len(a) \in 1 .. Len(a) + Len(b) /\ ~(i + Len(a) <= Len(a))
        /\ (i + Len(a)) - Len(a) = i
    BY <1>2
  <2>3. x = c[i + Len(a)]
    BY <1>1, <2>1, <2>2
  <2> QED
    BY <1>1, <1>2, <2>2, <2>3 DEF ToSet
<1> QED
  BY <1>3, <1>4, <1>5 DEF c

\* Every script is made of events, none of which is the abort.
LEMMA ScriptEvents ==
  ASSUME NEW t, NEW c, NEW f, NEW j \in 1 .. Len(Script(t, c, f))
  PROVE  Script(t, c, f)[j] \in Events /\ Script(t, c, f)[j] # Abort
<1>1. ASSUME NEW u, NEW d, NEW g
      PROVE  ToSet(Script(u, d, g)) =
               {Ready} \cup ToSet(Preparation(u, d, g)) \cup ToSet(Measuring)
  <2> DEFINE p == Preparation(u, d, g)
  <2>0. Ready \in EventTypes /\ ToSet(<<Ready>>) = {Ready}
    <3>1. Ready \in EventTypes
      BY DEF Ready, Event, EventTypes
    <3>2. ToSet(<<Ready>>) = {Ready}
      BY DEF ToSet
    <3> QED
      BY <3>1, <3>2
  <2>1. <<Ready>> \in Seq(EventTypes)
    BY <2>0
  <2>2. p \in Seq(EventTypes) /\ Measuring \in Seq(EventTypes)
    BY PreparationShape, MeasuringShape
  <2>3. Script(u, d, g) = (<<Ready>> \o p) \o Measuring
    BY DEF Script, Measuring
  <2> HIDE DEF p
  <2>4. \A a, b \in Seq(EventTypes) :
          a \o b \in Seq(EventTypes) /\ ToSet(a \o b) = ToSet(a) \cup ToSet(b)
    BY ToSetConcat, ConcatProperties
  <2> DEFINE r == <<Ready>>
  <2> HIDE DEF r
  <2>5. r \o p \in Seq(EventTypes) /\ ToSet(r \o p) = ToSet(r) \cup ToSet(p)
    BY <2>1, <2>2, <2>4 DEF r
  <2> DEFINE h == r \o p
  <2> HIDE DEF h
  <2>6. ToSet(h \o Measuring) = ToSet(h) \cup ToSet(Measuring)
    BY <2>2, <2>4, <2>5 DEF h
  <2> QED
    BY <2>0, <2>3, <2>5, <2>6 DEF p, h, r
<1>2. ToSet(Preparation(t, c, f)) \subseteq {Placement, Warmup}
  <2>1. ToSet(<< >>) = {} /\ ToSet(<<Warmup>>) = {Warmup}
    BY DEF ToSet
  <2>2. ToSet(<<Placement, Warmup>>) = {Placement, Warmup}
    BY DEF ToSet
  <2> QED
    BY <2>1, <2>2 DEF Preparation
<1>3. {Placement, Warmup} = ToSet(Preparation("active", FALSE, FALSE))
  <2>1. ToSet(<<Placement, Warmup>>) = {Placement, Warmup}
    BY DEF ToSet
  <2>2. Preparation("active", FALSE, FALSE) = <<Placement, Warmup>>
    BY DEF Preparation
  <2> QED
    BY <2>1, <2>2
<1>4. ToSet(Script(t, c, f)) \subseteq Events
  <2>1. ToSet(Script(t, c, f)) = {Ready} \cup ToSet(Preparation(t, c, f)) \cup ToSet(Measuring)
    BY <1>1
  <2>2. ToSet(Script("active", FALSE, FALSE)) =
          {Ready} \cup ToSet(Preparation("active", FALSE, FALSE)) \cup ToSet(Measuring)
    BY <1>1
  <2>3. ToSet(Script("active", FALSE, FALSE)) \subseteq Events
    BY DEF Events
  <2> QED
    BY <1>2, <1>3, <2>1, <2>2, <2>3
<1>5. Script(t, c, f)[j] \in ToSet(Script(t, c, f))
  BY ScriptShape, LenProperties DEF ToSet
<1>6. Script(t, c, f)[j] \in EventTypes
  BY ScriptShape, ElementOfSeq
<1>7. Abort \notin EventTypes
  BY DEF Abort, Event, EventTypes
<1> QED
  BY <1>4, <1>5, <1>6, <1>7

\* The steps of an experiment begin with the deployment.
LEMMA OrderShape ==
  ASSUME exp.kind \in Kinds
  PROVE  Order \in Seq(StepNames) /\ Len(Order) \in Nat \ {0} /\ Order[1] = "deploy"
<1> DEFINE d == <<"deploy">>
           r == CASE exp.kind = "paired" -> SmokeSteps
                  [] exp.kind = "formal" -> <<"plan_canary">>
                  [] exp.kind = "control" -> ControlSteps
                  [] exp.kind = "profile" -> ProfileSteps
                  [] exp.kind = "fallback" -> FallbackSteps
                  [] exp.kind = "runtime_only" -> RuntimeOnlySteps
                  [] exp.kind = "diagnostic" -> DiagnosticSteps
<1>1. d \in Seq(StepNames) /\ Len(d) = 1 /\ d[1] = "deploy"
  BY DEF StepNames
<1>2. r \in Seq(StepNames)
  <2>1. /\ SmokeSteps \in Seq(StepNames) /\ <<"plan_canary">> \in Seq(StepNames)
        /\ ControlSteps \in Seq(StepNames) /\ ProfileSteps \in Seq(StepNames)
    BY StepsAssumption DEF ControlSteps, ProfileSteps, StepNames
  <2>2. /\ FallbackSteps \in Seq(StepNames) /\ RuntimeOnlySteps \in Seq(StepNames)
        /\ DiagnosticSteps \in Seq(StepNames)
    BY DEF FallbackSteps, RuntimeOnlySteps, DiagnosticSteps, StepNames
  <2> QED
    BY <2>1, <2>2 DEF Kinds
<1>3. Order = d \o r
  BY DEF Order
<1> HIDE DEF d, r
<1>4. /\ d \o r \in Seq(StepNames) /\ Len(d \o r) = Len(d) + Len(r)
      /\ \A i \in 1 .. Len(d) + Len(r) : (d \o r)[i] = IF i <= Len(d) THEN d[i] ELSE r[i - Len(d)]
  BY <1>1, <1>2, ConcatProperties
<1>5. Len(r) \in Nat /\ 1 \in 1 .. Len(d) + Len(r)
  BY <1>1, <1>2, LenProperties
<1> QED
  BY <1>1, <1>3, <1>4, <1>5

-------------------------------------------------------------------------------
(***************************************************************************)
(* The steps of a lifecycle keep its invariant.                            *)
(***************************************************************************)
Benches ==
  [pc : {"off", "boot", "work", "wait", "abort", "stopping", "ended"},
   next : 1 .. 2 * Len(Phases) + 4, code : {0, 1}]
Monitors ==
  [pc : {"off", "poll", "hook", "respond", "status", "reap", "done", "raised"},
   event : Events, rc : {"ok", "failed"}, failures : 0 .. 2, verdict : BOOLEAN]
Targets ==
  [health : {"down", "healthy", "lossy", "mute", "sick"}, placed : BOOLEAN, paused : BOOLEAN]
Lives ==
  {NoLife} \cup [treatment : Treatments, cold : BOOLEAN, soft : BOOLEAN, formal : BOOLEAN]

\* The types, one by one.
LEMMA TypeParts ==
  LifecycleTypeOK <=>
    /\ life \in Lives /\ bench \in Benches /\ mon \in Monitors /\ target \in Targets
    /\ relay \in [Events -> {"none", "requested", "ok", "failed"}]
    /\ outputs \in [Events -> {"none", "good", "bad"}]
    /\ faults \in 0 .. MaxFaults
BY DEF LifecycleTypeOK, Lives, Benches, Monitors, Targets

\* The course of the benchmark.
LEMMA CourseShape ==
  /\ Len(Course) \in 1 .. 2 * Len(Phases) + 3 /\ Len(Phases) \in Nat
  /\ Course[Len(Course)] = Final
  /\ \E j \in 1 .. Len(Course) - 1 : Course[j] = Measured
  /\ \A j \in 1 .. Len(Course) : Course[j] \in Events /\ Course[j] # Abort
BY ScriptShape, ScriptEvents, MeasuringShape DEF Course

\* A fault is counted.
LEMMA FaultCounted ==
  ASSUME faults \in 0 .. MaxFaults, Fault \/ UNCHANGED faults
  PROVE  faults' \in 0 .. MaxFaults
BY FaultsAssumption DEF Fault

\* The target.
LEMMA TargetStep == ASSUME LifeInv, Target PROVE LifeInv'
<1>1. UNCHANGED <<life, bench, relay, outputs, mon>> /\ (Fault \/ UNCHANGED faults)
  BY DEF Target, Degrades, Improves
<1>2. Course' = Course
  BY <1>1 DEF Course
<1>3. target \in Targets /\ LifecycleTypeOK
  BY TypeParts DEF LifeInv
<1>4. target' \in Targets /\ target'.paused = target.paused
  <2>1. CASE Degrades
    <3>1. PICK h \in {"lossy", "mute", "sick"} :
            \/ target' = [target EXCEPT !.health = h]
            \/ target' = [target EXCEPT !.placed = FALSE]
      BY <2>1 DEF Degrades
    <3>2. CASE target' = [target EXCEPT !.health = h]
      BY <1>3, <3>2 DEF Targets
    <3>3. CASE target' = [target EXCEPT !.placed = FALSE]
      BY <1>3, <3>3 DEF Targets
    <3> QED
      BY <3>1, <3>2, <3>3
  <2>2. CASE Improves
    <3>1. CASE target' = [target EXCEPT !.health = "healthy"]
      BY <1>3, <3>1 DEF Targets
    <3>2. CASE target' = [target EXCEPT !.placed = TRUE]
      BY <1>3, <3>2 DEF Targets
    <3> QED
      BY <2>2, <3>1, <3>2 DEF Improves
  <2> QED
    BY <2>1, <2>2 DEF Target
<1>5. LifecycleTypeOK'
  <2>1. faults' \in 0 .. MaxFaults
    BY <1>1, <1>3, TypeParts, FaultCounted
  <2> QED
    BY <1>1, <1>3, <1>4, <2>1 DEF LifecycleTypeOK, Targets
<1>6. Restoring(outputs, target')
  BY <1>4 DEF LifeInv, Restoring
<1> QED
  BY <1>1, <1>2, <1>5, <1>6 DEF LifeInv

\* The benchmark asks for an event and does not move.
LEMMA RequestServed ==
  ASSUME LifecycleTypeOK, Driven(bench, relay, Course), Answering(mon, relay, outputs),
         NEW e \in Events, NEW b \in Benches, b.next = bench.next, b.pc # "ended",
         e = Abort \/ (bench.next <= Len(Course) /\ e = Course[bench.next]),
         b.pc = "wait" => bench.next <= Len(Course)
  PROVE  LET r == [relay EXCEPT ![e] = "requested"]
         IN  /\ r \in [Events -> {"none", "requested", "ok", "failed"}]
             /\ Driven(b, r, Course) /\ Answering(mon, r, outputs)
<1> DEFINE r == [relay EXCEPT ![e] = "requested"]
<1>1. /\ relay \in [Events -> {"none", "requested", "ok", "failed"}]
      /\ bench.next \in Nat
  BY TypeParts, CourseShape DEF Benches
<1>2. /\ r \in [Events -> {"none", "requested", "ok", "failed"}] /\ r[e] = "requested"
      /\ \A f \in Events : f # e => r[f] = relay[f]
  BY <1>1
<1> HIDE DEF r
<1>3. Served(b, r, Course)
  <2> SUFFICES ASSUME NEW j \in 1 .. bench.next - 1
               PROVE  \/ r[Course[j]] = "ok"
                      \/ bench.next <= Len(Course) /\ Course[j] = Course[bench.next]
    BY DEF Served
  <2>1. \/ relay[Course[j]] = "ok"
        \/ bench.next <= Len(Course) /\ Course[j] = Course[bench.next]
    BY DEF Driven, Served
  <2>2. j \in 1 .. Len(Course)
    BY <1>1, CourseShape DEF Driven
  <2>3. Course[j] \in Events /\ Course[j] # Abort
    BY <2>2, CourseShape
  <2> QED
    BY <1>2, <2>1, <2>2, <2>3
<1> QED
  BY <1>2, <1>3 DEF Driven, Answering, r

\* The benchmark.
LEMMA BenchmarkStep == ASSUME LifeInv, Benchmark PROVE LifeInv'
<1>0. /\ LifecycleTypeOK /\ Driven(bench, relay, Course) /\ Judging(mon, bench)
      /\ Answering(mon, relay, outputs) /\ Restoring(outputs, target)
      /\ bench \in Benches /\ target \in Targets /\ bench.next \in Nat
  <2>1. bench \in Benches /\ target \in Targets
    BY TypeParts DEF LifeInv
  <2>2. bench.next \in Nat
    BY <2>1, CourseShape DEF Benches
  <2> QED
    BY <2>1, <2>2 DEF LifeInv
<1>1. UNCHANGED <<life, outputs, mon>> /\ (Fault \/ UNCHANGED faults)
  BY DEF Benchmark, Boot, Call, Answered, Aborts, Ends
<1>2. Course' = Course
  BY <1>1 DEF Course
<1>3. faults' \in 0 .. MaxFaults
  BY <1>0, <1>1, TypeParts, FaultCounted
<1>4. SUFFICES
        /\ bench' \in Benches /\ target' \in Targets
        /\ relay' \in [Events -> {"none", "requested", "ok", "failed"}]
        /\ Driven(bench', relay', Course) /\ Answering(mon, relay', outputs)
        /\ target'.paused = target.paused
        /\ bench.pc # "ended"
  <2> DEFINE new == /\ bench' \in Benches /\ target' \in Targets
                    /\ relay' \in [Events -> {"none", "requested", "ok", "failed"}]
  <2>1. new => LifecycleTypeOK'
    BY <1>0, <1>1, <1>3 DEF LifecycleTypeOK, Benches, Targets
  <2>2. bench.pc # "ended" => Judging(mon, bench')
    BY <1>0 DEF Judging
  <2>3. target'.paused = target.paused => Restoring(outputs, target')
    BY <1>0 DEF Restoring
  <2> QED
    BY <1>1, <1>2, <2>1, <2>2, <2>3 DEF LifeInv
<1>5. ASSUME UNCHANGED relay
      PROVE  /\ relay' \in [Events -> {"none", "requested", "ok", "failed"}]
             /\ Answering(mon, relay', outputs)
  BY <1>0, <1>5, TypeParts
<1>6. CASE Boot
  <2>1. /\ bench.pc = "boot" /\ UNCHANGED relay
        /\ \/ bench' = [bench EXCEPT !.pc = "work"]
           \/ bench' = [bench EXCEPT !.pc = "ended", !.code = 1]
    BY <1>6 DEF Boot
  <2>2. bench' \in Benches /\ bench'.next = bench.next /\ bench'.pc # "wait"
        /\ (bench'.pc = "ended" => bench'.code = 1)
    BY <1>0, <2>1 DEF Benches
  <2>3. target' \in Targets /\ target'.paused = target.paused
    BY <1>0, <1>6 DEF Boot, Targets
  <2>4. Driven(bench', relay', Course)
    BY <1>0, <2>1, <2>2 DEF Driven, Served
  <2> QED
    BY <1>5, <2>1, <2>2, <2>3, <2>4
<1>7. CASE Call
  <2>1. /\ bench.pc = "work" /\ bench.next <= Len(Course)
        /\ bench' = [bench EXCEPT !.pc = "wait"]
        /\ relay' = [relay EXCEPT ![Course[bench.next]] = "requested"] /\ UNCHANGED target
    BY <1>7 DEF Call, Request, Current
  <2>2. bench' \in Benches /\ bench'.next = bench.next /\ bench'.pc = "wait"
    BY <1>0, <2>1 DEF Benches
  <2>3. Course[bench.next] \in Events
    BY <1>0, <2>1, CourseShape DEF Benches
  <2> QED
    BY <1>0, <2>1, <2>2, <2>3, RequestServed
<1>8. CASE Answered
  <2>1. /\ bench.pc = "wait" /\ relay[Course[bench.next]] = "ok"
        /\ bench' = [bench EXCEPT !.pc = "work", !.next = bench.next + 1]
        /\ UNCHANGED <<relay, target>>
    BY <1>8 DEF Answered, Current
  <2>2. bench.next <= Len(Course) /\ bench.next + 1 \in 1 .. 2 * Len(Phases) + 4
    <3>1. bench.next <= Len(Course)
      BY <1>0, <2>1 DEF Driven
    <3> QED
      BY <1>0, <3>1, CourseShape
  <2>3. bench' \in Benches /\ bench'.next = bench.next + 1 /\ bench'.pc = "work"
    BY <1>0, <2>1, <2>2 DEF Benches
  <2>4. Served(bench', relay, Course)
    <3> SUFFICES ASSUME NEW j \in 1 .. bench.next PROVE relay[Course[j]] = "ok"
      <4>1. bench'.next - 1 = bench.next
        BY <1>0, <2>3
      <4> QED
        BY <4>1 DEF Served
    <3>1. CASE j = bench.next
      BY <2>1, <3>1
    <3>2. CASE j # bench.next
      <4>1. j \in 1 .. bench.next - 1
        BY <1>0, <3>2
      <4> QED
        BY <1>0, <2>1, <4>1 DEF Driven, Served
    <3> QED
      BY <3>1, <3>2
  <2>5. bench'.next <= Len(Course) + 1
    BY <1>0, <2>2, <2>3, CourseShape
  <2>6. Driven(bench', relay', Course)
    BY <2>1, <2>3, <2>4, <2>5 DEF Driven
  <2> QED
    BY <1>0, <1>5, <2>1, <2>3, <2>6
<1>9. CASE Aborts
  <2>1. /\ bench.pc \in {"work", "wait"} /\ bench' = [bench EXCEPT !.pc = "abort"]
        /\ relay' = [relay EXCEPT ![Abort] = "requested"] /\ UNCHANGED target
    BY <1>9 DEF Aborts, Request
  <2>2. bench' \in Benches /\ bench'.next = bench.next /\ bench'.pc = "abort"
    BY <1>0, <2>1 DEF Benches
  <2> QED
    BY <1>0, <2>1, <2>2, EventFacts, RequestServed
<1>10. CASE Ends
  <2>1. /\ UNCHANGED relay /\ bench.pc \in {"abort", "stopping", "work"}
        /\ \/ bench' = [bench EXCEPT !.pc = "ended", !.code = 1]
           \/ bench.next > Len(Course) /\ bench' = [bench EXCEPT !.pc = "ended", !.code = 0]
        /\ target' = [target EXCEPT !.health = "down"]
    BY <1>10 DEF Ends
  <2>2. bench' \in Benches /\ bench'.next = bench.next /\ bench'.pc = "ended"
        /\ (bench'.code = 1 \/ bench.next > Len(Course))
    BY <1>0, <2>1 DEF Benches
  <2>3. target' \in Targets /\ target'.paused = target.paused
    BY <1>0, <2>1 DEF Targets
  <2>4. Driven(bench', relay', Course)
    BY <1>0, <2>1, <2>2 DEF Driven, Served
  <2> QED
    BY <1>5, <2>1, <2>2, <2>3, <2>4
<1> QED
  BY <1>6, <1>7, <1>8, <1>9, <1>10 DEF Benchmark

\* The hook answers the event it was called for.
LEMMA HookStep == ASSUME LifeInv, Hook PROVE LifeInv'
<1>0. /\ LifecycleTypeOK /\ Driven(bench, relay, Course) /\ Judging(mon, bench)
      /\ Answering(mon, relay, outputs) /\ Restoring(outputs, target)
      /\ mon \in Monitors /\ target \in Targets /\ mon.event \in Events
      /\ outputs \in [Events -> {"none", "good", "bad"}]
  <2>1. mon \in Monitors /\ target \in Targets /\ outputs \in [Events -> {"none", "good", "bad"}]
    BY TypeParts DEF LifeInv
  <2> QED
    BY <2>1 DEF LifeInv, Monitors
<1>1. /\ UNCHANGED <<life, bench, relay>> /\ (Fault \/ UNCHANGED faults) /\ mon.pc = "hook"
  BY DEF Hook, HookRaises, HookRefuses, HookAccepts, HookPauses, HookAborts, InHook
<1>2. Course' = Course /\ faults' \in 0 .. MaxFaults
  BY <1>0, <1>1, TypeParts, FaultCounted DEF Course
<1>3. PICK rc \in {"ok", "failed"}, value \in {"none", "good", "bad"} :
        /\ mon' = [mon EXCEPT !.pc = "respond", !.rc = rc]
        /\ outputs' = IF value = "none" THEN outputs ELSE [outputs EXCEPT ![mon.event] = value]
        /\ rc = "ok" /\ mon.event # Abort => value = "good"
        /\ \/ target' = target
           \/ target' = [target EXCEPT !.paused = TRUE, !.placed = FALSE]
        /\ value = "good" /\ mon.event = Final => target'.paused
  <2>1. CASE HookRaises
    <3>1. /\ mon' = [mon EXCEPT !.pc = "respond", !.rc = "failed"] /\ outputs' = outputs
          /\ target' = target
      BY <2>1 DEF HookRaises, Returns
    <3> WITNESS "failed" \in {"ok", "failed"}, "none" \in {"none", "good", "bad"}
    <3> QED
      BY <3>1
  <2>2. CASE HookRefuses
    <3>1. /\ mon' = [mon EXCEPT !.pc = "respond", !.rc = "failed"] /\ target' = target
          /\ outputs' = [outputs EXCEPT ![mon.event] = "bad"]
      BY <2>2 DEF HookRefuses, Returns, Writes
    <3> WITNESS "failed" \in {"ok", "failed"}, "bad" \in {"none", "good", "bad"}
    <3> QED
      BY <3>1
  <2>3. CASE HookAccepts
    <3>1. /\ mon' = [mon EXCEPT !.pc = "respond", !.rc = "ok"] /\ target' = target
          /\ outputs' = [outputs EXCEPT ![mon.event] = "good"] /\ mon.event # Final
      BY <2>3 DEF HookAccepts, Returns, Writes
    <3> WITNESS "ok" \in {"ok", "failed"}, "good" \in {"none", "good", "bad"}
    <3> QED
      BY <3>1
  <2>4. CASE HookPauses
    <3>1. CASE /\ target' = [target EXCEPT !.paused = TRUE, !.placed = FALSE]
               /\ Writes("good") /\ Returns("ok")
      <4>1. target'.paused
        BY <1>0, <3>1 DEF Targets
      <4> WITNESS "ok" \in {"ok", "failed"}, "good" \in {"none", "good", "bad"}
      <4> QED
        BY <3>1, <4>1 DEF Returns, Writes
    <3>2. CASE Writes("bad") /\ Returns("failed") /\ UNCHANGED target
      <4> WITNESS "failed" \in {"ok", "failed"}, "bad" \in {"none", "good", "bad"}
      <4> QED
        BY <3>2 DEF Returns, Writes
    <3>3. CASE /\ target' = [target EXCEPT !.paused = TRUE, !.placed = FALSE]
               /\ Returns("failed") /\ UNCHANGED outputs
      <4> WITNESS "failed" \in {"ok", "failed"}, "none" \in {"none", "good", "bad"}
      <4> QED
        BY <3>3 DEF Returns
    <3> QED
      BY <2>4, <3>1, <3>2, <3>3 DEF HookPauses
  <2>5. CASE HookAborts
    <3>1. /\ mon' = [mon EXCEPT !.pc = "respond", !.rc = "ok"] /\ outputs' = outputs
          /\ mon.event = Abort
          /\ \/ target' = target
             \/ target' = [target EXCEPT !.paused = TRUE, !.placed = FALSE]
      BY <2>5 DEF HookAborts, Returns
    <3> WITNESS "ok" \in {"ok", "failed"}, "none" \in {"none", "good", "bad"}
    <3> QED
      BY <3>1
  <2> QED
    BY <2>1, <2>2, <2>3, <2>4, <2>5 DEF Hook
<1>4. /\ mon' \in Monitors /\ mon'.pc = "respond" /\ mon'.rc = rc /\ mon'.event = mon.event
      /\ mon'.verdict = mon.verdict
  BY <1>0, <1>3 DEF Monitors
<1>5. /\ outputs' \in [Events -> {"none", "good", "bad"}]
      /\ value = "good" => outputs'[mon.event] = "good"
      /\ \A e \in Events : e # mon.event => outputs'[e] = outputs[e]
  BY <1>0, <1>3
<1>6. /\ target' \in Targets /\ (target.paused => target'.paused)
      /\ value = "good" /\ mon.event = Final => target'.paused
  BY <1>0, <1>3 DEF Targets
<1>7. LifecycleTypeOK'
  BY <1>0, <1>1, <1>2, <1>4, <1>5, <1>6, TypeParts DEF LifecycleTypeOK, Monitors, Targets
<1>8. Judging(mon', bench)
  BY <1>0, <1>1, <1>4 DEF Judging
<1>9. Answering(mon', relay, outputs')
  <2>1. relay[mon.event] = "requested"
    BY <1>0, <1>1 DEF Answering
  <2>2. \A e \in Events : e # Abort /\ relay[e] = "ok" => outputs'[e] = "good"
    BY <1>0, <1>5, <2>1 DEF Answering
  <2>3. rc = "ok" /\ mon.event # Abort => outputs'[mon.event] = "good"
    BY <1>3, <1>5
  <2> QED
    BY <1>4, <2>1, <2>2, <2>3 DEF Answering
<1>10. Restoring(outputs', target')
  <2>1. CASE mon.event # Final
    <3>1. outputs'[Final] = outputs[Final]
      BY <1>5, <2>1, EventFacts
    <3> QED
      BY <1>0, <1>6, <3>1 DEF Restoring
  <2>2. CASE mon.event = Final
    <3>1. CASE value = "good"
      BY <1>6, <2>2, <3>1 DEF Restoring
    <3>2. CASE value = "bad"
      BY <1>0, <1>3, <2>2, <3>2 DEF Restoring
    <3>3. CASE value = "none"
      BY <1>0, <1>3, <1>6, <3>3 DEF Restoring
    <3> QED
      BY <3>1, <3>2, <3>3
  <2> QED
    BY <2>1, <2>2
<1> QED
  BY <1>0, <1>1, <1>2, <1>7, <1>8, <1>9, <1>10 DEF LifeInv

\* The monitor, outside the hook.
LEMMA MonitorStep == ASSUME LifeInv, Monitor PROVE LifeInv' /\ (mon.verdict => mon'.verdict)
<1>0. /\ LifecycleTypeOK /\ Driven(bench, relay, Course) /\ Judging(mon, bench)
      /\ Answering(mon, relay, outputs) /\ Restoring(outputs, target)
      /\ mon \in Monitors /\ bench \in Benches
      /\ relay \in [Events -> {"none", "requested", "ok", "failed"}] /\ mon.event \in Events
      /\ faults \in 0 .. MaxFaults
  <2>1. /\ mon \in Monitors /\ bench \in Benches /\ faults \in 0 .. MaxFaults
        /\ relay \in [Events -> {"none", "requested", "ok", "failed"}]
    BY TypeParts DEF LifeInv
  <2> QED
    BY <2>1 DEF LifeInv, Monitors
<1> DEFINE halted == [bench EXCEPT !.pc = "stopping"]
           killed == [bench EXCEPT !.pc = "ended", !.code = 1]
<1>1. /\ halted \in Benches /\ killed \in Benches /\ bench.pc \in {"off", "boot", "work",
              "wait", "abort", "stopping", "ended"}
      /\ Driven(halted, relay, Course) /\ Driven(killed, relay, Course)
      /\ killed.pc = "ended"
  <2>1. halted \in Benches /\ halted.next = bench.next /\ halted.pc = "stopping"
    BY <1>0 DEF Benches
  <2>2. killed \in Benches /\ killed.next = bench.next /\ killed.pc = "ended" /\ killed.code = 1
    BY <1>0 DEF Benches
  <2> HIDE DEF halted, killed
  <2>3. Driven(halted, relay, Course) /\ Driven(killed, relay, Course)
    BY <1>0, <2>1, <2>2 DEF Driven, Served
  <2> QED
    BY <1>0, <2>1, <2>2, <2>3 DEF Benches
<1> HIDE DEF halted, killed
<1>2. ASSUME UNCHANGED <<life, relay, outputs, target>>, Fault \/ UNCHANGED faults,
             bench' \in {bench, halted, killed}, mon' \in Monitors,
             mon.verdict => mon'.verdict,
             Judging(mon', bench'), Answering(mon', relay, outputs)
      PROVE  LifeInv' /\ (mon.verdict => mon'.verdict)
  <2>1. Course' = Course /\ faults' \in 0 .. MaxFaults
    BY <1>0, <1>2, FaultCounted DEF Course
  <2>2. bench' \in Benches /\ Driven(bench', relay, Course)
    BY <1>0, <1>1, <1>2
  <2>3. LifecycleTypeOK'
    BY <1>0, <1>2, <2>1, <2>2 DEF LifecycleTypeOK, Monitors, Benches
  <2> QED
    BY <1>0, <1>2, <2>1, <2>2, <2>3 DEF LifeInv
<1>3. CASE Hook
  <2>1. PICK rc : mon' = [mon EXCEPT !.pc = "respond", !.rc = rc]
    BY <1>3 DEF Hook, HookRaises, HookRefuses, HookAccepts, HookPauses, HookAborts, Returns
  <2>2. mon'.verdict = mon.verdict
    BY <1>0, <2>1 DEF Monitors
  <2> QED
    BY <1>3, <2>2, HookStep
<1>4. CASE Poll
  <2>1. /\ mon.pc = "poll" /\ UNCHANGED <<life, relay, outputs, target>>
        /\ Fault \/ UNCHANGED faults
    BY <1>4 DEF Poll
  <2>2. CASE mon' = [mon EXCEPT !.pc = "reap"] /\ UNCHANGED bench
    <3>1. mon' \in Monitors /\ mon'.pc = "reap" /\ mon'.verdict = mon.verdict
      BY <1>0, <2>2 DEF Monitors
    <3>2. Judging(mon', bench') /\ Answering(mon', relay, outputs)
      BY <1>0, <3>1 DEF Judging, Answering
    <3> QED
      BY <1>2, <2>1, <2>2, <3>1, <3>2
  <2>3. CASE mon' = [mon EXCEPT !.pc = "reap", !.verdict = TRUE] /\ bench' \in {bench, halted}
    <3>1. mon' \in Monitors /\ mon'.pc = "reap" /\ mon'.verdict = TRUE
      BY <1>0, <2>3 DEF Monitors
    <3>2. Judging(mon', bench') /\ Answering(mon', relay, outputs)
      BY <1>0, <3>1 DEF Judging, Answering
    <3> QED
      BY <1>2, <2>1, <2>3, <3>1, <3>2
  <2>4. ASSUME NEW e \in Events, relay[e] = "requested",
               mon' = [mon EXCEPT !.pc = "hook", !.event = e], UNCHANGED bench
        PROVE  LifeInv' /\ (mon.verdict => mon'.verdict)
    <3>1. mon' \in Monitors /\ mon'.pc = "hook" /\ mon'.verdict = mon.verdict /\ mon'.event = e
      BY <1>0, <2>4 DEF Monitors
    <3>2. Judging(mon', bench') /\ Answering(mon', relay, outputs)
      BY <1>0, <2>1, <2>4, <3>1 DEF Judging, Answering
    <3> QED
      BY <1>2, <2>1, <2>4, <3>1, <3>2
  <2>5. CASE mon' = [mon EXCEPT !.pc = "status"] /\ UNCHANGED bench
    <3>1. mon' \in Monitors /\ mon'.pc = "status" /\ mon'.verdict = mon.verdict
      BY <1>0, <2>5 DEF Monitors
    <3>2. Judging(mon', bench') /\ Answering(mon', relay, outputs)
      BY <1>0, <2>1, <3>1 DEF Judging, Answering
    <3> QED
      BY <1>2, <2>1, <2>5, <3>1, <3>2
  <2> QED
    BY <1>4, <2>2, <2>3, <2>4, <2>5 DEF Poll, Stops, halted
<1>5. CASE Respond
  <2>1. /\ mon.pc = "respond" /\ UNCHANGED <<life, bench, outputs, target>>
        /\ Fault \/ UNCHANGED faults
    BY <1>5 DEF Respond
  <2>2. CASE mon' = [mon EXCEPT !.pc = "raised"] /\ UNCHANGED relay
    <3>1. mon' \in Monitors /\ mon'.pc = "raised" /\ mon'.verdict = mon.verdict
      BY <1>0, <2>2 DEF Monitors
    <3>2. Judging(mon', bench') /\ Answering(mon', relay, outputs)
      BY <1>0, <2>1, <3>1 DEF Judging, Answering
    <3> QED
      BY <1>2, <2>1, <2>2, <3>1, <3>2
  <2>3. CASE /\ relay' = [relay EXCEPT ![mon.event] = mon.rc]
             /\ mon' = [mon EXCEPT !.pc = "status", !.event = Abort, !.rc = "ok"]
    <3>1. mon' \in Monitors /\ mon'.pc = "status" /\ mon'.verdict = mon.verdict
      BY <1>0, <2>3, EventFacts DEF Monitors
    <3>2. /\ relay' \in [Events -> {"none", "requested", "ok", "failed"}]
          /\ relay'[mon.event] = mon.rc
          /\ \A e \in Events : e # mon.event => relay'[e] = relay[e]
      BY <1>0, <2>3 DEF Monitors
    <3>3. Judging(mon', bench')
      BY <1>0, <2>1, <3>1 DEF Judging
    <3>4. Answering(mon', relay', outputs)
      BY <1>0, <2>1, <3>1, <3>2 DEF Answering
    <3>5. Driven(bench, relay', Course)
      <4>1. relay[mon.event] = "requested"
        BY <1>0, <2>1 DEF Answering
      <4>2. ASSUME NEW j \in 1 .. bench.next - 1
            PROVE  \/ relay'[Course[j]] = "ok"
                   \/ bench.next <= Len(Course) /\ Course[j] = Course[bench.next]
        <5>1. \/ relay[Course[j]] = "ok"
              \/ bench.next <= Len(Course) /\ Course[j] = Course[bench.next]
          BY <1>0 DEF Driven, Served
        <5>2. j \in 1 .. Len(Course)
          BY <1>0, CourseShape DEF Driven, Benches
        <5>3. Course[j] \in Events
          BY <5>2, CourseShape
        <5> QED
          BY <3>2, <4>1, <5>1, <5>3
      <4> QED
        BY <1>0, <4>2 DEF Driven, Served
    <3>6. Course' = Course /\ faults' \in 0 .. MaxFaults
      BY <1>0, <2>1, FaultCounted DEF Course
    <3>7. LifecycleTypeOK'
      BY <1>0, <2>1, <3>1, <3>2, <3>6 DEF LifecycleTypeOK, Monitors
    <3> QED
      BY <1>0, <2>1, <3>1, <3>3, <3>4, <3>5, <3>6, <3>7 DEF LifeInv
  <2> QED
    BY <1>5, <2>2, <2>3 DEF Respond
<1>6. CASE StatusFails
  <2>1. /\ mon.pc = "status" /\ UNCHANGED <<life, relay, outputs, target, faults>>
        /\ mon' = [mon EXCEPT !.pc = "reap", !.failures = 0, !.verdict = TRUE]
        /\ bench' \in {bench, halted}
    BY <1>6 DEF StatusFails, Stops, halted
  <2>2. mon' \in Monitors /\ mon'.pc = "reap" /\ mon'.verdict = TRUE
    <3>1. 0 \in 0 .. 2
      OBVIOUS
    <3> QED
      BY <1>0, <2>1, <3>1, Zenon DEF Monitors
  <2>3. Judging(mon', bench') /\ Answering(mon', relay, outputs)
    BY <1>0, <2>2 DEF Judging, Answering
  <2> QED
    BY <1>2, <2>1, <2>2, <2>3
<1>7. CASE StatusPasses
  <2>1. /\ mon.pc = "status" /\ UNCHANGED <<life, bench, relay, outputs, target, faults>>
        /\ mon' = [mon EXCEPT !.pc = "poll",
                     !.failures = IF Silent THEN mon.failures + 1
                                  ELSE IF Watching /\ ~Lossy THEN 0 ELSE mon.failures]
        /\ ~(Silent /\ mon.failures = 2)
    BY <1>7 DEF StatusPasses, HardFailure
  <2>2. (IF Silent THEN mon.failures + 1
         ELSE IF Watching /\ ~Lossy THEN 0 ELSE mon.failures) \in 0 .. 2
    <3>1. mon.failures \in 0 .. 2
      BY <1>0 DEF Monitors
    <3> QED
      BY <2>1, <3>1
  <2>3. mon' \in Monitors /\ mon'.pc = "poll" /\ mon'.verdict = mon.verdict
    BY <1>0, <2>1, <2>2 DEF Monitors
  <2>4. Judging(mon', bench') /\ Answering(mon', relay, outputs)
    BY <1>0, <2>1, <2>3 DEF Judging, Answering
  <2> QED
    BY <1>2, <2>1, <2>3, <2>4
<1>8. CASE StatusRaises
  <2>1. /\ mon.pc = "status" /\ UNCHANGED <<life, bench, relay, outputs, target>> /\ Fault
        /\ mon' = [mon EXCEPT !.pc = "raised"]
    BY <1>8 DEF StatusRaises
  <2>2. mon' \in Monitors /\ mon'.pc = "raised" /\ mon'.verdict = mon.verdict
    BY <1>0, <2>1 DEF Monitors
  <2>3. Judging(mon', bench') /\ Answering(mon', relay, outputs)
    BY <1>0, <2>1, <2>2 DEF Judging, Answering
  <2> QED
    BY <1>2, <2>1, <2>2, <2>3
<1>9. CASE Reap
  <2>1. /\ mon.pc = "reap" /\ UNCHANGED <<life, relay, outputs, target, faults>>
        /\ mon' = [mon EXCEPT !.pc = "done"]
        /\ bench' \in {bench, killed} /\ bench'.pc = "ended"
    BY <1>1, <1>9 DEF Reap, killed
  <2>2. mon' \in Monitors /\ mon'.pc = "done" /\ mon'.verdict = mon.verdict
    BY <1>0, <2>1 DEF Monitors
  <2>3. Judging(mon', bench') /\ Answering(mon', relay, outputs)
    BY <1>0, <2>1, <2>2 DEF Judging, Answering
  <2> QED
    BY <1>2, <2>1, <2>2, <2>3
<1> QED
  BY <1>3, <1>4, <1>5, <1>6, <1>7, <1>8, <1>9 DEF Monitor

\* What a new relay, and a monitor that has not yet seen an event, satisfy.
LEMMA FreshLife ==
  ASSUME NEW b \in Benches, b.next = 1, b.pc \in {"off", "boot"}, b.code = 0,
         NEW m \in Monitors, m.pc \in {"off", "poll"}, ~m.verdict,
         NEW t, NEW c, Len(c) \in Nat
  PROVE  LET r == [e \in Events |-> "none"]
         IN  Driven(b, r, c) /\ Judging(m, b) /\ Answering(m, r, r) /\ Restoring(r, t)
<1> DEFINE r == [e \in Events |-> "none"]
<1>1. \A e \in Events : r[e] = "none"
  OBVIOUS
<1> HIDE DEF r
<1>2. Driven(b, r, c)
  <2>1. ~(\E j \in 1 .. b.next - 1 : TRUE) /\ b.next <= Len(c) + 1
    OBVIOUS
  <2> QED
    BY <2>1 DEF Driven, Served
<1>3. Judging(m, b) /\ Answering(m, r, r) /\ Restoring(r, t)
  BY <1>1, EventFacts DEF Judging, Answering, Restoring
<1> QED
  BY <1>2, <1>3 DEF r

\* The records of a lifecycle that has just begun, or is over.
LEMMA FreshRecords ==
  /\ NoBench \in Benches /\ NoBench.next = 1 /\ NoBench.pc = "off" /\ NoBench.code = 0
  /\ LET b == [NoBench EXCEPT !.pc = "boot"]
     IN  b \in Benches /\ b.next = 1 /\ b.pc = "boot" /\ b.code = 0
  /\ NoMon \in Monitors /\ NoMon.pc = "off" /\ ~NoMon.verdict
  /\ LET m == [NoMon EXCEPT !.pc = "poll"]
     IN  m \in Monitors /\ m.pc = "poll" /\ ~m.verdict
  /\ Down \in Targets
<1>1. 1 \in 1 .. 2 * Len(Phases) + 4
  BY CourseShape
<1>2. 0 \in 0 .. 2 /\ Abort \in Events
  BY EventFacts
<1>3. /\ NoBench \in Benches /\ NoBench.next = 1 /\ NoBench.pc = "off" /\ NoBench.code = 0
      /\ LET b == [NoBench EXCEPT !.pc = "boot"]
         IN  b \in Benches /\ b.next = 1 /\ b.pc = "boot" /\ b.code = 0
  BY <1>1 DEF NoBench, Benches
<1>4. /\ NoMon \in Monitors /\ NoMon.pc = "off" /\ ~NoMon.verdict
      /\ LET m == [NoMon EXCEPT !.pc = "poll"]
         IN  m \in Monitors /\ m.pc = "poll" /\ ~m.verdict
  BY <1>2 DEF NoMon, Monitors
<1>5. Down \in Targets
  BY DEF Down, Targets
<1> QED
  BY <1>3, <1>4, <1>5

\* Before an experiment there is no lifecycle.
LEMMA NoLifeInv == ASSUME NoLifecycle, faults = 0 PROVE LifeInv
<1> DEFINE r == [e \in Events |-> "none"]
<1>1. /\ life = NoLife /\ bench = NoBench /\ mon = NoMon /\ target = Down
      /\ relay = r /\ outputs = r
  BY DEF NoLifecycle
<1>2. /\ r \in [Events -> {"none", "requested", "ok", "failed"}]
      /\ r \in [Events -> {"none", "good", "bad"}]
  OBVIOUS
<1> HIDE DEF r
<1>3. LifecycleTypeOK
  <2>1. life \in Lives /\ faults \in 0 .. MaxFaults
    BY <1>1, FaultsAssumption DEF Lives
  <2> QED
    BY <1>1, <1>2, <2>1, FreshRecords, TypeParts
<1>4. Len(Course) \in Nat
  BY CourseShape
<1>5. /\ Driven(bench, relay, Course) /\ Judging(mon, bench)
      /\ Answering(mon, relay, outputs) /\ Restoring(outputs, target)
  BY <1>1, <1>4, FreshRecords, FreshLife DEF r
<1> QED
  BY <1>3, <1>5 DEF LifeInv

\* A lifecycle ends.
LEMMA EndedLife ==
  ASSUME EndLifecycle, faults' \in 0 .. MaxFaults PROVE LifeInv'
<1> DEFINE r == [e \in Events |-> "none"]
<1>1. /\ life' = NoLife /\ bench' = NoBench /\ mon' = NoMon /\ target' = Down
      /\ relay' = r /\ outputs' = r
  BY DEF EndLifecycle, EmptyRelay
<1>2. /\ r \in [Events -> {"none", "requested", "ok", "failed"}]
      /\ r \in [Events -> {"none", "good", "bad"}]
  OBVIOUS
<1> HIDE DEF r
<1>3. LifecycleTypeOK'
  <2>1. life' \in Lives
    BY <1>1 DEF Lives
  <2> QED
    BY <1>1, <1>2, <2>1, FreshRecords DEF LifecycleTypeOK, Lives, Benches, Monitors, Targets
<1>4. Len(Course') \in Nat
  BY ScriptShape, MeasuringShape DEF Course
<1>5. /\ Driven(bench', relay', Course') /\ Judging(mon', bench')
      /\ Answering(mon', relay', outputs') /\ Restoring(outputs', target')
  BY <1>1, <1>4, FreshRecords, FreshLife DEF r
<1> QED
  BY <1>3, <1>5 DEF LifeInv

\* A lifecycle begins.
LEMMA BegunLife ==
  ASSUME NEW t \in Treatments, NEW c \in BOOLEAN, NEW s \in BOOLEAN, NEW f \in BOOLEAN,
         BeginLifecycle(t, c, s, f), faults' \in 0 .. MaxFaults
  PROVE  LifeInv' /\ life' # NoLife /\ ~mon'.verdict
<1> DEFINE r == [e \in Events |-> "none"]
           b == [NoBench EXCEPT !.pc = "boot"]
           m == [NoMon EXCEPT !.pc = "poll"]
<1>1. /\ life' = [treatment |-> t, cold |-> c, soft |-> s, formal |-> f]
      /\ bench' = b /\ mon' = m /\ target' = Down /\ relay' = r /\ outputs' = r
  BY DEF BeginLifecycle, Configured, EmptyRelay
<1>2. /\ r \in [Events -> {"none", "requested", "ok", "failed"}]
      /\ r \in [Events -> {"none", "good", "bad"}]
  OBVIOUS
<1>3. /\ b \in Benches /\ b.next = 1 /\ b.pc = "boot" /\ b.code = 0
      /\ m \in Monitors /\ m.pc = "poll" /\ ~m.verdict /\ Down \in Targets
  BY FreshRecords
<1> HIDE DEF r, b, m
<1>4. LifecycleTypeOK'
  <2>1. life' \in Lives
    BY <1>1 DEF Lives
  <2> QED
    BY <1>1, <1>2, <1>3, <2>1 DEF LifecycleTypeOK, Lives, Benches, Monitors, Targets
<1>5. Len(Course') \in Nat
  BY ScriptShape, MeasuringShape DEF Course
<1>6. /\ Driven(bench', relay', Course') /\ Judging(mon', bench')
      /\ Answering(mon', relay', outputs') /\ Restoring(outputs', target')
  BY <1>1, <1>3, <1>5, FreshLife DEF r
<1>7. life' # NoLife
  <2>1. life'.treatment = t /\ NoLife.treatment = "none" /\ t # "none"
    BY <1>1 DEF NoLife, Treatments
  <2> QED
    BY <2>1
<1> QED
  BY <1>1, <1>3, <1>4, <1>6, <1>7 DEF LifeInv

-------------------------------------------------------------------------------
(***************************************************************************)
(* Rows and pairs.                                                         *)
(***************************************************************************)

\* The rows of a pair follow each other.
LEMMA PairOrder ==
  ASSUME NEW i \in Rows, NEW j \in Rows, i < j
  PROVE  (Pair(i) < Pair(j) \/ Pair(i) = Pair(j)) /\ (Pair(i) = Pair(j) => j = i + 1)
<1>1. i \in Int /\ j \in Int
  BY BoundsAssumption DEF Rows
<1>2. ASSUME NEW k \in Int, NEW l \in Int, k < l
      PROVE  /\ (k + 1) \div 2 < (l + 1) \div 2 \/ (k + 1) \div 2 = (l + 1) \div 2
             /\ (k + 1) \div 2 = (l + 1) \div 2 => l = k + 1
  BY <1>2
<1> QED
  BY <1>1, <1>2 DEF Pair

\* A row has exactly one other in its pair.
LEMMA PairOther ==
  ASSUME NEW i \in Rows
  PROVE  /\ \E j \in Rows : Others(i) = {j} /\ Others(j) = {i} /\ j # i /\ Pair(j) = Pair(i)
         /\ Pair(i) \in 1 .. Pairs
<1>1. i \in 1 .. 2 * Pairs /\ Pairs \in Nat
  BY BoundsAssumption DEF Rows
<1>2. Pair(i) \in 1 .. Pairs
  BY <1>1 DEF Pair
<1> DEFINE j == IF i % 2 = 1 THEN i + 1 ELSE i - 1
<1>3. j \in 1 .. 2 * Pairs /\ j # i /\ (j + 1) \div 2 = (i + 1) \div 2
  <2>1. CASE i % 2 = 1
    BY <1>1, <2>1
  <2>2. CASE i % 2 # 1
    BY <1>1, <2>2
  <2> QED
    BY <2>1, <2>2
<1>4. ASSUME NEW k \in 1 .. 2 * Pairs, k # i, (k + 1) \div 2 = (i + 1) \div 2 PROVE k = j
  <2>1. CASE i % 2 = 1
    BY <1>1, <1>4, <2>1
  <2>2. CASE i % 2 # 1
    BY <1>1, <1>4, <2>2
  <2> QED
    BY <2>1, <2>2
<1>5. ASSUME NEW k \in 1 .. 2 * Pairs, k # j, (k + 1) \div 2 = (j + 1) \div 2 PROVE k = i
  BY <1>3, <1>4, <1>5
<1> HIDE DEF j
<1>6. Others(i) = {j} /\ Others(j) = {i} /\ j \in Rows /\ Pair(j) = Pair(i)
  BY <1>1, <1>3, <1>4, <1>5 DEF Others, Rows, Pair
<1> QED
  BY <1>2, <1>3, <1>6

\* Exactly one row of a pair is active.
LEMMA PairSchedule ==
  ASSUME NEW s \in Schedules, NEW i \in Rows, NEW j \in Others(i)
  PROVE  j \in Rows /\ j # i /\ i \in Others(j) /\ (s[i] = "active" <=> s[j] = "baseline")
<1>1. j \in Rows /\ j # i /\ Pair(j) = Pair(i)
  BY DEF Others
<1>2. s[i] # s[j] /\ s[i] \in {"baseline", "active"} /\ s[j] \in {"baseline", "active"}
  BY <1>1 DEF Schedules
<1> QED
  BY <1>1, <1>2 DEF Others

\* Rows of earlier pairs come before.
LEMMA PairBefore ==
  ASSUME NEW i \in Rows, NEW j \in Rows, Pair(i) < Pair(j)
  PROVE  i < j
<1>1. i \in Int /\ j \in Int
  BY BoundsAssumption DEF Rows
<1>2. ASSUME NEW k \in Int, NEW l \in Int, (k + 1) \div 2 < (l + 1) \div 2
      PROVE  k < l
  BY <1>2
<1> QED
  BY <1>1, <1>2 DEF Pair

-------------------------------------------------------------------------------
(***************************************************************************)
(* What keeps a state of the experiment sound.                             *)
(***************************************************************************)

\* The rows a state has completed and begun depend on their status only.
LEMMA RowSets ==
  ASSUME NEW S, NEW i \in Rows
  PROVE  /\ i \in Complete(S) <=> S.rows[i].status = "complete"
         /\ i \in Begun(S) <=> S.rows[i].status # "none"
         /\ Complete(S) \subseteq Begun(S) /\ Complete(S) \subseteq Rows /\ Begun(S) \subseteq Rows
BY DEF Complete, Begun

\* A step that is not done has no row after it.
LEMMA NothingBegun ==
  ASSUME NEW S, NEW x, NEW o, NEW e, NEW v, Sound(S, x, o, e, v), x.kind = "paired",
         NEW k \in 1 .. Len(o), ~DoneIn(S, o[k])
  PROVE  Begun(S) = {} /\ Complete(S) = {}
<1>1. Begun(S) = {}
  BY DEF Sound, Paired, InOrder, AllDone
<1> QED
  BY <1>1 DEF Begun, Complete

\* The pairs of a state depend on its rows, and on a failure that is open.
LEMMA SamePairs ==
  ASSUME NEW S, NEW T, NEW x, NEW o, NEW e, Paired(S, x, o, e), T.rows = S.rows,
         T.failure = "open" =>
           \/ S.failure = "open"
           \/ \A i \in Complete(S), j \in Rows \ Complete(S) :
                j \in Others(i) => S.rows[j].status = "running",
         x.kind = "paired" /\ Begun(S) # {} => AllDone(T, o)
  PROVE  Paired(T, x, o, e) /\ Complete(T) = Complete(S) /\ Counted(T.rows) = Counted(S.rows)
<1>1. Complete(T) = Complete(S) /\ Begun(T) = Begun(S) /\ Counted(T.rows) = Counted(S.rows)
  BY DEF Complete, Begun
<1>2. ASSUME x.kind = "paired" PROVE InOrder(T, o) /\ Agree(T) /\ Halves(T, x, e)
  <2>1. InOrder(S, o) /\ Agree(S) /\ Halves(S, x, e)
    BY <1>2 DEF Paired
  <2>2. InOrder(T, o)
    BY <1>1, <1>2, <2>1 DEF InOrder
  <2>3. Agree(T)
    BY <1>1, <2>1 DEF Agree
  <2>4. Halves(T, x, e)
    BY <1>1, <2>1 DEF Halves
  <2> QED
    BY <2>2, <2>3, <2>4
<1> QED
  BY <1>1, <1>2 DEF Paired

\* A state with the same rows, and the same report or none.
LEMMA SameRows ==
  ASSUME NEW S, NEW T, NEW x, NEW o, NEW e, NEW v, NEW w,
         Sound(S, x, o, e, v), T \in State, T.rows = S.rows,
         T.status \in {S.status, "open"} \/ x.kind \notin {"paired", "formal"},
         T.failure = "open" =>
           \/ S.failure = "open"
           \/ \A i \in Complete(S), j \in Rows \ Complete(S) :
                j \in Others(i) => S.rows[j].status = "running",
         x.kind = "paired" /\ Begun(S) # {} => AllDone(T, o),
         Named(T, w)
  PROVE  Sound(T, x, o, e, w)
<1>1. Paired(T, x, o, e) /\ Complete(T) = Complete(S) /\ Counted(T.rows) = Counted(S.rows)
  BY SamePairs DEF Sound
<1>2. Finished(T, x)
  <2>1. Finished(S, x)
    BY DEF Sound
  <2> QED
    BY <1>1, <2>1 DEF Finished
<1> QED
  BY <1>1, <1>2 DEF Sound

\* A row begins, and is not done yet: no report of rows is complete.
LEMMA Unfinished ==
  ASSUME NEW S, NEW x, Finished(S, x), x.kind \in {"paired", "formal"},
         NEW a \in Rows, a \notin Complete(S)
  PROVE  S.status # "complete"
BY DEF Finished

\* A row of a paired experiment begins.
LEMMA RowBegun ==
  ASSUME NEW S, NEW x, NEW o, NEW e, NEW v, NEW a, Sound(S, x, o, e, v), e \in 0 .. MaxRecoveries,
         x.kind \in {"paired", "formal"},
         Positioned("rows", a, S, o), a \in Rows, a \notin Complete(S), S.failure # "open"
  PROVE  LET T == [S EXCEPT !.rows[a] = [Unrun EXCEPT !.status = "running"]]
         IN  Sound(T, x, o, e, v) /\ Positioned("row", a, T, o) /\ Complete(T) = Complete(S)
<1> DEFINE r == [Unrun EXCEPT !.status = "running"]
           T == [S EXCEPT !.rows[a] = r]
<1>1. S \in State /\ Finished(S, x) /\ Named(S, v) /\ (x.kind = "paired" => InOrder(S, o) /\ Agree(S) /\ Halves(S, x, e))
  BY DEF Sound, Paired
<1>2. /\ r.status = "running" /\ r.valid = TRUE /\ r.era = 0
      /\ r \in [status : {"none", "running", "complete", "superseded", "failed"},
                valid : BOOLEAN, era : 0 .. MaxRecoveries]
  <2>1. 0 \in 0 .. MaxRecoveries
    BY BoundsAssumption
  <2> QED
    BY <2>1 DEF Unrun
<1> HIDE DEF r
<1>3. /\ T.rows[a] = r /\ \A i \in Rows : i # a => T.rows[i] = S.rows[i]
      /\ T.steps = S.steps /\ T.fp = S.fp /\ T.approval = S.approval
      /\ T.failure = S.failure /\ T.status = S.status
      /\ T \in State
  BY <1>1, <1>2 DEF State
<1> HIDE DEF T
<1>4. Complete(T) = Complete(S) /\ Begun(T) = Begun(S) \cup {a}
  BY <1>2, <1>3 DEF Complete, Begun
<1>11. \A i \in Complete(S) : i \in Rows /\ T.rows[i] = S.rows[i]
  BY <1>3 DEF Complete
<1>5. AllDone(S, o) /\ \A i \in Rows : i < a => i \in Complete(S)
  BY DEF Positioned
<1>6. AllDone(T, o)
  BY <1>3, <1>5 DEF AllDone, DoneIn
<1>7. Paired(T, x, o, e)
  <2> SUFFICES ASSUME x.kind = "paired" PROVE InOrder(T, o) /\ Agree(T) /\ Halves(T, x, e)
    BY DEF Paired
  <2>1. InOrder(T, o)
    <3>1. ASSUME NEW i \in Rows, NEW j \in Rows, Pair(i) < Pair(j), j \in Begun(T)
          PROVE  i \in Complete(T)
      <4>1. CASE j \in Begun(S)
        BY <1>1, <1>4, <3>1, <4>1 DEF InOrder
      <4>2. CASE j = a
        BY <1>4, <1>5, <3>1, <4>2, PairBefore
      <4> QED
        BY <1>4, <3>1, <4>1, <4>2
    <3> QED
      BY <1>1, <1>4, <1>6, <3>1 DEF InOrder
  <2>2. Agree(T)
    BY <1>1, <1>4, <1>11 DEF Agree
  <2>3. Halves(T, x, e)
    BY <1>1, <1>3, <1>4, <1>11 DEF Halves
  <2> QED
    BY <2>1, <2>2, <2>3
<1>8. Finished(T, x)
  BY <1>1, <1>3, Unfinished DEF Finished
<1>9. Named(T, v)
  BY <1>1, <1>3 DEF Named, DoneIn
<1>10. Positioned("row", a, T, o)
  BY <1>2, <1>3, <1>4, <1>5, <1>6 DEF Positioned
<1> QED
  BY <1>3, <1>4, <1>7, <1>8, <1>9, <1>10 DEF Sound, T, r

RowRecords ==
  [status : {"none", "running", "complete", "superseded", "failed"},
   valid : BOOLEAN, era : 0 .. MaxRecoveries]

\* A row that is complete leaves the others' status alone.
LEMMA RowDone ==
  ASSUME NEW S, NEW x, NEW o, NEW e, NEW v, NEW a, NEW T,
         Sound(S, x, o, e, v), Positioned("row", a, S, o),
         T \in State, T.steps = S.steps, T.rows[a].status = "complete",
         \A j \in Rows : j # a => T.rows[j].status = S.rows[j].status
  PROVE  /\ Complete(T) = Complete(S) \cup {a} /\ a \notin Complete(S) /\ a \in Rows
         /\ Begun(T) = Begun(S)
         /\ x.kind = "paired" => InOrder(T, o)
         /\ Positioned("rows", a + 1, T, o)
<1>1. /\ a \in Rows /\ S.rows[a].status = "running" /\ AllDone(S, o)
      /\ \A i \in Rows : i < a => i \in Complete(S)
  BY DEF Positioned
<1>2. a \notin Complete(S) /\ a \in Begun(S)
  BY <1>1 DEF Complete, Begun
<1>3. Complete(T) = Complete(S) \cup {a}
  BY <1>1 DEF Complete
<1>4. Begun(T) = Begun(S)
  BY <1>1 DEF Begun
<1>5. AllDone(T, o)
  BY <1>1 DEF AllDone, DoneIn
<1>6. ASSUME x.kind = "paired" PROVE InOrder(T, o)
  <2>1. InOrder(S, o)
    BY <1>6 DEF Sound, Paired
  <2> QED
    BY <1>1, <1>3, <1>4, <1>5, <2>1 DEF InOrder
<1>7. Positioned("rows", a + 1, T, o)
  <2>1. a + 1 \in 1 .. 2 * Pairs + 1 /\ \A i \in Rows : i < a + 1 => i < a \/ i = a
    BY <1>1, BoundsAssumption DEF Rows
  <2> QED
    BY <1>1, <1>3, <1>5, <2>1 DEF Positioned
<1> QED
  BY <1>1, <1>2, <1>3, <1>4, <1>6, <1>7

\* A row of a paired experiment is complete: with its other row, if that one
\* is complete, it counts or does not count.
LEMMA PairedRowDone ==
  ASSUME NEW S, NEW x, NEW o, NEW e, NEW v, NEW a, NEW f, NEW valid \in BOOLEAN,
         Sound(S, x, o, e, v), x.kind = "paired", x.rows \in Schedules, e \in 0 .. MaxRecoveries,
         Positioned("row", a, S, o), S.failure # "open",
         x.rows[a] = "baseline" => valid,
         f \in [Rows -> RowRecords],
         f[a].status = "complete", f[a].era = e,
         f[a].valid = (valid /\ ~\E j \in Others(a) :
                                    x.rows[j] = "active" /\ S.rows[j].status = "complete"
                                    /\ ~S.rows[j].valid),
         \A j \in Rows : j # a =>
            /\ f[j].status = S.rows[j].status /\ f[j].era = S.rows[j].era
            /\ f[j].valid = (S.rows[j].valid
                             /\ ~(j \in Others(a) /\ x.rows[a] = "active" /\ ~valid))
  PROVE  LET T == [S EXCEPT !.rows = f]
         IN  Sound(T, x, o, e, v) /\ Positioned("rows", a + 1, T, o)
<1> DEFINE T == [S EXCEPT !.rows = f]
<1>1. S \in State /\ Finished(S, x) /\ Named(S, v) /\ Agree(S) /\ Halves(S, x, e)
  BY DEF Sound, Paired
<1>2. /\ T.rows = f /\ T.steps = S.steps /\ T.fp = S.fp /\ T.approval = S.approval
      /\ T.failure = S.failure /\ T.status = S.status /\ T \in State
  BY <1>1 DEF State, RowRecords
<1> HIDE DEF T
<1>3. /\ Complete(T) = Complete(S) \cup {a} /\ a \notin Complete(S) /\ a \in Rows
      /\ InOrder(T, o) /\ Positioned("rows", a + 1, T, o)
  BY <1>2, RowDone
<1>4. PICK b \in Rows : Others(a) = {b} /\ Others(b) = {a} /\ b # a
  BY <1>3, PairOther
<1>5. \A i, j \in Rows : i # a /\ i # b /\ j \in Others(i) => j # a /\ j # b
  <2> SUFFICES ASSUME NEW i \in Rows, NEW j \in Rows, i # a, i # b, j \in Others(i)
               PROVE  j # a /\ j # b
    OBVIOUS
  <2>1. \E k \in Rows : Others(i) = {k} /\ Others(k) = {i}
    BY PairOther
  <2>2. Others(i) = {j} /\ Others(j) = {i}
    BY <2>1
  <2> QED
    BY <1>4, <2>2
<1>6. \A j \in Rows : j # a /\ j # b =>
        f[j].status = S.rows[j].status /\ f[j].era = S.rows[j].era /\ (f[j].valid <=> S.rows[j].valid)
  BY <1>4
<1>7. x.rows[a] = "active" <=> x.rows[b] = "baseline"
  BY <1>3, <1>4, PairSchedule
<1>8. x.rows[a] \in {"baseline", "active"} /\ x.rows[b] \in {"baseline", "active"}
  BY <1>3, <1>4 DEF Schedules
<1>9. ASSUME b \in Complete(S) PROVE f[a].valid = f[b].valid /\ f[a].era = f[b].era
  <2>1. S.rows[b].era = e /\ (x.rows[b] = "baseline" => S.rows[b].valid)
    BY <1>1, <1>3, <1>4, <1>9 DEF Halves
  <2>2. S.rows[b].status = "complete"
    BY <1>9 DEF Complete
  <2>3. f[a].valid \in BOOLEAN /\ f[b].valid \in BOOLEAN /\ S.rows[b].valid \in BOOLEAN
    BY <1>1, <1>3 DEF State, RowRecords
  <2>4. f[b].valid = (S.rows[b].valid /\ ~(x.rows[a] = "active" /\ ~valid))
    BY <1>4
  <2>5. f[a].valid = (valid /\ ~(x.rows[b] = "active" /\ ~S.rows[b].valid))
    BY <1>4, <2>2
  <2>6. f[a].valid = f[b].valid
    BY <1>7, <1>8, <2>1, <2>3, <2>4, <2>5
  <2> QED
    BY <1>4, <2>1, <2>6
<1>10. Agree(T)
  <2> SUFFICES ASSUME NEW i \in Complete(T), NEW j \in Complete(T), j \in Others(i)
               PROVE  f[i].valid = f[j].valid /\ f[i].era = f[j].era
    BY <1>2 DEF Agree
  <2>0. i \in Rows /\ j \in Rows
    BY DEF Complete
  <2>1. CASE i = a
    <3>1. j = b /\ b \in Complete(S)
      BY <1>3, <1>4, <2>1
    <3> QED
      BY <1>9, <2>1, <3>1
  <2>2. CASE i = b
    <3>1. j = a /\ b \in Complete(S)
      BY <1>3, <1>4, <2>2
    <3> QED
      BY <1>9, <2>2, <3>1
  <2>3. CASE i # a /\ i # b
    <3>1. j # a /\ j # b
      BY <1>5, <2>0, <2>3
    <3>2. S.rows[i].valid = S.rows[j].valid /\ S.rows[i].era = S.rows[j].era
      BY <1>1, <1>3, <2>3, <3>1 DEF Agree
    <3>3. /\ f[i].valid \in BOOLEAN /\ f[j].valid \in BOOLEAN
          /\ S.rows[i].valid \in BOOLEAN /\ S.rows[j].valid \in BOOLEAN
      BY <1>1, <2>0 DEF State, RowRecords
    <3> QED
      BY <1>6, <2>0, <2>3, <3>1, <3>2, <3>3
  <2> QED
    BY <2>1, <2>2, <2>3
<1>11. Halves(T, x, e)
  <2> SUFFICES ASSUME NEW i \in Complete(T), NEW j \in Rows \ Complete(T), j \in Others(i)
               PROVE  f[i].era = e /\ (x.rows[i] = "baseline" => f[i].valid)
    BY <1>2 DEF Halves
  <2>0. i \in Rows
    BY DEF Complete
  <2>1. CASE i = a
    <3>1. j = b /\ S.rows[b].status # "complete"
      BY <1>3, <1>4, <2>1 DEF Complete
    <3> QED
      BY <1>4, <2>1, <3>1
  <2>2. CASE i = b
    <3>1. j = a
      BY <1>4, <2>2
    <3> QED
      BY <1>3, <3>1
  <2>3. CASE i # a /\ i # b
    <3>1. j # a /\ j # b
      BY <1>5, <2>0, <2>3
    <3>2. S.rows[i].era = e /\ (x.rows[i] = "baseline" => S.rows[i].valid)
      BY <1>1, <1>3, <2>3, <3>1 DEF Halves
    <3> QED
      BY <1>6, <2>0, <2>3, <3>2
  <2> QED
    BY <2>1, <2>2, <2>3
<1>12. Finished(T, x)
  BY <1>1, <1>2, <1>3, Unfinished DEF Finished
<1>13. Named(T, v)
  BY <1>1, <1>2 DEF Named, DoneIn
<1> QED
  BY <1>2, <1>3, <1>10, <1>11, <1>12, <1>13 DEF Sound, Paired, T

\* A row of a formal experiment is complete, or failed.
LEMMA FormalRowDone ==
  ASSUME NEW S, NEW x, NEW o, NEW e, NEW v, NEW w, NEW a, NEW T, Sound(S, x, o, e, v),
         x.kind = "formal", T \in State, T.steps = S.steps, T.fp = S.fp,
         T.approval = S.approval, T.status \in {S.status, "open"}, a \in Rows,
         T.status = "open" \/ S.rows[a].status # "complete"
  PROVE  Sound(T, x, o, e, v)
<1>1. Finished(S, x) /\ Named(S, v)
  BY DEF Sound
<1>2. T.status # "complete"
  BY <1>1, Unfinished DEF Complete
<1> QED
  BY <1>1, <1>2 DEF Sound, Paired, Finished, Named, DoneIn

\* When the step or the row that runs fails, no other pair is half done.
LEMMA HalfRunning ==
  ASSUME NEW S, NEW x, NEW o, NEW e, NEW v, NEW p \in {"step", "row"}, NEW a,
         Len(o) \in Nat, Sound(S, x, o, e, v), x.kind = "paired", Positioned(p, a, S, o),
         NEW i \in Complete(S), NEW j \in Rows \ Complete(S), j \in Others(i)
  PROVE  S.rows[j].status = "running"
<1>1. CASE p = "step"
  <2>1. a \in 1 .. Len(o) /\ ~DoneIn(S, o[a])
    BY <1>1 DEF Positioned, DoneIn
  <2> QED
    BY <2>1, NothingBegun
<1>2. CASE p = "row"
  <2>1. a \in Rows /\ S.rows[a].status = "running" /\ \A k \in Rows : k < a => k \in Complete(S)
    BY <1>2 DEF Positioned
  <2>2. a \notin Complete(S) /\ i \in Rows /\ j \in Rows /\ j # i /\ Pair(i) = Pair(j)
    BY <2>1 DEF Complete, Others
  <2>3. \A k, l \in Rows : k < l /\ l \in Complete(S) => k \in Complete(S)
    BY DEF Sound, Paired, InOrder
  <2>4. i \in Int /\ j \in Int /\ a \in Int
    BY <2>1, <2>2, BoundsAssumption DEF Rows
  <2>5. i < a
    BY <2>1, <2>2, <2>3, <2>4
  <2>6. ~(j < a) /\ ~(j < i)
    BY <2>1, <2>2, <2>3
  <2>7. j = i + 1
    BY <2>2, <2>4, <2>6, PairOrder
  <2>8. j = a
    BY <2>4, <2>5, <2>6, <2>7
  <2> QED
    BY <2>1, <2>8
<1> QED
  BY <1>1, <1>2

\* A report that finds every effect found every row to count.
LEMMA PairsCounted ==
  ASSUME NEW f, PairedComplete(f)
  PROVE  Counted(f) \in {{}, Rows}
<1> DEFINE effects == {p \in 1 .. Pairs : \A i \in Rows : Pair(i) = p => i \in Counted(f)}
<1> SUFFICES ASSUME Counted(f) # {} PROVE Counted(f) = Rows
  OBVIOUS
<1>1. Cardinality(effects) = Pairs
  BY DEF PairedComplete
<1>2. IsFiniteSet(1 .. Pairs) /\ Cardinality(1 .. Pairs) = Pairs
  BY BoundsAssumption, FS_Interval
<1>3. effects = 1 .. Pairs
  <2>1. effects \subseteq 1 .. Pairs
    OBVIOUS
  <2> HIDE DEF effects
  <2> QED
    BY <1>1, <1>2, <2>1, FS_Subset
<1>4. Rows \subseteq Counted(f)
  <2> SUFFICES ASSUME NEW i \in Rows PROVE i \in Counted(f)
    OBVIOUS
  <2>1. Pair(i) \in 1 .. Pairs
    BY PairOther
  <2> QED
    BY <1>3, <2>1
<1> QED
  BY <1>4 DEF Counted

\* The same of a formal report, whose pairs have an active row each.
LEMMA FormalCounted ==
  ASSUME NEW f, exp.rows \in Schedules, FormalComplete(f)
  PROVE  Counted(f) = Rows
<1>1. \A i \in Rows : exp.rows[i] = "active" => i \in Counted(f) /\ Others(i) \subseteq Counted(f)
  BY DEF FormalComplete
<1>2. Rows \subseteq Counted(f)
  <2> SUFFICES ASSUME NEW i \in Rows PROVE i \in Counted(f)
    OBVIOUS
  <2>1. PICK j \in Rows : Others(i) = {j} /\ Others(j) = {i}
    BY PairOther
  <2>2. exp.rows[i] = "active" \/ exp.rows[j] = "active"
    BY <2>1, PairSchedule DEF Schedules
  <2> QED
    BY <1>1, <2>1, <2>2
<1> QED
  BY <1>2 DEF Counted

\* A recovery runs the pair of the row that was running again.
LEMMA PairsSuperseded ==
  ASSUME NEW S, NEW T, NEW x, NEW o, NEW e, NEW e2, NEW v, Sound(S, x, o, e, v),
         x.kind = "paired", T \in State, T.rows = Superseded(S.rows), T.steps = S.steps,
         S.failure = "open", T.failure = "recovered", T.status = "open", Named(T, v)
  PROVE  Sound(T, x, o, e2, v)
<1>1. InOrder(S, o) /\ Agree(S) /\ Halves(S, x, e)
  BY DEF Sound, Paired
<1> DEFINE lost2 == {i \in Rows : \E k \in Rows : S.rows[k].status = "running" /\ Pair(k) = Pair(i)}
\* The rows that are running are all of one pair.
<1>0. ASSUME NEW j \in Rows, NEW k \in Rows,
             S.rows[j].status = "running", S.rows[k].status = "running"
      PROVE  Pair(j) = Pair(k)
  <2>1. j \in Begun(S) \ Complete(S) /\ k \in Begun(S) \ Complete(S)
    BY <1>0 DEF Begun, Complete
  <2>2. ~(Pair(j) < Pair(k)) /\ ~(Pair(k) < Pair(j))
    BY <1>1, <2>1 DEF InOrder
  <2>3. Pair(j) \in Int /\ Pair(k) \in Int
    BY BoundsAssumption DEF Pair, Rows
  <2> QED
    BY <2>2, <2>3
<1>00. \A k \in Rows : Pair(k) \in Int
  BY BoundsAssumption DEF Pair, Rows
<1>2. /\ \A i \in Rows \ lost2 : T.rows[i] = S.rows[i]
      /\ \A i \in lost2 : T.rows[i].status = "superseded"
  <2>1. ASSUME NEW i \in Rows
        PROVE  T.rows[i] = IF i \in lost2 THEN [S.rows[i] EXCEPT !.status = "superseded"] ELSE S.rows[i]
    <3> DEFINE pairs == {Pair(j) : j \in {k \in Rows : S.rows[k].status = "running"}}
    <3>1. i \in lost2 <=> Pair(i) \in pairs
      OBVIOUS
    <3>2. Pair(i) \in pairs => \A p \in pairs : Pair(i) <= p
      BY <1>0, <1>00
    <3> QED
      BY <3>1, <3>2 DEF Superseded
  <2>2. ASSUME NEW i \in Rows
        PROVE  [S.rows[i] EXCEPT !.status = "superseded"].status = "superseded"
    BY DEF Sound, State
  <2> QED
    BY <2>1, <2>2
<1>3. /\ Complete(T) = Complete(S) \ lost2 /\ Begun(T) = Begun(S) \cup lost2
      /\ \A k \in Rows : S.rows[k].status = "running" => k \in lost2 /\ k \in Begun(S) \ Complete(S)
      /\ \A i \in lost2 : \E k \in Rows : S.rows[k].status = "running" /\ Pair(k) = Pair(i)
      /\ Complete(S) \subseteq Begun(S) /\ Begun(S) \subseteq Rows /\ lost2 \subseteq Rows
  BY <1>2 DEF Complete, Begun
<1>4. \A i, j \in Rows : Pair(i) = Pair(j) => (i \in lost2 <=> j \in lost2)
  OBVIOUS
<1> HIDE DEF lost2
\* A row of an earlier pair than a begun one is complete, and so is its pair.
<1>5. ASSUME NEW i \in Rows, NEW j \in Begun(S), Pair(i) < Pair(j)
      PROVE  i \in Complete(S) /\ i \notin lost2
  <2>1. \A k \in Rows : Pair(k) = Pair(i) => k \in Complete(S)
    BY <1>1, <1>3, <1>5 DEF InOrder
  <2> QED
    BY <1>3, <2>1
<1>6. InOrder(T, o)
  <2>1. ASSUME NEW i \in Rows, NEW j \in Rows, i < j, j \in Complete(T)
        PROVE  i \in Complete(T)
    <3>1. j \in Complete(S) /\ j \notin lost2 /\ i \in Complete(S) /\ j \in Begun(S)
      BY <1>1, <1>3, <2>1 DEF InOrder
    <3>2. Pair(i) < Pair(j) \/ Pair(i) = Pair(j)
      BY <2>1, PairOrder
    <3> QED
      BY <1>3, <1>4, <1>5, <3>1, <3>2
  <2>2. ASSUME NEW i \in Rows, NEW j \in Rows, Pair(i) < Pair(j), j \in Begun(T)
        PROVE  i \in Complete(T)
    <3>1. \E k \in Begun(S) : Pair(k) = Pair(j)
      BY <1>3, <2>2
    <3> QED
      BY <1>3, <1>5, <2>2, <3>1
  <2>3. Begun(T) # {} => AllDone(T, o)
    <3>1. Begun(T) # {} => Begun(S) # {}
      BY <1>3
    <3> QED
      BY <1>1, <3>1 DEF InOrder, AllDone, DoneIn
  <2> QED
    BY <2>1, <2>2, <2>3 DEF InOrder
<1>7. Agree(T)
  BY <1>1, <1>2, <1>3 DEF Agree
<1>8. Halves(T, x, e2)
  <2> SUFFICES ASSUME NEW i \in Complete(T), NEW j \in Rows \ Complete(T), j \in Others(i)
               PROVE  FALSE
    BY DEF Halves
  <2>1. i \in Complete(S) /\ i \notin lost2 /\ i \in Rows /\ Pair(i) = Pair(j)
    BY <1>3 DEF Others
  <2>2. j \notin lost2
    BY <1>4, <2>1
  <2>3. S.rows[j].status = "running"
    BY <1>1, <1>3, <2>1, <2>2 DEF Halves
  <2> QED
    BY <1>3, <2>2, <2>3
<1> QED
  BY <1>6, <1>7, <1>8 DEF Sound, Paired, Finished

-------------------------------------------------------------------------------
(***************************************************************************)
(* The steps of the runner and of the people.                              *)
(***************************************************************************)

\* An experiment keeps its order of steps.
LEMMA SameOrder == ASSUME exp' = exp PROVE Order' = Order
BY DEF Order

\* A runner that is off is anywhere and relies on nothing.
LEMMA AtOff ==
  ASSUME NEW S, NEW x, NEW o, NEW v
  PROVE  At("off", 1, S, x, o, v)
BY DEF At, Positioned, Permitted

\* What the saved state and the one in memory agree about.
LEMMA SameRest ==
  ASSUME NEW S \in State, NEW T \in State, Rest(S) = Rest(T)
  PROVE  /\ S.steps = T.steps /\ S.fp = T.fp /\ S.freeze = T.freeze
         /\ S.failure = T.failure /\ S.rows = T.rows
<1>1. /\ Rest(S).steps = S.steps /\ Rest(S).fp = S.fp /\ Rest(S).freeze = S.freeze
      /\ Rest(S).failure = S.failure /\ Rest(S).rows = S.rows
  BY DEF Rest, State
<1>2. /\ Rest(T).steps = T.steps /\ Rest(T).fp = T.fp /\ Rest(T).freeze = T.freeze
      /\ Rest(T).failure = T.failure /\ Rest(T).rows = T.rows
  BY DEF Rest, State
<1> QED
  BY <1>1, <1>2

\* An approval is not part of what they agree about.
LEMMA ApprovalAside ==
  ASSUME NEW S, NEW a
  PROVE  Rest([S EXCEPT !.approval = a, !.status = "open"]) = Rest(S)
BY DEF Rest

\* What is known of a runner at work.
LEMMA AtWork ==
  ASSUME RunnerInv, pc # "off"
  PROVE  /\ Sound(mem, exp, Order, era, reviewed) /\ Sound(root, exp, Order, era, reviewed)
         /\ At(pc, at, mem, exp, Order, reviewed) /\ rec = {}
         /\ root.failure = mem.failure /\ Rest(mem) = Rest(root)
         /\ exp.kind \in Kinds /\ exp.rows \in Schedules /\ exp.soft \in BOOLEAN
         /\ mem \in State /\ root \in State
         /\ era \in 0 .. MaxRecoveries /\ code \in 1 .. MaxEdits + 1 /\ code # 0
         /\ Order \in Seq(StepNames) /\ Len(Order) \in Nat \ {0} /\ Order[1] = "deploy"
<1>1. /\ Sound(mem, exp, Order, era, reviewed) /\ Sound(root, exp, Order, era, reviewed)
      /\ At(pc, at, mem, exp, Order, reviewed) /\ rec = {} /\ Rest(mem) = Rest(root)
  BY DEF RunnerInv, Recovering
<1>2. mem \in State /\ root \in State
  BY <1>1 DEF Sound
<1>3. root.failure = mem.failure
  BY <1>1, <1>2, SameRest
<1>4. exp.kind \in Kinds /\ exp.rows \in Schedules /\ exp.soft \in BOOLEAN
  BY DEF RunnerInv
<1>5. era \in 0 .. MaxRecoveries /\ code \in 1 .. MaxEdits + 1 /\ code # 0
  BY BoundsAssumption DEF RunnerInv
<1>6. Order \in Seq(StepNames) /\ Len(Order) \in Nat \ {0} /\ Order[1] = "deploy"
  BY <1>4, OrderShape
<1> QED
  BY <1>1, <1>2, <1>3, <1>4, <1>5, <1>6

\* Nothing is attached to a runner that does not run a step or a row.
LEMMA Unattached ==
  ASSUME pc' \notin {"step", "row"}, life' = NoLife, mon' = NoMon
  PROVE  Attached'
BY DEF Attached, Monitored, Running

\* The runner saved its state, or left both as they were.
LEMMA Kept ==
  ASSUME RunnerInv, UNCHANGED <<exp, era, rec, reviewed>>, rec = {},
         code' \in 1 .. MaxEdits + 1, report' \in 0 .. MaxEdits + 1,
         Sound(root', exp, Order, era, reviewed), Sound(mem', exp, Order, era, reviewed),
         Rest(mem') = Rest(root'), At(pc', at', mem', exp, Order, reviewed),
         Attached', Alarmed'
  PROVE  RunnerInv'
<1>1. Order' = Order
  BY SameOrder
<1>2. mem' \in State
  BY DEF Sound
<1>3. Recovering'
  BY DEF Recovering
<1> QED
  BY <1>1, <1>2, <1>3 DEF RunnerInv

\* Without a monitor that has a verdict, an alarm stays on record.
LEMMA Quiet ==
  ASSUME RunnerInv, ~(Monitored /\ mon.verdict), alarm' = alarm, lost => lost',
         root'.failure \in {root.failure, "open"}
  PROVE  Alarmed'
BY DEF RunnerInv, Alarmed

\* The runner, outside a lifecycle, saves S.
LEMMA RunnerSaves ==
  ASSUME RunnerInv, ~(Monitored /\ mon.verdict), rec = {}, NEW S,
         Sound(S, exp, Order, era, reviewed), S.failure \in {root.failure, "open"}, Save(S),
         pc' \notin {"step", "row"}, At(pc', at', S, exp, Order, reviewed),
         life' = NoLife, mon' = NoMon, report' \in 0 .. MaxEdits + 1,
         UNCHANGED <<code, rec, era, exp, alarm, reviewed>>, lost => lost'
  PROVE  RunnerInv'
<1>1. mem' = S /\ root' = S
  BY DEF Save
<1>2. Attached'
  BY Unattached
<1>3. Alarmed'
  BY <1>1, Quiet
<1>4. code' \in 1 .. MaxEdits + 1
  BY DEF RunnerInv
<1> QED
  BY <1>1, <1>2, <1>3, <1>4, Kept

\* The runner, outside a lifecycle, goes on and saves nothing.
LEMMA RunnerGoes ==
  ASSUME RunnerInv, ~(Monitored /\ mon.verdict), pc # "off", UNCHANGED <<mem, root>>,
         pc' \notin {"step", "row"}, At(pc', at', mem, exp, Order, reviewed),
         life' = NoLife, mon' = NoMon, report' \in 0 .. MaxEdits + 1,
         UNCHANGED <<code, rec, era, exp, alarm, lost, reviewed>>
  PROVE  RunnerInv'
<1>1. Attached'
  BY Unattached
<1>2. Alarmed'
  BY Quiet
<1>3. code' \in 1 .. MaxEdits + 1
  BY DEF RunnerInv
<1>4. Rest(mem') = Rest(root')
  BY AtWork
<1>5. Sound(mem', exp, Order, era, reviewed) /\ Sound(root', exp, Order, era, reviewed)
  BY AtWork
<1>6. At(pc', at', mem', exp, Order, reviewed) /\ rec = {}
  BY AtWork
<1> QED
  BY <1>1, <1>2, <1>3, <1>4, <1>5, <1>6, Kept

\* A runner that is not running a step or a row has no lifecycle.
LEMMA NotRunning ==
  ASSUME RunnerInv, ~Running
  PROVE  ~Monitored /\ life = NoLife /\ mon = NoMon
BY DEF RunnerInv, Attached, Monitored

Outcomes == {"running", "failed", "good", "poor", "bad"}
Stepped(S, step, w) == [S EXCEPT !.steps[step] = w]

\* A step that is not done gets a result, or none.
LEMMA StepSaved ==
  ASSUME NEW S, NEW x, NEW o, NEW e, NEW v, NEW k \in 1 .. Len(o), NEW w \in Outcomes,
         Sound(S, x, o, e, v), o \in Seq(StepNames), ~DoneIn(S, o[k]),
         o[k] = "deploy" => w \in {"running", "failed"}
  PROVE  LET T == Stepped(S, o[k], w)
         IN  /\ Sound(T, x, o, e, v) /\ T.steps[o[k]] = w /\ T.fp = S.fp
             /\ T.failure = S.failure /\ T.rows = S.rows
             /\ \A s \in StepNames : s # o[k] => T.steps[s] = S.steps[s]
<1> DEFINE T == Stepped(S, o[k], w)
<1>1. S \in State /\ Named(S, v) /\ o[k] \in StepNames
  BY ElementOfSeq DEF Sound
<1>2. /\ T \in State /\ T.steps[o[k]] = w /\ T.fp = S.fp /\ T.failure = S.failure
      /\ \A s \in StepNames : s # o[k] => T.steps[s] = S.steps[s]
      /\ T.rows = S.rows /\ T.status = S.status /\ T.approval = S.approval
  BY <1>1 DEF State, Outcomes, Stepped
<1> HIDE DEF T
<1>3. Named(T, v)
  <2>1. "deploy" \in StepNames
    BY DEF StepNames
  <2>2. DoneIn(T, "deploy") => DoneIn(S, "deploy")
    BY <1>2, <2>1 DEF DoneIn
  <2> QED
    BY <1>1, <1>2, <2>2 DEF Named
<1>4. x.kind = "paired" => Begun(S) = {}
  BY NothingBegun
<1>5. Sound(T, x, o, e, v)
  <2>1. /\ T.status \in {S.status, "open"} \/ x.kind \notin {"paired", "formal"}
        /\ T.failure = "open" => S.failure = "open"
        /\ x.kind = "paired" /\ Begun(S) # {} => AllDone(T, o)
    BY <1>2, <1>4
  <2> QED
    BY <1>2, <1>3, <2>1, SameRows
<1> QED
  BY <1>2, <1>5 DEF T

\* The step or the row that does not begin, or does not end well.
LEMMA FailureSound ==
  ASSUME RunnerInv, pc \in {"steps", "step", "rows", "row"}, NEW S,
         Sound(S, exp, Order, era, reviewed), S.failure = mem.failure,
         pc \in {"steps", "step"} => at \in 1 .. Len(Order) /\ ~DoneIn(S, Step),
         pc \in {"rows", "row"} => at \in Rows /\ at \notin Complete(S)
  PROVE  /\ Sound(Fails(S), exp, Order, era, reviewed)
         /\ Fails(S).failure = root.failure
         /\ exp.kind = "paired" => Fails(S).rows = S.rows
<1>1. pc # "off"
  OBVIOUS
<1>2. CASE pc \in {"steps", "step"}
  <2>1. Fails(S) = Stepped(S, Order[at], "failed")
    BY <1>2 DEF Fails, Step, Stepped
  <2>2. /\ Order \in Seq(StepNames) /\ root.failure = mem.failure
        /\ at \in 1 .. Len(Order) /\ ~DoneIn(S, Order[at])
    BY <1>1, <1>2, AtWork DEF Step
  <2>3. "failed" \in Outcomes
    BY DEF Outcomes
  <2> QED
    BY <2>1, <2>2, <2>3, StepSaved
<1>3. CASE pc \in {"rows", "row"} /\ exp.kind = "formal"
  <2> DEFINE T == [S EXCEPT !.rows[at].status = "failed", !.status = "open"]
  <2>1. Fails(S) = T
    BY <1>3 DEF Fails
  <2>2. S \in State
    BY DEF Sound
  <2>3. /\ T \in State /\ T.steps = S.steps /\ T.fp = S.fp /\ T.approval = S.approval
        /\ T.status = "open" /\ T.failure = S.failure
    <3> DEFINE g == [S.rows EXCEPT ![at] = [S.rows[at] EXCEPT !.status = "failed"]]
    <3>1. S.rows \in [Rows -> RowRecords]
      BY <2>2 DEF State, RowRecords
    <3>2. \A r \in RowRecords : [r EXCEPT !.status = "failed"] \in RowRecords
      BY DEF RowRecords
    <3>3. at \in Rows => S.rows[at] \in RowRecords
      BY <3>1
    <3>4. at \in Rows => [S.rows[at] EXCEPT !.status = "failed"] \in RowRecords
      BY <3>2, <3>3
    <3>5. g \in [Rows -> RowRecords]
      BY <3>1, <3>4
    <3>6. T = [S EXCEPT !.rows = g, !.status = "open"]
      BY <2>2 DEF State
    <3> HIDE DEF g, T
    <3>7. /\ T.steps = S.steps /\ T.fp = S.fp /\ T.approval = S.approval /\ T.freeze = S.freeze
          /\ T.status = "open" /\ T.failure = S.failure
      BY <2>2, <3>6 DEF State
    <3>8. T \in State
      BY <2>2, <3>5, <3>6 DEF State, RowRecords
    <3> QED
      BY <3>7, <3>8
  <2> HIDE DEF T
  <2>4. Sound(T, exp, Order, era, reviewed)
    BY <1>1, <1>3, <2>3, FormalRowDone
  <2> QED
    BY <1>1, <1>3, <2>1, <2>3, <2>4, AtWork
<1>4. CASE pc \in {"rows", "row"} /\ exp.kind # "formal"
  <2>1. Fails(S) = S
    BY <1>4 DEF Fails
  <2> QED
    BY <1>1, <2>1, AtWork
<1> QED
  BY <1>2, <1>3, <1>4

\* "execute".
LEMMA ExecuteKeeps == ASSUME RunnerInv, Execute PROVE RunnerInv'
<1> DEFINE S == [root EXCEPT !.freeze = IF exp.kind = "formal" THEN code ELSE 0]
<1>1. /\ pc = "off" /\ pc' = "steps" /\ at' = 1 /\ Save(S) /\ UNCHANGED lifecycle
      /\ UNCHANGED <<report, code, rec, kills, era, exp, alarm, lost, reviewed>>
      /\ exp.kind \in {"paired", "formal"} => root.failure # "open"
  BY DEF Execute, Unblocked, Goto, People, history
<1>2. Sound(root, exp, Order, era, reviewed) /\ root \in State /\ exp.kind \in Kinds
  BY DEF RunnerInv, Sound
<1>3. rec = {}
  BY <1>1 DEF RunnerInv, Recovering
<1>4. (IF exp.kind = "formal" THEN code ELSE 0) \in 0 .. MaxEdits + 1
  <2>1. code \in 1 .. MaxEdits + 1
    BY DEF RunnerInv
  <2> QED
    BY <2>1, BoundsAssumption
<1>5. /\ S \in State /\ S.rows = root.rows /\ S.steps = root.steps /\ S.status = root.status
      /\ S.failure = root.failure /\ S.fp = root.fp /\ S.approval = root.approval
  BY <1>2, <1>4 DEF State
<1> HIDE DEF S
<1>6. Sound(S, exp, Order, era, reviewed)
  <2>1. Named(S, reviewed)
    BY <1>2, <1>5 DEF Sound, Named, DoneIn
  <2>2. exp.kind = "paired" /\ Begun(root) # {} => AllDone(S, Order)
    BY <1>2, <1>5 DEF Sound, Paired, InOrder, AllDone, DoneIn
  <2> QED
    BY <1>2, <1>5, <2>1, <2>2, SameRows
<1>7. At("steps", 1, S, exp, Order, reviewed)
  <2>1. Len(Order) \in Nat \ {0}
    BY <1>2, OrderShape
  <2>2. 1 \in 1 .. Len(Order) + 1 /\ 1 .. 1 - 1 = {} /\ ~(1 > 1)
    BY <2>1
  <2>3. Positioned("steps", 1, S, Order)
    BY <2>2 DEF Positioned
  <2>4. Permitted("steps", 1, S, exp, reviewed)
    BY <1>1, <1>5, <2>2 DEF Permitted
  <2> QED
    BY <2>3, <2>4 DEF At
<1>8. ~Running
  BY <1>1 DEF Running
<1>9. ~Monitored /\ life' = NoLife /\ mon' = NoMon
  BY <1>1, <1>8, NotRunning DEF lifecycle
<1>10. report' \in 0 .. MaxEdits + 1
  BY <1>1 DEF RunnerInv
<1> QED
  BY <1>1, <1>3, <1>5, <1>6, <1>7, <1>9, <1>10, RunnerSaves

\* Between steps and rows there is no lifecycle.
LEMMA Between ==
  ASSUME RunnerInv, pc \in {"steps", "check", "rows"}
  PROVE  /\ ~Running /\ ~Monitored /\ life = NoLife /\ mon = NoMon
         /\ ~(Monitored /\ mon.verdict) /\ pc # "off"
         /\ report \in 0 .. MaxEdits + 1
<1>1. ~Running
  BY DEF Running
<1> QED
  BY <1>1, NotRunning DEF RunnerInv

\* The deployment.
LEMMA DeployKeeps == ASSUME RunnerInv, Deploy PROVE RunnerInv'
<1>1. /\ pc = "steps" /\ at = 1 /\ UNCHANGED lifecycle
      /\ UNCHANGED <<report, code, rec, kills, era, exp, alarm, lost, reviewed>>
  BY DEF Deploy, People, history
<1>2. /\ Sound(mem, exp, Order, era, reviewed) /\ rec = {}
      /\ root.failure = mem.failure /\ mem \in State /\ code \in 1 .. MaxEdits + 1 /\ code # 0
      /\ Order \in Seq(StepNames) /\ Len(Order) \in Nat \ {0} /\ Order[1] = "deploy"
      /\ At(pc, at, mem, exp, Order, reviewed)
  BY <1>1, AtWork
<1>3. /\ ~(Monitored /\ mon.verdict) /\ pc # "off" /\ life' = NoLife /\ mon' = NoMon
      /\ report' \in 0 .. MaxEdits + 1
  BY <1>1, Between DEF lifecycle
<1>4. Permitted("steps", 1, mem, exp, reviewed)
  BY <1>1, <1>2 DEF At
<1>5. ASSUME NEW S, DoneIn(S, "deploy"), Sound(S, exp, Order, era, reviewed), S.failure = mem.failure
      PROVE  At("check", 1, S, exp, Order, reviewed)
  <2>1. Positioned("check", 1, S, Order)
    BY <1>5 DEF Positioned
  <2>2. Permitted("check", 1, S, exp, reviewed)
    BY <1>4, <1>5 DEF Permitted, Sound, Named
  <2> QED
    BY <2>1, <2>2 DEF At
<1>6. CASE Cached
  <2>1. DoneIn(mem, "deploy") /\ pc' = "check" /\ at' = 1 /\ UNCHANGED <<mem, root>>
    BY <1>6 DEF Cached, Done, DoneIn, Goto
  <2>2. At(pc', at', mem, exp, Order, reviewed)
    BY <1>2, <1>5, <2>1
  <2> QED
    BY <1>1, <1>3, <2>1, <2>2, RunnerGoes
<1>7. CASE ~Done("deploy") /\ Save([mem EXCEPT !.steps["deploy"] = "good", !.fp = Fingerprint])
           /\ Goto("check", 1)
  <2> DEFINE S == [mem EXCEPT !.steps["deploy"] = "good", !.fp = Fingerprint]
  <2>0. Save(S) /\ pc' = "check" /\ at' = 1 /\ ~DoneIn(mem, Order[1]) /\ 1 \in 1 .. Len(Order)
    BY <1>2, <1>7 DEF Done, DoneIn, Goto
  <2>1. /\ S \in State /\ S.steps["deploy"] = "good" /\ S.fp = code /\ S.approval = mem.approval
        /\ S.rows = mem.rows /\ S.status = mem.status /\ S.failure = mem.failure
    <3>1. code \in 0 .. MaxEdits + 1 /\ "deploy" \in StepNames
      BY <1>2, BoundsAssumption DEF StepNames
    <3> QED
      BY <1>2, <3>1 DEF State, Fingerprint
  <2> HIDE DEF S
  <2>2. exp.kind = "paired" => Begun(mem) = {}
    BY <1>2, <2>0, NothingBegun
  <2>3. Named(S, reviewed)
    BY <1>2, <2>1 DEF Named, Sound
  <2>4. Sound(S, exp, Order, era, reviewed)
    BY <1>2, <2>1, <2>2, <2>3, SameRows
  <2>5. DoneIn(S, "deploy")
    BY <2>1 DEF DoneIn
  <2>6. At(pc', at', S, exp, Order, reviewed)
    BY <1>5, <2>0, <2>1, <2>4, <2>5
  <2> QED
    BY <1>1, <1>2, <1>3, <2>0, <2>1, <2>4, <2>6, RunnerSaves
<1>8. CASE ~Done("deploy") /\ DeployFails
  <2>1. /\ Save(Stepped(mem, Order[1], "failed")) /\ pc' = "off" /\ at' = 1
        /\ ~DoneIn(mem, Order[1]) /\ 1 \in 1 .. Len(Order) /\ "failed" \in Outcomes
    BY <1>2, <1>8 DEF Done, DoneIn, DeployFails, Exits, Goto, Stepped, Outcomes
  <2>2. /\ Sound(Stepped(mem, Order[1], "failed"), exp, Order, era, reviewed)
        /\ Stepped(mem, Order[1], "failed").failure = mem.failure
    BY <1>2, <2>1, StepSaved
  <2>3. At(pc', at', Stepped(mem, Order[1], "failed"), exp, Order, reviewed)
    BY <2>1, AtOff
  <2> QED
    BY <1>1, <1>2, <1>3, <2>1, <2>2, <2>3, RunnerSaves
<1> QED
  BY <1>6, <1>7, <1>8 DEF Deploy

\* The step after the one the runner is at, when the steps so far are done.
LEMMA NextStep ==
  ASSUME NEW S, NEW x, NEW o, NEW v, NEW a \in 1 .. Len(o), Len(o) \in Nat,
         \A k \in 1 .. a : DoneIn(S, o[k]), S.fp # 0,
         x.kind \in {"paired", "formal"} => S.failure # "open"
  PROVE  At("steps", a + 1, S, x, o, v)
<1>1. a + 1 \in 1 .. Len(o) + 1 /\ 1 .. (a + 1) - 1 = 1 .. a
  OBVIOUS
<1>2. Positioned("steps", a + 1, S, o)
  BY <1>1 DEF Positioned
<1>3. Permitted("steps", a + 1, S, x, v)
  BY DEF Permitted
<1> QED
  BY <1>2, <1>3 DEF At

\* The fingerprint.
LEMMA CheckKeeps == ASSUME RunnerInv, CheckFingerprint PROVE RunnerInv'
<1>1. /\ pc = "check" /\ UNCHANGED lifecycle
      /\ UNCHANGED <<report, code, rec, kills, era, exp, alarm, lost, reviewed>>
  BY DEF CheckFingerprint, People, history
<1>2. /\ Sound(mem, exp, Order, era, reviewed) /\ rec = {}
      /\ root.failure = mem.failure /\ mem \in State /\ code \in 1 .. MaxEdits + 1 /\ code # 0
      /\ Order \in Seq(StepNames) /\ Len(Order) \in Nat \ {0} /\ Order[1] = "deploy"
      /\ At(pc, at, mem, exp, Order, reviewed)
  BY <1>1, AtWork
<1>3. /\ ~(Monitored /\ mon.verdict) /\ pc # "off" /\ life' = NoLife /\ mon' = NoMon
      /\ report' \in 0 .. MaxEdits + 1
  BY <1>1, Between DEF lifecycle
<1>4. /\ DoneIn(mem, "deploy") /\ mem.fp # 0
      /\ exp.kind \in {"paired", "formal"} => mem.failure # "open"
  BY <1>1, <1>2 DEF At, Positioned, Permitted
<1>5. ASSUME NEW S, S.steps = mem.steps, S.fp # 0, S.failure = mem.failure
      PROVE  At("steps", 2, S, exp, Order, reviewed)
  <2>1. 1 \in 1 .. Len(Order) /\ \A k \in 1 .. 1 : DoneIn(S, Order[k])
    BY <1>2, <1>4, <1>5 DEF DoneIn
  <2> QED
    BY <1>2, <1>4, <1>5, <2>1, NextStep
<1>6. CASE Goto("steps", 2) /\ UNCHANGED <<mem, root>>
  <2>1. pc' = "steps" /\ at' = 2 /\ UNCHANGED <<mem, root>>
    BY <1>6 DEF Goto
  <2>2. At(pc', at', mem, exp, Order, reviewed)
    BY <1>4, <1>5, <2>1
  <2> QED
    BY <1>1, <1>3, <2>1, <2>2, RunnerGoes
<1>7. CASE /\ Save([mem EXCEPT !.fp = Fingerprint, !.approval = 0, !.status = "open"])
           /\ Goto("steps", 2)
  <2> DEFINE S == [mem EXCEPT !.fp = Fingerprint, !.approval = 0, !.status = "open"]
  <2>0. Save(S) /\ pc' = "steps" /\ at' = 2
    BY <1>7 DEF Goto
  <2>1. /\ S \in State /\ S.steps = mem.steps /\ S.fp = code /\ S.approval = 0
        /\ S.rows = mem.rows /\ S.status = "open" /\ S.failure = mem.failure
    <3>1. code \in 0 .. MaxEdits + 1 /\ 0 \in 0 .. MaxEdits + 1
      BY <1>2, BoundsAssumption
    <3> QED
      BY <1>2, <3>1 DEF State, Fingerprint
  <2> HIDE DEF S
  <2>2. exp.kind = "paired" /\ Begun(mem) # {} => AllDone(S, Order)
    BY <1>2, <2>1 DEF Sound, Paired, InOrder, AllDone, DoneIn
  <2>3. Named(S, reviewed)
    BY <1>2, <2>1 DEF Named
  <2>4. Sound(S, exp, Order, era, reviewed)
    BY <1>2, <2>1, <2>2, <2>3, SameRows
  <2>5. At(pc', at', S, exp, Order, reviewed)
    BY <1>2, <1>5, <2>0, <2>1
  <2> QED
    BY <1>1, <1>2, <1>3, <2>0, <2>1, <2>4, <2>5, RunnerSaves
<1>8. CASE Exits /\ UNCHANGED <<mem, root>>
  <2>1. pc' = "off" /\ at' = 1 /\ UNCHANGED <<mem, root>>
    BY <1>8 DEF Exits, Goto
  <2>2. At(pc', at', mem, exp, Order, reviewed)
    BY <2>1, AtOff
  <2> QED
    BY <1>1, <1>3, <2>1, <2>2, RunnerGoes
<1> QED
  BY <1>6, <1>7, <1>8 DEF CheckFingerprint

\* A step or a row has its treatment.
LEMMA NewlyAttached ==
  ASSUME NEW t, pc' \in {"step", "row"}, at' = at, exp' = exp,
         pc' = "step" => t = TreatmentOf(Step), pc' = "row" => t = exp.rows[at],
         IF t = "baseline" THEN life' = NoLife /\ mon' = NoMon ELSE life' # NoLife
  PROVE  Attached'
<1>1. Step' = Step
  BY SameOrder DEF Step
<1>2. Treatment' = t /\ Running'
  BY <1>1 DEF Treatment, Running, TreatmentOf
<1> QED
  BY <1>2 DEF Attached, Monitored

\* A step or a row begins, or the host is not clean.
LEMMA Launch ==
  ASSUME RunnerInv, pc \in {"steps", "rows"},
         NEW t \in Treatments \cup {"baseline"}, NEW soft \in BOOLEAN, NEW label \in {"step", "row"},
         NEW S, Runs(t, soft, label, S), faults' \in 0 .. MaxFaults,
         UNCHANGED <<report, code, rec, era, exp, alarm, lost, reviewed>>,
         label = "step" => t = TreatmentOf(Step), label = "row" => t = exp.rows[at],
         Sound(S, exp, Order, era, reviewed), S.failure = mem.failure,
         Sound(Fails(S), exp, Order, era, reviewed), Fails(S).failure = root.failure,
         At(label, at, S, exp, Order, reviewed)
  PROVE  RunnerInv'
<1>1. /\ rec = {} /\ root.failure = mem.failure /\ code' \in 1 .. MaxEdits + 1
      /\ ~(Monitored /\ mon.verdict) /\ life = NoLife /\ mon = NoMon
      /\ report' \in 0 .. MaxEdits + 1
  BY AtWork, Between
<1>2. CASE /\ Save(S) /\ Goto(label, at)
           /\ IF t = "baseline" THEN UNCHANGED lifecycle
              ELSE BeginLifecycle(t, exp.kind \in ColdKinds, soft, exp.kind = "formal")
  <2>1. mem' = S /\ root' = S /\ pc' = label /\ at' = at
    BY <1>2 DEF Save, Goto
  <2>2. IF t = "baseline" THEN life' = NoLife /\ mon' = NoMon ELSE life' # NoLife
    <3>1. CASE t = "baseline"
      BY <1>1, <1>2, <3>1 DEF lifecycle
    <3>2. CASE t # "baseline"
      <4>1. BeginLifecycle(t, exp.kind \in ColdKinds, soft, exp.kind = "formal")
        BY <1>2, <3>2
      <4>2. (exp.kind \in ColdKinds) \in BOOLEAN /\ (exp.kind = "formal") \in BOOLEAN /\ t \in Treatments
        BY <3>2
      <4> QED
        BY <3>2, <4>1, <4>2, BegunLife
    <3> QED
      BY <3>1, <3>2
  <2>3. Attached'
    BY <2>1, <2>2, NewlyAttached
  <2>4. Alarmed'
    BY <1>1, <2>1, Quiet
  <2> QED
    BY <1>1, <2>1, <2>3, <2>4, Kept
<1>3. CASE Unclean(S)
  <2>1. /\ Save(Fails(S)) /\ pc' = "off" /\ at' = 1 /\ life' = NoLife /\ mon' = NoMon
    BY <1>1, <1>3 DEF Unclean, Exits, Goto, lifecycle
  <2>2. At(pc', at', Fails(S), exp, Order, reviewed)
    BY <2>1, AtOff
  <2> QED
    BY <1>1, <2>1, <2>2, RunnerSaves
<1> QED
  BY <1>2, <1>3 DEF Runs

\* The gate after a step.
LEMMA GateKeeps == ASSUME RunnerInv, Gate PROVE RunnerInv'
<1>1. /\ pc = "steps" /\ at \in 2 .. Len(Order) /\ DoneIn(mem, Order[at]) /\ UNCHANGED lifecycle
      /\ UNCHANGED <<mem, root, report, code, rec, kills, era, exp, alarm, lost, reviewed>>
  BY DEF Gate, People, history, Done, DoneIn, Step
<1>2. At(pc, at, mem, exp, Order, reviewed) /\ Len(Order) \in Nat
  BY <1>1, AtWork
<1>3. /\ ~(Monitored /\ mon.verdict) /\ pc # "off" /\ life' = NoLife /\ mon' = NoMon
      /\ report' \in 0 .. MaxEdits + 1
  BY <1>1, Between DEF lifecycle
<1>4. CASE Goto("steps", at + 1)
  <2>1. pc' = "steps" /\ at' = at + 1
    BY <1>4 DEF Goto
  <2>2. /\ \A k \in 1 .. at - 1 : DoneIn(mem, Order[k])
        /\ mem.fp # 0 /\ (exp.kind \in {"paired", "formal"} => mem.failure # "open")
    BY <1>1, <1>2 DEF At, Positioned, Permitted
  <2>3. at \in 1 .. Len(Order) /\ \A k \in 1 .. at : k = at \/ k \in 1 .. at - 1
    BY <1>1, <1>2
  <2>4. \A k \in 1 .. at : DoneIn(mem, Order[k])
    BY <1>1, <2>2, <2>3
  <2>5. At(pc', at', mem, exp, Order, reviewed)
    BY <1>2, <2>1, <2>2, <2>3, <2>4, NextStep
  <2> QED
    BY <1>1, <1>3, <2>1, <2>5, RunnerGoes
<1>5. CASE Exits
  <2>1. pc' = "off" /\ at' = 1
    BY <1>5 DEF Exits, Goto
  <2>2. At(pc', at', mem, exp, Order, reviewed)
    BY <2>1, AtOff
  <2> QED
    BY <1>1, <1>3, <2>1, <2>2, RunnerGoes
<1> QED
  BY <1>4, <1>5 DEF Gate

\* Every step has a treatment.
LEMMA StepTreatment ==
  ASSUME NEW s
  PROVE  TreatmentOf(s) \in Treatments \cup {"baseline"}
BY DEF TreatmentOf, Treatments

\* A step begins.
LEMMA BeginStepKeeps == ASSUME RunnerInv, BeginStep, faults \in 0 .. MaxFaults PROVE RunnerInv'
<1> DEFINE S == Stepped(mem, Order[at], "running")
<1>1. /\ pc = "steps" /\ at \in 2 .. Len(Order) /\ ~DoneIn(mem, Order[at])
      /\ Runs(TreatmentOf(Step), exp.soft /\ Step # "prism_compatibility", "step", S)
      /\ UNCHANGED <<faults, report, code, rec, kills, era, exp, alarm, lost, reviewed>>
  BY DEF BeginStep, People, history, Done, DoneIn, Step, Stepped
<1>2. /\ Sound(mem, exp, Order, era, reviewed) /\ rec = {}
      /\ root.failure = mem.failure /\ exp.soft \in BOOLEAN
      /\ Order \in Seq(StepNames) /\ Len(Order) \in Nat \ {0}
      /\ At(pc, at, mem, exp, Order, reviewed)
  BY <1>1, AtWork
<1>3. at \in 1 .. Len(Order) /\ "running" \in Outcomes
  BY <1>1, <1>2 DEF Outcomes
<1>4. /\ Sound(S, exp, Order, era, reviewed) /\ S.steps[Order[at]] = "running"
      /\ S.fp = mem.fp /\ S.failure = mem.failure
      /\ \A s \in StepNames : s # Order[at] => S.steps[s] = mem.steps[s]
  BY <1>1, <1>2, <1>3, StepSaved
<1> HIDE DEF S
<1>5. ~DoneIn(S, Order[at])
  BY <1>4 DEF DoneIn
<1>6. Sound(Fails(S), exp, Order, era, reviewed) /\ Fails(S).failure = root.failure
  BY <1>1, <1>3, <1>4, <1>5, FailureSound DEF Step
<1>7. At("step", at, S, exp, Order, reviewed)
  <2>1. \A k \in 1 .. at - 1 : DoneIn(mem, Order[k])
    BY <1>1, <1>2 DEF At, Positioned
  <2>2. \A k \in 1 .. at - 1 : DoneIn(S, Order[k])
    <3> SUFFICES ASSUME NEW k \in 1 .. at - 1 PROVE DoneIn(S, Order[k])
      OBVIOUS
    <3>1. k \in 1 .. Len(Order)
      BY <1>1, <1>2
    <3>2. Order[k] \in StepNames
      BY <1>2, <3>1, ElementOfSeq
    <3>3. Order[k] # Order[at]
      BY <1>1, <2>1
    <3> QED
      BY <1>4, <2>1, <3>2, <3>3 DEF DoneIn
  <2>3. Positioned("step", at, S, Order)
    BY <1>1, <1>4, <2>2 DEF Positioned
  <2>4. at > 1
    BY <1>1
  <2>5. Permitted("step", at, S, exp, reviewed)
    BY <1>1, <1>2, <1>4, <2>4 DEF At, Permitted
  <2> QED
    BY <2>3, <2>5 DEF At
<1>8. TreatmentOf(Step) \in Treatments \cup {"baseline"}
  BY StepTreatment
<1>9. (exp.soft /\ Step # "prism_compatibility") \in BOOLEAN /\ faults' \in 0 .. MaxFaults
  BY <1>1
<1> QED
  BY <1>1, <1>4, <1>6, <1>7, <1>8, <1>9, Launch

\* After the last step every step is done.
LEMMA StepsOver ==
  ASSUME RunnerInv, pc = "steps", at > Len(Order)
  PROVE  AllDone(mem, Order) /\ mem.fp # 0
<1>1. At(pc, at, mem, exp, Order, reviewed) /\ Len(Order) \in Nat \ {0}
  BY AtWork
<1>2. at \in 1 .. Len(Order) + 1 /\ \A k \in 1 .. at - 1 : DoneIn(mem, Order[k])
  BY <1>1 DEF At, Positioned
<1>3. at - 1 = Len(Order) /\ at > 1
  BY <1>1, <1>2
<1> QED
  BY <1>1, <1>2, <1>3 DEF At, Permitted, AllDone

\* The rows of a paired experiment begin with code that was reviewed.
LEMMA RowsBegin ==
  ASSUME RunnerInv, pc = "steps", at > Len(Order), exp.kind \in {"paired", "formal"},
         exp.kind = "paired" => mem.fp \in reviewed
  PROVE  At("rows", 1, mem, exp, Order, reviewed)
<1>1. AllDone(mem, Order) /\ mem.fp # 0 /\ mem.failure # "open"
  <2>1. At(pc, at, mem, exp, Order, reviewed)
    BY AtWork
  <2> QED
    BY <2>1, StepsOver DEF At, Permitted
<1>2. 1 \in 1 .. 2 * Pairs + 1 /\ \A i \in Rows : ~(i < 1)
  BY BoundsAssumption DEF Rows
<1>3. Positioned("rows", 1, mem, Order)
  BY <1>1, <1>2 DEF Positioned
<1>4. Permitted("rows", 1, mem, exp, reviewed)
  BY <1>1 DEF Permitted
<1> QED
  BY <1>3, <1>4 DEF At

\* A state that gets another status, of an experiment without rows, or "open".
LEMMA StatusSaved ==
  ASSUME NEW S, NEW x, NEW o, NEW e, NEW v, Sound(S, x, o, e, v),
         NEW w, w \in {"open", "complete", "incomplete"},
         w = "open" \/ x.kind \notin {"paired", "formal"}
  PROVE  LET T == [S EXCEPT !.status = w]
         IN  Sound(T, x, o, e, v) /\ T.failure = S.failure
<1> DEFINE T == [S EXCEPT !.status = w]
<1>1. S \in State /\ Named(S, v)
  BY DEF Sound
<1>2. /\ T \in State /\ T.steps = S.steps /\ T.fp = S.fp /\ T.approval = S.approval
      /\ T.rows = S.rows /\ T.status = w /\ T.failure = S.failure
  BY <1>1 DEF State
<1> HIDE DEF T
<1>3. x.kind = "paired" /\ Begun(S) # {} => AllDone(T, o)
  BY <1>2 DEF Sound, Paired, InOrder, AllDone, DoneIn
<1>4. Named(T, v)
  BY <1>1, <1>2 DEF Named, DoneIn
<1>5. Sound(T, x, o, e, v)
  BY <1>2, <1>3, <1>4, SameRows
<1> QED
  BY <1>2, <1>5 DEF T

\* The smoke report.
LEMMA ReviewKeeps == ASSUME RunnerInv, Review PROVE RunnerInv'
<1>1. /\ pc = "steps" /\ at > Len(Order) /\ exp.kind = "paired" /\ UNCHANGED lifecycle
      /\ report' = mem.fp
      /\ UNCHANGED <<code, rec, kills, era, exp, alarm, lost, reviewed>>
  BY DEF Review, People, history
<1>2. /\ Sound(mem, exp, Order, era, reviewed) /\ rec = {} /\ mem \in State
      /\ root.failure = mem.failure
  BY <1>1, AtWork
<1>3. /\ ~(Monitored /\ mon.verdict) /\ pc # "off" /\ life' = NoLife /\ mon' = NoMon
  BY <1>1, Between DEF lifecycle
<1>4. report' \in 0 .. MaxEdits + 1
  BY <1>1, <1>2 DEF State
<1>5. CASE mem.approval = mem.fp /\ Goto("rows", 1) /\ UNCHANGED <<mem, root>>
  <2>1. mem.fp # 0
    BY <1>1, StepsOver
  <2>2. mem.fp \in reviewed
    BY <1>2, <1>5, <2>1 DEF Sound, Named
  <2>3. pc' = "rows" /\ at' = 1 /\ UNCHANGED <<mem, root>>
    BY <1>5 DEF Goto
  <2>4. At(pc', at', mem, exp, Order, reviewed)
    BY <1>1, <2>2, <2>3, RowsBegin
  <2> QED
    BY <1>1, <1>3, <1>4, <2>3, <2>4, RunnerGoes
<1>6. CASE Exits /\ Save([mem EXCEPT !.status = "open"])
  <2> DEFINE S == [mem EXCEPT !.status = "open"]
  <2>1. Sound(S, exp, Order, era, reviewed) /\ S.failure = mem.failure
    BY <1>2, StatusSaved
  <2>2. Save(S) /\ pc' = "off" /\ at' = 1
    BY <1>6 DEF Exits, Goto
  <2> HIDE DEF S
  <2>3. At(pc', at', S, exp, Order, reviewed)
    BY <2>2, AtOff
  <2> QED
    BY <1>1, <1>2, <1>3, <1>4, <2>1, <2>2, <2>3, RunnerSaves
<1> QED
  BY <1>5, <1>6 DEF Review

\* The canary passed.
LEMMA CanaryPassedKeeps == ASSUME RunnerInv, CanaryPassed PROVE RunnerInv'
<1>1. /\ pc = "steps" /\ at > Len(Order) /\ exp.kind = "formal" /\ UNCHANGED lifecycle
      /\ pc' = "rows" /\ at' = 1
      /\ UNCHANGED <<mem, root, report, code, rec, kills, era, exp, alarm, lost, reviewed>>
  BY DEF CanaryPassed, People, history, Goto
<1>2. /\ ~(Monitored /\ mon.verdict) /\ pc # "off" /\ life' = NoLife /\ mon' = NoMon
      /\ report' \in 0 .. MaxEdits + 1
  BY <1>1, Between DEF lifecycle
<1>3. At(pc', at', mem, exp, Order, reviewed)
  BY <1>1, RowsBegin
<1> QED
  BY <1>1, <1>2, <1>3, RunnerGoes

\* The reports of the experiments without rows.
LEMMA StepsReportKeeps == ASSUME RunnerInv, StepsReport PROVE RunnerInv'
<1> DEFINE w == IF Verdict THEN "complete" ELSE "incomplete"
           S == [mem EXCEPT !.status = w]
<1>1. /\ pc = "steps" /\ exp.kind \notin {"paired", "formal"} /\ UNCHANGED lifecycle
      /\ Save(S) /\ pc' = "off" /\ at' = 1
      /\ UNCHANGED <<report, code, rec, kills, era, exp, alarm, lost, reviewed>>
  BY DEF StepsReport, People, history, Exits, Goto
<1>2. Sound(mem, exp, Order, era, reviewed) /\ rec = {} /\ root.failure = mem.failure
  BY <1>1, AtWork
<1>3. /\ ~(Monitored /\ mon.verdict) /\ life' = NoLife /\ mon' = NoMon
      /\ report' \in 0 .. MaxEdits + 1
  BY <1>1, Between DEF lifecycle
<1>4. w \in {"open", "complete", "incomplete"}
  OBVIOUS
<1> HIDE DEF w
<1>5. Sound(S, exp, Order, era, reviewed) /\ S.failure = mem.failure
  BY <1>1, <1>2, <1>4, StatusSaved
<1> HIDE DEF S
<1>6. At(pc', at', S, exp, Order, reviewed)
  BY <1>1, AtOff
<1> QED
  BY <1>1, <1>2, <1>3, <1>5, <1>6, RunnerSaves

\* The placements of a profile disagree.
LEMMA ExportsKeep == ASSUME RunnerInv, ExportsDisagree PROVE RunnerInv'
<1>1. /\ pc = "steps" /\ UNCHANGED lifecycle /\ pc' = "off" /\ at' = 1
      /\ UNCHANGED <<mem, root, report, code, rec, kills, era, exp, alarm, lost, reviewed>>
  BY DEF ExportsDisagree, People, history, Exits, Goto
<1>2. /\ ~(Monitored /\ mon.verdict) /\ pc # "off" /\ life' = NoLife /\ mon' = NoMon
      /\ report' \in 0 .. MaxEdits + 1
  BY <1>1, Between DEF lifecycle
<1>3. At(pc', at', mem, exp, Order, reviewed)
  BY <1>1, AtOff
<1> QED
  BY <1>1, <1>2, <1>3, RunnerGoes

\* A row begins, or was complete.
LEMMA BeginRowKeeps == ASSUME RunnerInv, BeginRow, faults \in 0 .. MaxFaults PROVE RunnerInv'
<1> DEFINE S == [mem EXCEPT !.rows[at] = [Unrun EXCEPT !.status = "running"]]
<1>1. /\ pc = "rows" /\ at \in Rows
      /\ UNCHANGED <<faults, report, code, rec, kills, era, exp, alarm, lost, reviewed>>
  BY DEF BeginRow, People, history
<1>2. /\ Sound(mem, exp, Order, era, reviewed) /\ rec = {} /\ root.failure = mem.failure
      /\ At(pc, at, mem, exp, Order, reviewed) /\ era \in 0 .. MaxRecoveries
      /\ exp.rows \in Schedules /\ mem \in State
  BY <1>1, AtWork
<1>3. /\ ~(Monitored /\ mon.verdict) /\ pc # "off" /\ life = NoLife /\ mon = NoMon
      /\ report' \in 0 .. MaxEdits + 1
  BY <1>1, Between
<1>4. /\ Positioned("rows", at, mem, Order) /\ Permitted("rows", at, mem, exp, reviewed)
      /\ exp.kind \in {"paired", "formal"} /\ mem.failure # "open" /\ mem.fp # 0
      /\ exp.kind = "paired" => mem.fp \in reviewed
  BY <1>1, <1>2 DEF At, Permitted
<1>5. CASE mem.rows[at].status = "complete"
  <2>1. pc' = "rows" /\ at' = at + 1 /\ UNCHANGED <<mem, root>> /\ life' = NoLife /\ mon' = NoMon
    BY <1>3, <1>5 DEF BeginRow, Goto, lifecycle
  <2>2. at + 1 \in 1 .. 2 * Pairs + 1 /\ \A i \in Rows : i < at + 1 => i < at \/ i = at
    BY <1>1, BoundsAssumption DEF Rows
  <2>3. at \in Complete(mem)
    BY <1>1, <1>5 DEF Complete
  <2>4. Positioned("rows", at + 1, mem, Order)
    BY <1>4, <2>2, <2>3 DEF Positioned
  <2>5. Permitted("rows", at + 1, mem, exp, reviewed)
    BY <1>4 DEF Permitted
  <2>6. At(pc', at', mem, exp, Order, reviewed)
    BY <2>1, <2>4, <2>5 DEF At
  <2> QED
    BY <1>1, <1>3, <2>1, <2>6, RunnerGoes
<1>6. CASE mem.rows[at].status # "complete"
  <2>1. Runs(exp.rows[at], FALSE, "row", S)
    BY <1>6 DEF BeginRow
  <2>2. at \notin Complete(mem)
    BY <1>6 DEF Complete
  <2>3. /\ Sound(S, exp, Order, era, reviewed) /\ Positioned("row", at, S, Order)
        /\ Complete(S) = Complete(mem)
    BY <1>1, <1>2, <1>4, <2>2, RowBegun
  <2>4. S.failure = mem.failure /\ S.fp = mem.fp
    BY <1>2 DEF State
  <2> HIDE DEF S
  <2>5. Sound(Fails(S), exp, Order, era, reviewed) /\ Fails(S).failure = root.failure
    BY <1>1, <2>2, <2>3, <2>4, FailureSound
  <2>6. Permitted("row", at, S, exp, reviewed)
    BY <1>4, <2>4 DEF Permitted
  <2>7. At("row", at, S, exp, Order, reviewed)
    BY <2>3, <2>6 DEF At
  <2>8. exp.rows[at] \in Treatments \cup {"baseline"}
    BY <1>1, <1>2 DEF Schedules, Treatments
  <2> QED
    BY <1>1, <2>1, <2>3, <2>4, <2>5, <2>7, <2>8, Launch
<1> QED
  BY <1>5, <1>6

\* The report on the rows.
LEMMA ReportKeeps == ASSUME RunnerInv, Report PROVE RunnerInv'
<1> DEFINE whole == IF exp.kind = "paired" THEN PairedComplete(mem.rows)
                    ELSE FormalComplete(mem.rows)
           w == IF whole THEN "complete" ELSE "incomplete"
           S == [mem EXCEPT !.status = w]
<1>1. /\ pc = "rows" /\ at \notin Rows /\ UNCHANGED lifecycle
      /\ Save(S) /\ pc' = "off" /\ at' = 1
      /\ UNCHANGED <<report, code, rec, kills, era, exp, alarm, lost, reviewed>>
  BY DEF Report, People, history, Exits, Goto
<1>2. /\ Sound(mem, exp, Order, era, reviewed) /\ rec = {} /\ root.failure = mem.failure
      /\ At(pc, at, mem, exp, Order, reviewed) /\ mem \in State /\ exp.rows \in Schedules
  BY <1>1, AtWork
<1>3. /\ ~(Monitored /\ mon.verdict) /\ life' = NoLife /\ mon' = NoMon
      /\ report' \in 0 .. MaxEdits + 1
  BY <1>1, Between DEF lifecycle
<1>4. w \in {"complete", "incomplete"} /\ (w = "complete" => whole)
  OBVIOUS
<1> HIDE DEF w
<1>5. Complete(mem) = Rows /\ exp.kind \in {"paired", "formal"}
  <2>1. /\ at \in 1 .. 2 * Pairs + 1 /\ exp.kind \in {"paired", "formal"}
        /\ \A i \in Rows : i < at => i \in Complete(mem)
    BY <1>1, <1>2 DEF At, Positioned, Permitted
  <2>2. \A i \in Rows : i < at
    BY <1>1, <2>1, BoundsAssumption DEF Rows
  <2> QED
    BY <2>1, <2>2 DEF Complete
<1>6. whole => Counted(mem.rows) = Rows \/ (exp.kind = "paired" /\ Counted(mem.rows) = {})
  BY <1>2, <1>5, PairsCounted, FormalCounted
<1> HIDE DEF whole
<1>7. /\ S \in State /\ S.steps = mem.steps /\ S.fp = mem.fp /\ S.approval = mem.approval
      /\ S.rows = mem.rows /\ S.status = w /\ S.failure = mem.failure
  BY <1>2, <1>4 DEF State
<1> HIDE DEF S
<1>8. Paired(S, exp, Order, era) /\ Complete(S) = Complete(mem) /\ Counted(S.rows) = Counted(mem.rows)
  <2>1. exp.kind = "paired" /\ Begun(mem) # {} => AllDone(S, Order)
    BY <1>2, <1>7 DEF Sound, Paired, InOrder, AllDone, DoneIn
  <2>2. Paired(mem, exp, Order, era)
    BY <1>2 DEF Sound
  <2> QED
    BY <1>7, <2>1, <2>2, SamePairs
<1>9. Finished(S, exp)
  BY <1>4, <1>5, <1>6, <1>7, <1>8 DEF Finished
<1>10. Named(S, reviewed)
  BY <1>2, <1>7 DEF Sound, Named, DoneIn
<1>11. Sound(S, exp, Order, era, reviewed)
  BY <1>7, <1>8, <1>9, <1>10 DEF Sound
<1>12. At(pc', at', S, exp, Order, reviewed)
  BY <1>1, AtOff
<1> QED
  BY <1>1, <1>2, <1>3, <1>7, <1>11, <1>12, RunnerSaves

\* What is known of a runner that runs a step or a row.
LEMMA AtRun ==
  ASSUME RunnerInv, Running
  PROVE  /\ pc # "off" /\ pc \in {"step", "row"}
         /\ pc = "step" => /\ at \in 2 .. Len(Order) /\ at \in 1 .. Len(Order)
                           /\ ~DoneIn(mem, Step) /\ ~DoneIn(mem, Order[at])
                           /\ \A k \in 1 .. at - 1 : DoneIn(mem, Order[k])
         /\ pc = "row" => /\ Positioned("row", at, mem, Order) /\ at \in Rows
                          /\ at \notin Complete(mem) /\ exp.kind \in {"paired", "formal"}
                          /\ exp.kind = "paired" => mem.fp \in reviewed
         /\ mem.fp # 0 /\ (exp.kind \in {"paired", "formal"} => mem.failure # "open")
         /\ Positioned(pc, at, mem, Order)
         /\ Sound(Fails(mem), exp, Order, era, reviewed) /\ Fails(mem).failure = root.failure
         /\ exp.kind = "paired" => Fails(mem).rows = mem.rows
<1>1. pc \in {"step", "row"} /\ pc # "off"
  BY DEF Running
<1>2. At(pc, at, mem, exp, Order, reviewed) /\ Sound(mem, exp, Order, era, reviewed) /\ Len(Order) \in Nat
  BY <1>1, AtWork
<1>3. Positioned(pc, at, mem, Order) /\ Permitted(pc, at, mem, exp, reviewed)
  BY <1>2 DEF At
<1>4. ASSUME pc = "step"
      PROVE  /\ at \in 2 .. Len(Order) /\ at \in 1 .. Len(Order)
             /\ ~DoneIn(mem, Step) /\ ~DoneIn(mem, Order[at])
             /\ \A k \in 1 .. at - 1 : DoneIn(mem, Order[k])
  BY <1>2, <1>3, <1>4 DEF Positioned, DoneIn, Step
<1>5. ASSUME pc = "row"
      PROVE  /\ Positioned("row", at, mem, Order) /\ at \in Rows
             /\ at \notin Complete(mem) /\ exp.kind \in {"paired", "formal"}
             /\ exp.kind = "paired" => mem.fp \in reviewed
  BY <1>3, <1>5 DEF Positioned, Permitted, Complete
<1>6. mem.fp # 0 /\ (exp.kind \in {"paired", "formal"} => mem.failure # "open")
  BY <1>1, <1>3 DEF Permitted
<1>7. /\ Sound(Fails(mem), exp, Order, era, reviewed) /\ Fails(mem).failure = root.failure
      /\ exp.kind = "paired" => Fails(mem).rows = mem.rows
  BY <1>1, <1>2, <1>4, <1>5, FailureSound
<1> QED
  BY <1>1, <1>3, <1>4, <1>5, <1>6, <1>7

\* A lifecycle ends, and S is saved.
LEMMA LifecycleSaves ==
  ASSUME RunnerInv, Running, NEW S, Save(S), EndLifecycle,
         Sound(S, exp, Order, era, reviewed),
         pc' \notin {"step", "row"}, At(pc', at', S, exp, Order, reviewed),
         UNCHANGED <<report, code, rec, era, exp, reviewed>>,
         Alarmed'
  PROVE  RunnerInv'
<1>1. mem' = S /\ root' = S /\ life' = NoLife /\ mon' = NoMon
  BY DEF Save, EndLifecycle
<1>2. Attached'
  BY <1>1, Unattached
<1>3. rec = {} /\ code' \in 1 .. MaxEdits + 1 /\ report' \in 0 .. MaxEdits + 1
  <2>1. pc # "off"
    BY DEF Running
  <2>2. report \in 0 .. MaxEdits + 1
    BY DEF RunnerInv
  <2> QED
    BY <2>1, <2>2, AtWork
<1> QED
  BY <1>1, <1>2, <1>3, Kept

\* A lifecycle ends with an exception that is no hard failure.
LEMMA RaisesKeep ==
  ASSUME RunnerInv, Running, Raises, ~(Monitored /\ mon.verdict) \/ lost', lost => lost',
         UNCHANGED <<report, code, rec, era, exp, reviewed, alarm>>
  PROVE  RunnerInv'
<1>1. Save(Fails(mem)) /\ pc' = "off" /\ at' = 1 /\ EndLifecycle
  BY DEF Raises, Exits, Goto
<1>2. Sound(Fails(mem), exp, Order, era, reviewed) /\ Fails(mem).failure = root.failure
  BY AtRun
<1>3. At(pc', at', Fails(mem), exp, Order, reviewed)
  BY <1>1, AtOff
<1>4. Alarmed'
  <2>1. root'.failure = root.failure
    BY <1>1, <1>2 DEF Save
  <2> QED
    BY <2>1 DEF RunnerInv, Alarmed
<1> QED
  BY <1>1, <1>2, <1>3, <1>4, LifecycleSaves

\* A hard failure is saved.
LEMMA HardFailsKeeps == ASSUME RunnerInv, HardFails PROVE RunnerInv'
<1> DEFINE F == Fails(mem)
           S == [F EXCEPT !.failure = "open"]
<1>1. /\ Running /\ Save(S) /\ pc' = "off" /\ at' = 1 /\ EndLifecycle
      /\ UNCHANGED <<report, code, rec, kills, era, exp, lost, reviewed>>
  BY DEF HardFails, Over, Exits, Goto, Aside, People
<1>2. /\ Sound(mem, exp, Order, era, reviewed) /\ Len(Order) \in Nat
      /\ pc \in {"step", "row"} /\ Positioned(pc, at, mem, Order)
      /\ Sound(F, exp, Order, era, reviewed) /\ (exp.kind = "paired" => F.rows = mem.rows)
  BY <1>1, AtRun, AtWork
<1> HIDE DEF F
<1>3. /\ S \in State /\ S.steps = F.steps /\ S.fp = F.fp /\ S.approval = F.approval
      /\ S.rows = F.rows /\ S.status = F.status /\ S.failure = "open"
  BY <1>2 DEF State, Sound
<1> HIDE DEF S
<1>4. ASSUME exp.kind = "paired", NEW i \in Complete(F), NEW j \in Rows \ Complete(F), j \in Others(i)
      PROVE  F.rows[j].status = "running"
  <2>1. F.rows = mem.rows /\ Complete(F) = Complete(mem)
    BY <1>2, <1>4 DEF Complete
  <2> QED
    BY <1>2, <1>4, <2>1, HalfRunning
<1>5. Sound(S, exp, Order, era, reviewed)
  <2>1. Finished(F, exp) /\ Named(F, reviewed) /\ Paired(F, exp, Order, era)
    BY <1>2 DEF Sound
  <2>2. exp.kind = "paired" /\ Begun(F) # {} => AllDone(S, Order)
    BY <1>3, <2>1 DEF Paired, InOrder, AllDone, DoneIn
  <2>3. Named(S, reviewed)
    BY <1>3, <2>1 DEF Named, DoneIn
  <2>4. CASE exp.kind = "paired"
    BY <1>2, <1>3, <1>4, <2>2, <2>3, <2>4, SameRows
  <2>5. CASE exp.kind # "paired"
    <3>1. Complete(S) = Complete(F)
      BY <1>3 DEF Complete
    <3> QED
      BY <1>3, <2>1, <2>3, <2>5, <3>1 DEF Sound, Paired, Finished
  <2> QED
    BY <2>4, <2>5
<1>6. At(pc', at', S, exp, Order, reviewed)
  BY <1>1, AtOff
<1>7. Alarmed'
  BY <1>1, <1>3 DEF Alarmed, Save
<1> QED
  BY <1>1, <1>5, <1>6, <1>7, LifecycleSaves

\* What a lifecycle with evidence has no verdict about.
LEMMA Unalarmed ==
  ASSUME RunnerInv, Evidence, alarm' = alarm, lost' = lost, root'.failure = mem.failure, pc # "off"
  PROVE  Alarmed'
<1>1. ~(Monitored /\ mon.verdict) /\ root.failure = mem.failure
  BY AtWork DEF Evidence
<1> QED
  BY <1>1, Quiet

\* The results of a step.
LEMMA ResultTypes ==
  /\ Results \subseteq {"good", "poor", "bad"} /\ PlanHealth \subseteq {"good", "poor", "bad"}
<1>1. RuntimeHealth \subseteq {"good", "poor"} /\ PlanHealth \subseteq {"good", "poor", "bad"}
  BY DEF RuntimeHealth, PlanHealth, Judged
<1>2. ProfileValidation \subseteq {"good", "poor"} /\ DiagnosticReport \subseteq {"good", "poor"}
  BY DEF ProfileValidation, DiagnosticReport, Judged
<1> QED
  BY <1>1, <1>2 DEF Results

\* A step gets its result.
LEMMA ResultSaved ==
  ASSUME RunnerInv, pc = "step", NEW w \in {"good", "poor", "bad"}
  PROVE  LET S == [mem EXCEPT !.steps[Step] = w]
         IN  /\ Sound(S, exp, Order, era, reviewed) /\ S.failure = mem.failure
             /\ At("steps", at, S, exp, Order, reviewed)
<1> DEFINE S == Stepped(mem, Order[at], w)
<1>1. Running
  BY DEF Running
<1>2. /\ at \in 2 .. Len(Order) /\ at \in 1 .. Len(Order) /\ ~DoneIn(mem, Order[at])
      /\ \A k \in 1 .. at - 1 : DoneIn(mem, Order[k])
      /\ mem.fp # 0 /\ (exp.kind \in {"paired", "formal"} => mem.failure # "open")
  BY <1>1, AtRun
<1>3. /\ Sound(mem, exp, Order, era, reviewed) /\ Order \in Seq(StepNames)
      /\ Len(Order) \in Nat /\ Order[1] = "deploy"
  BY AtWork
<1>4. w \in Outcomes
  BY DEF Outcomes
<1>5. Order[at] # "deploy"
  <2>1. 1 \in 1 .. at - 1
    BY <1>2, <1>3
  <2> QED
    BY <1>2, <1>3, <2>1
<1>6. /\ Sound(S, exp, Order, era, reviewed) /\ S.fp = mem.fp /\ S.failure = mem.failure
      /\ \A s \in StepNames : s # Order[at] => S.steps[s] = mem.steps[s]
  BY <1>2, <1>3, <1>4, <1>5, StepSaved
<1> HIDE DEF S
<1>7. \A k \in 1 .. at - 1 : DoneIn(S, Order[k])
  <2> SUFFICES ASSUME NEW k \in 1 .. at - 1 PROVE DoneIn(S, Order[k])
    OBVIOUS
  <2>1. k \in 1 .. Len(Order)
    BY <1>2, <1>3
  <2>2. Order[k] \in StepNames
    BY <1>3, <2>1, ElementOfSeq
  <2>3. Order[k] # Order[at]
    BY <1>2
  <2> QED
    BY <1>2, <1>6, <2>2, <2>3 DEF DoneIn
<1>8. at \in 1 .. Len(Order) + 1
  BY <1>2, <1>3
<1>9. Positioned("steps", at, S, Order)
  BY <1>7, <1>8 DEF Positioned
<1>10. Permitted("steps", at, S, exp, reviewed)
  BY <1>2, <1>6 DEF Permitted
<1>11. At("steps", at, S, exp, Order, reviewed)
  BY <1>9, <1>10 DEF At
<1>12. S = [mem EXCEPT !.steps[Step] = w]
  BY DEF S, Stepped, Step
<1> QED
  BY <1>6, <1>11, <1>12

\* A step completes.
LEMMA StepCompletesKeeps == ASSUME RunnerInv, StepCompletes PROVE RunnerInv'
<1>1. /\ pc = "step" /\ Running /\ Evidence /\ EndLifecycle /\ pc' = "steps" /\ at' = at
      /\ UNCHANGED <<report, code, rec, kills, era, exp, alarm, lost, reviewed>>
  BY DEF StepCompletes, Over, Aside, People, history, Goto
<1>2. PICK w \in Results : Save([mem EXCEPT !.steps[Step] = w])
  BY DEF StepCompletes
<1>3. w \in {"good", "poor", "bad"}
  BY ResultTypes
<1> DEFINE S == [mem EXCEPT !.steps[Step] = w]
<1>4. /\ Sound(S, exp, Order, era, reviewed) /\ S.failure = mem.failure
      /\ At("steps", at, S, exp, Order, reviewed)
  BY <1>1, <1>3, ResultSaved
<1>5. Save(S)
  BY <1>2
<1> HIDE DEF S
<1>6. Alarmed'
  BY <1>1, <1>4, <1>5, Unalarmed DEF Save
<1> QED
  BY <1>1, <1>4, <1>5, <1>6, LifecycleSaves

\* The canary of a formal experiment completes, or failed.
LEMMA CanaryCompletesKeeps == ASSUME RunnerInv, CanaryCompletes PROVE RunnerInv'
<1>1. /\ pc = "step" /\ Running /\ Evidence /\ EndLifecycle
      /\ UNCHANGED <<report, code, rec, kills, era, exp, alarm, lost, reviewed>>
  BY DEF CanaryCompletes, Over, Aside, People, history
<1>2. CASE Save([mem EXCEPT !.steps[Step] = "good"]) /\ Goto("steps", at)
  <2> DEFINE S == [mem EXCEPT !.steps[Step] = "good"]
  <2>1. /\ Sound(S, exp, Order, era, reviewed) /\ S.failure = mem.failure
        /\ At("steps", at, S, exp, Order, reviewed)
    BY <1>1, ResultSaved
  <2>2. Save(S) /\ pc' = "steps" /\ at' = at
    BY <1>2 DEF Goto
  <2> HIDE DEF S
  <2>3. Alarmed'
    BY <1>1, <2>1, <2>2, Unalarmed DEF Save
  <2> QED
    BY <1>1, <2>1, <2>2, <2>3, LifecycleSaves
<1>3. CASE Save(Fails(mem)) /\ Exits
  <2>1. Raises /\ ~(Monitored /\ mon.verdict)
    BY <1>1, <1>3 DEF Raises, Evidence
  <2> QED
    BY <1>1, <2>1, RaisesKeep
<1> QED
  BY <1>2, <1>3 DEF CanaryCompletes

\* Where the runner is after a row.
LEMMA AfterRow ==
  ASSUME RunnerInv, pc = "row", NEW S, S.failure = mem.failure, S.fp = mem.fp,
         Positioned("rows", at + 1, S, Order)
  PROVE  At("rows", at + 1, S, exp, Order, reviewed)
<1>1. Running
  BY DEF Running
<1>2. Permitted("rows", at + 1, S, exp, reviewed)
  BY <1>1, AtRun DEF Permitted
<1> QED
  BY <1>2 DEF At

\* A row of a paired experiment completes.
LEMMA RowCompletesKeeps == ASSUME RunnerInv, RowCompletes PROVE RunnerInv'
<1>1. /\ pc = "row" /\ exp.kind = "paired" /\ Running /\ Evidence /\ EndLifecycle
      /\ pc' = "rows" /\ at' = at + 1
      /\ UNCHANGED <<report, code, rec, kills, era, exp, alarm, lost, reviewed>>
  BY DEF RowCompletes, Over, Aside, People, history, Goto
<1>2. PICK valid \in BOOLEAN : (Treatment = "baseline" => valid)
                               /\ Save([mem EXCEPT !.rows = Completed(at, valid)])
  BY DEF RowCompletes
<1>3. exp.rows[at] = "baseline" => valid
  BY <1>1, <1>2 DEF Treatment
<1>4. /\ Sound(mem, exp, Order, era, reviewed) /\ exp.rows \in Schedules
      /\ era \in 0 .. MaxRecoveries /\ mem \in State
      /\ Positioned("row", at, mem, Order) /\ at \in Rows /\ mem.failure # "open"
  BY <1>1, AtRun, AtWork
<1> DEFINE f == Completed(at, valid)
           spoiled == \E j \in Others(at) :
                        /\ exp.rows[j] = "active" /\ mem.rows[j].status = "complete"
                        /\ ~mem.rows[j].valid
           done == [status |-> "complete", valid |-> valid /\ ~spoiled, era |-> era]
           S == [mem EXCEPT !.rows = f]
<1>5. /\ f[at] = done
      /\ \A j \in Rows : j # at =>
           f[j] = IF j \in Others(at) /\ exp.rows[at] = "active" /\ ~valid
                  THEN [mem.rows[j] EXCEPT !.valid = FALSE] ELSE mem.rows[j]
  BY <1>4 DEF Completed
<1>6. done \in RowRecords /\ done.status = "complete" /\ done.era = era
      /\ done.valid = (valid /\ ~spoiled)
  <2>1. (valid /\ ~spoiled) \in BOOLEAN
    OBVIOUS
  <2> HIDE DEF spoiled
  <2> QED
    BY <1>4, <2>1 DEF RowRecords
<1> HIDE DEF done
<1>7. ASSUME NEW j \in Rows, j # at
      PROVE  /\ f[j] \in RowRecords
             /\ f[j].status = mem.rows[j].status /\ f[j].era = mem.rows[j].era
             /\ f[j].valid = (mem.rows[j].valid
                              /\ ~(j \in Others(at) /\ exp.rows[at] = "active" /\ ~valid))
  <2>0. mem.rows[j] \in RowRecords
    BY <1>4 DEF State, RowRecords
  <2>1. CASE j \in Others(at) /\ exp.rows[at] = "active" /\ ~valid
    <3>1. f[j] = [mem.rows[j] EXCEPT !.valid = FALSE]
      BY <1>5, <1>7, <2>1
    <3> HIDE DEF f
    <3> QED
      BY <2>0, <2>1, <3>1 DEF RowRecords
  <2>2. CASE ~(j \in Others(at) /\ exp.rows[at] = "active" /\ ~valid)
    <3>1. f[j] = mem.rows[j]
      BY <1>5, <1>7, <2>2
    <3>2. mem.rows[j].valid \in BOOLEAN
      BY <2>0 DEF RowRecords
    <3> HIDE DEF f
    <3> QED
      BY <2>0, <2>2, <3>1, <3>2
  <2> QED
    BY <2>1, <2>2
<1>8. f \in [Rows -> RowRecords]
  <2>1. f = [j \in Rows |-> f[j]]
    BY DEF Completed
  <2>2. \A j \in Rows : f[j] \in RowRecords
    BY <1>5, <1>6, <1>7
  <2> HIDE DEF f
  <2> QED
    BY <2>1, <2>2
<1> HIDE DEF f
<1>9. Sound(S, exp, Order, era, reviewed) /\ Positioned("rows", at + 1, S, Order)
  BY <1>1, <1>3, <1>4, <1>5, <1>6, <1>7, <1>8, PairedRowDone
<1>10. S.failure = mem.failure /\ S.fp = mem.fp /\ Save(S)
  <2>1. S.failure = mem.failure /\ S.fp = mem.fp
    BY <1>4 DEF State
  <2>2. Save(S)
    BY <1>2 DEF f
  <2> QED
    BY <2>1, <2>2
<1> HIDE DEF S
<1>11. At(pc', at', S, exp, Order, reviewed)
  BY <1>1, <1>9, <1>10, AfterRow
<1>12. Alarmed'
  BY <1>1, <1>10, Unalarmed DEF Save
<1> QED
  BY <1>1, <1>9, <1>10, <1>11, <1>12, LifecycleSaves

\* A row of a formal experiment completes.
LEMMA FormalRowCompletesKeeps == ASSUME RunnerInv, FormalRowCompletes PROVE RunnerInv'
<1>1. /\ pc = "row" /\ exp.kind = "formal" /\ Running /\ Evidence /\ EndLifecycle
      /\ UNCHANGED <<report, code, rec, kills, era, exp, alarm, lost, reviewed>>
  <2>1. pc = "row" /\ exp.kind = "formal" /\ Over /\ UNCHANGED <<Aside, history>>
    BY DEF FormalRowCompletes
  <2>2. Running /\ Evidence /\ EndLifecycle
    BY <2>1 DEF FormalRowCompletes, Over
  <2>3. UNCHANGED <<report, code, rec, kills, era, exp, alarm, lost, reviewed>>
    BY <2>1 DEF Aside, People, history
  <2> QED
    BY <2>1, <2>2, <2>3
<1>2. PICK valid \in BOOLEAN, w \in {"open", mem.status} :
        LET f == [mem.rows EXCEPT ![at] = [status |-> "complete", valid |-> valid, era |-> era]]
        IN  /\ Save([mem EXCEPT !.rows = f, !.status = w])
            /\ Exits \/ Goto("rows", at + 1)
  BY DEF FormalRowCompletes
<1>3. /\ Sound(mem, exp, Order, era, reviewed) /\ era \in 0 .. MaxRecoveries /\ mem \in State
      /\ Positioned("row", at, mem, Order) /\ at \in Rows /\ at \notin Complete(mem)
  BY <1>1, AtRun, AtWork
<1> DEFINE r == [status |-> "complete", valid |-> valid, era |-> era]
           S == [mem EXCEPT !.rows = [mem.rows EXCEPT ![at] = r], !.status = w]
<1>4. r \in RowRecords /\ r.status = "complete"
  BY <1>3 DEF RowRecords
<1> HIDE DEF r
<1>5. /\ S \in State /\ S.steps = mem.steps /\ S.fp = mem.fp /\ S.approval = mem.approval
      /\ S.status = w /\ S.failure = mem.failure
      /\ S.rows[at].status = "complete"
      /\ \A j \in Rows : j # at => S.rows[j].status = mem.rows[j].status
  BY <1>3, <1>4 DEF State, RowRecords
<1>6. Save(S) /\ (Exits \/ Goto("rows", at + 1))
  BY <1>2 DEF r
<1> HIDE DEF S
<1>7. Sound(S, exp, Order, era, reviewed)
  <2>1. mem.rows[at].status # "complete"
    BY <1>3 DEF Complete
  <2> QED
    BY <1>1, <1>3, <1>5, <2>1, FormalRowDone
<1>8. Positioned("rows", at + 1, S, Order)
  BY <1>3, <1>5, RowDone
<1>9. pc' \notin {"step", "row"} /\ At(pc', at', S, exp, Order, reviewed)
  <2>1. CASE Exits
    BY <2>1, AtOff DEF Exits, Goto
  <2>2. CASE Goto("rows", at + 1)
    BY <1>1, <1>5, <1>8, <2>2, AfterRow DEF Goto
  <2> QED
    BY <1>6, <2>1, <2>2
<1>10. Alarmed'
  BY <1>1, <1>5, <1>6, Unalarmed DEF Save
<1> QED
  BY <1>1, <1>6, <1>7, <1>9, <1>10, LifecycleSaves

\* The monitor, the benchmark and the target: the runner waits.
LEMMA LifecycleStepsKeep == ASSUME RunnerInv, LifeInv, LifecycleSteps PROVE RunnerInv' /\ LifeInv'
<1>1. /\ UNCHANGED <<exp, root, mem, pc, at, code, report, rec, kills, era, lost, reviewed>>
      /\ Monitored /\ alarm' = (alarm \/ mon'.verdict)
      /\ Monitor \/ Benchmark \/ Target
  BY DEF LifecycleSteps, MonitorSteps, BenchmarkSteps, TargetSteps, Beside, experiment
<1>2. LifeInv' /\ (mon.verdict => mon'.verdict)
  <2>1. CASE Monitor
    BY <2>1, MonitorStep
  <2>2. CASE Benchmark
    <3>1. mon' = mon
      BY <2>2 DEF Benchmark, Boot, Call, Answered, Aborts, Ends
    <3> QED
      BY <2>2, <3>1, BenchmarkStep
  <2>3. CASE Target
    <3>1. mon' = mon
      BY <2>3 DEF Target, Degrades, Improves
    <3> QED
      BY <2>3, <3>1, TargetStep
  <2> QED
    BY <1>1, <2>1, <2>2, <2>3
<1>3. life' = life
  BY <1>1 DEF Monitor, Poll, Hook, HookRaises, HookRefuses, HookAccepts, HookPauses, HookAborts,
              Respond, StatusFails, StatusPasses, StatusRaises, Reap,
              Benchmark, Boot, Call, Answered, Aborts, Ends, Target, Degrades, Improves
<1>4. Monitored'
  <2>1. Step' = Step
    BY <1>1, SameOrder DEF Step
  <2> QED
    BY <1>1, <2>1 DEF Monitored, Running, Treatment, TreatmentOf
<1>5. Attached'
  BY <1>1, <1>3, <1>4 DEF Attached, RunnerInv
<1>6. Alarmed'
  BY <1>1, <1>2, <1>4 DEF Alarmed, RunnerInv
<1>7. Order' = Order
  BY <1>1, SameOrder
<1>8. Recovering'
  BY <1>1 DEF Recovering, RunnerInv
<1>9. RunnerInv'
  BY <1>1, <1>5, <1>6, <1>7, <1>8 DEF RunnerInv
<1> QED
  BY <1>2, <1>9

\* The people leave the lifecycle alone, or end it.
LEMMA KillKeeps == ASSUME RunnerInv, Kill PROVE RunnerInv'
<1>1. /\ pc # "off" /\ pc' = "off" /\ at' = 1 /\ life' = NoLife /\ mon' = NoMon
      /\ lost' = (lost \/ mon.verdict)
      /\ UNCHANGED <<exp, root, mem, code, report, rec, era, alarm, reviewed>>
  BY DEF Kill, Exits, Goto, EndLifecycle
<1>2. Attached'
  BY <1>1, Unattached
<1>3. Alarmed'
  BY <1>1 DEF Alarmed, RunnerInv
<1>4. At(pc', at', mem', exp, Order, reviewed)
  BY <1>1, AtOff
<1>5. rec = {} /\ Sound(root', exp, Order, era, reviewed) /\ Sound(mem', exp, Order, era, reviewed)
      /\ Rest(mem') = Rest(root')
  BY <1>1, AtWork
<1>6. code' \in 1 .. MaxEdits + 1 /\ report' \in 0 .. MaxEdits + 1
  BY <1>1 DEF RunnerInv
<1> QED
  BY <1>1, <1>2, <1>3, <1>4, <1>5, <1>6, Kept

\* Somebody edits the code.
LEMMA EditKeeps == ASSUME RunnerInv, Edit PROVE RunnerInv'
<1>1. /\ ~Running /\ code <= MaxEdits /\ code' = code + 1 /\ UNCHANGED lifecycle
      /\ UNCHANGED <<exp, root, mem, pc, at, report, rec, kills, era, alarm, lost, reviewed>>
  BY DEF Edit, history
<1>2. code' \in 1 .. MaxEdits + 1
  <2>1. code \in 1 .. MaxEdits + 1
    BY DEF RunnerInv
  <2> QED
    BY <1>1, <2>1, BoundsAssumption
<1>3. life' = life /\ mon' = mon /\ life = NoLife /\ mon = NoMon /\ ~Monitored
  BY <1>1, NotRunning DEF lifecycle
<1>4. Attached' /\ Alarmed'
  <2>1. pc' \notin {"step", "row"}
    BY <1>1 DEF Running
  <2>2. Alarmed'
    BY <1>1, <1>3, Quiet
  <2> QED
    BY <1>3, <2>1, <2>2, Unattached
<1>5. Order' = Order
  BY <1>1, SameOrder
<1>6. Recovering'
  BY <1>1 DEF Recovering, RunnerInv
<1> QED
  BY <1>1, <1>2, <1>4, <1>5, <1>6 DEF RunnerInv

\* What was reviewed stays reviewed.
LEMMA StillReviewed ==
  ASSUME NEW S, NEW x, NEW o, NEW e, NEW v, NEW w, v \subseteq w, NEW p, NEW a
  PROVE  /\ Named(S, v) => Named(S, w)
         /\ Sound(S, x, o, e, v) => Sound(S, x, o, e, w)
         /\ At(p, a, S, x, o, v) => At(p, a, S, x, o, w)
<1>1. Named(S, v) => Named(S, w)
  BY DEF Named
<1>2. Permitted(p, a, S, x, v) => Permitted(p, a, S, x, w)
  BY DEF Permitted
<1> QED
  BY <1>1, <1>2 DEF Sound, At

\* Somebody approves the report.
LEMMA ApproveKeeps == ASSUME RunnerInv, Approve PROVE RunnerInv'
<1> DEFINE S == [root EXCEPT !.approval = root.fp, !.status = "open"]
           w == reviewed \cup {report}
<1>1. /\ ~Running /\ report = root.fp /\ root' = S /\ reviewed' = w /\ UNCHANGED lifecycle
      /\ UNCHANGED <<exp, mem, pc, at, code, report, rec, kills, era, alarm, lost>>
  BY DEF Approve
<1>2. Sound(root, exp, Order, era, reviewed) /\ root \in State
  BY DEF RunnerInv, Sound
<1>3. /\ S \in State /\ S.steps = root.steps /\ S.fp = root.fp /\ S.approval = root.fp
      /\ S.rows = root.rows /\ S.status = "open" /\ S.failure = root.failure
  BY <1>2 DEF State
<1>4. Rest(S) = Rest(root)
  BY ApprovalAside
<1>5. Sound(S, exp, Order, era, w)
  <2>1. Named(S, w)
    BY <1>1, <1>2, <1>3 DEF Named, Sound, DoneIn
  <2>2. exp.kind = "paired" /\ Begun(root) # {} => AllDone(S, Order)
    BY <1>2, <1>3 DEF Sound, Paired, InOrder, AllDone, DoneIn
  <2> HIDE DEF S
  <2> QED
    BY <1>2, <1>3, <2>1, <2>2, SameRows
<1>6. reviewed \subseteq w
  OBVIOUS
<1> HIDE DEF S, w
<1>7. life' = life /\ mon' = mon /\ life = NoLife /\ mon = NoMon /\ ~Monitored
  BY <1>1, NotRunning DEF lifecycle
<1>8. Attached' /\ Alarmed'
  <2>1. pc' \notin {"step", "row"}
    BY <1>1 DEF Running
  <2>2. Alarmed'
    BY <1>1, <1>3, <1>7, Quiet
  <2> QED
    BY <1>7, <2>1, <2>2, Unattached
<1>9. Order' = Order
  BY <1>1, SameOrder
<1>10. Recovering'
  <2>1. Recovering
    BY DEF RunnerInv
  <2>2. \A T : Named(T, reviewed) => Named(T, w)
    BY <1>6 DEF Named
  <2> QED
    BY <1>1, <1>3, <1>4, <2>1, <2>2 DEF Recovering
<1>11. pc # "off" => Sound(mem, exp, Order, era, w) /\ Rest(mem) = Rest(S)
  BY <1>4, <1>6, StillReviewed DEF RunnerInv
<1>12. At(pc, at, mem, exp, Order, w)
  BY <1>6, StillReviewed DEF RunnerInv
<1> QED
  BY <1>1, <1>5, <1>8, <1>9, <1>10, <1>11, <1>12 DEF RunnerInv

\* What the steps of a recovery leave alone.
LEMMA RecoveryLeaves ==
  ASSUME RunnerInv, ~Running, UNCHANGED lifecycle, pc' = pc
  PROVE  Attached' /\ ~Monitored'
<1>1. life' = NoLife /\ mon' = NoMon /\ pc' \notin {"step", "row"}
  BY NotRunning DEF lifecycle, Running
<1> QED
  BY <1>1, Unattached DEF Monitored, Running

\* A recovery begins, or comes to nothing.
LEMMA RecoverReadsKeeps == ASSUME RunnerInv, RecoverReads \/ RecoverFails PROVE RunnerInv'
<1>1. /\ UNCHANGED lifecycle
      /\ UNCHANGED <<exp, root, mem, pc, at, code, report, kills, era, alarm, lost, reviewed>>
  BY DEF RecoverReads, RecoverFails, history
<1>2. /\ rec' = {} \/ rec' = {root}
      /\ rec' # {} => exp.kind = "paired" /\ root.failure = "open" /\ era < MaxRecoveries
  BY DEF RecoverReads, RecoverFails
<1>3. pc = "off"
  <2>1. CASE RecoverReads
    <3>1. exp.kind = "paired" /\ root.failure = "open"
      BY <2>1 DEF RecoverReads
    <3>2. pc # "off" => mem.failure # "open" /\ root.failure = mem.failure
      BY <3>1, AtWork DEF At, Permitted
    <3> QED
      BY <3>1, <3>2
  <2>2. CASE RecoverFails
    BY <2>2 DEF RecoverFails, RunnerInv, Recovering
  <2> QED
    BY <2>1, <2>2
<1>4. ~Running
  BY <1>3 DEF Running
<1>5. Attached'
  BY <1>1, <1>4, RecoveryLeaves
<1>6. Alarmed'
  BY <1>1, <1>4, NotRunning, Quiet
<1>7. Order' = Order
  BY <1>1, SameOrder
<1>8. Recovering'
  <2>1. root \in State /\ Named(root, reviewed)
    BY DEF RunnerInv, Sound
  <2> QED
    BY <1>1, <1>2, <1>3, <2>1 DEF Recovering
<1> QED
  BY <1>1, <1>5, <1>6, <1>7, <1>8 DEF RunnerInv

\* A recovery ends.
LEMMA RecoverWritesKeeps == ASSUME RunnerInv, RecoverWrites PROVE RunnerInv'
<1>1. /\ rec # {} /\ rec' = {} /\ era' = era + 1 /\ alarm' = FALSE /\ lost' = FALSE
      /\ UNCHANGED lifecycle /\ UNCHANGED <<exp, mem, pc, at, code, report, kills, reviewed>>
  BY DEF RecoverWrites
<1>2. PICK R \in rec : root' = [R EXCEPT !.failure = "recovered", !.status = "open",
                                          !.rows = Superseded(@)]
  BY DEF RecoverWrites
<1>3. /\ pc = "off" /\ root.failure = "open" /\ exp.kind = "paired"
      /\ era \in 0 .. MaxRecoveries /\ era < MaxRecoveries
      /\ R \in State /\ Rest(R) = Rest(root) /\ Named(R, reviewed)
      /\ Sound(root, exp, Order, era, reviewed) /\ root \in State
  BY <1>1 DEF RunnerInv, Recovering, Sound
<1>4. R.steps = root.steps /\ R.fp = root.fp /\ R.failure = root.failure /\ R.rows = root.rows
  BY <1>3, SameRest
<1> DEFINE f == Superseded(R.rows)
           T == [R EXCEPT !.failure = "recovered", !.status = "open", !.rows = f]
<1>5. f \in [Rows -> RowRecords]
  <2>1. R.rows \in [Rows -> RowRecords]
    BY <1>3 DEF State, RowRecords
  <2>2. \A i \in Rows : /\ R.rows[i] \in RowRecords
                        /\ [R.rows[i] EXCEPT !.status = "superseded"] \in RowRecords
    BY <2>1 DEF RowRecords
  <2> QED
    BY <2>2 DEF Superseded
<1>6. root' = T
  BY <1>2
<1> HIDE DEF f
<1>7. /\ T \in State /\ T.steps = R.steps /\ T.fp = R.fp /\ T.approval = R.approval
      /\ T.rows = f /\ T.status = "open" /\ T.failure = "recovered"
  BY <1>3, <1>5 DEF State, RowRecords
<1> HIDE DEF T
<1>8. Named(T, reviewed)
  BY <1>3, <1>7 DEF Named, DoneIn
<1>9. Sound(T, exp, Order, era + 1, reviewed)
  <2>1. T.rows = Superseded(root.rows)
    BY <1>4, <1>7 DEF f
  <2> QED
    BY <1>3, <1>4, <1>7, <1>8, <2>1, PairsSuperseded
<1>10. ~Running
  BY <1>3 DEF Running
<1>11. Attached'
  BY <1>1, <1>10, RecoveryLeaves
<1>12. Order' = Order
  BY <1>1, SameOrder
<1>13. era' \in 0 .. MaxRecoveries
  BY <1>1, <1>3, BoundsAssumption
<1>14. Recovering' /\ Alarmed'
  BY <1>1 DEF Recovering, Alarmed
<1> QED
  BY <1>1, <1>3, <1>6, <1>9, <1>11, <1>12, <1>13, <1>14 DEF RunnerInv

-------------------------------------------------------------------------------
(***************************************************************************)
(* The invariants.                                                         *)
(***************************************************************************)

\* At first.
LEMMA InitHolds == ASSUME Init PROVE LifeInv /\ RunnerInv
<1>1. /\ NoLifecycle /\ faults = 0
      /\ exp \in [kind : Kinds, soft : BOOLEAN, rows : Schedules]
      /\ root = NewState /\ mem = NewState /\ rec = {}
      /\ pc = "off" /\ at = 1 /\ code = 1 /\ report = 0 /\ era = 0
      /\ alarm = FALSE /\ reviewed = {}
  BY DEF Init
<1>2. LifeInv
  BY <1>1, NoLifeInv
<1>3. /\ 0 \in 0 .. MaxEdits + 1 /\ 1 \in 1 .. MaxEdits + 1 /\ 0 \in 0 .. MaxRecoveries
  BY BoundsAssumption
<1>4. /\ NewState \in State /\ NewState.approval = 0 /\ NewState.status = "open"
      /\ \A s \in StepNames : NewState.steps[s] = "none"
      /\ \A i \in Rows : NewState.rows[i].status = "none"
  BY <1>3 DEF NewState, State, Unrun
<1>5. Begun(NewState) = {} /\ Complete(NewState) = {}
  BY <1>4 DEF Begun, Complete
<1>6. Sound(NewState, exp, Order, era, reviewed)
  <2>1. Paired(NewState, exp, Order, era)
    <3>1. InOrder(NewState, Order)
      BY <1>5 DEF InOrder
    <3>2. Agree(NewState)
      BY <1>5 DEF Agree
    <3>3. Halves(NewState, exp, era)
      BY <1>5 DEF Halves
    <3> QED
      BY <3>1, <3>2, <3>3 DEF Paired
  <2>2. Finished(NewState, exp)
    BY <1>4 DEF Finished
  <2>3. Named(NewState, reviewed)
    <3>1. "deploy" \in StepNames
      BY DEF StepNames
    <3>2. ~DoneIn(NewState, "deploy")
      BY <1>4, <3>1 DEF DoneIn
    <3> QED
      BY <1>4, <3>2 DEF Named
  <2> QED
    BY <1>4, <2>1, <2>2, <2>3 DEF Sound
<1>7. At(pc, at, mem, exp, Order, reviewed)
  BY <1>1, AtOff
<1>8. Attached
  BY <1>1 DEF Attached, Monitored, Running, NoLifecycle
<1>9. Recovering /\ Alarmed
  BY <1>1 DEF Recovering, Alarmed
<1>10. RunnerInv
  BY <1>1, <1>3, <1>4, <1>6, <1>7, <1>8, <1>9 DEF RunnerInv
<1> QED
  BY <1>2, <1>10

\* A step that leaves the lifecycle alone.
LEMMA LifeStays == ASSUME LifeInv, UNCHANGED <<lifecycle, faults>> PROVE LifeInv'
<1>1. UNCHANGED <<life, bench, relay, outputs, target, mon, faults>>
  BY DEF lifecycle
<1>2. Course' = Course
  BY <1>1 DEF Course
<1> QED
  BY <1>1, <1>2 DEF LifeInv, LifecycleTypeOK

\* A step or a row that begins, or does not.
LEMMA LaunchedLife ==
  ASSUME LifeInv, NEW t \in Treatments \cup {"baseline"}, NEW soft \in BOOLEAN, NEW label,
         NEW S, Runs(t, soft, label, S), UNCHANGED faults
  PROVE  LifeInv'
<1>1. faults' \in 0 .. MaxFaults
  BY TypeParts DEF LifeInv
<1>2. CASE UNCHANGED lifecycle
  BY <1>2, LifeStays
<1>3. CASE t # "baseline" /\ BeginLifecycle(t, exp.kind \in ColdKinds, soft, exp.kind = "formal")
  <2>1. (exp.kind \in ColdKinds) \in BOOLEAN /\ (exp.kind = "formal") \in BOOLEAN /\ t \in Treatments
    BY <1>3
  <2> QED
    BY <1>1, <1>3, <2>1, BegunLife
<1> QED
  BY <1>2, <1>3 DEF Runs, Unclean

\* The ends of a lifecycle.
LEMMA LifecycleEndsKeep ==
  ASSUME RunnerInv, LifeInv, LifecycleEnds
  PROVE  RunnerInv' /\ LifeInv'
<1>0. faults \in 0 .. MaxFaults
  BY TypeParts DEF LifeInv
<1>1. EndLifecycle /\ (Fault \/ UNCHANGED faults)
  BY DEF LifecycleEnds, MonitorRaises, BaselineFails, FetchFails, HardFails, BenchmarkFails,
         ResultFails, StepCompletes, CanaryCompletes, RowCompletes, FormalRowCompletes, Raises
<1>2. LifeInv'
  BY <1>0, <1>1, FaultCounted, EndedLife
<1>3. CASE MonitorRaises
  <2>1. mon.pc = "raised" /\ Raises /\ UNCHANGED <<report, code, rec, era, exp, reviewed, alarm, lost>>
    BY <1>3 DEF MonitorRaises, Aside, People, history
  <2>2. ~mon.verdict /\ mon # NoMon
    BY <2>1 DEF LifeInv, Judging, NoMon
  <2>3. Running
    BY <2>2 DEF RunnerInv, Attached, Monitored
  <2> QED
    BY <1>2, <2>1, <2>2, <2>3, RaisesKeep
<1>4. CASE BaselineFails
  <2>1. Running /\ ~Monitored /\ Raises /\ UNCHANGED <<report, code, rec, era, exp, reviewed, alarm, lost>>
    BY <1>4 DEF BaselineFails, Aside, People, history
  <2> QED
    BY <1>2, <2>1, RaisesKeep
<1>5. CASE FetchFails
  <2>1. Running /\ Raises /\ UNCHANGED <<report, code, rec, era, exp, reviewed, alarm>>
        /\ lost' = (lost \/ mon.verdict)
    BY <1>5 DEF FetchFails, Over, Aside, People
  <2> QED
    BY <1>2, <2>1, RaisesKeep
<1>6. CASE HardFails
  BY <1>2, <1>6, HardFailsKeeps
<1>7. CASE BenchmarkFails
  <2>1. Running /\ ~mon.verdict /\ Raises /\ UNCHANGED <<report, code, rec, era, exp, reviewed, alarm, lost>>
    BY <1>7 DEF BenchmarkFails, Over, Aside, People, history
  <2> QED
    BY <1>2, <2>1, RaisesKeep
<1>8. CASE ResultFails
  <2>1. Running /\ ~(Monitored /\ mon.verdict) /\ Raises
        /\ UNCHANGED <<report, code, rec, era, exp, reviewed, alarm, lost>>
    BY <1>8 DEF ResultFails, Over, Evidence, Aside, People, history
  <2> QED
    BY <1>2, <2>1, RaisesKeep
<1>9. CASE StepCompletes
  BY <1>2, <1>9, StepCompletesKeeps
<1>10. CASE CanaryCompletes
  BY <1>2, <1>10, CanaryCompletesKeeps
<1>11. CASE RowCompletes
  BY <1>2, <1>11, RowCompletesKeeps
<1>12. CASE FormalRowCompletes
  BY <1>2, <1>12, FormalRowCompletesKeeps
<1> QED
  BY <1>3, <1>4, <1>5, <1>6, <1>7, <1>8, <1>9, <1>10, <1>11, <1>12 DEF LifecycleEnds

\* Every step keeps both.
LEMMA StepHolds ==
  ASSUME LifeInv, RunnerInv, [Next]_vars
  PROVE  LifeInv' /\ RunnerInv'
<1>0. faults \in 0 .. MaxFaults
  BY TypeParts DEF LifeInv
<1>1. CASE Deploy
  BY <1>1, DeployKeeps, LifeStays DEF Deploy
<1>2. CASE CheckFingerprint
  BY <1>2, CheckKeeps, LifeStays DEF CheckFingerprint
<1>3. CASE Gate
  BY <1>3, GateKeeps, LifeStays DEF Gate
<1>4. CASE BeginStep
  <2>1. LifeInv'
    <3>1. /\ Runs(TreatmentOf(Step), exp.soft /\ Step # "prism_compatibility", "step",
                  [mem EXCEPT !.steps[Step] = "running"])
          /\ UNCHANGED faults
      BY <1>4 DEF BeginStep
    <3>2. /\ TreatmentOf(Step) \in Treatments \cup {"baseline"}
          /\ (exp.soft /\ Step # "prism_compatibility") \in BOOLEAN
      BY StepTreatment
    <3> QED
      BY <3>1, <3>2, LaunchedLife
  <2> QED
    BY <1>0, <1>4, <2>1, BeginStepKeeps
<1>5. CASE Review
  BY <1>5, ReviewKeeps, LifeStays DEF Review
<1>6. CASE CanaryPassed
  BY <1>6, CanaryPassedKeeps, LifeStays DEF CanaryPassed
<1>7. CASE StepsReport
  BY <1>7, StepsReportKeeps, LifeStays DEF StepsReport
<1>8. CASE ExportsDisagree
  BY <1>8, ExportsKeep, LifeStays DEF ExportsDisagree
<1>9. CASE BeginRow
  <2>1. LifeInv'
    <3>1. at \in Rows /\ UNCHANGED faults
      BY <1>9 DEF BeginRow
    <3>2. exp.rows[at] \in Treatments \cup {"baseline"}
      BY <3>1 DEF RunnerInv, Schedules, Treatments
    <3>3. \/ UNCHANGED lifecycle
          \/ Runs(exp.rows[at], FALSE, "row",
                  [mem EXCEPT !.rows[at] = [Unrun EXCEPT !.status = "running"]])
      BY <1>9 DEF BeginRow
    <3>4. CASE UNCHANGED lifecycle
      BY <3>1, <3>4, LifeStays
    <3>5. CASE Runs(exp.rows[at], FALSE, "row",
                    [mem EXCEPT !.rows[at] = [Unrun EXCEPT !.status = "running"]])
      BY <3>1, <3>2, <3>5, LaunchedLife
    <3> QED
      BY <3>3, <3>4, <3>5
  <2> QED
    BY <1>0, <1>9, <2>1, BeginRowKeeps
<1>10. CASE Report
  BY <1>10, ReportKeeps, LifeStays DEF Report
<1>11. CASE LifecycleEnds
  BY <1>11, LifecycleEndsKeep
<1>12. CASE LifecycleSteps
  BY <1>12, LifecycleStepsKeep
<1>13. CASE Execute
  BY <1>13, ExecuteKeeps, LifeStays DEF Execute
<1>14. CASE Kill
  <2>1. EndLifecycle /\ UNCHANGED faults
    BY <1>14 DEF Kill
  <2> QED
    BY <1>0, <1>14, <2>1, KillKeeps, EndedLife
<1>15. CASE Edit
  BY <1>15, EditKeeps, LifeStays DEF Edit
<1>16. CASE Approve
  BY <1>16, ApproveKeeps, LifeStays DEF Approve
<1>17. CASE RecoverReads \/ RecoverFails
  BY <1>17, RecoverReadsKeeps, LifeStays DEF RecoverReads, RecoverFails
<1>18. CASE RecoverWrites
  BY <1>18, RecoverWritesKeeps, LifeStays DEF RecoverWrites
<1>19. CASE UNCHANGED vars
  <2>1. UNCHANGED <<lifecycle, faults, experiment, history>>
    BY <1>19 DEF vars
  <2>2. UNCHANGED <<life, mon, exp, root, mem, pc, at, code, report, rec, kills, era, alarm, lost, reviewed>>
    BY <2>1 DEF lifecycle, experiment, history
  <2>3. Order' = Order /\ Step' = Step
    BY <2>2, SameOrder DEF Step
  <2>4. Monitored' = Monitored
    BY <2>2, <2>3 DEF Monitored, Running, Treatment, TreatmentOf
  <2>5. Attached' /\ Recovering' /\ Alarmed'
    BY <2>2, <2>4 DEF RunnerInv, Attached, Recovering, Alarmed
  <2>6. RunnerInv'
    BY <2>2, <2>3, <2>5 DEF RunnerInv
  <2> QED
    BY <2>1, <2>6, LifeStays
<1> QED
  BY <1>1, <1>2, <1>3, <1>4, <1>5, <1>6, <1>7, <1>8, <1>9, <1>10, <1>11, <1>12, <1>13, <1>14,
     <1>15, <1>16, <1>17, <1>18, <1>19 DEF Next, Runner, Operators

\* The invariants of the lifecycle and of the runner hold.
THEOREM Invariance == Spec => [](LifeInv /\ RunnerInv)
<1>1. Init => LifeInv /\ RunnerInv
  BY InitHolds
<1>2. LifeInv /\ RunnerInv /\ [Next]_vars => (LifeInv /\ RunnerInv)'
  BY StepHolds
<1> QED
  BY <1>1, <1>2, PTL DEF Spec

-------------------------------------------------------------------------------
(***************************************************************************)
(* What the invariants say.                                                *)
(***************************************************************************)

\* The types.
LEMMA Typed == ASSUME LifeInv, RunnerInv PROVE TypeOK
<1>1. /\ At(pc, at, mem, exp, Order, reviewed) /\ root \in State /\ mem \in State
      /\ exp.kind \in Kinds
  BY DEF RunnerInv, Sound
<1>2. Len(Order) \in Nat \ {0} /\ Pairs \in Nat \ {0}
  BY <1>1, OrderShape, BoundsAssumption
<1>3. pc \in {"off", "steps", "check", "step", "rows", "row"} /\ Positioned(pc, at, mem, Order)
  BY <1>1 DEF At
<1>4. at \in 1 .. Len(Order) + 2 * Pairs + 1
  <2>1. at \in 1 .. Len(Order) + 1 \/ at \in 1 .. 2 * Pairs + 1
    BY <1>2, <1>3 DEF Positioned, Rows
  <2> QED
    BY <1>2, <2>1
<1>5. pc # "off" => Rest(mem) = Rest(root)
  BY DEF RunnerInv
<1>6. LifecycleTypeOK /\ (Monitored <=> life # NoLife) /\ report \in 0 .. MaxEdits + 1
  BY DEF LifeInv, RunnerInv, Attached
<1> QED
  BY <1>1, <1>3, <1>4, <1>5, <1>6 DEF TypeOK, Rest

\* The evidence of a result.
LEMMA Measurement ==
  ASSUME LifeInv, Over, Evidence, Monitored
  PROVE  /\ target.paused /\ bench.next >= Len(Course)
         /\ outputs[Measured] = "good"
<1>1. /\ mon.pc = "done" /\ MayBeComplete /\ outputs[Final] = "good"
  BY DEF Over, Evidence
<1>2. /\ Driven(bench, relay, Course) /\ Judging(mon, bench)
      /\ Answering(mon, relay, outputs) /\ Restoring(outputs, target)
      /\ bench \in Benches
  BY TypeParts DEF LifeInv
<1>3. target.paused
  BY <1>1, <1>2 DEF Restoring
<1>4. Len(Course) \in Nat /\ bench.next \in Nat
  BY <1>2, CourseShape DEF Benches
<1>5. bench.next >= Len(Course)
  <2>1. bench.code = 0 => bench.next > Len(Course)
    BY <1>1, <1>2 DEF Judging, Driven
  <2> QED
    BY <1>1, <1>4, <2>1 DEF MayBeComplete
<1>6. outputs[Measured] = "good"
  <2>1. PICK j \in 1 .. Len(Course) - 1 : Course[j] = Measured
    BY CourseShape
  <2>2. j \in 1 .. bench.next - 1 /\ j < Len(Course)
    BY <1>4, <1>5, <2>1
  <2>3. relay[Measured] = "ok" \/ (bench.next <= Len(Course) /\ Measured = Course[bench.next])
    BY <1>2, <2>1, <2>2 DEF Driven, Served
  <2>4. bench.next <= Len(Course) => Course[bench.next] = Final
    BY <1>4, <1>5, CourseShape
  <2>5. relay[Measured] = "ok"
    BY <2>3, <2>4, EventFacts
  <2> QED
    BY <1>2, <2>5, EventFacts DEF Answering
<1> QED
  BY <1>3, <1>5, <1>6

\* A step or a row that fails completes nothing.
LEMMA FailsNothing ==
  ASSUME RunnerInv, Running, NEW F, F = Fails(mem), mem'.steps = F.steps, mem'.rows = F.rows
  PROVE  ~Completes
<1>1. /\ mem \in State /\ pc \in {"step", "row"}
      /\ pc = "step" => Step \in StepNames
      /\ pc = "row" => at \in Rows
  <2>1. mem \in State /\ Order \in Seq(StepNames)
    BY AtRun, AtWork
  <2>2. pc = "step" => Step \in StepNames
    BY <2>1, AtRun, ElementOfSeq DEF Step
  <2> QED
    BY <2>1, <2>2, AtRun
<1>2. CASE pc = "step"
  <2>1. F = [mem EXCEPT !.steps[Step] = "failed"]
    BY <1>2 DEF Fails
  <2>2. F.rows = mem.rows /\ \A s \in StepNames : F.steps[s] \in {mem.steps[s], "failed"}
    BY <1>1, <2>1 DEF State
  <2> QED
    BY <2>2 DEF Completes, Done
<1>3. CASE pc = "row"
  <2>1. F = mem \/ F = [mem EXCEPT !.rows[at].status = "failed", !.status = "open"]
    BY <1>3 DEF Fails
  <2>2. F.steps = mem.steps /\ \A i \in Rows : F.rows[i].status \in {mem.rows[i].status, "failed"}
    <3>1. CASE F = mem
      BY <3>1
    <3>2. CASE F = [mem EXCEPT !.rows[at].status = "failed", !.status = "open"]
      BY <1>1, <1>3, <3>2 DEF State
    <3> QED
      BY <2>1, <3>1, <3>2
  <2> QED
    BY <2>2 DEF Completes, Done
<1> QED
  BY <1>1, <1>2, <1>3

\* Only a lifecycle with evidence completes a step or a row.
LEMMA CompletionIsEvident ==
  ASSUME RunnerInv, Next, Completes, Monitored
  PROVE  Over /\ Evidence
<1>1. Running /\ pc \in {"step", "row"}
  BY DEF Monitored, Running
<1>2. mem' # mem
  BY DEF Completes, Done
<1>3. LifecycleEnds
  <2>1. ~(Deploy \/ CheckFingerprint \/ Gate \/ BeginStep \/ Review \/ CanaryPassed
          \/ StepsReport \/ ExportsDisagree \/ BeginRow \/ Report)
    BY <1>1 DEF Deploy, CheckFingerprint, Gate, BeginStep, Review, CanaryPassed, StepsReport,
                ExportsDisagree, BeginRow, Report
  <2>2. ~LifecycleSteps
    BY <1>2 DEF LifecycleSteps, MonitorSteps, BenchmarkSteps, TargetSteps, Beside, experiment
  <2>3. ~Operators
    BY <1>1, <1>2 DEF Operators, Execute, Kill, Edit, Approve, RecoverReads, RecoverWrites, RecoverFails
  <2> QED
    BY <2>1, <2>2, <2>3 DEF Next, Runner
<1> DEFINE F == Fails(mem)
<1>4. ~Raises
  <2> SUFFICES ASSUME Raises PROVE FALSE
    OBVIOUS
  <2>1. mem' = F
    BY DEF Raises, Save
  <2> QED
    BY <1>1, <2>1, FailsNothing
<1>5. ~HardFails
  <2> SUFFICES ASSUME HardFails PROVE FALSE
    OBVIOUS
  <2>1. mem' = [F EXCEPT !.failure = "open"]
    BY DEF HardFails, Save
  <2>2. F \in State
    BY <1>1, AtRun DEF Sound
  <2> HIDE DEF F
  <2>3. mem'.steps = F.steps /\ mem'.rows = F.rows
    BY <2>1, <2>2 DEF State
  <2> QED
    BY <1>1, <2>3, FailsNothing DEF F
<1> QED
  BY <1>3, <1>4, <1>5
  DEF LifecycleEnds, MonitorRaises, BaselineFails, FetchFails, BenchmarkFails, ResultFails,
      StepCompletes, CanaryCompletes, RowCompletes, FormalRowCompletes

\* Only the runner at work begins a step or a row.
LEMMA OnlyTheRunnerBegins ==
  ASSUME RunnerInv, Next, Begins
  PROVE  pc # "off"
<1> SUFFICES ASSUME pc = "off" PROVE FALSE
  OBVIOUS
<1>1. ~Running /\ Running'
  BY DEF Begins
<1>2. pc' \in {"step", "row"}
  BY <1>1 DEF Running
<1>3. ~LifecycleSteps
  BY <1>1 DEF LifecycleSteps, MonitorSteps, BenchmarkSteps, TargetSteps, Monitored
<1>4. ~(Deploy \/ CheckFingerprint \/ Gate \/ BeginStep \/ Review \/ CanaryPassed
        \/ StepsReport \/ ExportsDisagree \/ BeginRow \/ Report)
  BY DEF Deploy, CheckFingerprint, Gate, BeginStep, Review, CanaryPassed, StepsReport,
         ExportsDisagree, BeginRow, Report
<1>5. ~Operators
  BY <1>2 DEF Operators, Execute, Kill, Edit, Approve, RecoverReads, RecoverWrites, RecoverFails,
              Exits, Goto
<1>6. ~LifecycleEnds
  BY <1>1, <1>2 DEF LifecycleEnds, MonitorRaises, BaselineFails, FetchFails, HardFails,
       BenchmarkFails, ResultFails, StepCompletes, CanaryCompletes, RowCompletes,
       FormalRowCompletes, Raises, Over, Monitored, Exits, Goto
<1> QED
  BY <1>3, <1>4, <1>5, <1>6 DEF Next, Runner

(***************************************************************************)
(* The variables keep their types; the monitor and the benchmark exist     *)
(* exactly while a step or a row with a treatment runs, and the state in   *)
(* memory and the saved one differ in no more than an approval             *)
(* (affinitygraph_runner.py 979-993, 2439-2456, 2651-2683, 3385-3459).     *)
(***************************************************************************)
THEOREM TypeCorrect == Spec => []TypeOK
<1>1. LifeInv /\ RunnerInv => TypeOK
  BY Typed
<1> QED
  BY <1>1, Invariance, PTL

(***************************************************************************)
(* A result that counts was measured from the first phase to the last,     *)
(* with the placement in effect when the measurement of "active" started,  *)
(* and the masks of the threads were given back (affinitygraph_runner.py   *)
(* 2002-2139).                                                             *)
(***************************************************************************)
THEOREM ResultsWereMeasured == Spec => ResultsAreMeasured
<1>1. ASSUME LifeInv, RunnerInv, [Next]_vars
      PROVE  [Completes /\ Monitored =>
                /\ target.paused
                /\ bench.next >= Len(Course)
                /\ Treatment = "active" /\ ~life.cold => outputs[Measured] = "good"]_vars
  BY <1>1, CompletionIsEvident, Measurement
<1> QED
  BY <1>1, Invariance, PTL DEF Spec, ResultsAreMeasured

(***************************************************************************)
(* A hard failure of the collector blocks every further benchmark until    *)
(* somebody recovered, unless the runner died between the verdict and its  *)
(* record (affinitygraph_runner.py 983-993, 2439-2448, 3385-3459).         *)
(***************************************************************************)
THEOREM FailureBlocks == Spec => RecordedFailureBlocks
<1>1. ASSUME RunnerInv, [Next]_vars
      PROVE  [exp.kind \in {"paired", "formal"} /\ Begins => ~alarm \/ lost]_vars
  <2> SUFFICES ASSUME Next, exp.kind \in {"paired", "formal"}, Begins, alarm PROVE lost
    BY <1>1
  <2>1. pc # "off"
    BY <1>1, OnlyTheRunnerBegins
  <2>2. root.failure # "open"
    BY <1>1, <2>1, AtWork DEF At, Permitted
  <2>3. ~Monitored
    BY DEF Begins, Monitored
  <2> QED
    BY <1>1, <2>2, <2>3 DEF RunnerInv, Alarmed
<1> QED
  BY <1>1, Invariance, PTL DEF Spec, RecordedFailureBlocks

(***************************************************************************)
(* The rows of a paired experiment run only with code whose own smoke      *)
(* report was approved (affinitygraph_runner.py 2449-2456, 2607-2642,      *)
(* 3349-3382).                                                             *)
(***************************************************************************)
THEOREM RowsAreReviewed == Spec => []FormalIsReviewed
<1>1. RunnerInv => FormalIsReviewed
  <2> SUFFICES ASSUME RunnerInv, pc = "row", exp.kind = "paired" PROVE mem.fp \in reviewed
    BY DEF FormalIsReviewed
  <2>1. Running
    BY DEF Running
  <2> QED
    BY <2>1, AtRun
<1> QED
  BY <1>1, Invariance, PTL

(***************************************************************************)
(* The two rows of a pair agree, over failures, kills, edits and           *)
(* recoveries, and a report that is complete has the effect of every pair  *)
(* (affinitygraph_runner.py 433-536, 2644-2725).                           *)
(***************************************************************************)
THEOREM PairsCount == Spec => []PairsAgree
<1>1. RunnerInv => PairsAgree
  <2> SUFFICES ASSUME RunnerInv PROVE PairsAgree
    OBVIOUS
  <2>1. Paired(root, exp, Order, era) /\ Finished(root, exp)
    BY DEF RunnerInv, Sound
  <2>2. ASSUME exp.kind = "paired", NEW i \in Rows, NEW j \in Others(i),
               root.rows[i].status = "complete", root.rows[j].status = "complete"
        PROVE  /\ root.rows[i].valid = root.rows[j].valid
               /\ root.rows[i].era = root.rows[j].era
    <3>1. j \in Rows
      BY DEF Others
    <3>2. i \in Complete(root) /\ j \in Complete(root)
      BY <2>2, <3>1 DEF Complete
    <3> QED
      BY <2>1, <2>2, <3>2 DEF Paired, Agree
  <2>3. ASSUME exp.kind \in {"paired", "formal"}, root.status = "complete"
        PROVE  /\ \A i \in Rows : root.rows[i].status = "complete"
               /\ Counted(root.rows) \in {Rows} \cup (IF exp.kind = "paired" THEN {{}} ELSE {})
    BY <2>1, <2>3 DEF Finished, Complete
  <2> QED
    BY <2>2, <2>3 DEF PairsAgree
<1> QED
  BY <1>1, Invariance, PTL

===============================================================================
