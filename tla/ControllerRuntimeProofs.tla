------------------------ MODULE ControllerRuntimeProofs ------------------------
(***************************************************************************)
(* Proofs about the controller process, for every configuration, script,   *)
(* KPI history, delay and number of failing calls.                         *)
(***************************************************************************)
EXTENDS ControllerRuntime, PressurePolicyLemmas, SequenceTheorems

-------------------------------------------------------------------------------
(* Lemmas about the operators of the model.                                *)

\* The KPI history stays a sequence of windows.
LEMMA RecordedType ==
  ASSUME NEW rows \in Seq(Rows), NEW row \in Rows
  PROVE  Recorded(rows, row) \in Seq(Rows)
<1>1. <<row>> \in Seq(Rows)
  OBVIOUS
<1> DEFINE longer == Append(rows, row)
<1>2. longer \in Seq(Rows) /\ Len(longer) \in Nat
  OBVIOUS
<1>3. Len(longer) > 3 => SubSeq(longer, Len(longer) - 2, Len(longer)) \in Seq(Rows)
  <2> HIDE DEF longer
  <2> SUFFICES ASSUME Len(longer) > 3
               PROVE  SubSeq(longer, Len(longer) - 2, Len(longer)) \in Seq(Rows)
    OBVIOUS
  <2>1. \A i \in Len(longer) - 2 .. Len(longer) : longer[i] \in Rows
    BY <1>2
  <2>2. Len(longer) - 2 \in 1..Len(longer) + 1 /\ Len(longer) \in 0..Len(longer)
    BY <1>2
  <2>3. QED
    BY <1>2, <2>1, <2>2, SubSeqProperties
<1>4. LastThree(longer) \in Seq(Rows)
  <2> HIDE DEF longer
  <2> QED
    BY <1>2, <1>3 DEF LastThree
<1>5. QED
  BY <1>1, <1>4 DEF Recorded

LEMMA SumType == \A a, b \in Nat : a + b \in Nat
  OBVIOUS

\* A median is one of the four levels.
LEMMA LevelType == \A rows : Level(rows) \in 0..3
  BY DEF Level

\* An action that begins is well formed, and starts with a call.
LEMMA BeginType ==
  ASSUME TypeOK,
         NEW origin \in {"initialize", "guard", "decision"},
         NEW target \in States, NEW baseline \in 0..3
  PROVE  Begin(origin, target, baseline) \in Operations
  BY DEF Begin, Operations, FirstStep, Steps, TypeOK

\* An affinity call that returns leaves masks of complete states.
LEMMA AffinityMovesType ==
  ASSUME TypeOK, NEW s \in ResourceStates, AffinityMoves(s)
  PROVE  masks' \in SUBSET ResourceStates /\ escaped' \in SUBSET ResourceStates
<1>1. masks \subseteq ResourceStates /\ escaped \subseteq ResourceStates
  BY DEF TypeOK
<1>2. masks' = {s} /\ escaped' \in SUBSET ((masks \cup escaped) \ {s})
  BY DEF AffinityMoves
<1>3. QED
  BY <1>1, <1>2

\* An action that begins has the origin and target it was given.
LEMMA BeginOrigin ==
  ASSUME NEW origin, NEW target, NEW baseline
  PROVE  /\ Begin(origin, target, baseline).origin = origin
         /\ Begin(origin, target, baseline).target = target
  BY DEF Begin

\* A script names complete states only.
LEMMA ScriptStates ==
  ASSUME TypeOK
  PROVE  /\ config.script \in Seq(ScriptItems)
         /\ \A i \in 1..Len(config.script) : config.script[i].state \in States
<1>1. config.script \in Seq(ScriptItems)
  BY ConfigAssumption DEF TypeOK, ConfigType
<1>2. \A i \in 1..Len(config.script) : config.script[i] \in ScriptItems
  BY <1>1, ElementOfSeq
<1>3. QED
  BY <1>1, <1>2 DEF ScriptItems

\* A scripted iteration launches a transition of the script, or nothing.
LEMMA ScriptedChoice ==
  ASSUME TypeOK, DecideScripted
  PROVE  /\ script' \in [phase : Phases, started : Times, index : Nat \ {0}]
         /\ \/ \E i \in 1..Len(config.script) :
                  Launch(ForceState(policy, config.script[i].state, sample.at))
            \/ pc' = "report" /\ UNCHANGED <<policy, op>>
<1> DEFINE base == IF ~sample.active \/ script.started = Never
                        \/ script.phase # sample.phase
                   THEN [phase |-> sample.phase, index |-> 1,
                         started |-> IF sample.active THEN sample.at ELSE Never]
                   ELSE script
<1>1. base \in [phase : Phases, started : Times, index : Nat \ {0}]
  BY DEF TypeOK, Times
<1>2. /\ script' = base \/ script' = [base EXCEPT !.index = @ + 1]
      /\ \/ /\ base.index <= Len(config.script)
            /\ Launch(ForceState(policy, config.script[base.index].state, sample.at))
         \/ pc' = "report" /\ UNCHANGED <<policy, op>>
  BY DEF DecideScripted
<1> HIDE DEF base
<1>3. script' \in [phase : Phases, started : Times, index : Nat \ {0}]
  BY <1>1, <1>2
<1>4. Len(config.script) \in Nat /\ base.index \in Nat \ {0}
  BY <1>1, ScriptStates
<1>5. base.index <= Len(config.script) => base.index \in 1..Len(config.script)
  BY <1>4
<1>6. QED
  BY <1>2, <1>3, <1>5

-------------------------------------------------------------------------------
(***************************************************************************)
(* The inductive invariant.  Halfway through an action towards s, unless   *)
(* an earlier call of the same action failed twice, the resource that goes *)
(* first has already arrived; that is what makes the second one safe.      *)
(***************************************************************************)
Reached(s) ==
  /\ op.step = "slots" /\ s = "two_node" => masks = {"two_node"}
  /\ op.step = "affinity" /\ s = "one_node" /\ config.hasSlots =>
       slots = [file |-> "one_node", live |-> "one_node"]
  /\ op.step = "done" => /\ masks = {s}
                         /\ config.hasSlots => slots = [file |-> s, live |-> s]

Untouched ==
  masks = {Original} /\ escaped = {} /\ slots = [file |-> Original, live |-> Original]

Ordered ==
  /\ ~config.hasSlots => slots = [file |-> Original, live |-> Original]
  /\ pc \in Acting => config.mode = "active" /\ op.previous = actual
  /\ pc \in Acting /\ op.step = "slots" => config.hasSlots
  /\ pc = "forward" \/ (pc = "rollback" /\ ~torn) => Reached(Towards)
  /\ pc = "rollback" /\ torn => op.step = "done"
  /\ pending.on \/ pc \in Restoring \cup {"aborted"} => config.mode = "active"
  /\ config.mode # "active" => Untouched
  /\ pc = "restoreSlots" => config.hasSlots /\ masks = {Original}
  /\ restore # "none" => pc \in {"stopped", "killed"}
  /\ NeverOversubscribed
  /\ ActualIsTrue
  /\ StoppedIsRestored

-------------------------------------------------------------------------------
(***************************************************************************)
(* Type correctness: every record of the process keeps its fields and      *)
(* ranges through all handlers (runtime.py).                               *)
(***************************************************************************)
LEMMA TypeInit == Init => TypeOK
<1> SUFFICES ASSUME Init PROVE TypeOK
  OBVIOUS
<1>1. NoSample.phase \in Phases /\ NoSample.at = 0
  BY RuntimeAssumption DEF NoSample
<1>2. config.initial \in States
  BY ConfigAssumption DEF Init, ConfigType
<1>3. policy \in Policies
  BY <1>2 DEF Init, InitialPolicy, Policies, Times, Never, PolicyActions
<1>4. sample \in [active : BOOLEAN, valid : BOOLEAN, high : BOOLEAN, low : BOOLEAN,
                  at : Nat, phase : Phases]
  BY RuntimeAssumption DEF Init, NoSample
<1>5. op \in Operations /\ pending \in [on : BOOLEAN, previous : States, settle : Nat, baseline : 0..3]
  BY DEF Init, NoOp, NoPending, Operations, States, Steps
<1>6. /\ script \in [phase : Phases, started : Times, index : Nat \ {0}]
      /\ control \in [active : BOOLEAN, phase : Phases]
      /\ latest \in [phase : Phases, seq : 0..MaxWindows, quality : Qualities]
      /\ lastKey \in Phases \X Nat
  BY <1>1, RuntimeAssumption DEF Init, Times, Never, Qualities
<1>7. kpis \in Seq(Rows) /\ faults \in 0..MaxFaults /\ appliedAt \in Times
  BY RuntimeAssumption DEF Init, Times
<1>9. newest \in [Phases -> 0..MaxWindows] /\ returns \in 0..MaxReturns
  BY RuntimeAssumption DEF Init
<1>8. QED
  BY <1>2, <1>3, <1>4, <1>5, <1>6, <1>7, <1>9 DEF Init, TypeOK, ResourceStates

LEMMA TypeStep == TypeOK /\ [Next]_vars => TypeOK'
<1> SUFFICES ASSUME TypeOK, [Next]_vars
             PROVE  TypeOK'
  OBVIOUS
<1> USE RuntimeAssumption, ConfigAssumption
<1> USE DEF process, world, resources, history, Loop, Acting, Restoring, Final
<1>c. config \in ConfigType
  BY DEF TypeOK
<1>t. Towards \in States
  BY DEF Towards, TypeOK, Operations
<1>n. NoOp \in Operations /\ NoPending \in [on : BOOLEAN, previous : States, settle : Nat, baseline : 0..3]
  BY DEF NoOp, NoPending, Operations, States, Steps
<1>1. ASSUME NEW a \in BOOLEAN, NEW p \in Phases, Mark(a, p)
      PROVE  TypeOK'
  BY <1>1 DEF Mark, TypeOK
<1>2. ASSUME NEW n \in 1..MaxWindows, NEW q \in Published, PublishKpi(n, q)
      PROVE  TypeOK'
  <2>1. latest' \in [phase : Phases, seq : 0..MaxWindows, quality : Qualities]
    BY <1>2 DEF PublishKpi, TypeOK, Qualities
  <2>2. newest' \in [Phases -> 0..MaxWindows]
    BY <1>2 DEF PublishKpi, TypeOK
  <2>3. returns' \in 0..MaxReturns
    <3>1. returns' = returns \/ returns' = returns + 1
      BY <1>2 DEF PublishKpi
    <3>2. returns \in 0..MaxReturns /\ returns' <= MaxReturns
      BY <1>2 DEF PublishKpi, TypeOK
    <3>3. QED
      BY <3>1, <3>2
  <2>4. UNCHANGED <<config, now, policy, script, actual, kpis, lastKey, pending, rolledBack,
                    op, masks, escaped, slots, sample, restore, status, control, stop, faults,
                    torn, appliedAt>>
    BY <1>2 DEF PublishKpi
  <2>5. pc' = "observe"
    BY <1>2 DEF PublishKpi
  <2>6. QED
    BY <2>1, <2>2, <2>3, <2>4, <2>5, SMTT(30) DEF TypeOK
<1>3. CASE Stop
  BY <1>3 DEF Stop, TypeOK
<1>4. CASE Kill
  BY <1>4 DEF Kill, TypeOK
<1>5. CASE Start
  <2>1. Begin("initialize", actual, 0) \in Operations
    BY BeginType DEF TypeOK
  <2>2. QED
    BY <1>5, <2>1 DEF Start, TypeOK
<1>6. CASE AffinityApplied
  <2>1. op' \in Operations
    BY <1>6 DEF AffinityApplied, NextStep, Operations, Steps, TypeOK
  <2>2. masks' \in SUBSET ResourceStates /\ escaped' \in SUBSET ResourceStates
    BY <1>6, <1>t, AffinityMovesType DEF AffinityApplied, ResourceStates
  <2>3. UNCHANGED <<config, now, pc, policy, script, actual, kpis, lastKey, pending,
                    rolledBack, slots, sample, restore, status, control, latest, newest,
                    returns, stop, faults, torn, appliedAt>>
    BY <1>6 DEF AffinityApplied
  <2>4. QED
    BY <2>1, <2>2, <2>3 DEF TypeOK
<1>7. CASE SlotsApplied
  <2>1. op' \in Operations
    BY <1>7 DEF SlotsApplied, NextStep, Operations, Steps, TypeOK
  <2>2. slots' \in [file : ResourceStates, live : ResourceStates]
    BY <1>7, <1>t DEF SlotsApplied, ResourceStates
  <2>3. UNCHANGED <<config, now, pc, policy, script, actual, kpis, lastKey, pending,
                    rolledBack, masks, escaped, sample, restore, status, control, latest,
                    newest, returns, stop, faults, torn, appliedAt>>
    BY <1>7 DEF SlotsApplied
  <2>4. QED
    BY <2>1, <2>2, <2>3 DEF TypeOK
<1>8. CASE CallFails
  <2>1. op' \in Operations
    <3>1. FirstStep(op.previous) \in Steps /\ "done" \in Steps
      BY DEF FirstStep, Steps
    <3>2. PICK step \in Steps : op' = [op EXCEPT !.step = step]
      BY <1>8, <3>1 DEF CallFails
    <3>3. QED
      BY <3>2 DEF Operations, TypeOK
  <2>2. /\ masks' \in SUBSET ResourceStates /\ escaped' \in SUBSET ResourceStates
        /\ slots' \in [file : ResourceStates, live : ResourceStates]
    <3>1. Towards \in ResourceStates
      BY <1>t DEF ResourceStates
    <3>2. UNCHANGED <<masks, escaped>> \/ AffinityFails(Towards)
      BY <1>8 DEF CallFails
    <3>3. slots' = slots \/ slots' \in PartialSlots(slots, Towards)
      BY <1>8 DEF CallFails
    <3>4. masks' \in SUBSET ResourceStates /\ escaped' \in SUBSET ResourceStates
      BY <3>1, <3>2 DEF AffinityFails, TypeOK
    <3>5. slots' \in [file : ResourceStates, live : ResourceStates]
      BY <3>1, <3>3 DEF PartialSlots, TypeOK
    <3>6. QED
      BY <3>4, <3>5
  <2>3. faults' \in 0..MaxFaults
    <3>1. faults < MaxFaults /\ faults' = faults + 1
      BY <1>8 DEF CallFails
    <3>2. faults \in 0..MaxFaults /\ MaxFaults \in Nat
      BY DEF TypeOK
    <3>3. QED
      BY <3>1, <3>2
  <2>4. UNCHANGED <<config, now, policy, script, actual, kpis, lastKey, pending, rolledBack,
                    sample, restore, status, control, latest, newest, returns, stop, appliedAt>>
    BY <1>8 DEF CallFails
  <2>5. pc' = "rollback" /\ torn' \in BOOLEAN
    BY <1>8 DEF CallFails
  <2>6. QED
    BY <2>1, <2>2, <2>3, <2>4, <2>5 DEF TypeOK
<1>9. ASSUME NEW d \in 0..MaxDelay, ActionApplied(d)
      PROVE  TypeOK'
  <2>1. now' \in Nat
    BY <1>9 DEF ActionApplied, TypeOK
  <2>2. policy' \in Policies
    <3>1. policy \in Policies /\ op.target \in States /\ sample.at \in Nat
      BY DEF TypeOK, Operations
    <3>2. ForceState(policy, op.target, sample.at) \in Policies
      BY <3>1, ForceStateType
    <3>3. QED
      BY <1>9, <3>1, <3>2 DEF ActionApplied, GuardForces
  <2>3. pending' \in [on : BOOLEAN, previous : States, settle : Nat, baseline : 0..3]
    <3>1. op.previous \in States /\ op.baseline \in 0..3
      BY DEF TypeOK, Operations
    <3>2. now' + Settling \in Nat
      BY <2>1, SumType
    <3>3. [on |-> TRUE, previous |-> op.previous, settle |-> now' + Settling,
           baseline |-> op.baseline]
            \in [on : BOOLEAN, previous : States, settle : Nat, baseline : 0..3]
      BY <3>1, <3>2
    <3>4. pending \in [on : BOOLEAN, previous : States, settle : Nat, baseline : 0..3]
      BY DEF TypeOK
    <3>5. QED
      BY <1>9, <3>3, <3>4 DEF ActionApplied
  <2>4. appliedAt' \in Times
    BY <1>9, <2>1 DEF ActionApplied, TypeOK, Times
  <2>5. pc' \in {"wait", "decide", "report"}
    BY <1>9 DEF ActionApplied, Resume
  <2>6. actual' \in States /\ rolledBack' \in BOOLEAN /\ faults' \in 0..MaxFaults
    BY <1>9 DEF ActionApplied, TypeOK, Operations
  <2>7. op' \in Operations /\ torn' \in BOOLEAN
    BY <1>9, <1>n DEF ActionApplied
  <2>8. UNCHANGED <<config, script, kpis, lastKey, masks, escaped, slots, sample, restore, status,
                    control, latest, newest, returns, stop>>
    BY <1>9 DEF ActionApplied
  <2>9. QED
    BY <2>1, <2>2, <2>3, <2>4, <2>5, <2>6, <2>7, <2>8 DEF TypeOK
<1>10. ASSUME NEW d \in 0..MaxDelay, ActionFailed(d)
       PROVE  TypeOK'
  <2>1. now' \in Nat
    BY <1>10 DEF ActionFailed, TypeOK
  <2>2. policy' \in Policies
    <3>1. /\ policy \in Policies /\ op.target \in States /\ op.previous \in States
          /\ sample.at \in Nat
      BY DEF TypeOK, Operations
    <3>2. ForceState(policy, op.previous, now') \in Policies
      BY <2>1, <3>1, ForceStateType
    <3>3. ForceState(ForceState(policy, op.previous, now'), op.target, sample.at) \in Policies
      BY <3>1, <3>2, ForceStateType
    <3>4. QED
      BY <1>10, <3>2, <3>3 DEF ActionFailed, GuardForces
  <2>3. pc' \in {"aborted", "wait", "decide", "report"}
    BY <1>10 DEF ActionFailed, Resume
  <2>4. op' \in Operations /\ rolledBack' \in BOOLEAN /\ faults' \in 0..MaxFaults
    BY <1>10, <1>n DEF ActionFailed
  <2>5. UNCHANGED <<config, script, actual, kpis, lastKey, pending, masks, escaped, slots, sample,
                    restore, status, control, latest, newest, returns, stop, torn, appliedAt>>
    BY <1>10 DEF ActionFailed
  <2>6. QED
    BY <2>1, <2>2, <2>3, <2>4, <2>5 DEF TypeOK
<1>11. ASSUME NEW s \in Samples, Observe(s)
       PROVE  TypeOK'
  <2> DEFINE row == [phase |-> latest.phase, seq |-> latest.seq,
                     quality |-> latest.quality, seen |-> now]
  <2>1. row \in Rows
    BY DEF TypeOK, Rows
  <2>2. Recorded(kpis, row) \in Seq(Rows)
    BY <2>1, RecordedType DEF TypeOK
  <2>3. kpis' \in Seq(Rows)
    BY <1>11, <2>2 DEF Observe, TypeOK
  <2>4. lastKey' \in Phases \X Nat
    BY <1>11 DEF Observe, TypeOK
  <2>5. sample' \in [active : BOOLEAN, valid : BOOLEAN, high : BOOLEAN, low : BOOLEAN,
                     at : Nat, phase : Phases]
    BY <1>11 DEF Observe, TypeOK, Samples
  <2>6. Begin("guard", pending.previous, 0) \in Operations
    BY BeginType DEF TypeOK
  <2>7. op' \in Operations /\ pc' \in {"forward", "decide"}
    BY <1>11, <2>6 DEF Observe, TypeOK
  <2>8. pending' \in [on : BOOLEAN, previous : States, settle : Nat, baseline : 0..3]
    BY <1>11, <1>n DEF Observe, TypeOK
  <2>9. /\ rolledBack' \in BOOLEAN
        /\ UNCHANGED <<config, now, policy, script, actual, masks, escaped, slots, restore, status,
                       control, latest, newest, returns, stop, faults, torn, appliedAt>>
    BY <1>11 DEF Observe
  <2>10. QED
    BY <2>3, <2>4, <2>5, <2>7, <2>8, <2>9 DEF TypeOK
<1>l. ASSUME NEW p \in Policies, Launch(p)
      PROVE  /\ policy' \in Policies /\ op' \in Operations
             /\ pc' \in {"forward", "report"}
  <2>1. p.state \in States
    BY DEF Policies
  <2>2. \A b \in 0..3 : Begin("decision", p.state, b) \in Operations
    BY <2>1, BeginType
  <2>3. ForceState(p, actual, sample.at) \in Policies
    BY ForceStateType DEF TypeOK
  <2>4. CASE ~rolledBack /\ config.mode = "active"
    <3>1. PICK b \in 0..3 : op' = Begin("decision", p.state, b)
      BY <1>l, <2>4, LevelType DEF Launch
    <3>2. policy' = p /\ pc' = "forward"
      BY <1>l, <2>4 DEF Launch
    <3>3. QED
      BY <2>2, <3>1, <3>2
  <2>5. CASE ~(~rolledBack /\ config.mode = "active")
    <3>1. /\ policy' = p \/ policy' = ForceState(p, actual, sample.at)
          /\ pc' = "report" /\ UNCHANGED op
      BY <1>l, <2>5 DEF Launch
    <3>2. QED
      BY <2>3, <3>1 DEF TypeOK
  <2>6. QED
    BY <2>4, <2>5
<1>12. CASE Decide
  <2> DEFINE p == Evaluate(policy, sample, sample.at)
  <2>1. p \in Policies
    BY EvaluateType DEF TypeOK
  <2>2. \/ Launch(p)
        \/ policy' = p /\ pc' = "report" /\ UNCHANGED op
    BY <1>12 DEF Decide
  <2> HIDE DEF p
  <2>3. /\ policy' \in Policies /\ op' \in Operations
        /\ pc' \in {"forward", "report"}
    BY <1>l, <2>1, <2>2 DEF TypeOK
  <2>4. UNCHANGED <<config, now, script, actual, kpis, lastKey, pending, rolledBack, masks, escaped,
                    slots, sample, restore, status, control, latest, newest, returns, stop, faults, torn,
                    appliedAt>>
    BY <1>12 DEF Decide
  <2>5. QED
    BY <2>3, <2>4 DEF TypeOK
<1>13. CASE DecideScripted
  <2>1. script' \in [phase : Phases, started : Times, index : Nat \ {0}]
    BY <1>13, ScriptedChoice
  <2>3. \A i \in 1..Len(config.script) :
          ForceState(policy, config.script[i].state, sample.at) \in Policies
    BY ScriptStates, ForceStateType DEF TypeOK
  <2>4. \/ \E i \in 1..Len(config.script) :
             Launch(ForceState(policy, config.script[i].state, sample.at))
        \/ pc' = "report" /\ UNCHANGED <<policy, op>>
    BY <1>13, ScriptedChoice
  <2>5. /\ policy' \in Policies /\ op' \in Operations
        /\ pc' \in {"forward", "report"}
    BY <1>l, <2>3, <2>4 DEF TypeOK
  <2>6. UNCHANGED <<config, now, actual, kpis, lastKey, pending, rolledBack, masks, escaped, slots,
                    sample, restore, status, control, latest, newest, returns, stop, faults, torn, appliedAt>>
    BY <1>13 DEF DecideScripted
  <2>7. QED
    BY <2>1, <2>5, <2>6 DEF TypeOK
<1>14. CASE Report
  <2>1. NoSample \in [active : BOOLEAN, valid : BOOLEAN, high : BOOLEAN, low : BOOLEAN,
                      at : Nat, phase : Phases]
    BY DEF NoSample
  <2>2. sample' = NoSample /\ status' = "running" /\ pc' = "wait" /\ rolledBack' = FALSE
    BY <1>14 DEF Report
  <2>3. sample' \in [active : BOOLEAN, valid : BOOLEAN, high : BOOLEAN, low : BOOLEAN,
                     at : Nat, phase : Phases]
    BY <2>1, <2>2
  <2>4. rolledBack' \in BOOLEAN
    BY <2>2
  <2>5. UNCHANGED <<config, now, policy, script, actual, kpis, lastKey, pending, op, masks, escaped,
                    slots, restore, control, latest, newest, returns, stop, faults, torn, appliedAt>>
    BY <1>14 DEF Report
  <2>6. pc' = "wait" /\ status' = "running"
    BY <2>2
  <2>7. QED
    BY <2>3, <2>4, <2>5, <2>6 DEF TypeOK
<1>15. CASE NextIteration
  <2>1. now' \in Nat /\ pc' = "observe"
    BY <1>15 DEF NextIteration, TypeOK
  <2>2. UNCHANGED <<config, policy, script, actual, kpis, lastKey, pending, rolledBack, op,
                    masks, escaped, slots, sample, restore, status, control, latest, newest, returns, stop, faults,
                    torn, appliedAt>>
    BY <1>15 DEF NextIteration
  <2>3. QED
    BY <2>1, <2>2 DEF TypeOK
<1>16. CASE LoopEnds \/ LoopRaises
  <2>1. /\ pc' \in {"restoreAffinity", "stopped"}
        /\ status' = status \/ status' = "stopped"
        /\ UNCHANGED <<config, now, policy, script, actual, kpis, lastKey, pending,
                       rolledBack, op, masks, escaped, slots, sample, restore, control,
                       latest, newest, returns, stop, faults, torn, appliedAt>>
    BY <1>16 DEF LoopEnds, LoopRaises, Leave
  <2>2. QED
    BY <2>1 DEF TypeOK
<1>17. CASE AffinityRestored
  <2>1. masks' \in SUBSET ResourceStates /\ escaped' \in SUBSET ResourceStates
    BY <1>17, AffinityMovesType DEF AffinityRestored, ResourceStates
  <2>2. QED
    BY <1>17, <2>1 DEF AffinityRestored, Finish, TypeOK
<1>18. CASE SlotsRestored
  BY <1>18 DEF SlotsRestored, Finish, TypeOK, ResourceStates
<1>19. CASE RestoreFails
  <2>1. /\ masks' \in SUBSET ResourceStates /\ escaped' \in SUBSET ResourceStates
        /\ slots' \in [file : ResourceStates, live : ResourceStates]
    BY <1>19 DEF RestoreFails, AffinityFails, PartialSlots, ResourceStates, TypeOK
  <2>2. QED
    BY <1>19, <2>1 DEF RestoreFails, Finish, TypeOK
<1>20. CASE UNCHANGED vars
  BY <1>20 DEF vars, TypeOK
<1>21. QED
  BY <1>1, <1>2, <1>3, <1>4, <1>5, <1>6, <1>7, <1>8, <1>9, <1>10, <1>11, <1>12, <1>13,
     <1>14, <1>15, <1>16, <1>17, <1>18, <1>19, <1>20
     DEF Next, Process, World, Exited

THEOREM TypeCorrect == Spec => []TypeOK
  BY TypeInit, TypeStep, PTL DEF Spec

-------------------------------------------------------------------------------
(***************************************************************************)
(* The order of the resources.                                             *)
(***************************************************************************)
LEMMA OrderedInit == Init => Ordered
  BY DEF Init, Ordered, Loop, Acting, Restoring, Reached, Untouched, NoPending,
     NeverOversubscribed, ActualIsTrue, StoppedIsRestored

\* A new action has nothing behind it yet, so there is nothing to have reached.
LEMMA BeginReached ==
  ASSUME TypeOK, NEW origin, NEW target \in States, NEW baseline,
         op' = Begin(origin, target, baseline), UNCHANGED <<config, masks, escaped, slots>>
  PROVE  /\ op'.target = target /\ op'.previous = actual
         /\ op'.step = "slots" => config.hasSlots
         /\ Reached(target)'
  BY DEF Begin, FirstStep, Reached, States

\* What keeps resources, configuration and program counter class keeps the
\* invariant.
LEMMA OrderedQuiet ==
  ASSUME Ordered, pc \in Loop, pc' \in Loop,
         UNCHANGED <<config, actual, masks, escaped, slots, restore, torn>>,
         pending' = pending \/ pending' = NoPending
  PROVE  Ordered'
  BY DEF Ordered, Loop, Acting, Restoring, Untouched, NoPending, NeverOversubscribed,
     ActualIsTrue, StoppedIsRestored

\* So does an action that begins.
LEMMA OrderedBegin ==
  ASSUME TypeOK, Ordered, pc \in Loop \cup {"boot"}, config.mode = "active", pc' = "forward",
         NEW origin, NEW target \in States, NEW baseline,
         op' = Begin(origin, target, baseline),
         UNCHANGED <<config, actual, masks, escaped, slots, restore>>,
         pending' = pending \/ pending' = NoPending
  PROVE  Ordered'
<1>1. /\ op'.target = target /\ op'.previous = actual
      /\ op'.step = "slots" => config.hasSlots
      /\ Reached(target)'
  BY BeginReached
<1>2. Reached(Towards)'
  BY <1>1 DEF Towards
<1>3. restore = "none"
  BY DEF Ordered, Loop
<1>4. QED
  BY <1>1, <1>2, <1>3 DEF Ordered, Loop, Acting, Restoring, Untouched, NoPending,
     NeverOversubscribed, ActualIsTrue, StoppedIsRestored

LEMMA OrderedStep == TypeOK /\ Ordered /\ [Next]_vars => Ordered'
<1> SUFFICES ASSUME TypeOK, Ordered, [Next]_vars
             PROVE  Ordered'
  OBVIOUS
<1> USE DEF process, world, resources, history
<1>t. /\ Towards \in States /\ op.target \in States /\ op.previous \in States
      /\ actual \in States /\ op.step \in Steps /\ config.hasSlots \in BOOLEAN
      /\ pending.previous \in States /\ config.mode \in {"active", "shadow"}
  BY ConfigAssumption DEF Towards, TypeOK, Operations, ConfigType
<1>f. slots = [file |-> slots.file, live |-> slots.live]
  BY DEF TypeOK
<1>1. ASSUME NEW a \in BOOLEAN, NEW p \in Phases, Mark(a, p)
      PROVE  Ordered'
  BY <1>1, OrderedQuiet DEF Mark, Loop
<1>2. ASSUME NEW n \in 1..MaxWindows, NEW q \in Published, PublishKpi(n, q)
      PROVE  Ordered'
  BY <1>2, OrderedQuiet DEF PublishKpi, Loop
<1>3. CASE Stop
  BY <1>3 DEF Stop, Ordered, Reached, Towards, Untouched, NeverOversubscribed, ActualIsTrue,
     StoppedIsRestored
<1>4. CASE Kill
  BY <1>4 DEF Kill, Ordered, Loop, Acting, Restoring, Untouched, NeverOversubscribed,
     ActualIsTrue, StoppedIsRestored
<1>5. CASE Start
  <2>1. CASE config.mode = "active"
    BY <1>5, <1>t, <2>1, OrderedBegin DEF Start
  <2>2. CASE config.mode # "active"
    BY <1>5, <2>2 DEF Start, Ordered, Loop, Acting, Restoring, Untouched,
       NeverOversubscribed, ActualIsTrue, StoppedIsRestored
  <2>3. QED
    BY <2>1, <2>2
<1>6. CASE AffinityApplied
  <2>1. pc \in Acting /\ op.step = "affinity" /\ Reached(Towards) /\ config.mode = "active"
    BY <1>6 DEF AffinityApplied, Ordered, Acting
  <2>2. Towards' = Towards /\ op'.previous = op.previous
        /\ op'.step = NextStep(Towards, "affinity")
    BY <1>6, <1>t DEF AffinityApplied, Towards, TypeOK, Operations
  <2>3. Reached(Towards)' /\ (op'.step = "slots" => config.hasSlots)
    BY <1>6, <1>t, <2>1, <2>2 DEF AffinityApplied, AffinityMoves, Reached, NextStep, States
  <2>4. NeverOversubscribed'
    BY <1>6, <1>t, <2>1 DEF AffinityApplied, AffinityMoves, NeverOversubscribed, Reached,
       Ordered, States, Original
  <2>5. ~(pc = "rollback" /\ torn)
    BY <2>1 DEF Ordered
  <2>6. QED
    BY <1>6, <2>1, <2>2, <2>3, <2>4, <2>5 DEF AffinityApplied, Ordered, Acting, Loop,
       Restoring, ActualIsTrue, StoppedIsRestored
<1>7. CASE SlotsApplied
  <2>1. pc \in Acting /\ op.step = "slots" /\ Reached(Towards) /\ config.mode = "active"
        /\ config.hasSlots
    BY <1>7 DEF SlotsApplied, Ordered, Acting
  <2>2. Towards' = Towards /\ op'.previous = op.previous
        /\ op'.step = NextStep(Towards, "slots")
    BY <1>7, <1>t DEF SlotsApplied, Towards, TypeOK, Operations
  <2>3. Reached(Towards)' /\ op'.step # "slots"
    BY <1>7, <1>t, <2>1, <2>2 DEF SlotsApplied, Reached, NextStep, States
  <2>4. NeverOversubscribed'
    BY <1>7, <1>t, <2>1 DEF SlotsApplied, NeverOversubscribed, Reached, Ordered, States
  <2>5. ~(pc = "rollback" /\ torn)
    BY <2>1 DEF Ordered
  <2>6. QED
    BY <1>7, <2>1, <2>2, <2>3, <2>4, <2>5 DEF SlotsApplied, Ordered, Acting, Loop,
       Restoring, ActualIsTrue, StoppedIsRestored
<1>8. CASE CallFails
  <2>1. pc \in Acting /\ Reached(Towards) /\ config.mode = "active" /\ op.previous = actual
        /\ (op.step = "slots" => config.hasSlots)
    BY <1>8 DEF CallFails, Ordered, Acting
  <2>2. op'.previous = op.previous
        /\ op'.step = IF pc = "forward" THEN FirstStep(op.previous) ELSE "done"
    BY <1>8 DEF CallFails, TypeOK, Operations
  <2>3. Towards' = op.previous /\ pc' = "rollback" /\ torn' = (pc = "rollback")
    BY <1>8, <2>2 DEF CallFails, Towards
  <2>4. ~torn' => Reached(Towards)' /\ (op'.step = "slots" => config.hasSlots)
    <3> SUFFICES ASSUME ~torn'
                 PROVE  Reached(Towards)' /\ (op'.step = "slots" => config.hasSlots)
      OBVIOUS
    <3>1. op'.step = FirstStep(op.previous) /\ UNCHANGED config
      BY <1>8, <2>1, <2>2, <2>3 DEF CallFails, Acting
    <3>2. /\ op'.step = "slots" => config.hasSlots /\ Towards' # "two_node"
          /\ op'.step = "affinity" => ~config.hasSlots \/ Towards' # "one_node"
          /\ op'.step # "done"
      BY <2>3, <3>1 DEF FirstStep
    <3>3. QED
      BY <3>1, <3>2 DEF Reached
  <2>5. torn' => op'.step = "done"
    BY <2>2, <2>3
  <2>6. CASE op.step = "affinity"
    <3>1. AffinityFails(Towards) /\ UNCHANGED slots
      BY <1>8, <2>6 DEF CallFails
    <3>2. NeverOversubscribed'
      BY <1>t, <2>1, <2>6, <3>1 DEF AffinityFails, NeverOversubscribed, Reached, Ordered,
         States, Original
    <3>3. QED
      BY <1>8, <2>1, <2>2, <2>3, <2>4, <2>5, <3>1, <3>2 DEF CallFails, Ordered, Acting,
         Loop, Restoring, ActualIsTrue, StoppedIsRestored
  <2>7. CASE op.step = "slots"
    <3>1. slots' \in PartialSlots(slots, Towards) /\ UNCHANGED <<masks, escaped>>
      BY <1>8, <2>7 DEF CallFails
    <3>2. NeverOversubscribed'
      BY <1>t, <2>1, <2>7, <3>1 DEF PartialSlots, NeverOversubscribed, Reached, Ordered, States
    <3>3. QED
      BY <1>8, <2>1, <2>2, <2>3, <2>4, <2>5, <2>7, <3>1, <3>2 DEF CallFails, Ordered, Acting,
         Loop, Restoring, ActualIsTrue, StoppedIsRestored
  <2>8. QED
    BY <1>8, <1>t, <2>6, <2>7 DEF CallFails, Steps
<1>9. ASSUME NEW d \in 0..MaxDelay, ActionApplied(d)
      PROVE  Ordered'
  <2>1. Reached(op.target) /\ op.step = "done" /\ config.mode = "active" /\ restore = "none"
    BY <1>9 DEF ActionApplied, Ordered, Acting, Towards
  <2>2. pc' \in {"wait", "decide", "report"}
    BY <1>9 DEF ActionApplied, Resume
  <2>3. QED
    BY <1>9, <2>1, <2>2 DEF ActionApplied, Ordered, Reached, Acting, Loop, Restoring,
       NeverOversubscribed, ActualIsTrue, StoppedIsRestored
<1>10. ASSUME NEW d \in 0..MaxDelay, ActionFailed(d)
       PROVE  Ordered'
  <2>1. /\ ~torn => Reached(actual)
        /\ op.step = "done" /\ config.mode = "active" /\ restore = "none"
    BY <1>10 DEF ActionFailed, Ordered, Acting, Towards
  <2>2. pc' \in {"aborted", "wait", "decide", "report"}
    BY <1>10 DEF ActionFailed, Resume
  <2>3. QED
    BY <1>10, <2>1, <2>2 DEF ActionFailed, Ordered, Reached, Acting, Loop, Restoring,
       NeverOversubscribed, ActualIsTrue, StoppedIsRestored
<1>11. ASSUME NEW s \in Samples, Observe(s)
       PROVE  Ordered'
  <2>1. /\ pc \in Loop /\ UNCHANGED <<config, actual, masks, escaped, slots, restore, torn>>
        /\ pending' = pending \/ pending' = NoPending
    BY <1>11 DEF Observe, Loop
  <2>2. \/ pc' = "decide"
        \/ /\ pending.on /\ pc' = "forward"
           /\ op' = Begin("guard", pending.previous, 0)
    BY <1>11 DEF Observe
  <2>3. CASE pc' = "decide"
    BY <2>1, <2>3, OrderedQuiet DEF Loop
  <2>4. CASE pending.on /\ pc' = "forward" /\ op' = Begin("guard", pending.previous, 0)
    <3>1. config.mode = "active"
      BY <2>4 DEF Ordered
    <3>2. QED
      BY <1>t, <2>1, <2>4, <3>1, OrderedBegin
  <2>5. QED
    BY <2>2, <2>3, <2>4
<1>l. ASSUME NEW p, p.state \in States, Launch(p), pc = "decide",
             UNCHANGED <<config, actual, masks, escaped, slots, restore, torn, pending>>
      PROVE  Ordered'
  <2>1. CASE ~rolledBack /\ config.mode = "active"
    BY <1>l, <2>1, OrderedBegin DEF Launch, Loop
  <2>2. CASE ~(~rolledBack /\ config.mode = "active")
    BY <1>l, <2>2, OrderedQuiet DEF Launch, Loop
  <2>3. QED
    BY <2>1, <2>2
<1>12. CASE Decide
  <2> DEFINE p == Evaluate(policy, sample, sample.at)
  <2>1. p \in Policies
    BY EvaluateType DEF TypeOK
  <2>2. \/ Launch(p)
        \/ pc' = "report"
    BY <1>12 DEF Decide
  <2> HIDE DEF p
  <2>3. pc = "decide" /\ UNCHANGED <<config, actual, masks, escaped, slots, restore, torn, pending>>
    BY <1>12 DEF Decide
  <2>4. p.state \in States
    BY <2>1 DEF Policies
  <2>5. QED
    BY <1>l, <2>2, <2>3, <2>4, OrderedQuiet DEF Loop
<1>13. CASE DecideScripted
  <2>1. pc = "decide" /\ UNCHANGED <<config, actual, masks, escaped, slots, restore, torn, pending>>
    BY <1>13 DEF DecideScripted
  <2>2. \/ \E i \in 1..Len(config.script) :
             Launch(ForceState(policy, config.script[i].state, sample.at))
        \/ pc' = "report"
    BY <1>13, ScriptedChoice
  <2>3. \A i \in 1..Len(config.script) :
          ForceState(policy, config.script[i].state, sample.at).state \in States
    BY ScriptStates, ForceStateType DEF TypeOK, Policies
  <2>4. QED
    BY <1>l, <2>1, <2>2, <2>3, OrderedQuiet DEF Loop
<1>14. CASE Report
  BY <1>14, OrderedQuiet DEF Report, Loop
<1>15. CASE NextIteration
  BY <1>15, OrderedQuiet DEF NextIteration, Loop
<1>16. CASE LoopEnds \/ LoopRaises
  <2>1. pc \in Loop /\ Leave
    BY <1>16 DEF LoopEnds, LoopRaises, Loop
  <2>2. QED
    BY <2>1, <1>t DEF Leave, Ordered, Loop, Acting, Restoring, Untouched,
       NeverOversubscribed, ActualIsTrue, StoppedIsRestored
<1>17. CASE AffinityRestored
  BY <1>17 DEF AffinityRestored, AffinityMoves, Finish, Ordered, Loop, Acting, Restoring,
     Untouched, NeverOversubscribed, ActualIsTrue, StoppedIsRestored, Original
<1>18. CASE SlotsRestored
  BY <1>18 DEF SlotsRestored, Finish, Ordered, Loop, Acting, Restoring, Untouched,
     NeverOversubscribed, ActualIsTrue, StoppedIsRestored, Original
<1>19. CASE RestoreFails
  <2>1. /\ AffinityFails(Original) \/ masks' = masks
        /\ slots' \in PartialSlots(slots, Original) \/ slots' = slots
        /\ pc \in Restoring /\ pc' = "stopped" /\ restore' = "failed"
        /\ UNCHANGED <<config, pending>>
        /\ config.mode = "active"
    BY <1>19 DEF RestoreFails, Finish, Ordered
  <2>2. NeverOversubscribed'
    BY <2>1 DEF AffinityFails, PartialSlots, NeverOversubscribed, Ordered, Original
  <2>3. ~config.hasSlots => slots' = [file |-> Original, live |-> Original]
    BY <2>1 DEF PartialSlots, Ordered
  <2>4. QED
    BY <2>1, <2>2, <2>3 DEF Ordered, Loop, Acting, Restoring, ActualIsTrue, StoppedIsRestored
<1>20. CASE UNCHANGED vars
  BY <1>20 DEF vars, Ordered, Reached, Towards, Untouched, NeverOversubscribed, ActualIsTrue,
     StoppedIsRestored
<1>21. QED
  BY <1>1, <1>2, <1>3, <1>4, <1>5, <1>6, <1>7, <1>8, <1>9, <1>10, <1>11, <1>12, <1>13,
     <1>14, <1>15, <1>16, <1>17, <1>18, <1>19, <1>20
     DEF Next, Process, World, Exited

LEMMA OrderedAlways == Spec => []Ordered
  BY OrderedInit, OrderedStep, TypeCorrect, PTL DEF Spec

(***************************************************************************)
(* The server never has the slots of two nodes on the CPUs of one, through *)
(* every failure, rollback, restore, stop and kill, but for tasks that     *)
(* escaped a call (runtime.py 283-308, 484-490).                           *)
(***************************************************************************)
THEOREM OrderIsSafe == Spec => []NeverOversubscribed
<1>1. Ordered => NeverOversubscribed
  BY DEF Ordered
<1>2. QED
  BY <1>1, OrderedAlways, PTL

(***************************************************************************)
(* Between actions the recorded state is the true one of the slots and of  *)
(* every task that escaped no call, unless a rollback failed too           *)
(* (runtime.py 283-314).                                                   *)
(***************************************************************************)
THEOREM RecordedStateIsTrue == Spec => []ActualIsTrue
<1>1. Ordered => ActualIsTrue
  BY DEF Ordered
<1>2. QED
  BY <1>1, OrderedAlways, PTL

(***************************************************************************)
(* A stop whose restore raised nothing leaves the target as it was found,  *)
(* but for tasks that escaped the restore (runtime.py 482-507).            *)
(***************************************************************************)
THEOREM StopRestores == Spec => []StoppedIsRestored
<1>1. Ordered => StoppedIsRestored
  BY DEF Ordered
<1>2. QED
  BY <1>1, OrderedAlways, PTL

-------------------------------------------------------------------------------
(***************************************************************************)
(* The transactions.                                                       *)
(***************************************************************************)
\* At most one state is complete, and it is the one shown.
LEMMA ShownComplete ==
  ASSUME NEW s \in ResourceStates, Complete(s)
  PROVE  Shown = s
<1>1. \A t \in ResourceStates : Complete(t) => t = s
  BY DEF Complete
<1>2. QED
  BY <1>1 DEF Shown

\* What is shown after a step is a state of the target.
LEMMA ShownTypeNext == Shown' \in Transaction!TargetStates
<1>1. \A s, t \in ResourceStates : Complete(s)' /\ Complete(t)' => t = s
  BY DEF Complete
<1>2. CASE \E s \in ResourceStates : Complete(s)'
  BY <1>1, <1>2 DEF Shown, ResourceStates, Transaction!TargetStates
<1>3. CASE ~\E s \in ResourceStates : Complete(s)'
  BY <1>3 DEF Shown, Transaction!TargetStates
<1>4. QED
  BY <1>2, <1>3

LEMMA ShownCompleteNext ==
  ASSUME NEW s \in ResourceStates, Complete(s)'
  PROVE  Shown' = s
<1>1. \A t \in ResourceStates : Complete(t)' => t = s
  BY DEF Complete
<1>2. QED
  BY <1>1 DEF Shown

LEMMA ShownKept ==
  ASSUME UNCHANGED <<config, masks, escaped, slots>>
  PROVE  Shown' = Shown
<1>1. \A s : Complete(s)' <=> Complete(s)
  BY DEF Complete
<1>2. CASE \E s \in ResourceStates : Complete(s)
  <2>1. PICK s \in ResourceStates : Complete(s)
    BY <1>2
  <2>2. Complete(s)'
    BY <1>1, <2>1
  <2>3. QED
    BY <2>1, <2>2, ShownComplete, ShownCompleteNext
<1>3. CASE ~\E s \in ResourceStates : Complete(s)
  <2>1. Shown = Mixed
    BY <1>3 DEF Shown
  <2>2. ~\E s \in ResourceStates : Complete(s)'
    BY <1>1, <1>3
  <2>3. Shown' = Mixed
    BY <2>2 DEF Shown, ResourceStates
  <2>4. QED
    BY <2>1, <2>3
<1>4. QED
  BY <1>2, <1>3

\* An action that has made its last call has arrived.
LEMMA ArrivedIsComplete ==
  ASSUME NEW s, Reached(s), op.step = "done"
  PROVE  Complete(s)
  BY DEF Reached, Complete

\* The stages of the process.
LEMMA StageCases ==
  /\ pc \in Final => Stage = "over"
  /\ pc \in Acting => Stage = "open"
  /\ pc \in Restoring => Stage = "restoring"
  /\ pc = "boot" => Stage = "untouched"
  /\ pc \in Loop /\ config.mode # "active" => Stage = "untouched"
  /\ pc \in Loop /\ config.mode = "active" => Stage = IF torn THEN "torn" ELSE "settled"
  BY DEF Stage, Final, Acting, Restoring, Loop

LEMMA StageCasesNext ==
  /\ pc' \in Final => Stage' = "over"
  /\ pc' \in Acting => Stage' = "open"
  /\ pc' \in Restoring => Stage' = "restoring"
  /\ pc' = "boot" => Stage' = "untouched"
  /\ pc' \in Loop /\ config'.mode # "active" => Stage' = "untouched"
  /\ pc' \in Loop /\ config'.mode = "active" => Stage' = IF torn' THEN "torn" ELSE "settled"
  BY DEF Stage, Final, Acting, Restoring, Loop

\* What neither leaves a stage nor touches a resource is a stutter.
LEMMA TransactionQuiet ==
  ASSUME UNCHANGED <<config, actual, masks, escaped, slots, restore>>, Stage' = Stage
  PROVE  UNCHANGED Transaction!vars
  BY ShownKept DEF Transaction!vars

\* A step within the loop is a stutter ...
LEMMA TransactionIdle ==
  ASSUME pc \in Loop, pc' \in Loop,
         UNCHANGED <<config, actual, masks, escaped, slots, restore, torn>>
  PROVE  UNCHANGED Transaction!vars
<1>1. Stage' = Stage
  BY StageCases, StageCasesNext
<1>2. QED
  BY <1>1, TransactionQuiet

\* ... and one that launches an action opens a transaction.
LEMMA TransactionOpens ==
  ASSUME pc \in Loop \cup {"boot"}, pc' \in Acting,
         UNCHANGED <<config, actual, masks, escaped, slots, restore>>
  PROVE  Transaction!Open
<1>1. Stage \in {"untouched", "settled", "torn"} /\ Stage' = "open"
  BY StageCases, StageCasesNext
<1>2. QED
  BY <1>1, ShownKept DEF Transaction!Open

\* A call, done or failed, moves the resources.
LEMMA TransactionMoves ==
  ASSUME \/ pc \in Acting /\ pc' \in Acting
         \/ pc \in Restoring /\ pc' \in Restoring,
         UNCHANGED <<actual, restore>>
  PROVE  Transaction!Move
<1>1. Stage \in {"open", "restoring"} /\ Stage' = Stage
  BY StageCases, StageCasesNext
<1>2. QED
  BY <1>1, ShownTypeNext DEF Transaction!Move

\* The process ends where the resources are.
LEMMA TransactionVanishes ==
  ASSUME TypeOK, pc \notin Final, pc' \in Final,
         UNCHANGED <<config, actual, masks, escaped, slots, restore>>
  PROVE  Transaction!Vanish
<1>1. Stage # "over"
  BY StageCases DEF TypeOK
<1>2. Stage' = "over"
  BY StageCasesNext
<1>3. QED
  BY <1>1, <1>2, ShownKept DEF Transaction!Vanish

LEMMA TransactionInit == Init => Transaction!Init
<1> SUFFICES ASSUME Init PROVE Transaction!Init
  OBVIOUS
<1>1. Complete(Original) /\ Original \in ResourceStates
  BY DEF Init, Complete, ResourceStates
<1>2. Shown = Original
  BY <1>1, ShownComplete
<1>3. Stage = "untouched"
  BY StageCases DEF Init
<1>4. actual \in States /\ restore = "none"
  BY ConfigAssumption DEF Init, ConfigType
<1>5. QED
  BY <1>2, <1>3, <1>4 DEF Init, Transaction!Init

LEMMA TransactionStep ==
  ASSUME TypeOK, Ordered, [Next]_vars
  PROVE  [Transaction!Next]_Transaction!vars
<1> USE DEF process, world, resources, history
<1>t. /\ op.target \in States /\ op.previous \in States /\ actual \in States
      /\ States \subseteq ResourceStates /\ Original \in ResourceStates
      /\ config.mode \in {"active", "shadow"}
  BY ConfigAssumption DEF TypeOK, Operations, ResourceStates, ConfigType
<1>1. ASSUME NEW a \in BOOLEAN, NEW p \in Phases, Mark(a, p)
      PROVE  UNCHANGED Transaction!vars
  BY <1>1, TransactionIdle DEF Mark, Loop
<1>2. ASSUME NEW n \in 1..MaxWindows, NEW q \in Published, PublishKpi(n, q)
      PROVE  UNCHANGED Transaction!vars
  BY <1>2, TransactionIdle DEF PublishKpi, Loop
<1>3. CASE Stop
  <2>1. Stage' = Stage
    BY <1>3 DEF Stop, Stage
  <2>2. QED
    BY <1>3, <2>1, TransactionQuiet DEF Stop
<1>4. CASE Kill
  BY <1>4, TransactionVanishes DEF Kill, Final, Transaction!Next
<1>5. CASE Start
  <2>1. UNCHANGED <<config, actual, masks, escaped, slots, restore>>
    BY <1>5 DEF Start
  <2>2. CASE config.mode = "active"
    BY <1>5, <2>1, <2>2, TransactionOpens DEF Start, Acting, Transaction!Next
  <2>3. CASE config.mode # "active"
    <3>1. Stage' = Stage
      BY <1>5, <2>1, <2>3, StageCases, StageCasesNext DEF Start, Loop
    <3>2. QED
      BY <2>1, <3>1, TransactionQuiet
  <2>4. QED
    BY <2>2, <2>3
<1>6. CASE AffinityApplied
  BY <1>6, TransactionMoves DEF AffinityApplied, Transaction!Next
<1>7. CASE SlotsApplied
  BY <1>7, TransactionMoves DEF SlotsApplied, Transaction!Next
<1>8. CASE CallFails
  BY <1>8, TransactionMoves DEF CallFails, Acting, Transaction!Next
<1>9. ASSUME NEW d \in 0..MaxDelay, ActionApplied(d)
      PROVE  Transaction!Commit
  <2>1. Reached(op.target) /\ op.step = "done" /\ pc \in Acting /\ config.mode = "active"
    BY <1>9 DEF ActionApplied, Ordered, Acting, Towards
  <2>2. Shown = op.target
    BY <1>t, <2>1, ArrivedIsComplete, ShownComplete
  <2>3. UNCHANGED <<config, masks, escaped, slots, restore>> /\ actual' = op.target /\ torn' = FALSE
    BY <1>9 DEF ActionApplied
  <2>4. pc' \in Loop
    BY <1>9 DEF ActionApplied, Resume, Loop
  <2>5. Stage = "open" /\ Stage' = "settled"
    BY <2>1, <2>3, <2>4, StageCases, StageCasesNext
  <2>6. QED
    BY <1>t, <2>2, <2>3, <2>5, ShownKept DEF Transaction!Commit
<1>10. ASSUME NEW d \in 0..MaxDelay, ActionFailed(d)
       PROVE  Transaction!Next
  <2>1. /\ pc \in Acting /\ op.step = "done" /\ config.mode = "active"
        /\ ~torn => Reached(actual)
    BY <1>10 DEF ActionFailed, Ordered, Acting, Towards
  <2>2. UNCHANGED <<config, actual, masks, escaped, slots, restore, torn>>
    BY <1>10 DEF ActionFailed
  <2>3. pc' = "aborted" \/ pc' \in Loop
    BY <1>10 DEF ActionFailed, Resume, Loop
  <2>4. CASE pc' = "aborted"
    <3>1. pc \notin Final
      BY <2>1 DEF Acting, Final
    <3>2. QED
      BY <2>2, <2>4, <3>1, TransactionVanishes DEF Final, Transaction!Next
  <2>5. CASE pc' \in Loop /\ torn
    <3>1. Stage = "open" /\ Stage' = "torn"
      BY <2>1, <2>2, <2>5, StageCases, StageCasesNext
    <3>2. Transaction!Tear
      BY <2>2, <3>1, ShownKept DEF Transaction!Tear
    <3>3. QED
      BY <3>2 DEF Transaction!Next
  <2>6. CASE pc' \in Loop /\ ~torn
    <3>1. Stage = "open" /\ Stage' = "settled"
      BY <2>1, <2>2, <2>6, StageCases, StageCasesNext
    <3>2. Shown = actual
      BY <1>t, <2>1, <2>6, ArrivedIsComplete, ShownComplete
    <3>3. Transaction!Undo
      BY <2>2, <3>1, <3>2, ShownKept DEF Transaction!Undo
    <3>4. QED
      BY <3>3 DEF Transaction!Next
  <2>7. QED
    BY <2>3, <2>4, <2>5, <2>6
<1>11. ASSUME NEW s \in Samples, Observe(s)
       PROVE  [Transaction!Next]_Transaction!vars
  <2>1. /\ pc \in Loop /\ UNCHANGED <<config, actual, masks, escaped, slots, restore, torn>>
        /\ pc' \in {"forward", "decide"}
    BY <1>11 DEF Observe, Loop
  <2>2. CASE pc' = "decide"
    BY <2>1, <2>2, TransactionIdle DEF Loop
  <2>3. CASE pc' = "forward"
    BY <2>1, <2>3, TransactionOpens DEF Acting, Transaction!Next
  <2>4. QED
    BY <2>1, <2>2, <2>3
<1>12. ASSUME Decide \/ DecideScripted
       PROVE  [Transaction!Next]_Transaction!vars
  <2>1. pc \in Loop /\ UNCHANGED <<config, actual, masks, escaped, slots, restore, torn>>
    BY <1>12 DEF Decide, DecideScripted, Loop
  <2>2. \A p : Launch(p) => pc' \in {"forward", "report"}
    BY DEF Launch
  <2>3. pc' \in {"forward", "report"}
    BY <1>12, <2>2, ScriptedChoice DEF Decide
  <2>4. CASE pc' = "report"
    BY <2>1, <2>4, TransactionIdle DEF Loop
  <2>5. CASE pc' = "forward"
    BY <2>1, <2>5, TransactionOpens DEF Acting, Transaction!Next
  <2>6. QED
    BY <2>3, <2>4, <2>5
<1>14. CASE Report
  BY <1>14, TransactionIdle DEF Report, Loop
<1>15. CASE NextIteration
  BY <1>15, TransactionIdle DEF NextIteration, Loop
<1>16. ASSUME LoopEnds \/ LoopRaises
       PROVE  Transaction!Next
  <2>1. pc \in Loop /\ Leave
    BY <1>16 DEF LoopEnds, LoopRaises, Loop
  <2>2. UNCHANGED <<config, actual, masks, escaped, slots, restore, torn>>
    BY <2>1 DEF Leave
  <2>3. CASE config.mode = "active"
    <3>1. pc' \in Restoring
      BY <2>1, <2>3 DEF Leave, Restoring
    <3>2. Stage \in {"settled", "torn"} /\ Stage' = "restoring"
      BY <2>1, <2>3, <3>1, StageCases, StageCasesNext
    <3>3. Transaction!Close
      BY <2>2, <3>2, ShownKept DEF Transaction!Close
    <3>4. QED
      BY <3>3 DEF Transaction!Next
  <2>4. CASE config.mode # "active"
    <3>1. pc \notin Final /\ pc' \in Final
      BY <2>1, <2>4 DEF Leave, Loop, Final
    <3>2. QED
      BY <2>2, <3>1, TransactionVanishes DEF Transaction!Next
  <2>5. QED
    BY <2>3, <2>4
<1>r. ASSUME pc \in Restoring, Finish("restored"), Complete(Original)', UNCHANGED actual
      PROVE  Transaction!Restore
  <2>1. Stage = "restoring" /\ Stage' = "over"
    BY <1>r, StageCases, StageCasesNext DEF Finish, Final
  <2>2. QED
    BY <1>r, <1>t, <2>1, ShownCompleteNext DEF Finish, Transaction!Restore
<1>17. CASE AffinityRestored
  <2>1. CASE config.hasSlots
    BY <1>17, <2>1, TransactionMoves DEF AffinityRestored, Restoring, Transaction!Next
  <2>2. CASE ~config.hasSlots
    <3>1. Finish("restored") /\ Complete(Original)' /\ UNCHANGED actual
      BY <1>17, <2>2 DEF AffinityRestored, AffinityMoves, Complete
    <3>2. QED
      BY <1>17, <1>r, <3>1 DEF AffinityRestored, Restoring, Transaction!Next
  <2>3. QED
    BY <2>1, <2>2
<1>18. CASE SlotsRestored
  <2>1. Finish("restored") /\ Complete(Original)' /\ UNCHANGED actual
    BY <1>18 DEF SlotsRestored, Complete, Ordered
  <2>2. QED
    BY <1>18, <1>r, <2>1 DEF SlotsRestored, Restoring, Transaction!Next
<1>19. CASE RestoreFails
  <2>1. Stage = "restoring" /\ Stage' = "over"
    BY <1>19, StageCases, StageCasesNext DEF RestoreFails, Finish, Final
  <2>2. Transaction!FailToRestore
    BY <1>19, <2>1, ShownTypeNext DEF RestoreFails, Finish, Transaction!FailToRestore
  <2>3. QED
    BY <2>2 DEF Transaction!Next
<1>20. CASE UNCHANGED vars
  <2>1. Stage' = Stage
    BY <1>20 DEF vars, Stage
  <2>2. QED
    BY <1>20, <2>1, TransactionQuiet DEF vars
<1>21. QED
  BY <1>1, <1>2, <1>3, <1>4, <1>5, <1>6, <1>7, <1>8, <1>9, <1>10, <1>11, <1>12,
     <1>14, <1>15, <1>16, <1>17, <1>18, <1>19, <1>20
     DEF Next, Process, World, Exited, Transaction!Next

(***************************************************************************)
(* Every change of the resources is a transaction: it arrives, is taken    *)
(* back or is known to be torn, and the last one restores; tasks escape in *)
(* the calls of a transaction and nowhere else (runtime.py 271-316,        *)
(* 482-507).                                                               *)
(***************************************************************************)
THEOREM ChangesAreTransactions == Spec => Transactional
<1>1. TypeOK /\ Ordered /\ [Next]_vars => [Transaction!Next]_Transaction!vars
  BY TransactionStep
<1>2. QED
  BY <1>1, TransactionInit, TypeCorrect, OrderedAlways, PTL
     DEF Spec, Transactional, Transaction!Spec

-------------------------------------------------------------------------------
(***************************************************************************)
(* Shadow mode.                                                            *)
(***************************************************************************)
LEMMA ShadowStep ==
  TypeOK /\ Ordered /\ [Next]_vars => (config.mode = "shadow" => UNCHANGED resources)
<1> SUFFICES ASSUME TypeOK, Ordered, [Next]_vars, config.mode = "shadow"
             PROVE  UNCHANGED resources
  OBVIOUS
<1>1. pc \notin Acting \cup Restoring
  BY DEF Ordered
<1>2. ~AffinityApplied /\ ~SlotsApplied /\ ~CallFails
  BY <1>1 DEF AffinityApplied, SlotsApplied, CallFails
<1>3. ~AffinityRestored /\ ~SlotsRestored /\ ~RestoreFails
  BY <1>1 DEF AffinityRestored, SlotsRestored, RestoreFails, Restoring
<1>4. QED
  BY <1>2, <1>3 DEF Next, Process, World, Exited, vars, Start, ActionApplied, ActionFailed,
     Observe, Decide, DecideScripted, Report, NextIteration, LoopEnds, LoopRaises, Leave,
     Mark, PublishKpi, Stop, Kill

(***************************************************************************)
(* No step of a shadow controller touches a resource (runtime.py 278-281). *)
(***************************************************************************)
THEOREM ShadowIsPassive == Spec => ShadowTouchesNothing
  BY ShadowStep, TypeCorrect, OrderedAlways, PTL DEF Spec, ShadowTouchesNothing

-------------------------------------------------------------------------------
(***************************************************************************)
(* The policy and the resources, when no guard runs.                       *)
(***************************************************************************)
Unguarded == ~config.useKpi \/ config.mode = "shadow"

Followed ==
  Unguarded =>
    /\ ~rolledBack
    /\ pc \in Loop \cup {"boot"} => policy.state = actual
    /\ pc \in Acting => op.origin # "guard"
    /\ pc = "forward" => policy.state = op.target

LEMMA FollowedInit == Init => Followed
  BY DEF Init, Followed, InitialPolicy, Acting

\* A forced policy is in the state it was forced to.
LEMMA ForcedState ==
  ASSUME NEW p \in Policies, NEW s, NEW t
  PROVE  ForceState(p, s, t).state = s
  BY DEF ForceState, Policies

LEMMA FollowedStep == TypeOK /\ Ordered /\ Followed /\ [Next]_vars => Followed'
<1> SUFFICES ASSUME TypeOK, Ordered, Followed, [Next]_vars, Unguarded'
             PROVE  /\ ~rolledBack'
                    /\ pc' \in Loop \cup {"boot"} => policy'.state = actual'
                    /\ pc' \in Acting => op'.origin # "guard"
                    /\ pc' = "forward" => policy'.state = op'.target
  BY DEF Followed
<1> DEFINE Goal == /\ ~rolledBack'
                   /\ pc' \in Loop \cup {"boot"} => policy'.state = actual'
                   /\ pc' \in Acting => op'.origin # "guard"
                   /\ pc' = "forward" => policy'.state = op'.target
<1> USE DEF process, world, resources, history
<1>c. config' = config
  BY DEF Next, Process, World, Exited, vars, Start, ActionApplied, ActionFailed,
     Observe, Decide, DecideScripted, Report, NextIteration, LoopEnds, LoopRaises, Leave,
     Mark, PublishKpi, Stop, Kill, AffinityApplied, SlotsApplied, CallFails,
     AffinityRestored, SlotsRestored, RestoreFails
<1>u. /\ Unguarded
      /\ ~rolledBack
      /\ pc \in Loop \cup {"boot"} => policy.state = actual
      /\ pc \in Acting => op.origin # "guard"
      /\ pc = "forward" => policy.state = op.target
  BY <1>c DEF Followed, Unguarded
<1>t. policy \in Policies /\ op \in Operations
  BY DEF TypeOK
\* The steps that leave the policy alone and stay in the same part of run().
<1>1. CASE /\ UNCHANGED <<policy, actual, op>>
           /\ ~rolledBack'
           /\ \/ pc' = pc
              \/ pc \in Loop \cup {"boot"} /\ pc' \in Loop
              \/ pc' \notin Loop \cup Acting \cup {"boot"}
  BY <1>1, <1>u DEF Loop, Acting
<1>2. CASE Start
  BY <1>2, <1>u, BeginOrigin DEF Start, Loop, Acting
<1>3. CASE AffinityApplied \/ SlotsApplied \/ CallFails
  BY <1>3, <1>u, <1>t DEF AffinityApplied, SlotsApplied, CallFails, Loop, Acting, Operations
<1>4. ASSUME NEW d \in 0..MaxDelay, ActionApplied(d)
      PROVE  Goal
  <2>1. pc' \in {"wait", "decide", "report"}
    BY <1>4 DEF ActionApplied, Resume
  <2>2. policy' = policy /\ actual' = op.target /\ pc = "forward" /\ ~rolledBack'
    BY <1>4, <1>u DEF ActionApplied, GuardForces, Acting
  <2>3. QED
    BY <1>u, <2>1, <2>2 DEF Acting
<1>5. ASSUME NEW d \in 0..MaxDelay, ActionFailed(d)
      PROVE  Goal
  <2>1. pc' \in {"aborted", "wait", "decide", "report"}
    BY <1>5 DEF ActionFailed, Resume
  <2>2. /\ policy' = ForceState(policy, op.previous, now')
        /\ actual' = actual /\ op.previous = actual /\ ~rolledBack'
    BY <1>5, <1>u DEF ActionFailed, GuardForces, Acting, Ordered
  <2>3. policy'.state = actual'
    BY <1>t, <2>2, ForcedState
  <2>4. QED
    BY <2>1, <2>2, <2>3 DEF Acting
<1>6. ASSUME NEW s \in Samples, Observe(s)
      PROVE  Goal
  <2>1. ~(config.useKpi /\ pending.on)
    BY <1>u DEF Unguarded, Ordered
  <2>2. /\ pc = "observe" /\ pc' = "decide" /\ ~rolledBack'
        /\ UNCHANGED <<policy, actual, op>>
    BY <1>6, <2>1 DEF Observe
  <2>3. QED
    BY <1>u, <2>2 DEF Loop, Acting
<1>l. ASSUME NEW p \in Policies, Launch(p), pc = "decide", UNCHANGED <<actual, rolledBack>>
      PROVE  Goal
  <2>1. CASE config.mode = "active"
    BY <1>l, <1>u, <2>1, BeginOrigin DEF Launch, Loop, Acting
  <2>2. CASE config.mode # "active"
    <3>1. policy' = ForceState(p, actual, sample.at) /\ pc' = "report" /\ op' = op
      BY <1>l, <1>u, <2>2 DEF Launch
    <3>2. policy'.state = actual
      BY <3>1, ForcedState
    <3>3. QED
      BY <1>l, <1>u, <3>1, <3>2 DEF Loop, Acting
  <2>3. QED
    BY <2>1, <2>2
<1>7. CASE Decide
  <2> DEFINE p == Evaluate(policy, sample, sample.at)
  <2>1. p \in Policies
    BY EvaluateType DEF TypeOK
  <2>2. pc = "decide" /\ UNCHANGED <<actual, rolledBack>>
    BY <1>7 DEF Decide
  <2>3. \/ Launch(p)
        \/ ActionOf(policy, p) = "none" /\ policy' = p /\ pc' = "report" /\ UNCHANGED op
    BY <1>7, <1>u DEF Decide
  <2>4. ActionOf(policy, p) = "none" => p.state = policy.state
    BY EvaluateMoves DEF TypeOK
  <2> HIDE DEF p
  <2>5. CASE Launch(p)
    BY <1>l, <2>1, <2>2, <2>5
  <2>6. CASE ActionOf(policy, p) = "none" /\ policy' = p /\ pc' = "report" /\ UNCHANGED op
    BY <1>u, <2>2, <2>4, <2>6 DEF Loop, Acting
  <2>7. QED
    BY <2>3, <2>5, <2>6
<1>8. CASE DecideScripted
  <2>1. pc = "decide" /\ UNCHANGED <<actual, rolledBack>>
    BY <1>8 DEF DecideScripted
  <2>2. \/ \E i \in 1..Len(config.script) :
             Launch(ForceState(policy, config.script[i].state, sample.at))
        \/ pc' = "report" /\ UNCHANGED <<policy, op>>
    BY <1>8, ScriptedChoice
  <2>3. \A i \in 1..Len(config.script) :
          ForceState(policy, config.script[i].state, sample.at) \in Policies
    BY ScriptStates, ForceStateType DEF TypeOK
  <2>4. CASE pc' = "report" /\ UNCHANGED <<policy, op>>
    BY <1>u, <2>1, <2>4 DEF Loop, Acting
  <2>5. QED
    BY <1>l, <2>1, <2>2, <2>3, <2>4
<1>9. CASE Report \/ NextIteration \/ LoopEnds \/ LoopRaises
  BY <1>1, <1>9, <1>u DEF Report, NextIteration, LoopEnds, LoopRaises, Leave, Loop, Acting
<1>10. CASE AffinityRestored \/ SlotsRestored \/ RestoreFails
  BY <1>1, <1>10, <1>u DEF AffinityRestored, SlotsRestored, RestoreFails, Finish, Loop, Acting
<1>11. CASE World
  BY <1>1, <1>11, <1>u DEF World, Mark, PublishKpi, Stop, Kill, Loop, Acting
<1>12. CASE UNCHANGED vars
  BY <1>1, <1>12, <1>u DEF vars
<1>13. QED
  BY <1>2, <1>3, <1>4, <1>5, <1>6, <1>7, <1>8, <1>9, <1>10, <1>11, <1>12
     DEF Next, Process, Exited

(***************************************************************************)
(* Without the KPI guard the policy never reasons from another state than  *)
(* the target's, whatever fails (runtime.py 156, 314, 457).                *)
(***************************************************************************)
THEOREM PolicyFollows == Spec => []PolicyFollowsActual
<1>1. Followed => PolicyFollowsActual
  BY DEF Followed, Unguarded, PolicyFollowsActual, Loop
<1>2. QED
  BY <1>1, FollowedInit, FollowedStep, TypeCorrect, OrderedAlways, PTL DEF Spec

-------------------------------------------------------------------------------
(***************************************************************************)
(* The KPI guard.  The history is a run of windows of one phase, no window *)
(* followed by itself, that ends with the window of last_kpi_key; it       *)
(* ascends while the file has never gone back.  A pending validation waits *)
(* for the settling of the last applied action and of no other.            *)
(***************************************************************************)
RowsInOrder(rows, key) ==
  /\ Len(rows) <= 3
  /\ \A i, j \in 1..Len(rows) : rows[i].phase = rows[j].phase
  /\ \A i \in 1..Len(rows) - 1 : rows[i].seq # rows[i + 1].seq
  /\ Len(rows) > 0 => key = <<rows[Len(rows)].phase, rows[Len(rows)].seq>>

RowsAscend(rows) ==
  \A i \in 1..Len(rows) - 1 : rows[i].seq < rows[i + 1].seq

Awaited ==
  pending.on => /\ config.useKpi /\ config.script = << >>
                /\ appliedAt # Never
                /\ pending.settle >= appliedAt + Settling

\* As long as the file never went back it holds the newest window of its phase.
FileAscends ==
  returns = 0 => /\ latest.seq = newest[latest.phase]
                 /\ lastKey[2] <= newest[lastKey[1]]
                 /\ RowsAscend(kpis)

Earned ==
  /\ FileAscends
  /\ RowsInOrder(kpis, lastKey)
  /\ Awaited
  /\ GuardIsEarned

\* The history after a window: this window behind the last ones of its phase.
LEMMA RecordedShape ==
  ASSUME NEW rows \in Seq(Rows), NEW row \in Rows, Len(rows) <= 3,
         NEW after, after = Recorded(rows, row)
  PROVE  /\ Len(after) \in 1..3 /\ after[Len(after)] = row
         /\ Len(after) > 1 => Len(rows) > 0 /\ rows[Len(rows)].phase = row.phase
         /\ Len(after) <= Len(rows) + 1
         /\ \A i \in 1..Len(after) - 1 : after[i] = rows[i + (Len(rows) + 1 - Len(after))]
<1> DEFINE n == Len(rows)
           longer == Append(rows, row)
<1>1. n \in Nat /\ n <= 3 /\ (rows = << >> <=> n = 0)
  OBVIOUS
<1>2. CASE n > 0 /\ rows[n].phase # row.phase
  <2>1. after = <<row>>
    BY <1>1, <1>2 DEF Recorded
  <2>2. QED
    BY <1>1, <2>1
<1>3. CASE n = 0 \/ rows[n].phase = row.phase
  <2>1. after = LastThree(longer)
    BY <1>1, <1>3 DEF Recorded
  <2>2. /\ longer \in Seq(Rows) /\ Len(longer) = n + 1 /\ longer[n + 1] = row
        /\ \A i \in 1..n : longer[i] = rows[i]
    OBVIOUS
  <2> HIDE DEF longer
  <2>3. CASE n <= 2
    <3>1. after = longer
      BY <1>1, <2>1, <2>2, <2>3 DEF LastThree
    <3>2. QED
      BY <1>1, <1>3, <2>2, <2>3, <3>1
  <2>4. CASE n = 3
    <3>1. after = SubSeq(longer, 2, 4)
      BY <2>1, <2>2, <2>4 DEF LastThree
    <3>2. \A i \in 2..4 : longer[i] \in Rows
      BY <2>2, <2>4
    <3>3. Len(after) = 3 /\ \A i \in 1..3 : after[i] = longer[2 + i - 1]
      BY <2>2, <2>4, <3>1, <3>2, SubSeqProperties
    <3>4. after[1] = rows[2] /\ after[2] = rows[3] /\ after[3] = row
      BY <2>2, <2>4, <3>3
    <3>5. \A i \in 1..2 : after[i] = rows[i + 1]
      BY <3>4
    <3>6. n + 1 - Len(after) = 1 /\ Len(after) - 1 = 2
      BY <2>4, <3>3
    <3>7. \A i \in 1..Len(after) - 1 : after[i] = rows[i + (n + 1 - Len(after))]
      BY <3>5, <3>6
    <3>8. Len(after) \in 1..3 /\ after[Len(after)] = row /\ Len(after) <= n + 1
      BY <2>4, <3>3, <3>4
    <3>9. n > 0 /\ rows[n].phase = row.phase
      BY <1>3, <2>4
    <3>10. Len(after) > 1 => n > 0 /\ rows[n].phase = row.phase
      BY <3>9
    <3>11. QED
      BY <3>7, <3>8, <3>10, Zenon
  <2>5. n <= 2 \/ n = 3
    <3>1. \A k \in Nat : k <= 3 => k <= 2 \/ k = 3
      OBVIOUS
    <3>2. QED
      BY <1>1, <3>1, Zenon
  <2>6. QED
    BY <2>3, <2>4, <2>5, Zenon
<1>4. QED
  BY <1>1, <1>2, <1>3

\* A window of another number than the last one, or of another phase, keeps the
\* history in order ...
LEMMA RecordedInOrder ==
  ASSUME NEW rows \in Seq(Rows), NEW row \in Rows, NEW key,
         RowsInOrder(rows, key),
         Len(rows) > 0 /\ rows[Len(rows)].phase = row.phase => rows[Len(rows)].seq # row.seq
  PROVE  RowsInOrder(Recorded(rows, row), <<row.phase, row.seq>>)
<1> DEFINE after == Recorded(rows, row)
           shift == Len(rows) + 1 - Len(after)
<1>1. /\ Len(after) \in 1..3 /\ after[Len(after)] = row
      /\ Len(after) > 1 => Len(rows) > 0 /\ rows[Len(rows)].phase = row.phase
      /\ Len(after) <= Len(rows) + 1
      /\ \A i \in 1..Len(after) - 1 : after[i] = rows[i + shift]
  BY RecordedShape DEF RowsInOrder
<1> HIDE DEF after
<1>2. Len(rows) \in Nat /\ shift \in Nat
  BY <1>1
<1>3. \A i \in 1..Len(after) : after[i].phase = row.phase
  <2> SUFFICES ASSUME NEW i \in 1..Len(after) - 1
               PROVE  after[i].phase = row.phase
    BY <1>1
  <2>1. i + shift \in 1..Len(rows) /\ Len(rows) \in 1..Len(rows) /\ Len(after) > 1
    BY <1>1, <1>2
  <2>2. QED
    BY <1>1, <2>1 DEF RowsInOrder
<1>4. \A i \in 1..Len(after) - 1 : after[i].seq # after[i + 1].seq
  <2> SUFFICES ASSUME NEW i \in 1..Len(after) - 1
               PROVE  after[i].seq # after[i + 1].seq
    OBVIOUS
  <2>1. CASE i = Len(after) - 1
    <3>1. after[i] = rows[Len(rows)] /\ after[i + 1] = row /\ Len(after) > 1
      BY <1>1, <1>2, <2>1
    <3>2. QED
      BY <1>1, <3>1
  <2>2. CASE i < Len(after) - 1
    <3>1. i + 1 \in 1..Len(after) - 1
      BY <1>1, <2>2
    <3>2. after[i] = rows[i + shift] /\ after[i + 1] = rows[(i + shift) + 1]
      BY <1>1, <1>2, <3>1
    <3>3. i + shift \in 1..Len(rows) - 1
      BY <1>1, <1>2, <2>2
    <3>4. QED
      BY <3>2, <3>3 DEF RowsInOrder
  <2>3. QED
    BY <1>1, <2>1, <2>2
<1>5. QED
  BY <1>1, <1>3, <1>4 DEF RowsInOrder, after

\* ... and a later one keeps it ascending.
LEMMA RecordedAscends ==
  ASSUME NEW rows \in Seq(Rows), NEW row \in Rows, NEW key,
         RowsInOrder(rows, key), RowsAscend(rows),
         Len(rows) > 0 /\ rows[Len(rows)].phase = row.phase => rows[Len(rows)].seq < row.seq
  PROVE  RowsAscend(Recorded(rows, row))
<1> DEFINE after == Recorded(rows, row)
           shift == Len(rows) + 1 - Len(after)
<1>1. /\ Len(after) \in 1..3 /\ after[Len(after)] = row
      /\ Len(after) > 1 => Len(rows) > 0 /\ rows[Len(rows)].phase = row.phase
      /\ Len(after) <= Len(rows) + 1
      /\ \A i \in 1..Len(after) - 1 : after[i] = rows[i + shift]
  BY RecordedShape DEF RowsInOrder
<1> HIDE DEF after
<1>2. Len(rows) \in Nat /\ shift \in Nat
  BY <1>1
<1>3. ASSUME NEW i \in 1..Len(after) - 1
      PROVE  after[i].seq < after[i + 1].seq
  <2>1. CASE i = Len(after) - 1
    <3>1. after[i] = rows[Len(rows)] /\ after[i + 1] = row /\ Len(after) > 1
      BY <1>1, <1>2, <2>1
    <3>2. QED
      BY <1>1, <3>1
  <2>2. CASE i < Len(after) - 1
    <3>1. i + 1 \in 1..Len(after) - 1
      BY <1>1, <2>2
    <3>2. after[i] = rows[i + shift] /\ after[i + 1] = rows[(i + shift) + 1]
      BY <1>1, <1>2, <3>1
    <3>3. i + shift \in 1..Len(rows) - 1
      BY <1>1, <1>2, <2>2
    <3>4. QED
      BY <3>2, <3>3 DEF RowsAscend
  <2>3. QED
    BY <1>1, <2>1, <2>2
<1>4. QED
  BY <1>3 DEF RowsAscend, after

LEMMA EarnedInit == Init => Earned
<1>1. Init => /\ kpis = << >> /\ ~pending.on /\ pc = "boot"
              /\ lastKey[2] = 0 /\ latest.seq = 0
              /\ newest[latest.phase] = 0 /\ newest[lastKey[1]] = 0
  BY RuntimeAssumption DEF Init, NoPending, NoSample
<1>2. RowsInOrder(<< >>, lastKey)
  BY DEF RowsInOrder
<1>3. QED
  BY <1>1, <1>2 DEF Earned, FileAscends, RowsAscend, Awaited, GuardIsEarned, Acting

\* A step that leaves the KPI state alone and starts no guard rollback.
LEMMA EarnedQuiet ==
  ASSUME Earned,
         UNCHANGED <<kpis, lastKey, latest, newest, returns, pending, appliedAt, config>>,
         pc' \in Acting => \/ op'.origin # "guard"
                           \/ pc \in Acting /\ op'.origin = op.origin
  PROVE  Earned'
<1>1. FileAscends' /\ RowsInOrder(kpis, lastKey)' /\ Awaited'
  BY DEF Earned, FileAscends, RowsAscend, Awaited, RowsInOrder
<1>2. GuardIsEarned'
  BY DEF Earned, GuardIsEarned
<1>3. QED
  BY <1>1, <1>2 DEF Earned

LEMMA EarnedStep == TypeOK /\ Earned /\ [Next]_vars => Earned'
<1> SUFFICES ASSUME TypeOK, Earned, [Next]_vars
             PROVE  Earned'
  OBVIOUS
<1> USE DEF process, world, resources, history
<1>t. /\ now \in Nat /\ Settling \in Nat /\ kpis \in Seq(Rows) /\ op \in Operations
      /\ lastKey \in Phases \X Nat /\ latest.seq \in Nat /\ latest.phase \in Phases
      /\ latest.quality \in Qualities /\ appliedAt \in Times /\ pending.settle \in Nat
  BY RuntimeAssumption DEF TypeOK
<1>1. CASE Start
  BY <1>1, EarnedQuiet, BeginOrigin DEF Start, Acting
<1>2. CASE AffinityApplied \/ SlotsApplied \/ CallFails
  BY <1>2, <1>t, EarnedQuiet DEF AffinityApplied, SlotsApplied, CallFails, Operations
<1>3. ASSUME NEW d \in 0..MaxDelay, ActionApplied(d)
      PROVE  Earned'
  <2>1. /\ UNCHANGED <<kpis, lastKey, latest, newest, returns, config>>
        /\ pc' \notin Acting
    BY <1>3 DEF ActionApplied, Resume, Acting
  <2>2. CASE op.origin = "decision"
    <3>1. /\ appliedAt' = now'
          /\ pending' = IF config.useKpi /\ config.script = << >>
                        THEN [on |-> TRUE, previous |-> op.previous,
                              settle |-> now' + Settling, baseline |-> op.baseline]
                        ELSE pending
      BY <1>3, <2>2 DEF ActionApplied
    <3>2. now' \in Nat
      BY <1>3, <1>t DEF ActionApplied
    <3>3. Awaited'
      <4>1. CASE config.useKpi /\ config.script = << >>
        <5>1. pending'.settle = appliedAt' + Settling
          BY <3>1, <4>1
        <5>2. appliedAt' \in Nat /\ pending'.settle \in Nat
          BY <1>t, <3>1, <3>2, <5>1, SumType
        <5>3. config'.useKpi /\ config'.script = << >>
          BY <2>1, <4>1
        <5>4. appliedAt' # Never
          BY <5>2 DEF Never
        <5>5. pending'.settle >= appliedAt' + Settling
          BY <5>1, <5>2
        <5>6. QED
          BY <5>3, <5>4, <5>5 DEF Awaited
      <4>2. CASE ~(config.useKpi /\ config.script = << >>)
        BY <2>1, <3>1, <4>2 DEF Awaited, Earned
      <4>3. QED
        BY <4>1, <4>2
    <3>4. FileAscends' /\ RowsInOrder(kpis, lastKey)'
      BY <2>1 DEF Earned, FileAscends, RowsAscend, RowsInOrder
    <3>5. QED
      BY <2>1, <3>3, <3>4 DEF Earned, GuardIsEarned
  <2>3. CASE op.origin # "decision"
    BY <1>3, <2>1, <2>3, EarnedQuiet DEF ActionApplied
  <2>4. QED
    BY <2>2, <2>3
<1>4. ASSUME NEW d \in 0..MaxDelay, ActionFailed(d)
      PROVE  Earned'
  <2>1. pc' \notin Acting
    BY <1>4 DEF ActionFailed, Resume, Acting
  <2>2. QED
    BY <1>4, <2>1, EarnedQuiet DEF ActionFailed
<1>5. ASSUME NEW s \in Samples, Observe(s)
      PROVE  Earned'
  <2> DEFINE seen == /\ config.useKpi
                     /\ latest.seq > 0
                     /\ latest.phase = control.phase
                     /\ <<latest.phase, latest.seq>> # lastKey
             row  == [phase |-> latest.phase, seq |-> latest.seq,
                      quality |-> latest.quality, seen |-> now]
             rows == IF seen THEN Recorded(kpis, row) ELSE kpis
             due  == /\ config.useKpi /\ pending.on
                     /\ now >= pending.settle
                     /\ Settled(rows, pending.settle)
  <2>1. /\ kpis' = rows
        /\ lastKey' = IF seen THEN <<latest.phase, latest.seq>> ELSE lastKey
        /\ pending' = IF due THEN NoPending ELSE pending
        /\ \/ due /\ pc' = "forward"
           \/ pc' = "decide"
        /\ UNCHANGED <<latest, newest, returns, appliedAt, config>>
    BY <1>5 DEF Observe
  <2>2. row \in Rows /\ row.phase = latest.phase /\ row.seq = latest.seq
    BY <1>t DEF Rows
  <2>3. RowsInOrder(rows, lastKey') /\ rows \in Seq(Rows)
    <3>1. CASE seen
      <4>1. Len(kpis) > 0 /\ kpis[Len(kpis)].phase = row.phase => kpis[Len(kpis)].seq # row.seq
        BY <2>2, <3>1 DEF Earned, RowsInOrder
      <4>2. RowsInOrder(kpis, lastKey)
        BY DEF Earned
      <4> HIDE DEF row
      <4>3. RowsInOrder(Recorded(kpis, row), <<row.phase, row.seq>>)
        BY <1>t, <2>2, <4>1, <4>2, RecordedInOrder
      <4>4. Recorded(kpis, row) \in Seq(Rows)
        BY <1>t, <2>2, RecordedType
      <4>5. QED
        BY <2>1, <2>2, <3>1, <4>3, <4>4
    <3>2. CASE ~seen
      BY <1>t, <2>1, <3>2 DEF Earned
    <3>3. QED
      BY <3>1, <3>2
  <2>4. FileAscends'
    <3> SUFFICES ASSUME returns = 0
                 PROVE  /\ latest.seq = newest[latest.phase]
                        /\ lastKey'[2] <= newest[lastKey'[1]]
                        /\ RowsAscend(rows)
      BY <2>1 DEF FileAscends
    <3>1. /\ latest.seq = newest[latest.phase] /\ lastKey[2] <= newest[lastKey[1]]
          /\ RowsAscend(kpis) /\ RowsInOrder(kpis, lastKey)
      BY DEF Earned, FileAscends
    <3>2. CASE seen
      <4>1. Len(kpis) > 0 /\ kpis[Len(kpis)].phase = row.phase => kpis[Len(kpis)].seq < row.seq
        <5> SUFFICES ASSUME Len(kpis) > 0, kpis[Len(kpis)].phase = row.phase
                     PROVE  kpis[Len(kpis)].seq < row.seq
          OBVIOUS
        <5>1. lastKey = <<latest.phase, kpis[Len(kpis)].seq>>
          BY <2>2, <3>1 DEF RowsInOrder
        <5>2. kpis[Len(kpis)].seq <= latest.seq /\ kpis[Len(kpis)].seq # latest.seq
          BY <3>1, <3>2, <5>1
        <5>3. kpis[Len(kpis)].seq \in Nat
          BY <1>t, <5>1
        <5>4. QED
          BY <1>t, <2>2, <5>2, <5>3
      <4> HIDE DEF row
      <4>2. RowsAscend(Recorded(kpis, row))
        BY <1>t, <2>2, <3>1, <4>1, RecordedAscends
      <4>3. lastKey' = <<latest.phase, latest.seq>>
        BY <2>1, <3>2
      <4>4. QED
        BY <1>t, <3>1, <3>2, <4>2, <4>3
    <3>3. CASE ~seen
      BY <2>1, <3>1, <3>3
    <3>4. QED
      BY <3>2, <3>3
  <2> HIDE DEF seen, row, rows
  <2>5. Awaited'
    <3>1. CASE due
      BY <2>1, <3>1 DEF Awaited, NoPending
    <3>2. CASE ~due
      BY <2>1, <3>2 DEF Awaited, Earned
    <3>3. QED
      BY <3>1, <3>2
  <2>6. GuardIsEarned'
    <3>1. CASE ~due
      BY <2>1, <3>1 DEF GuardIsEarned, Acting
    <3>2. CASE due
      <4>1. appliedAt # Never /\ pending.settle >= appliedAt + Settling
        BY <3>2 DEF Earned, Awaited
      <4>2. Len(rows) = 3 /\ \A i \in 1..3 : rows[i].seen >= pending.settle
        BY <3>2, <2>3 DEF Settled
      <4>3. \A i \in 1..3 : rows[i].seen \in Nat
        <5>1. \A i \in 1..3 : rows[i] \in Rows
          BY <2>3, <4>2, ElementOfSeq
        <5>2. QED
          BY <5>1 DEF Rows
      <4>4. \A i \in 1..3 : rows[i].seen >= appliedAt + Settling
        BY <1>t, <4>1, <4>2, <4>3 DEF Times
      <4>5. /\ \A i \in 1..3 : rows[i].phase = rows[1].phase
            /\ \A i \in 1..2 : rows[i].seq # rows[i + 1].seq
        BY <2>3, <4>2 DEF RowsInOrder
      <4>6. returns' = 0 => \A i \in 1..2 : rows[i].seq < rows[i + 1].seq
        BY <2>1, <2>4, <4>2 DEF FileAscends, RowsAscend
      <4>7. QED
        BY <2>1, <4>1, <4>2, <4>4, <4>5, <4>6 DEF GuardIsEarned
    <3>3. QED
      BY <3>1, <3>2
  <2>7. QED
    BY <2>1, <2>3, <2>4, <2>5, <2>6 DEF Earned
<1>l. ASSUME NEW p, Launch(p)
      PROVE  pc' \in Acting => op'.origin # "guard"
  BY <1>l, BeginOrigin DEF Launch, Acting
<1>6. CASE Decide
  <2>1. pc' \in Acting => op'.origin # "guard"
    BY <1>6, <1>l DEF Decide, Acting
  <2>2. QED
    BY <1>6, <2>1, EarnedQuiet DEF Decide
<1>7. CASE DecideScripted
  <2>1. \/ \E i \in 1..Len(config.script) :
             Launch(ForceState(policy, config.script[i].state, sample.at))
        \/ pc' = "report"
    BY <1>7, ScriptedChoice
  <2>2. pc' \in Acting => op'.origin # "guard"
    BY <1>l, <2>1 DEF Acting
  <2>3. QED
    BY <1>7, <2>2, EarnedQuiet DEF DecideScripted
<1>8. CASE Report \/ NextIteration \/ LoopEnds \/ LoopRaises
  BY <1>8, EarnedQuiet DEF Report, NextIteration, LoopEnds, LoopRaises, Leave, Acting
<1>9. CASE AffinityRestored \/ SlotsRestored \/ RestoreFails
  BY <1>9, EarnedQuiet DEF AffinityRestored, SlotsRestored, RestoreFails, Finish, Acting
<1>10. ASSUME NEW n \in 1..MaxWindows, NEW q \in Published, PublishKpi(n, q)
       PROVE  Earned'
  <2>1. /\ UNCHANGED <<kpis, lastKey, pending, appliedAt, config>>
        /\ latest'.seq = n /\ latest'.phase = control.phase
        /\ returns' = IF n < newest[control.phase] THEN returns + 1 ELSE returns
        /\ newest' = IF n > newest[control.phase]
                     THEN [newest EXCEPT ![control.phase] = n] ELSE newest
    BY <1>10 DEF PublishKpi
  <2>2. /\ newest \in [Phases -> Nat] /\ control.phase \in Phases /\ n \in Nat
        /\ returns \in Nat
    BY RuntimeAssumption DEF TypeOK
  <2>3. pc' = "observe"
    BY <1>10 DEF PublishKpi
  <2>4. FileAscends'
    <3> SUFFICES ASSUME returns' = 0
                 PROVE  /\ n = newest'[control.phase]
                        /\ lastKey[2] <= newest'[lastKey[1]]
                        /\ RowsAscend(kpis)
      BY <2>1 DEF FileAscends
    <3>1. returns = 0 /\ ~(n < newest[control.phase])
      BY <2>1, <2>2
    <3>2. n = newest'[control.phase] /\ \A p \in Phases : newest[p] <= newest'[p]
      BY <2>1, <2>2, <3>1
    <3>3. lastKey[2] <= newest[lastKey[1]] /\ RowsAscend(kpis)
      BY <3>1 DEF Earned, FileAscends
    <3>4. lastKey[1] \in Phases /\ lastKey[2] \in Nat
      BY <1>t
    <3>5. newest[lastKey[1]] \in Nat /\ newest'[lastKey[1]] \in Nat
      BY <2>1, <2>2, <3>4
    <3>6. QED
      BY <3>2, <3>3, <3>4, <3>5
  <2>5. QED
    BY <2>1, <2>3, <2>4 DEF Earned, Awaited, RowsInOrder, GuardIsEarned, Acting
<1>11. ASSUME NEW a \in BOOLEAN, NEW p \in Phases, Mark(a, p)
       PROVE  Earned'
  BY <1>11, EarnedQuiet DEF Mark
<1>12. CASE Stop \/ Kill
  BY <1>12, EarnedQuiet DEF Stop, Kill, Acting
<1>13. CASE UNCHANGED vars
  BY <1>13, EarnedQuiet DEF vars
<1>14. QED
  BY <1>1, <1>2, <1>3, <1>4, <1>5, <1>6, <1>7, <1>8, <1>9, <1>10, <1>11, <1>12, <1>13
     DEF Next, Process, World, Exited

(***************************************************************************)
(* Every rollback of the KPI guard rests on three windows of one phase     *)
(* that were seen after the last applied action had settled, for every     *)
(* traffic of windows, phases and failures: none of them is the one before *)
(* it, and they are three different ones in their order as long as         *)
(* kpi-latest.json never went back (runtime.py 171-246, kpi.py 53-58).     *)
(***************************************************************************)
THEOREM GuardRests == Spec => []GuardIsEarned
<1>1. Earned => GuardIsEarned
  BY DEF Earned
<1>2. QED
  BY <1>1, EarnedInit, EarnedStep, TypeCorrect, PTL DEF Spec

===============================================================================
