------------------------- MODULE MCControllerRuntime -------------------------
(* Instances for TLC of the controller process.                            *)
EXTENDS ControllerRuntime

Base == [mode |-> "active", useKpi |-> FALSE, useMarker |-> TRUE,
         hasSlots |-> TRUE, initial |-> "one_node", script |-> << >>]

Script == <<[at |-> 1, state |-> "two_node"], [at |-> 2, state |-> "one_node"]>>

\* Without the KPI guard: with and without slots, both initial states, shadow
\* mode, and a scripted run.
MCTransactionConfigs ==
  {Base,
   [Base EXCEPT !.initial = "two_node", !.useMarker = FALSE],
   [Base EXCEPT !.hasSlots = FALSE],
   [Base EXCEPT !.mode = "shadow"],
   [Base EXCEPT !.script = Script]}

\* With the KPI guard.
MCKpiConfigs == {[Base EXCEPT !.useKpi = TRUE, !.hasSlots = FALSE]}
===============================================================================
