----------------------------- MODULE KpiDelivery -----------------------------
(***************************************************************************)
(* What forwarding the KPI windows promises: the store of the target gains *)
(* the windows of the application in their order, and the forwarder        *)
(* records a window as acknowledged only when the store has it.  Windows   *)
(* are numbered in the order the application writes them.                  *)
(***************************************************************************)
EXTENDS Naturals

VARIABLES
  written,  \* number of windows written by the application
  stored,   \* windows in the store
  acked     \* windows recorded as acknowledged

vars == <<written, stored, acked>>

Init == written = 0 /\ stored = {} /\ acked = {}

Write == written' = written + 1 /\ UNCHANGED <<stored, acked>>

Store(w) ==
  /\ w \in 1..written /\ w \notin stored
  /\ 1..(w - 1) \subseteq stored
  /\ stored' = stored \cup {w}
  /\ UNCHANGED <<written, acked>>

Acknowledge(w) ==
  /\ w \in stored
  /\ acked' = acked \cup {w}
  /\ UNCHANGED <<written, stored>>

Next == Write \/ \E w \in 1..written : Store(w) \/ Acknowledge(w)

Spec == Init /\ [][Next]_vars
===============================================================================
