------------------------- MODULE ResourceTransaction -------------------------
(***************************************************************************)
(* What the controller promises of the target it manages: its resources    *)
(* move from one complete state to another, or back to the one they were   *)
(* in.  Only inside a transaction are they anything else, unless one was   *)
(* torn: its undoing failed as well.  The last transaction takes them back *)
(* to the state in which the controller found them.  Part of the target    *)
(* may escape a transaction unseen, and nothing else may.                  *)
(***************************************************************************)
CONSTANTS
  States,   \* the complete states the controller moves the target between
  Original, \* the state in which it found the target
  Mixed     \* any other state of the target

VARIABLES
  target,   \* the state the resources are in, but for the strays
  strays,   \* whether part of the target escaped a change and is elsewhere
  recorded, \* the state the controller takes them to be in
  stage,    \* "untouched", "settled", "torn", "open", "restoring" or "over"
  outcome   \* of the last transaction: "none", "restored" or "failed"

vars == <<target, strays, recorded, stage, outcome>>

TargetStates == States \cup {Original, Mixed}

Init ==
  /\ target = Original
  /\ strays = FALSE
  /\ recorded \in States
  /\ stage = "untouched"
  /\ outcome = "none"

Open ==
  /\ stage \in {"untouched", "settled", "torn"}
  /\ stage' = "open"
  /\ UNCHANGED <<target, strays, recorded, outcome>>

Move ==
  /\ stage \in {"open", "restoring"}
  /\ target' \in TargetStates
  /\ strays' \in BOOLEAN
  /\ UNCHANGED <<recorded, stage, outcome>>

\* The resources have arrived.
Commit ==
  /\ stage = "open"
  /\ target \in States
  /\ recorded' = target
  /\ stage' = "settled"
  /\ UNCHANGED <<target, strays, outcome>>

\* The resources are back.
Undo ==
  /\ stage = "open"
  /\ target = recorded
  /\ stage' = "settled"
  /\ UNCHANGED <<target, strays, recorded, outcome>>

Tear ==
  /\ stage = "open"
  /\ stage' = "torn"
  /\ UNCHANGED <<target, strays, recorded, outcome>>

Close ==
  /\ stage \in {"settled", "torn"}
  /\ stage' = "restoring"
  /\ UNCHANGED <<target, strays, recorded, outcome>>

Restore ==
  /\ stage = "restoring"
  /\ target' = Original
  /\ strays' \in BOOLEAN
  /\ stage' = "over"
  /\ outcome' = "restored"
  /\ UNCHANGED recorded

FailToRestore ==
  /\ stage = "restoring"
  /\ target' \in TargetStates
  /\ strays' \in BOOLEAN
  /\ stage' = "over"
  /\ outcome' = "failed"
  /\ UNCHANGED recorded

\* The controller is gone: killed, given up on its first transaction, or
\* stopped without ever having touched the target.
Vanish ==
  /\ stage # "over"
  /\ stage' = "over"
  /\ UNCHANGED <<target, strays, recorded, outcome>>

Next ==
  \/ Open \/ Move \/ Commit \/ Undo \/ Tear
  \/ Close \/ Restore \/ FailToRestore \/ Vanish

Spec == Init /\ [][Next]_vars
===============================================================================
