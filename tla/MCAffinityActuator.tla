-------------------------- MODULE MCAffinityActuator --------------------------
(* Instance for TLC: three task ids, of which any subset exists at start,  *)
(* two masks, and two attempts, so that a chain of two spawns fails both.  *)
EXTENDS AffinityActuator

CONSTANTS OneNode, TwoNode

MCTids == 1..3
MCMasks == {OneNode, TwoNode}
MCRetries == 2
===============================================================================
