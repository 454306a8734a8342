---------------------------- MODULE MCLivePipeline ----------------------------
(* Two workers of one group and a flusher, named together, one of them     *)
(* alone or not at all.  The nodes have clusters of 2, 2 and 1 CPUs; the   *)
(* demands are none, below, at and above a cluster and a node, and some a  *)
(* few thousandths above what a node has left, with and without relations. *)
EXTENDS LivePipeline, TLC

CONSTANTS worker, helper, flusher, work, flush

MCMinConfidence == <<3, 4>>
MCGroup == [t \in Threads |-> IF t = flusher THEN flush ELSE work]

MCContents ==
  {[tasks |-> Threads, rows |-> {}]} \cup [tasks : {{}, {worker}, Threads}, rows : {Threads}]

Related(demand, edges) == [groups |-> DOMAIN demand, demand |-> demand, edges |-> edges]

MCRelations ==
  {Related(<<>>, <<>>), Related(<<6000>>, <<>>)}
  \cup {Related(d, {1, 2} :> 10) : d \in {<<500, 7000>>, <<3000, 2000>>}}
  \cup {Related(d, {1, 2} :> 100) : d \in {<<4003, 1000>>, <<0, 3999>>}}
  \cup {Related(d, {1, 3} :> 100) : d \in {<<1500, 1500, 1500>>, <<4000, 2000, 3000>>}}
===============================================================================
