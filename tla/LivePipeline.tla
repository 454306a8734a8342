----------------------------- MODULE LivePipeline -----------------------------
(***************************************************************************)
(* The live relationship pipeline: Prism publishes snapshots on a socket   *)
(* (external), prism-live-analyzer (live/client.py, live/agent.py) reads   *)
(* them into a LiveGraph and writes candidates, and the controller polls   *)
(* the latest ones for a shadow placement (FinePlacement).                 *)
(*                                                                         *)
(* The processes share the socket, the stop signal and two files: the      *)
(* journal live-candidates.jsonl and live-candidates-latest.json, which is *)
(* replaced as a whole.                                                    *)
(***************************************************************************)
EXTENDS LiveGraph, FinePlacement

CONSTANTS
  Emit,          \* emit_seconds, in ticks
  MaxSequence,   \* bound of the stream
  MaxWire,       \* snapshots the socket holds
  MaxMoves,      \* bound of the changes of the scaling state
  Relations,     \* graphs of a poll: records [groups, demand, edges]
  Contents       \* a set of [tasks, rows] a snapshot can have

ASSUME PipelineAssumption ==
  /\ Emit \in Nat \ {0} /\ MaxSequence \in Nat /\ MaxWire \in Nat /\ MaxMoves \in Nat
  /\ Contents \subseteq [tasks : SUBSET Threads, rows : SUBSET Threads]
  /\ \A r \in Relations :
       /\ r.groups \subseteq Groups
       /\ r.demand \in [r.groups -> Nat]
       /\ DOMAIN r.edges \subseteq {{g, h} : g, h \in r.groups}
       /\ r.edges \in [DOMAIN r.edges -> 0..MaxScore]

VARIABLES
  produced,   \* sequence number of the last snapshot Prism made
  wire,       \* snapshots in the socket
  publisher,  \* "absent", "open" or "closed"
  stop,       \* the analyzer's stop event is set
  agent,      \* "connecting", "reading", "waiting", "replacing", "draining", ...
  graph,
  journal,    \* last row of live-candidates.jsonl, or NoScore
  latest,     \* live-candidates-latest.json, or NoScore
  scaling,    \* the controller's actual state
  moves,
  lastKey,    \* FinePlacementShadow.last_key
  row,        \* the row appended to fine-placement.jsonl now, or NoRow
  observed    \* history: the sequence numbers that were ingested

vars == <<produced, wire, publisher, stop, agent, graph, journal, latest,
          scaling, moves, lastKey, row, observed>>
streamVars == <<produced, wire, publisher>>
agentVars == <<agent, graph, journal, latest, observed>>
shadowVars == <<scaling, moves, lastKey>>

NoScore == [seqEnd |-> 0, trusted |-> FALSE, eligible |-> {}]
NoRow == [status |-> "none"]
NoKey == [seqEnd |-> 0, scaling |-> "none"]

Init ==
  /\ produced = 0 /\ wire = <<>> /\ publisher = "absent"
  /\ stop = FALSE
  /\ agent = "connecting" /\ graph = EmptyGraph
  /\ journal = NoScore /\ latest = NoScore
  /\ scaling = "one_node" /\ moves = 0
  /\ lastKey = NoKey /\ row = NoRow
  /\ observed = {}

-------------------------------------------------------------------------------
(* Prism.                                                                  *)

Listen ==
  /\ publisher = "absent"
  /\ publisher' = "open"
  /\ UNCHANGED <<produced, wire, stop, agentVars, shadowVars>> /\ row' = NoRow

\* A tick: the snapshot goes to the connected analyzer, or is lost.
Publish(content, lost) ==
  /\ publisher = "open"
  /\ produced < MaxSequence
  /\ produced' = produced + 1
  /\ lost \/ Len(wire) < MaxWire
  /\ agent \in {"connecting", "done", "failed"} => lost
  /\ wire' = IF lost THEN wire
             ELSE Append(wire, [seq |-> produced', tasks |-> content.tasks,
                           rows |-> content.rows])
  /\ UNCHANGED <<publisher, stop, agentVars, shadowVars>> /\ row' = NoRow

Close ==
  /\ publisher = "open"
  /\ publisher' = "closed"
  /\ UNCHANGED <<produced, wire, stop, agentVars, shadowVars>> /\ row' = NoRow

Stop ==
  /\ ~stop
  /\ stop' = TRUE
  /\ UNCHANGED <<streamVars, agentVars, shadowVars>> /\ row' = NoRow

-------------------------------------------------------------------------------
(* The analyzer.                                                           *)

Connect ==
  /\ agent = "connecting"
  /\ publisher = "open"
  /\ agent' = "reading"
  /\ UNCHANGED <<streamVars, stop, graph, journal, latest, observed, shadowVars>> /\ row' = NoRow

\* No listener: a stop ends the analyzer, the deadline fails it.
ConnectEnds ==
  /\ agent = "connecting"
  /\ publisher # "open"
  /\ agent' = IF stop THEN "draining" ELSE "failed"
  /\ UNCHANGED <<streamVars, stop, graph, journal, latest, observed, shadowVars>> /\ row' = NoRow

\* stop is looked at, then the next line is waited for.
Wait ==
  /\ agent = "reading"
  /\ ~stop
  /\ agent' = "waiting"
  /\ UNCHANGED <<streamVars, stop, graph, journal, latest, observed, shadowVars>> /\ row' = NoRow

Due(end) == journal.seqEnd = 0 \/ end - journal.seqEnd >= Emit

\* A line is read, recorded and ingested; when a row is due it is appended.
ReadLine ==
  /\ agent = "waiting"
  /\ wire # <<>>
  /\ wire' = Tail(wire)
  /\ graph' = Ingest(graph, Head(wire))
  /\ observed' = observed \cup {Head(wire).seq}
  /\ IF Due(Head(wire).seq)
     THEN agent' = "replacing" /\ journal' = Score(graph')
     ELSE agent' = "reading" /\ UNCHANGED journal
  /\ UNCHANGED <<produced, publisher, stop, latest, shadowVars>> /\ row' = NoRow

\* A line that is no snapshot, or whose sequence is not above the last one,
\* raises: no summary and no last row are written.
ReadRaises ==
  /\ agent = "waiting"
  /\ wire # <<>>
  /\ agent' = "failed"
  /\ UNCHANGED <<streamVars, stop, graph, journal, latest, observed, shadowVars>> /\ row' = NoRow

Replace ==
  /\ agent = "replacing"
  /\ latest' = journal
  /\ agent' = "reading"
  /\ UNCHANGED <<streamVars, stop, graph, journal, observed, shadowVars>> /\ row' = NoRow

\* The end of the stream, or the stop between two lines.
ReadEnds ==
  /\ \/ agent = "reading" /\ stop
     \/ agent = "waiting" /\ wire = <<>> /\ publisher = "closed"
  /\ agent' = "draining"
  /\ UNCHANGED <<streamVars, stop, graph, journal, latest, observed, shadowVars>> /\ row' = NoRow

\* The last row, unless the last window was already written.
Drain ==
  /\ agent = "draining"
  /\ IF graph.windows # <<>> /\ graph.lastSeq # journal.seqEnd
     THEN journal' = Score(graph) /\ agent' = "finishing"
     ELSE UNCHANGED journal /\ agent' = "done"
  /\ UNCHANGED <<streamVars, stop, graph, latest, observed, shadowVars>> /\ row' = NoRow

\* Defect: the last row is only appended to the journal.
FinishJournalOnly ==
  /\ agent = "finishing"
  /\ agent' = "done"
  /\ UNCHANGED <<streamVars, stop, graph, journal, latest, observed, shadowVars>> /\ row' = NoRow

Finish ==
  /\ agent = "finishing"
  /\ latest' = journal
  /\ agent' = "done"
  /\ UNCHANGED <<streamVars, stop, graph, journal, observed, shadowVars>> /\ row' = NoRow

\* The session kills an analyzer that does not end in time.
Kill ==
  /\ stop
  /\ agent \in {"connecting", "reading", "waiting", "replacing", "draining", "finishing"}
  /\ agent' = "failed"
  /\ UNCHANGED <<streamVars, stop, graph, journal, latest, observed, shadowVars>> /\ row' = NoRow

-------------------------------------------------------------------------------
(* The controller.                                                         *)

Scale ==
  /\ moves < MaxMoves
  /\ moves' = moves + 1
  /\ scaling' = IF scaling = "one_node" THEN "two_node" ELSE "one_node"
  /\ UNCHANGED <<streamVars, stop, agentVars, lastKey>> /\ row' = NoRow

AvailableNodes == IF scaling = "one_node" THEN {0} ELSE Nodes

\* The placements of the relations on one node and on two.
Placements ==
  [r \in Relations |-> [nodes \in {{0}, Nodes} |->
    BuildPlacement(r.groups, r.demand, r.edges, nodes)]]

\* The row for the latest graph.
Place(r) ==
  LET p == Placements[r][AvailableNodes]
  IN  IF latest.trusted
      THEN [f \in DOMAIN p \cup {"source"} |-> IF f = "source" THEN latest.seqEnd ELSE p[f]]
      ELSE [status |-> "insufficient_confidence"]

\* poll: no file, no row; no news, no row; a candidate has confidence of its own.
Poll(r) ==
  LET key == [seqEnd |-> latest.seqEnd, scaling |-> scaling]
  IN  /\ latest # NoScore
      /\ key # lastKey
      /\ latest.eligible = {} => r.groups = {}
      /\ lastKey' = key
      /\ row' = Place(r)
      /\ UNCHANGED <<streamVars, stop, agentVars, scaling, moves>>

\* Nothing is left to do.
Ended ==
  /\ agent \in {"done", "failed"}
  /\ UNCHANGED vars

Agent ==
  \/ Connect \/ ConnectEnds \/ Wait \/ ReadLine \/ ReadRaises \/ Replace
  \/ ReadEnds \/ Drain \/ Finish

Next ==
  \/ Listen
  \/ \E content \in Contents, lost \in BOOLEAN : Publish(content, lost)
  \/ Close \/ Stop
  \/ Agent \/ Kill
  \/ Scale
  \/ \E r \in Relations : Poll(r)
  \/ Ended

Spec == Init /\ [][Next]_vars

-------------------------------------------------------------------------------
Rows ==
  {"none", "insufficient_confidence", "no_eligible_relationships",
   "graph_too_large", "candidate", "capacity_infeasible"}

TypeOK ==
  /\ produced \in 0..MaxSequence
  /\ Len(wire) <= MaxWire /\ \A i \in 1..Len(wire) : wire[i] \in Snapshots
  /\ publisher \in {"absent", "open", "closed"}
  /\ stop \in BOOLEAN
  /\ agent \in {"connecting", "reading", "waiting", "replacing", "draining", "finishing",
                "done", "failed"}
  /\ graph.lastSeq \in 0..produced
  /\ \A i \in 1..Len(graph.windows) : graph.windows[i].seq > graph.lastSeq - Horizon
  /\ journal.seqEnd \in 0..graph.lastSeq /\ latest.seqEnd \in 0..journal.seqEnd
  /\ scaling \in {"one_node", "two_node"}
  /\ row.status \in Rows
  /\ observed \subseteq 1..produced

(***************************************************************************)
(* What is lost lowers the confidence: a placement row other than a        *)
(* rejection comes from a graph that observed at least the required share  *)
(* of the horizon, whichever snapshots were lost on the way, before the    *)
(* connection or between the rows (graph.py 304-403,                       *)
(* fine_placement.py 123-126).                                             *)
(***************************************************************************)
PlacedIsObserved ==
  row.status \in Rows \ {"none", "insufficient_confidence"} =>
    Enough(Cardinality({s \in observed : s \in row.source - Horizon + 1 .. row.source}),
           Horizon)

(***************************************************************************)
(* The file the controller polls keeps up: while the analyzer reads it is  *)
(* less than an emission behind the graph, and an analyzer that ended by   *)
(* itself left the whole graph in it (agent.py 101-141).                   *)
(***************************************************************************)
LatestKeepsUp ==
  /\ agent \in {"reading", "waiting"} =>
       \/ graph.lastSeq = 0
       \/ latest.seqEnd > 0 /\ graph.lastSeq - latest.seqEnd < Emit
  /\ agent = "done" => latest.seqEnd = graph.lastSeq

\* What a row moved away from a node of the groups that were assigned to it.
MovedFrom(q, n) ==
  SumFunctionOnSet([g \in DOMAIN q.demand |-> q.demand[g] - q.shards[g][n]],
                   {g \in DOMAIN q.demand : q.home[g] = n})

\* CPUs the last cluster of a node has less than the others.
Missing == ClusterSize * CeilDiv(Capacity, ClusterSize) - Capacity

(***************************************************************************)
(* A candidate gives every group its demand, no node more than it has, and *)
(* no CPU twice.  A group has the CPUs of its part, except the owner of    *)
(* the last CPU of a node whose last cluster is shorter: it may be short   *)
(* of those that miss there.  And although groups are split where their    *)
(* assignment overfills a node, an assignment of whole groups that fits is *)
(* passed over only for an overload so small that its square weighs no     *)
(* more than what the other one cuts and unbalances                        *)
(* (fine_placement.py 43-51, 131-206).                                     *)
(***************************************************************************)
PlacementIsSound ==
  row.status = "candidate" =>
    LET groups == DOMAIN row.demand
        part(g, n) == row.shards[g][n]
        given(g, n) == Thousandths * Cardinality(row.cpus[n][g])
    IN  /\ \A g \in groups : SumFunctionOnSet(row.shards[g], row.nodes) = row.demand[g]
        /\ \A n \in row.nodes :
             /\ SumFunction([g \in groups |-> part(g, n)]) <= Room
             /\ \A g, h \in groups : g # h => row.cpus[n][g] \cap row.cpus[n][h] = {}
             /\ \A g \in groups :
                  \/ given(g, n) >= part(g, n)
                  \/ /\ Capacity - 1 \in row.cpus[n][g]
                     /\ given(g, n) + Thousandths * Missing >= part(g, n)
        /\ \A m \in [groups -> row.nodes] :
             (\A n \in row.nodes : Load(m, row.demand, n) <= Room) =>
               \A n \in row.nodes :
                 Square(MovedFrom(row, n))
                   <= Objective(m, row.demand, row.edges, row.nodes).whole

===============================================================================
