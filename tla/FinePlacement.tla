---------------------------- MODULE FinePlacement ----------------------------
(***************************************************************************)
(* build_fine_placement (controller/fine_placement.py): groups of threads  *)
(* with a demand in CPUs are assigned to nodes, split where a node is too  *)
(* small, and given clusters of CPUs.  Groups and nodes are numbered in    *)
(* their sort order.  The code's demands are floating-point CPUs; here     *)
(* they are thousandths of a CPU, added without rounding, and the scores   *)
(* of edges are whole numbers.                                             *)
(***************************************************************************)
EXTENDS Integers, FiniteSets, FiniteSetsExt

CONSTANTS
  Groups,       \* a set of numbers
  Capacity,     \* CPUs of a node
  ClusterSize   \* fine_placement_cluster_size

\* The nodes of a host are alike; their last cluster may be a shorter one.
ASSUME PlacementAssumption ==
  /\ Groups \subseteq Nat /\ IsFiniteSet(Groups)
  /\ Capacity \in Nat \ {0} /\ ClusterSize \in Nat \ {0}

Nodes == {0, 1}
MaxGroups == 18
MaxScore == 100
Thousandths == 1000
LeastDemand == 10
Room == Thousandths * Capacity
Square(x) == x * x
Atleast0(x) == IF x > 0 THEN x ELSE 0
CeilDiv(x, y) == (x + y - 1) \div y

Load(m, demand, n) == SumFunctionOnSet(demand, {g \in DOMAIN m : m[g] = n})

\* The objective of _partition: its whole part, and the rest in units of the
\* imbalance.  A square of thousandths is a millionth of a squared CPU, so the
\* overload that the code weighs with 1e6 is the sum of the squares here, and
\* the imbalance is divided.  edges has the score of every edge.
Objective(m, demand, edges, nodes) ==
  LET load     == [n \in nodes |-> Load(m, demand, n)]
      total    == SumFunction(demand)
      k        == Cardinality(nodes)
      overload == SumFunction([n \in nodes |-> Square(Atleast0(load[n] - Room))])
      cut      == SumFunctionOnSet(edges, {e \in DOMAIN edges : \E g, h \in e : m[g] # m[h]})
      uneven   == SumFunction([n \in nodes |-> Square(k * load[n] - total)])
      unit     == k * k * Square(Thousandths)
  IN  [whole |-> overload + cut + uneven \div unit, rest |-> uneven % unit]

Cheaper(c, d) == c.whole < d.whole \/ (c.whole = d.whole /\ c.rest < d.rest)

\* The order in which assignments are enumerated.
Before(m, o) ==
  \E g \in DOMAIN m : m[g] < o[g] /\ \A h \in DOMAIN m : h < g => m[h] = o[h]

\* The first group stays on the first node; the least objective wins, and
\* among equals the first assignment.
Partition(groups, demand, edges, nodes) ==
  LET candidates == {m \in [groups -> nodes] : m[Min(groups)] = Min(nodes)}
      cost(m)    == Objective(m, demand, edges, nodes)
  IN  CHOOSE m \in candidates :
        \A o \in candidates \ {m} :
          Cheaper(cost(m), cost(o)) \/ (cost(m) = cost(o) /\ Before(m, o))

\* Defect: a group moves as far as there is room, too full its node or not.
ShiftUnasked(p, g, from, to) ==
  LET moved == Min({Atleast0(Room - p.loads[to]), p.shards[g][from]})
  IN  [shards |-> [p.shards EXCEPT ![g][from] = @ - moved, ![g][to] = @ + moved],
       loads  |-> [p.loads EXCEPT ![from] = @ - moved, ![to] = @ + moved]]

\* A part of group g moves from a node that is too full to another.
Shift(p, g, from, to) ==
  LET over  == Atleast0(p.loads[from] - Room)
      room  == Atleast0(Room - p.loads[to])
      moved == Min({over, room, p.shards[g][from]})
  IN  [shards |-> [p.shards EXCEPT ![g][from] = @ - moved, ![g][to] = @ + moved],
       loads  |-> [p.loads EXCEPT ![from] = @ - moved, ![to] = @ + moved]]

\* Groups are taken by falling size on a node, then by name.
Earlier(g, h, size) == size[g] > size[h] \/ (size[g] = size[h] /\ g < h)
LastOf(groups, size) == CHOOSE g \in groups : \A h \in groups \ {g} : Earlier(h, g, size)

\* The capacity-forced splits of a node: its groups in their order, towards
\* the other node.
Relieved(p, m, demand, n) ==
  MapThenFoldSet(LAMBDA g, q : Shift(q, g, n, 1 - n), p, LAMBDA g : g,
                 LAMBDA groups : LastOf(groups, demand), {g \in DOMAIN m : m[g] = n})

Split(m, demand, nodes) ==
  LET start == [shards |-> [g \in DOMAIN m |->
                             [n \in Nodes |-> IF n = m[g] THEN demand[g] ELSE 0]],
                loads  |-> [n \in Nodes |-> Load(m, demand, n)]]
  IN  IF nodes = Nodes
      THEN Relieved(Relieved(start, m, demand, 0), m, demand, 1)
      ELSE start

\* The number of clusters a part of a group takes.
ClustersFor(part) == CeilDiv(part, Thousandths * ClusterSize)

\* The CPUs of some clusters in a row: chunks of ClusterSize, the last one what
\* is left.
CpusOf(first, count) ==
  {c \in 0 .. Capacity - 1 : c \div ClusterSize \in first .. first + count - 1}

\* Defect: a group takes its clusters, the next one starts a cluster further.
ClustersShared(shards, n) ==
  LET part      == [g \in DOMAIN shards |-> shards[g][n]]
      users     == {g \in DOMAIN shards : part[g] > 0}
      needed    == [g \in users |-> ClustersFor(part[g])]
      offset(g) == Cardinality({h \in users : Earlier(h, g, part)})
  IN  [cpus  |-> [g \in DOMAIN shards |->
                   IF g \in users THEN CpusOf(offset(g), needed[g]) ELSE {}],
       short |-> \E g \in users : offset(g) + needed[g] > CeilDiv(Capacity, ClusterSize)]

\* The clusters a node gives out, in the order of the parts: group -> set of
\* CPUs (numbered within the node).  A group late in the order may get too few
\* clusters; that the last one is shorter is not noticed.
Clusters(shards, n) ==
  LET part      == [g \in DOMAIN shards |-> shards[g][n]]
      users     == {g \in DOMAIN shards : part[g] > 0}
      needed    == [g \in users |-> ClustersFor(part[g])]
      offset(g) == SumFunctionOnSet(needed, {h \in users : Earlier(h, g, part)})
  IN  [cpus  |-> [g \in DOMAIN shards |->
                   IF g \in users THEN CpusOf(offset(g), needed[g]) ELSE {}],
       short |-> \E g \in users : offset(g) + needed[g] > CeilDiv(Capacity, ClusterSize)]

\* A demand below 0.01 CPUs is raised to it.
Raised(demand) ==
  [g \in DOMAIN demand |-> IF demand[g] < LeastDemand THEN LeastDemand ELSE demand[g]]

\* The row for a trusted graph whose eligible groups and edges are given.
BuildPlacement(groups, demand, edges, nodes) ==
  IF groups = {}
  THEN [status |-> "no_eligible_relationships"]
  ELSE IF Cardinality(groups) > MaxGroups
  THEN [status |-> "graph_too_large"]
  ELSE LET demands == Raised(demand)
           home    == Partition(groups, demands, edges, nodes)
           split   == Split(home, demands, nodes)
           given   == [n \in nodes |-> Clusters(split.shards, n)]
           fits    == \A n \in nodes : split.loads[n] <= Room /\ ~given[n].short
       IN  [status |-> IF fits THEN "candidate" ELSE "capacity_infeasible",
            nodes  |-> nodes,
            edges  |-> edges,
            demand |-> demands,
            home   |-> home,
            shards |-> split.shards,
            cpus   |-> [n \in nodes |-> given[n].cpus]]

===============================================================================
