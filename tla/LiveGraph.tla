------------------------------ MODULE LiveGraph ------------------------------
(***************************************************************************)
(* LiveRelationshipGraph (live/graph.py): a sliding window over the        *)
(* snapshots of the Prism stream, and how much its scores are to be        *)
(* trusted.  The graph object is a record, ingest a function of it.        *)
(*                                                                         *)
(* A snapshot covers one tick, so its sequence number is also the end of   *)
(* its window.  Of its content the model keeps the threads taskstats named *)
(* (a thread that is counted twice ran in between) and the threads that    *)
(* have rows on one futex or one file; times, bytes and scores are left    *)
(* out.  Confidence is compared exactly, as a product of fractions.        *)
(***************************************************************************)
EXTENDS Integers, FiniteSets, SequencesExt

CONSTANTS
  Threads,
  Group,        \* the group the rules give a thread: a function of Threads
  Horizon,      \* horizon_seconds, in ticks
  Bucket,       \* stability_window_seconds, in ticks
  Expiry,       \* snapshots after which an unnamed thread is forgotten
  MinEvidence,  \* minimum_evidence_windows
  MinConfidence \* fine_placement_minimum_confidence: a pair <<n, d>> for n/d

\* The constructor raises otherwise; Expiry is max(10, 2 * horizon) there.
ASSUME GraphAssumption ==
  /\ IsFiniteSet(Threads)
  /\ Horizon \in Nat \ {0} /\ Bucket \in 1..Horizon
  /\ Expiry \in Nat /\ MinEvidence \in Nat \ {0}
  /\ MinConfidence \in Nat \X (Nat \ {0})

Snapshots == [seq : Nat \ {0}, tasks : SUBSET Threads, rows : SUBSET Threads]

\* named: the last sequence at which taskstats gave the thread a group, or 0.
EmptyGraph == [lastSeq |-> 0, named |-> [t \in Threads |-> 0], windows |-> <<>>]

\* The groups after the taskstats of a snapshot, the forgotten ones removed.
Named(graph, snapshot) ==
  [t \in Threads |->
    IF t \in snapshot.tasks THEN snapshot.seq
    ELSE IF graph.named[t] >= snapshot.seq - Expiry THEN graph.named[t] ELSE 0]

\* The groups that ran: their threads were counted before and are again.
Ran(graph, snapshot) ==
  {Group[t] : t \in {u \in snapshot.tasks : graph.named[u] # 0}}

\* The relation rows of a snapshot: all, those with a group, and the groups of
\* two threads that meet, one group when it is the same.
MappedRows(named, snapshot) ==
  LET mapped == {t \in snapshot.rows : named[t] # 0}
  IN  [total |-> Cardinality(snapshot.rows), mapped |-> Cardinality(mapped),
       related |-> {{Group[p[1]], Group[p[2]]} : p \in {q \in mapped \X mapped : q[1] # q[2]}}]

\* The windows from the first one inside the horizon: those before it are
\* dropped one by one.
Kept(windows, end) ==
  SubSeq(windows, Min({i \in DOMAIN windows : windows[i].seq > end - Horizon}), Len(windows))

\* Defect: the snapshots missing before this one are not recorded.
IngestBlind(graph, snapshot) ==
  LET named   == Named(graph, snapshot)
      window  == [seq |-> snapshot.seq, missing |-> 0,
                  ran |-> Ran(graph, snapshot), relations |-> MappedRows(named, snapshot)]
  IN  [lastSeq |-> snapshot.seq, named |-> named,
       windows |-> Kept(Append(graph.windows, window), snapshot.seq)]

\* Defect: a window that just left the horizon is kept.
IngestLate(graph, snapshot) ==
  LET named   == Named(graph, snapshot)
      missing == IF graph.lastSeq = 0 THEN 0 ELSE snapshot.seq - graph.lastSeq - 1
      window  == [seq |-> snapshot.seq, missing |-> missing,
                  ran |-> Ran(graph, snapshot), relations |-> MappedRows(named, snapshot)]
  IN  [lastSeq |-> snapshot.seq, named |-> named,
       windows |-> Kept(Append(graph.windows, window), snapshot.seq - 1)]

\* ingest, for a sequence above the last one; the first snapshot misses none.
Ingest(graph, snapshot) ==
  LET named   == Named(graph, snapshot)
      missing == IF graph.lastSeq = 0 THEN 0 ELSE snapshot.seq - graph.lastSeq - 1
      window  == [seq |-> snapshot.seq, missing |-> missing,
                  ran |-> Ran(graph, snapshot), relations |-> MappedRows(named, snapshot)]
  IN  [lastSeq |-> snapshot.seq, named |-> named,
       windows |-> Kept(Append(graph.windows, window), snapshot.seq)]

-------------------------------------------------------------------------------
\* The sum of a sequence of numbers.
SumOf(numbers) ==
  LET sum[i \in 0..Len(numbers)] == IF i = 0 THEN 0 ELSE sum[i - 1] + numbers[i]
  IN  sum[Len(numbers)]

\* A fraction at least MinConfidence.
Enough(n, d) == n * MinConfidence[2] >= MinConfidence[1] * d

\* _quality: warmup * stream_completeness * mapping_coverage, as <<n, d>>.
Confidence(windows) ==
  LET span    == Last(windows).seq - (Head(windows).seq - 1)
      warmup  == IF span < Horizon THEN span ELSE Horizon
      missing == SumOf([i \in DOMAIN windows |-> windows[i].missing])
      total   == SumOf([i \in DOMAIN windows |-> windows[i].relations.total])
      mapped  == SumOf([i \in DOMAIN windows |-> windows[i].relations.mapped])
  IN  IF total = 0
      THEN <<warmup * Len(windows), Horizon * (Len(windows) + missing)>>
      ELSE <<warmup * Len(windows) * mapped,
             Horizon * (Len(windows) + missing) * total>>

\* _stability_windows: the buckets in which a relation was seen.
RelatedBuckets(windows, relation) ==
  {(w.seq - 1) \div Bucket : w \in {v \in ToSet(windows) : relation \in v.relations.related}}

\* The pairs of groups, and the groups related to themselves, that are scored:
\* those without activity in the horizon are not.
Scored(windows) ==
  {r \in UNION {w.relations.related : w \in ToSet(windows)} :
     r \subseteq UNION {w.ran : w \in ToSet(windows)}}

PairCandidates(windows) == {r \in Scored(windows) : Cardinality(r) = 2}
SelfCandidates(windows) == {r \in Scored(windows) : Cardinality(r) = 1}

(***************************************************************************)
(* score: what the candidates file says.  trusted compares the confidence  *)
(* of the graph, eligible lists the candidates whose own confidence, which *)
(* also asks for evidence in several stability windows, is enough.         *)
(***************************************************************************)
Score(graph) ==
  LET c           == Confidence(graph.windows)
      buckets(r)  == Cardinality(RelatedBuckets(graph.windows, r))
      evidence(r) == IF buckets(r) < MinEvidence THEN buckets(r) ELSE MinEvidence
      candidates  == PairCandidates(graph.windows) \cup SelfCandidates(graph.windows)
  IN  [seqEnd |-> graph.lastSeq,
       trusted |-> Enough(c[1], c[2]),
       eligible |-> {r \in candidates : Enough(c[1] * evidence(r), c[2] * MinEvidence)}]

===============================================================================
