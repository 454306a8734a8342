-------------------------- MODULE LivePipelineProofs --------------------------
(***************************************************************************)
(* Proofs about the live pipeline, for any threads, horizon, confidence,   *)
(* emission and stream: the variables keep their types, the file that the  *)
(* controller polls keeps up with the graph, a placement rests on what was *)
(* observed, and a candidate is sound: its demands are met, no node is     *)
(* overfilled, no CPU is given twice and no group is split without need.   *)
(***************************************************************************)
EXTENDS LivePipeline, SequenceTheorems, FiniteSetTheorems, WellFoundedInduction, TLAPS

-------------------------------------------------------------------------------
(***************************************************************************)
(* The inductive invariant.                                                *)
(***************************************************************************)
GroupNames == {Group[t] : t \in Threads}

Windows ==
  [seq : Nat, missing : Nat, ran : SUBSET GroupNames,
   relations : [total : Nat, mapped : Nat, related : SUBSET SUBSET GroupNames]]

\* In the order of their numbers.
Rising(w) == \A i, j \in 1 .. Len(w) : i < j => w[i].seq < w[j].seq

\* Between two windows are the snapshots that the later one says are missing.
Linked(w) == \A i \in 1 .. Len(w) - 1 : w[i + 1].seq = w[i].seq + w[i + 1].missing + 1

\* Of the rows of a window some are mapped.
Mapped(w) == \A i \in 1 .. Len(w) : w[i].relations.mapped <= w[i].relations.total

SeqsOf(w) == {w[i].seq : i \in 1 .. Len(w)}

\* The windows w up to sequence e, with o observed: those inside the horizon.
Sliding(w, e, o) ==
  /\ w \in Seq(Windows) /\ Rising(w) /\ Linked(w) /\ Mapped(w)
  /\ IF e = 0 THEN w = << >> ELSE w # << >> /\ w[Len(w)].seq = e
  /\ SeqsOf(w) = {s \in o : s > e - Horizon}

Graphed(g, o) == g.lastSeq \in Nat /\ o \subseteq 1 .. g.lastSeq /\ Sliding(g.windows, g.lastSeq, o)

\* The snapshots in the socket are those to come.
Streaming ==
  /\ wire \in Seq(Snapshots) /\ Rising(wire)
  /\ \A i \in 1 .. Len(wire) : wire[i].seq \in graph.lastSeq + 1 .. produced

\* A row that is trusted was computed from enough observed snapshots.
Recent(o, e) == {s \in o : s \in e - Horizon + 1 .. e}
Backed(j, o) == j.trusted => Enough(Cardinality(Recent(o, j.seqEnd)), Horizon)

\* How far journal and latest file are.
Following ==
  /\ agent = "connecting" => graph.lastSeq = 0
  /\ agent \in {"connecting", "reading", "waiting", "draining", "done"} => latest.seqEnd = journal.seqEnd
  /\ agent \in {"reading", "waiting"} =>
       graph.lastSeq = 0 \/ (journal.seqEnd > 0 /\ graph.lastSeq - journal.seqEnd < Emit)
  /\ agent \in {"replacing", "finishing", "done"} => journal.seqEnd = graph.lastSeq

PipeInv ==
  /\ TypeOK
  /\ Graphed(graph, observed)
  /\ Streaming
  /\ Backed(journal, observed) /\ Backed(latest, observed)
  /\ journal.trusted \in BOOLEAN /\ latest.trusted \in BOOLEAN
  /\ Following
  /\ PlacedIsObserved

-------------------------------------------------------------------------------
(***************************************************************************)
(* Induction over sets of numbers, and sums.                               *)
(***************************************************************************)

\* A set of naturals has a least element.
LEMMA Least ==
  ASSUME NEW T \in SUBSET Nat, T # {}
  PROVE  \E x \in T : \A y \in T : x <= y
<1> DEFINE R == {ss \in Nat \X Nat : ss[1] < ss[2]}
<1>1. OpToRel(<, Nat) = R
  BY DEF OpToRel
<1>2. IsWellFoundedOn(R, Nat)
  BY <1>1, NatLessThanWellFounded
<1> HIDE DEF R
<1>3. PICK x \in T : \A y \in T : ~(<<y, x>> \in R)
  BY <1>2, WFMin
<1>4. \A y \in T : ~(y < x)
  BY <1>3 DEF R
<1> QED
  BY <1>4

\* A set that has 0 and the successors of its elements has them all.
LEMMA Induction ==
  ASSUME NEW T, 0 \in T, \A n \in Nat : n \in T => n + 1 \in T
  PROVE  Nat \subseteq T
<1> DEFINE B == {n \in Nat : n \notin T}
<1> SUFFICES ASSUME B # {} PROVE FALSE
  OBVIOUS
<1>1. B \in SUBSET Nat
  OBVIOUS
<1>2. PICK b \in B : \A n \in B : b <= n
  BY <1>1, Least
<1>3. b \in Nat /\ b \notin T
  OBVIOUS
<1>4. b # 0
  BY <1>3
<1>5. b - 1 \in Nat /\ ~(b <= b - 1)
  BY <1>3, <1>4
<1>6. b - 1 \notin B
  BY <1>2, <1>5
<1>7. b - 1 \in T
  BY <1>5, <1>6
<1>8. (b - 1) + 1 \in T
  BY <1>5, <1>7
<1>9. (b - 1) + 1 = b
  BY <1>3
<1> QED
  BY <1>3, <1>8, <1>9

\* The partial sums of s.
Sums(f, s, n) == f \in [0 .. n -> Nat] /\ f[0] = 0 /\ \A i \in 1 .. n : f[i] = f[i - 1] + s[i]

\* A sequence of numbers has partial sums.
LEMMA SumsExist ==
  ASSUME NEW s \in Seq(Nat)
  PROVE  \E f : Sums(f, s, Len(s))
<1> DEFINE T == {n \in Nat : n <= Len(s) => \E f : Sums(f, s, n)}
<1>1. 0 \in T
  <2>1. Sums([i \in 0 .. 0 |-> 0], s, 0)
    BY DEF Sums
  <2> QED
    BY <2>1
<1>2. ASSUME NEW n \in Nat, n \in T PROVE n + 1 \in T
  <2> SUFFICES ASSUME n + 1 <= Len(s) PROVE \E f : Sums(f, s, n + 1)
    OBVIOUS
  <2>1. n <= Len(s) /\ Len(s) \in Nat
    OBVIOUS
  <2>2. PICK f : Sums(f, s, n)
    BY <1>2, <2>1
  <2> DEFINE g == [i \in 0 .. n + 1 |-> IF i = n + 1 THEN f[n] + s[n + 1] ELSE f[i]]
  <2>3. s[n + 1] \in Nat
    <3>1. n + 1 \in 1 .. Len(s)
      BY <2>1
    <3> QED
      BY <3>1
  <2>4. f \in [0 .. n -> Nat] /\ f[0] = 0 /\ \A i \in 1 .. n : f[i] = f[i - 1] + s[i]
    BY <2>2 DEF Sums
  <2>5. g \in [0 .. n + 1 -> Nat]
    <3>1. f[n] \in Nat
      BY <2>4
    <3>2. ASSUME NEW i \in 0 .. n + 1, i # n + 1 PROVE f[i] \in Nat
      BY <2>4, <3>2
    <3>3. f[n] + s[n + 1] \in Nat
      BY <2>3, <3>1
    <3> QED
      BY <3>2, <3>3
  <2>6. g[0] = 0
    BY <2>4
  <2>7. ASSUME NEW i \in 1 .. n + 1 PROVE g[i] = g[i - 1] + s[i]
    <3>1. CASE i = n + 1
      <4>1. g[i] = f[n] + s[n + 1] /\ i - 1 \in 0 .. n /\ i - 1 # n + 1 /\ i - 1 = n
        BY <3>1
      <4>2. g[i - 1] = f[n]
        BY <4>1
      <4> QED
        BY <3>1, <4>1, <4>2
    <3>2. CASE i # n + 1
      <4>1. i \in 1 .. n /\ i - 1 \in 0 .. n /\ i - 1 # n + 1
        BY <3>2
      <4>2. g[i] = f[i] /\ g[i - 1] = f[i - 1]
        BY <3>2, <4>1
      <4> QED
        BY <2>4, <4>1, <4>2
    <3> QED
      BY <3>1, <3>2
  <2>8. Sums(g, s, n + 1)
    <3> HIDE DEF g
    <3> QED
      BY <2>5, <2>6, <2>7 DEF Sums
  <2> QED
    BY <2>8
<1>3. Nat \subseteq T
  <2> HIDE DEF T
  <2> QED
    BY <1>1, <1>2, Induction
<1>4. Len(s) \in T /\ Len(s) <= Len(s)
  BY <1>3
<1> QED
  BY <1>4

\* SumOf is the last of them.
LEMMA SumOfSums ==
  ASSUME NEW s \in Seq(Nat)
  PROVE  \E f : Sums(f, s, Len(s)) /\ SumOf(s) = f[Len(s)]
<1> DEFINE Step(f) == [i \in 0 .. Len(s) |-> IF i = 0 THEN 0 ELSE f[i - 1] + s[i]]
           h == CHOOSE f : f = Step(f)
<1>1. PICK f : Sums(f, s, Len(s))
  BY SumsExist
<1>2. f = Step(f)
  <2>1. f = [i \in 0 .. Len(s) |-> f[i]]
    BY <1>1 DEF Sums
  <2>2. \A i \in 0 .. Len(s) : f[i] = IF i = 0 THEN 0 ELSE f[i - 1] + s[i]
    BY <1>1 DEF Sums
  <2> QED
    BY <2>1, <2>2
<1>3. h = Step(h)
  <2> HIDE DEF Step
  <2> QED
    BY <1>2
<1>4. SumOf(s) = h[Len(s)]
  BY DEF SumOf
<1> HIDE DEF h
<1>5. Len(s) \in Nat /\ \A i \in 1 .. Len(s) : s[i] \in Nat
  OBVIOUS
<1>6. h[0] = 0 /\ \A i \in 1 .. Len(s) : h[i] = h[i - 1] + s[i]
  BY <1>3, <1>5
<1>7. h \in [0 .. Len(s) -> Nat]
  <2> DEFINE T == {n \in Nat : n <= Len(s) => h[n] \in Nat}
  <2>1. 0 \in T
    BY <1>6
  <2>2. ASSUME NEW n \in Nat, n \in T PROVE n + 1 \in T
    <3> SUFFICES ASSUME n + 1 <= Len(s) PROVE h[n + 1] \in Nat
      OBVIOUS
    <3>1. n + 1 \in 1 .. Len(s) /\ (n + 1) - 1 = n /\ n <= Len(s)
      BY <1>5
    <3>2. h[n + 1] = h[n] + s[n + 1]
      BY <1>6, <3>1
    <3> QED
      BY <1>5, <2>2, <3>1, <3>2
  <2>3. Nat \subseteq T
    <3> HIDE DEF T
    <3> QED
      BY <2>1, <2>2, Induction
  <2>4. \A i \in 0 .. Len(s) : h[i] \in Nat
    BY <1>5, <2>3
  <2> QED
    BY <1>3, <2>4
<1>8. Sums(h, s, Len(s))
  BY <1>6, <1>7 DEF Sums
<1> QED
  BY <1>4, <1>8

\* Smaller numbers have a smaller sum.
LEMMA SumOfLess ==
  ASSUME NEW s \in Seq(Nat), NEW t \in Seq(Nat), Len(s) = Len(t),
         \A i \in 1 .. Len(s) : s[i] <= t[i]
  PROVE  SumOf(s) \in Nat /\ SumOf(t) \in Nat /\ SumOf(s) <= SumOf(t)
<1>1. PICK f : Sums(f, s, Len(s)) /\ SumOf(s) = f[Len(s)]
  BY SumOfSums
<1>2. PICK g : Sums(g, t, Len(t)) /\ SumOf(t) = g[Len(t)]
  BY SumOfSums
<1>3. Len(s) \in Nat /\ \A i \in 1 .. Len(s) : s[i] \in Nat /\ t[i] \in Nat
  OBVIOUS
<1> DEFINE T == {n \in Nat : n <= Len(s) => f[n] <= g[n]}
<1>4. 0 \in T
  BY <1>1, <1>2 DEF Sums
<1>5. ASSUME NEW n \in Nat, n \in T PROVE n + 1 \in T
  <2> SUFFICES ASSUME n + 1 <= Len(s) PROVE f[n + 1] <= g[n + 1]
    OBVIOUS
  <2>1. n + 1 \in 1 .. Len(s) /\ (n + 1) - 1 = n /\ n <= Len(s) /\ n \in 0 .. Len(s)
    BY <1>3
  <2>2. f[n + 1] = f[n] + s[n + 1] /\ g[n + 1] = g[n] + t[n + 1] /\ f[n] \in Nat /\ g[n] \in Nat
    BY <1>1, <1>2, <2>1 DEF Sums
  <2>3. f[n] <= g[n] /\ s[n + 1] <= t[n + 1]
    BY <1>5, <2>1
  <2>4. s[n + 1] \in Nat /\ t[n + 1] \in Nat
    BY <1>3, <2>1
  <2>5. \A a, b, c, d \in Nat : a <= b /\ c <= d => a + c <= b + d
    OBVIOUS
  <2>6. f[n] + s[n + 1] <= g[n] + t[n + 1]
    BY <2>2, <2>3, <2>4, <2>5, Zenon
  <2> QED
    BY <2>2, <2>6
<1>6. Nat \subseteq T
  <2> HIDE DEF T
  <2> QED
    BY <1>4, <1>5, Induction
<1>7. f[Len(s)] <= g[Len(s)]
  BY <1>3, <1>6
<1>8. f[Len(s)] \in Nat /\ g[Len(s)] \in Nat
  BY <1>1, <1>2, <1>3 DEF Sums
<1> QED
  BY <1>1, <1>2, <1>7, <1>8

-------------------------------------------------------------------------------
(***************************************************************************)
(* The windows inside the horizon.                                         *)
(***************************************************************************)

\* Numbers with the same positive factor.
LEMMA Cancel ==
  ASSUME NEW k \in Nat \ {0}, NEW x \in Nat, NEW y \in Nat, k * x >= k * y
  PROVE  x >= y
<1> SUFFICES ASSUME x + 1 <= y PROVE FALSE
  OBVIOUS
<1>1. PICK d \in Nat : y = x + 1 + d
  <2>1. y - (x + 1) \in Nat /\ y = x + 1 + (y - (x + 1))
    OBVIOUS
  <2> QED
    BY <2>1
<1>2. k * y = k * x + k + k * d
  BY <1>1
<1>3. k * d \in Nat /\ k * x \in Nat
  OBVIOUS
<1> QED
  BY <1>2, <1>3

\* A larger factor makes a larger product.
LEMMA Product ==
  ASSUME NEW k \in Nat, NEW x \in Nat, NEW y \in Nat, x <= y
  PROVE  k * x \in Nat /\ k * y \in Nat /\ k * x <= k * y
<1>1. PICK d \in Nat : y = x + d
  <2>1. y - x \in Nat /\ y = x + (y - x)
    OBVIOUS
  <2> QED
    BY <2>1
<1>2. k * y = k * x + k * d
  BY <1>1
<1>3. k * d \in Nat /\ k * x \in Nat /\ k * y \in Nat
  OBVIOUS
<1> QED
  BY <1>2, <1>3

\* What a window has.
LEMMA WindowFields ==
  ASSUME NEW w \in Seq(Windows)
  PROVE  /\ Len(w) \in Nat
         /\ \A i \in 1 .. Len(w) :
              /\ w[i].seq \in Nat /\ w[i].missing \in Nat
              /\ w[i].relations.mapped \in Nat /\ w[i].relations.total \in Nat
<1>1. Len(w) \in Nat /\ \A i \in 1 .. Len(w) : w[i] \in Windows
  OBVIOUS
<1> QED
  BY <1>1 DEF Windows

\* The snapshots missing before the windows and the windows are what the
\* windows span, and what was missing before the first.
LEMMA SpanOfLinks ==
  ASSUME NEW w \in Seq(Windows), w # << >>, Linked(w),
         NEW m, m = [i \in 1 .. Len(w) |-> w[i].missing]
  PROVE  /\ SumOf(m) \in Nat
         /\ SumOf(m) + Len(w) = w[Len(w)].seq - (w[1].seq - 1) + w[1].missing
<1>1. Len(w) \in Nat /\ Len(w) >= 1
  BY EmptySeq
<1>2. \A i \in 1 .. Len(w) : w[i].seq \in Nat /\ w[i].missing \in Nat
  BY WindowFields
<1>3. m \in Seq(Nat) /\ Len(m) = Len(w) /\ \A i \in 1 .. Len(w) : m[i] = w[i].missing
  <2>1. m \in [1 .. Len(w) -> Nat]
    BY <1>2
  <2>2. m \in Seq(Nat)
    BY <1>1, <2>1, SeqDef
  <2>3. Len(m) = Len(w)
    BY <1>1, <2>1, <2>2, LenProperties
  <2> QED
    BY <2>2, <2>3
<1>4. PICK f : Sums(f, m, Len(m)) /\ SumOf(m) = f[Len(m)]
  BY <1>3, SumOfSums
<1>5. f \in [0 .. Len(w) -> Nat] /\ f[0] = 0 /\ \A i \in 1 .. Len(w) : f[i] = f[i - 1] + w[i].missing
  BY <1>3, <1>4 DEF Sums
<1> DEFINE T == {n \in Nat : n + 1 <= Len(w) =>
                  f[n + 1] + (n + 1) = w[n + 1].seq - (w[1].seq - 1) + w[1].missing}
<1>6. 0 \in T
  <2>1. 1 \in 1 .. Len(w) /\ 0 + 1 = 1 /\ 1 - 1 = 0
    BY <1>1
  <2>2. f[1] = w[1].missing
    BY <1>2, <1>5, <2>1
  <2> QED
    BY <1>2, <2>1, <2>2
<1>7. ASSUME NEW n \in Nat, n \in T PROVE n + 1 \in T
  <2> SUFFICES ASSUME (n + 1) + 1 <= Len(w)
               PROVE  f[(n + 1) + 1] + ((n + 1) + 1)
                        = w[(n + 1) + 1].seq - (w[1].seq - 1) + w[1].missing
    OBVIOUS
  <2> DEFINE k == n + 1
  <2>0. k = n + 1 /\ k \in Nat
    OBVIOUS
  <2> HIDE DEF k
  <2>1. /\ k \in 1 .. Len(w) - 1 /\ k \in 1 .. Len(w) /\ k + 1 \in 1 .. Len(w) /\ (k + 1) - 1 = k
        /\ k \in 0 .. Len(w) /\ 1 \in 1 .. Len(w) /\ n + 1 <= Len(w)
    BY <1>1, <2>0
  <2>2. f[k] + k = w[k].seq - (w[1].seq - 1) + w[1].missing
    BY <1>7, <2>0, <2>1
  <2>3. f[k + 1] = f[k] + w[k + 1].missing /\ f[k] \in Nat
    BY <1>5, <2>1
  <2>4. w[k + 1].seq = w[k].seq + w[k + 1].missing + 1
    BY <2>1 DEF Linked
  <2>5. f[k + 1] + (k + 1) = w[k + 1].seq - (w[1].seq - 1) + w[1].missing
    <3>1. /\ k \in Int /\ w[k].seq \in Int /\ w[1].seq \in Int /\ w[1].missing \in Int
          /\ w[k + 1].seq \in Int /\ w[k + 1].missing \in Int
      BY <1>1, <1>2, <2>1
    <3>3. f[k] \in Int /\ w[1].seq - 1 \in Int
      BY <2>3, <3>1
    <3>4. (f[k] + w[k + 1].missing) + (k + 1)
            = (w[k].seq + w[k + 1].missing + 1) - (w[1].seq - 1) + w[1].missing
      <4> DEFINE x == f[k]
                 y == w[k].seq
                 z == w[1].seq - 1
                 u == w[1].missing
                 v == w[k + 1].missing
      <4>1. x \in Int /\ y \in Int /\ z \in Int /\ u \in Int /\ v \in Int /\ x + k = y - z + u
        BY <2>2, <3>1, <3>3
      <4> HIDE DEF x, y, z, u, v
      <4>2. (x + v) + (k + 1) = (y + v + 1) - z + u
        BY <2>0, <4>1
      <4> QED
        BY <4>2 DEF x, y, z, u, v
    <3> QED
      BY <2>3, <2>4, <3>4
  <2> QED
    BY <2>0, <2>5
<1>8. Nat \subseteq T
  <2> HIDE DEF T
  <2> QED
    BY <1>6, <1>7, Induction
<1>9. Len(w) - 1 \in Nat /\ (Len(w) - 1) + 1 = Len(w)
  BY <1>1
<1>10. f[Len(w)] + Len(w) = w[Len(w)].seq - (w[1].seq - 1) + w[1].missing
  BY <1>1, <1>8, <1>9
<1>11. f[Len(w)] \in Nat
  BY <1>1, <1>5
<1> QED
  BY <1>3, <1>4, <1>10, <1>11

\* The windows are inside the horizon, the last one at its end.
LEMMA SpanInside ==
  ASSUME NEW w, NEW e \in Nat, NEW o \in SUBSET Nat, w # << >>, Sliding(w, e, o)
  PROVE  /\ w \in Seq(Windows) /\ Len(w) \in Nat \ {0}
         /\ w[Len(w)].seq = e /\ w[1].seq \in Nat /\ w[1].missing \in Nat
         /\ w[1].seq <= e /\ w[1].seq > e - Horizon
         /\ \A i \in 1 .. Len(w) : w[i].seq \in Nat /\ w[i].seq > e - Horizon /\ w[i].seq <= e
<1>1. w \in Seq(Windows) /\ Rising(w) /\ w[Len(w)].seq = e /\ SeqsOf(w) = {s \in o : s > e - Horizon}
  BY DEF Sliding
<1>2. Len(w) \in Nat \ {0}
  BY <1>1, EmptySeq
<1>3. \A i \in 1 .. Len(w) : w[i].seq \in Nat /\ w[i].missing \in Nat
  BY <1>1, WindowFields
<1>4. ASSUME NEW i \in 1 .. Len(w) PROVE w[i].seq > e - Horizon /\ w[i].seq <= e
  <2>1. w[i].seq \in SeqsOf(w)
    BY DEF SeqsOf
  <2>2. w[i].seq > e - Horizon
    BY <1>1, <2>1
  <2>3. Len(w) \in 1 .. Len(w)
    BY <1>2
  <2>4. CASE i = Len(w)
    BY <1>1, <2>2, <2>4
  <2>5. CASE i # Len(w)
    <3>1. i < Len(w)
      BY <1>2, <2>5
    <3>2. w[i].seq < w[Len(w)].seq
      BY <1>1, <2>3, <3>1 DEF Rising
    <3> QED
      BY <1>1, <1>3, <2>2, <3>2
  <2> QED
    BY <2>4, <2>5
<1>5. 1 \in 1 .. Len(w)
  BY <1>2
<1> QED
  BY <1>1, <1>2, <1>3, <1>4, <1>5

\* There are as many windows as snapshots observed inside the horizon.
LEMMA WindowsAreRecent ==
  ASSUME NEW w, NEW e \in Nat, NEW o \in SUBSET Nat, w # << >>, Sliding(w, e, o),
         \A s \in o : s <= e
  PROVE  /\ IsFiniteSet(Recent(o, e)) /\ Cardinality(Recent(o, e)) = Len(w)
<1>1. /\ w \in Seq(Windows) /\ Len(w) \in Nat \ {0}
      /\ \A i \in 1 .. Len(w) : w[i].seq \in Nat
  BY SpanInside
<1>2. Rising(w) /\ SeqsOf(w) = {s \in o : s > e - Horizon}
  BY DEF Sliding
<1>3. Recent(o, e) = SeqsOf(w)
  <2>1. Horizon \in Nat \ {0}
    BY GraphAssumption
  <2>2. \A s \in o : s \in e - Horizon + 1 .. e <=> s > e - Horizon
    BY <2>1
  <2> QED
    BY <1>2, <2>2 DEF Recent
<1> DEFINE f == [i \in 1 .. Len(w) |-> w[i].seq]
           D == 1 .. Len(w)
<1>4. f \in Bijection(D, SeqsOf(w))
  <2>1. f \in [D -> SeqsOf(w)] /\ \A t \in SeqsOf(w) : \E i \in D : f[i] = t
    BY DEF SeqsOf
  <2>2. \A i, j \in D : f[i] = f[j] => i = j
    <3> SUFFICES ASSUME NEW i \in D, NEW j \in D, i # j PROVE f[i] # f[j]
      OBVIOUS
    <3>1. i < j \/ j < i
      BY <1>1
    <3>2. w[i].seq < w[j].seq \/ w[j].seq < w[i].seq
      BY <1>2, <3>1 DEF Rising
    <3> QED
      BY <1>1, <3>2
  <2> HIDE DEF f, D
  <2> QED
    BY <2>1, <2>2 DEF Bijection, Injection, Surjection, IsInjective
<1>5. IsFiniteSet(D) /\ Cardinality(D) = Len(w)
  BY <1>1, FS_Interval
<1> HIDE DEF f, D
<1>6. IsFiniteSet(SeqsOf(w)) /\ Cardinality(SeqsOf(w)) = Cardinality(D)
  <2>1. ExistsBijection(D, SeqsOf(w))
    BY <1>4 DEF ExistsBijection
  <2> QED
    BY <1>5, <2>1, FS_Bijection
<1> QED
  BY <1>3, <1>5, <1>6

\* A share of the rows of the windows is no more than all of them.
LEMMA SharesOfRows ==
  ASSUME NEW w \in Seq(Windows), Mapped(w)
  PROVE  LET total  == SumOf([i \in DOMAIN w |-> w[i].relations.total])
             mapped == SumOf([i \in DOMAIN w |-> w[i].relations.mapped])
         IN  total \in Nat /\ mapped \in Nat /\ mapped <= total
<1> DEFINE t == [i \in 1 .. Len(w) |-> w[i].relations.total]
           m == [i \in 1 .. Len(w) |-> w[i].relations.mapped]
<1>1. DOMAIN w = 1 .. Len(w) /\ Len(w) \in Nat
  OBVIOUS
<1>2. t \in [1 .. Len(w) -> Nat] /\ m \in [1 .. Len(w) -> Nat]
  BY WindowFields
<1>3. \A i \in 1 .. Len(w) : m[i] <= t[i]
  BY DEF Mapped
<1> HIDE DEF t, m
<1>4. t \in Seq(Nat) /\ m \in Seq(Nat)
  <2>1. \A f \in [1 .. Len(w) -> Nat] : f \in Seq(Nat)
    BY <1>1, SeqDef
  <2> QED
    BY <1>2, <2>1
<1>5. Len(t) = Len(w) /\ Len(m) = Len(w)
  BY <1>1, <1>2, <1>4, LenProperties
<1>6. SumOf(m) \in Nat /\ SumOf(t) \in Nat /\ SumOf(m) <= SumOf(t)
  BY <1>3, <1>4, <1>5, SumOfLess
<1> QED
  BY <1>1, <1>6 DEF t, m

\* The fractions of the confidence: of the h snapshots of the horizon n were
\* observed, the windows span x of them, y are missing, and of t rows m are
\* mapped.  A confidence of a / b says no more than n / h.
LEMMA Fractions ==
  ASSUME NEW a \in Nat, NEW b \in Nat, NEW h \in Nat, NEW n \in Nat, NEW x \in Nat \ {0},
         NEW y \in Nat, n + y >= x
  PROVE  /\ (x * n) * b >= a * (h * (n + y)) => n * b >= a * h
         /\ \A t \in Nat \ {0}, m \in Nat :
              m <= t /\ ((x * n) * m) * b >= a * ((h * (n + y)) * t) => n * b >= a * h
<1>1. ASSUME NEW k \in Nat \ {0}, (x * n) * k * b >= a * ((h * (n + y)) * k) PROVE n * b >= a * h
  <2>1. (a * h * k) * x <= (a * h * k) * (n + y)
    <3>1. a * h * k \in Nat /\ n + y \in Nat
      OBVIOUS
    <3> QED
      BY <3>1, Product
  <2>2. (a * h * k) * (n + y) = a * ((h * (n + y)) * k)
    OBVIOUS
  <2>3. (x * n) * k * b = (x * k) * (n * b) /\ (a * h * k) * x = (x * k) * (a * h)
    OBVIOUS
  <2>4. (x * k) * (n * b) >= (x * k) * (a * h)
    <3> DEFINE p == (x * k) * (n * b)
               q == (x * k) * (a * h)
               r == (a * h * k) * (n + y)
    <3>1. p \in Nat /\ q \in Nat /\ r \in Nat
      OBVIOUS
    <3>2. q <= r /\ p >= r
      BY <1>1, <2>1, <2>2, <2>3
    <3> HIDE DEF p, q, r
    <3>3. p >= q
      BY <3>1, <3>2
    <3> QED
      BY <3>3 DEF p, q
  <2>5. x * k \in Nat \ {0} /\ n * b \in Nat /\ a * h \in Nat
    OBVIOUS
  <2> QED
    BY <2>4, <2>5, Cancel
<1>2. ASSUME (x * n) * b >= a * (h * (n + y)) PROVE n * b >= a * h
  <2>1. (x * n) * 1 * b = (x * n) * b /\ a * ((h * (n + y)) * 1) = a * (h * (n + y))
    OBVIOUS
  <2> QED
    BY <1>1, <1>2, <2>1
<1>3. ASSUME NEW t \in Nat \ {0}, NEW m \in Nat, m <= t,
             ((x * n) * m) * b >= a * ((h * (n + y)) * t)
      PROVE  n * b >= a * h
  <2>1. ((x * n) * b) * m <= ((x * n) * b) * t
    <3>1. (x * n) * b \in Nat
      OBVIOUS
    <3> QED
      BY <1>3, <3>1, Product
  <2>2. ((x * n) * b) * m = ((x * n) * m) * b /\ ((x * n) * b) * t = (x * n) * t * b
    OBVIOUS
  <2>3. (x * n) * t * b >= a * ((h * (n + y)) * t)
    <3> DEFINE p == (x * n) * t * b
               q == a * ((h * (n + y)) * t)
               r == ((x * n) * m) * b
    <3>1. p \in Nat /\ q \in Nat /\ r \in Nat /\ r >= q /\ p >= r
      BY <1>3, <2>1, <2>2
    <3> HIDE DEF p, q, r
    <3>2. p >= q
      BY <3>1
    <3> QED
      BY <3>2 DEF p, q
  <2> QED
    BY <1>1, <2>3
<1> QED
  BY <1>2, <1>3

\* Enough confidence needs enough windows.
LEMMA ConfidenceIsObserved ==
  ASSUME NEW w, NEW e \in Nat, NEW o \in SUBSET Nat, w # << >>, Sliding(w, e, o),
         Enough(Confidence(w)[1], Confidence(w)[2])
  PROVE  Enough(Len(w), Horizon)
<1> DEFINE span    == e - (w[1].seq - 1)
           missing == SumOf([i \in DOMAIN w |-> w[i].missing])
           total   == SumOf([i \in DOMAIN w |-> w[i].relations.total])
           mapped  == SumOf([i \in DOMAIN w |-> w[i].relations.mapped])
           n       == Len(w)
<1>1. /\ w \in Seq(Windows) /\ n \in Nat \ {0}
      /\ w[n].seq = e /\ w[1].seq \in Nat /\ w[1].missing \in Nat
      /\ w[1].seq <= e /\ w[1].seq > e - Horizon
  BY SpanInside
<1>2. Horizon \in Nat \ {0} /\ MinConfidence[1] \in Nat /\ MinConfidence[2] \in Nat
  BY GraphAssumption
<1>3. span \in Nat \ {0} /\ span <= Horizon
  BY <1>1, <1>2
<1>4. missing \in Nat /\ n + missing >= span
  <2>1. DOMAIN w = 1 .. n
    BY <1>1
  <2>2. missing \in Nat /\ missing + n = w[n].seq - (w[1].seq - 1) + w[1].missing
    BY <1>1, <2>1, SpanOfLinks DEF Sliding
  <2> HIDE DEF missing, n
  <2> QED
    BY <1>1, <1>3, <2>2
<1>5. total \in Nat /\ mapped \in Nat /\ mapped <= total
  BY <1>1, SharesOfRows DEF Sliding
<1>6. Last(w).seq - (Head(w).seq - 1) = span
  BY <1>1 DEF Last
<1>7. (IF span < Horizon THEN span ELSE Horizon) = span
  BY <1>2, <1>3
<1>8. Confidence(w) = IF total = 0
                      THEN <<span * n, Horizon * (n + missing)>>
                      ELSE <<span * n * mapped, Horizon * (n + missing) * total>>
  BY <1>6, <1>7 DEF Confidence
<1> HIDE DEF span, missing, total, mapped, n
<1>9. CASE total = 0
  <2>1. (span * n) * MinConfidence[2] >= MinConfidence[1] * (Horizon * (n + missing))
    BY <1>8, <1>9 DEF Enough
  <2>2. n * MinConfidence[2] >= MinConfidence[1] * Horizon
    BY <1>1, <1>2, <1>3, <1>4, <2>1, Fractions
  <2> QED
    BY <2>2 DEF Enough, n
<1>10. CASE total # 0
  <2>1. ((span * n) * mapped) * MinConfidence[2]
          >= MinConfidence[1] * ((Horizon * (n + missing)) * total)
    BY <1>8, <1>10 DEF Enough
  <2>2. n * MinConfidence[2] >= MinConfidence[1] * Horizon
    BY <1>1, <1>2, <1>3, <1>4, <1>5, <1>10, <2>1, Fractions
  <2> QED
    BY <2>2 DEF Enough, n
<1> QED
  BY <1>9, <1>10

-------------------------------------------------------------------------------
(***************************************************************************)
(* ingest.                                                                 *)
(***************************************************************************)

\* k are the windows of v from the m-th on, the first inside the horizon.
KeptFrom(k, v, e, m) ==
  /\ \A i \in 1 .. Len(v) : i >= m <=> v[i].seq > e - Horizon
  /\ k \in Seq(Windows) /\ Len(k) = Len(v) - m + 1
  /\ \A i \in 1 .. Len(v) - m + 1 : k[i] = v[i + m - 1]

\* What is left are the windows from the first inside the horizon to the last.
LEMMA KeptWindows ==
  ASSUME NEW v \in Seq(Windows), v # << >>, Rising(v), NEW e, e = v[Len(v)].seq
  PROVE  \E m \in 1 .. Len(v) : KeptFrom(Kept(v, e), v, e, m)
<1> DEFINE inside == {i \in DOMAIN v : v[i].seq > e - Horizon}
           m == Min(inside)
<1>1. Len(v) \in Nat \ {0} /\ DOMAIN v = 1 .. Len(v)
  BY EmptySeq
<1>2. Horizon \in Nat \ {0} /\ \A i \in 1 .. Len(v) : v[i].seq \in Nat
  BY GraphAssumption, WindowFields
<1>3. Len(v) \in inside
  BY <1>1, <1>2
<1>4. inside \in SUBSET Nat
  BY <1>1
<1>5. m \in inside /\ \A i \in inside : m <= i
  <2>1. \E x \in inside : \A y \in inside : x <= y
    BY <1>3, <1>4, Least
  <2> HIDE DEF inside
  <2> QED
    BY <2>1 DEF Min
<1>6. m \in 1 .. Len(v)
  BY <1>1, <1>5
<1>7. ASSUME NEW i \in 1 .. Len(v) PROVE i >= m <=> v[i].seq > e - Horizon
  <2>1. ASSUME i >= m PROVE v[i].seq > e - Horizon
    <3>1. v[m].seq > e - Horizon
      BY <1>5
    <3>2. i = m \/ v[m].seq < v[i].seq
      BY <1>6, <2>1 DEF Rising
    <3>3. e \in Nat /\ v[m].seq \in Nat /\ v[i].seq \in Nat
      BY <1>1, <1>2, <1>6
    <3> HIDE DEF m
    <3> QED
      BY <1>2, <3>1, <3>2, <3>3
  <2>2. ASSUME v[i].seq > e - Horizon PROVE i >= m
    <3>1. i \in inside
      BY <1>1, <2>2
    <3>2. m <= i
      BY <1>5, <3>1
    <3> QED
      BY <1>6, <3>2
  <2> QED
    BY <2>1, <2>2
<1>8. Kept(v, e) = SubSeq(v, m, Len(v))
  BY DEF Kept
<1> HIDE DEF m, inside
<1>9. /\ SubSeq(v, m, Len(v)) \in Seq(Windows)
      /\ Len(SubSeq(v, m, Len(v))) = Len(v) - m + 1
      /\ \A i \in 1 .. Len(v) - m + 1 : SubSeq(v, m, Len(v))[i] = v[m + i - 1]
  BY <1>1, <1>6, SubSeqProperties
<1>10. \A i \in 1 .. Len(v) - m + 1 : m + i - 1 = i + m - 1
  BY <1>1, <1>6
<1>11. KeptFrom(SubSeq(v, m, Len(v)), v, e, m)
  <2>1. \A i \in 1 .. Len(v) - m + 1 : SubSeq(v, m, Len(v))[i] = v[i + m - 1]
    BY <1>9, <1>10
  <2> QED
    BY <1>7, <1>9, <2>1 DEF KeptFrom
<1> QED
  BY <1>6, <1>8, <1>11

\* They are the sliding window again.
LEMMA KeptSlides ==
  ASSUME NEW v \in Seq(Windows), v # << >>, Rising(v), Linked(v), Mapped(v),
         NEW e \in Nat \ {0}, e = v[Len(v)].seq, NEW o \in SUBSET Nat,
         \A t \in o : t > e - Horizon => t \in SeqsOf(v), SeqsOf(v) \subseteq o
  PROVE  Sliding(Kept(v, e), e, o) /\ Kept(v, e) # << >>
<1> DEFINE k == Kept(v, e)
<1>0. PICK m \in 1 .. Len(v) : KeptFrom(k, v, e, m)
  BY KeptWindows
<1> HIDE DEF k
<1>1. /\ \A i \in 1 .. Len(v) : i >= m <=> v[i].seq > e - Horizon
      /\ k \in Seq(Windows) /\ Len(k) = Len(v) - m + 1
      /\ \A i \in 1 .. Len(v) - m + 1 : k[i] = v[i + m - 1]
  BY <1>0 DEF KeptFrom
<1>2. Len(v) \in Nat \ {0}
  BY EmptySeq
<1>3. m \in Nat /\ m >= 1 /\ m <= Len(v) /\ Len(k) \in Nat \ {0}
  BY <1>1, <1>2
<1>4. \A i \in 1 .. Len(k) : i + m - 1 \in 1 .. Len(v) /\ i + m - 1 >= m /\ k[i] = v[i + m - 1]
  BY <1>1, <1>2, <1>3
<1>5. k # << >> /\ k[Len(k)].seq = e
  <2>1. Len(k) \in 1 .. Len(k) /\ Len(k) + m - 1 = Len(v)
    BY <1>1, <1>2, <1>3
  <2> QED
    BY <1>3, <1>4, <2>1, EmptySeq
<1>6. Rising(k)
  <2> SUFFICES ASSUME NEW i \in 1 .. Len(k), NEW j \in 1 .. Len(k), i < j
               PROVE  k[i].seq < k[j].seq
    BY DEF Rising
  <2>1. i + m - 1 < j + m - 1
    BY <1>3
  <2>2. v[i + m - 1].seq < v[j + m - 1].seq
    BY <1>4, <2>1 DEF Rising
  <2> QED
    BY <1>4, <2>2
<1>7. Linked(k)
  <2> SUFFICES ASSUME NEW i \in 1 .. Len(k) - 1
               PROVE  k[i + 1].seq = k[i].seq + k[i + 1].missing + 1
    BY DEF Linked
  <2>1. i \in 1 .. Len(k) /\ i + 1 \in 1 .. Len(k)
    BY <1>3
  <2> DEFINE p == i + m - 1
  <2>2. p \in 1 .. Len(v) - 1 /\ (i + 1) + m - 1 = p + 1
    BY <1>1, <1>2, <1>3
  <2>3. k[i] = v[p] /\ k[i + 1] = v[p + 1]
    BY <1>4, <2>1, <2>2
  <2> HIDE DEF p
  <2>4. v[p + 1].seq = v[p].seq + v[p + 1].missing + 1
    BY <2>2 DEF Linked
  <2> QED
    BY <2>3, <2>4
<1>8. Mapped(k)
  BY <1>4 DEF Mapped
<1>9. SeqsOf(k) = {s \in o : s > e - Horizon}
  <2>1. ASSUME NEW s \in SeqsOf(k) PROVE s \in o /\ s > e - Horizon
    <3>1. PICK i \in 1 .. Len(k) : s = k[i].seq
      BY DEF SeqsOf
    <3>2. s = v[i + m - 1].seq /\ s \in SeqsOf(v)
      BY <1>4, <3>1 DEF SeqsOf
    <3>3. s > e - Horizon
      BY <1>1, <1>4, <3>2
    <3> QED
      BY <3>2, <3>3
  <2>2. ASSUME NEW s \in o, s > e - Horizon PROVE s \in SeqsOf(k)
    <3>1. s \in SeqsOf(v)
      BY <2>2
    <3>2. PICK j \in 1 .. Len(v) : s = v[j].seq
      BY <3>1 DEF SeqsOf
    <3>3. j >= m
      BY <1>1, <2>2, <3>2
    <3>4. j - m + 1 \in 1 .. Len(k) /\ (j - m + 1) + m - 1 = j
      BY <1>1, <1>2, <1>3, <3>3
    <3>5. k[j - m + 1] = v[j]
      BY <1>4, <3>4
    <3> QED
      BY <3>2, <3>4, <3>5 DEF SeqsOf
  <2> QED
    BY <2>1, <2>2
<1> QED
  BY <1>1, <1>5, <1>6, <1>7, <1>8, <1>9 DEF Sliding, k

\* The window of a snapshot.
Window(g, s) ==
  [seq |-> s.seq, missing |-> IF g.lastSeq = 0 THEN 0 ELSE s.seq - g.lastSeq - 1,
   ran |-> Ran(g, s), relations |-> MappedRows(Named(g, s), s)]

\* It has fewer mapped rows than rows.
LEMMA WindowType ==
  ASSUME NEW g, g.lastSeq \in Nat, NEW s \in Snapshots, s.seq > g.lastSeq
  PROVE  /\ Window(g, s) \in Windows
         /\ Window(g, s).relations.mapped <= Window(g, s).relations.total
<1> DEFINE n == Named(g, s)
           mapped == {t \in s.rows : n[t] # 0}
           r == MappedRows(n, s)
<1>1. s.seq \in Nat \ {0} /\ s.tasks \subseteq Threads /\ s.rows \subseteq Threads
  BY DEF Snapshots
<1>2. IsFiniteSet(s.rows) /\ mapped \subseteq s.rows
  BY <1>1, GraphAssumption, FS_Subset
<1>3. /\ Cardinality(s.rows) \in Nat /\ Cardinality(mapped) \in Nat
      /\ Cardinality(mapped) <= Cardinality(s.rows)
  BY <1>2, FS_Subset, FS_CardinalityType
<1>4. r.total = Cardinality(s.rows) /\ r.mapped = Cardinality(mapped)
  BY DEF MappedRows
<1>5. Ran(g, s) \subseteq GroupNames
  BY <1>1 DEF Ran, GroupNames
<1>6. r \in [total : Nat, mapped : Nat, related : SUBSET SUBSET GroupNames]
  <2>1. {{Group[p[1]], Group[p[2]]} : p \in {q \in mapped \X mapped : q[1] # q[2]}}
          \subseteq SUBSET GroupNames
    <3> SUFFICES ASSUME NEW p \in mapped \X mapped
                 PROVE  {Group[p[1]], Group[p[2]]} \subseteq GroupNames
      OBVIOUS
    <3>1. p[1] \in Threads /\ p[2] \in Threads
      BY <1>1, <1>2
    <3> QED
      BY <3>1 DEF GroupNames
  <2> QED
    BY <1>3, <2>1 DEF MappedRows
<1>7. (IF g.lastSeq = 0 THEN 0 ELSE s.seq - g.lastSeq - 1) \in Nat
  BY <1>1
<1> HIDE DEF r, n, mapped
<1> QED
  BY <1>1, <1>3, <1>4, <1>5, <1>6, <1>7 DEF Window, Windows, r, n

\* A snapshot above the last one makes the graph that has observed it too.
LEMMA IngestGraphed ==
  ASSUME NEW g, NEW o, Graphed(g, o), NEW s \in Snapshots, s.seq > g.lastSeq
  PROVE  /\ Graphed(Ingest(g, s), o \cup {s.seq})
         /\ Ingest(g, s).lastSeq = s.seq /\ Ingest(g, s).windows # << >>
<1> DEFINE w == g.windows
           x == Window(g, s)
           v == Append(w, x)
           e == s.seq
           p == o \cup {s.seq}
<1>1. /\ g.lastSeq \in Nat /\ o \subseteq 1 .. g.lastSeq
      /\ w \in Seq(Windows) /\ Rising(w) /\ Linked(w) /\ Mapped(w)
      /\ IF g.lastSeq = 0 THEN w = << >> ELSE w # << >> /\ w[Len(w)].seq = g.lastSeq
      /\ SeqsOf(w) = {t \in o : t > g.lastSeq - Horizon}
  BY DEF Graphed, Sliding
<1>2. e \in Nat \ {0}
  BY DEF Snapshots
<1>3. /\ Ingest(g, s).lastSeq = e
      /\ Ingest(g, s).windows = Kept(v, e)
  BY DEF Ingest, Window
<1>4. /\ x \in Windows /\ x.relations.mapped <= x.relations.total /\ x.seq = e
      /\ x.missing = IF g.lastSeq = 0 THEN 0 ELSE e - g.lastSeq - 1
  <2>1. x.seq = e /\ x.missing = IF g.lastSeq = 0 THEN 0 ELSE e - g.lastSeq - 1
    BY DEF Window
  <2>2. x \in Windows /\ x.relations.mapped <= x.relations.total
    BY <1>1, WindowType
  <2> QED
    BY <2>1, <2>2
<1> HIDE DEF x
<1>5. /\ v \in Seq(Windows) /\ Len(v) = Len(w) + 1 /\ Len(w) \in Nat /\ v[Len(v)] = x
      /\ \A i \in 1 .. Len(w) : v[i] = w[i]
  BY <1>1, <1>4
<1>6. \A i \in 1 .. Len(w) : w[i].seq \in Nat /\ w[i].seq <= g.lastSeq
  <2>1. w # << >> => \A i \in 1 .. Len(w) : w[i].seq <= g.lastSeq
    <3>1. o \in SUBSET Nat
      BY <1>1
    <3> QED
      BY <1>1, <3>1, SpanInside DEF Graphed
  <2>2. w = << >> => Len(w) = 0
    OBVIOUS
  <2> QED
    BY <1>1, <2>1, <2>2, WindowFields
<1> HIDE DEF v, w, e
<1>7. v # << >> /\ v[Len(v)].seq = e
  BY <1>4, <1>5, EmptySeq
<1>8. Rising(v)
  <2> SUFFICES ASSUME NEW i \in 1 .. Len(v), NEW j \in 1 .. Len(v), i < j
               PROVE  v[i].seq < v[j].seq
    BY DEF Rising
  <2>1. i \in 1 .. Len(w) /\ v[i] = w[i]
    BY <1>5
  <2>2. CASE j = Len(v)
    <3>1. v[j].seq = e /\ w[i].seq <= g.lastSeq /\ e > g.lastSeq
      BY <1>6, <1>7, <2>1, <2>2 DEF e
    <3> QED
      BY <1>1, <1>2, <1>6, <2>1, <3>1
  <2>3. CASE j # Len(v)
    <3>1. j \in 1 .. Len(w) /\ v[j] = w[j]
      BY <1>5, <2>3
    <3>2. w[i].seq < w[j].seq
      BY <1>1, <2>1, <3>1 DEF Rising
    <3> QED
      BY <2>1, <3>1, <3>2
  <2> QED
    BY <2>2, <2>3
<1>9. Linked(v)
  <2> SUFFICES ASSUME NEW i \in 1 .. Len(v) - 1
               PROVE  v[i + 1].seq = v[i].seq + v[i + 1].missing + 1
    BY DEF Linked
  <2>1. i \in 1 .. Len(w) /\ v[i] = w[i]
    BY <1>5
  <2>2. CASE i = Len(w)
    <3>1. v[i + 1] = x
      BY <1>5, <2>2
    <3>2. w # << >> /\ w[i].seq = g.lastSeq /\ g.lastSeq # 0
      <4>1. w # << >>
        BY <2>1
      <4> QED
        BY <1>1, <2>2, <4>1
    <3>3. x.seq = e /\ x.missing = e - g.lastSeq - 1
      BY <1>4, <3>2
    <3>4. e = g.lastSeq + (e - g.lastSeq - 1) + 1
      BY <1>1, <1>2
    <3> QED
      BY <2>1, <3>1, <3>2, <3>3, <3>4
  <2>3. CASE i # Len(w)
    <3>1. i \in 1 .. Len(w) - 1 /\ i + 1 \in 1 .. Len(w)
      BY <1>5, <2>1, <2>3
    <3>2. v[i + 1] = w[i + 1]
      BY <1>5, <3>1
    <3>3. w[i + 1].seq = w[i].seq + w[i + 1].missing + 1
      BY <1>1, <3>1 DEF Linked
    <3> QED
      BY <2>1, <3>2, <3>3
  <2> QED
    BY <2>2, <2>3
<1>10. Mapped(v)
  <2> SUFFICES ASSUME NEW i \in 1 .. Len(v)
               PROVE  v[i].relations.mapped <= v[i].relations.total
    BY DEF Mapped
  <2>1. CASE i = Len(v)
    BY <1>4, <1>5, <2>1
  <2>2. CASE i # Len(v)
    <3>1. i \in 1 .. Len(w) /\ v[i] = w[i]
      BY <1>5, <2>2
    <3>2. w[i].relations.mapped <= w[i].relations.total
      BY <1>1, <3>1 DEF Mapped
    <3> QED
      BY <3>1, <3>2
  <2> QED
    BY <2>1, <2>2
<1>11. SeqsOf(v) = SeqsOf(w) \cup {e}
  <2>1. \A i \in 1 .. Len(v) : i = Len(v) \/ i \in 1 .. Len(w)
    BY <1>5
  <2>2. Len(v) \in 1 .. Len(v) /\ \A i \in 1 .. Len(w) : i \in 1 .. Len(v)
    BY <1>5
  <2> QED
    BY <1>5, <1>7, <2>1, <2>2 DEF SeqsOf
<1>12. p \in SUBSET Nat /\ p \subseteq 1 .. e
  <2>1. g.lastSeq < e /\ e \in p /\ p = o \cup {e}
    BY DEF e
  <2>2. \A t \in 1 .. g.lastSeq : t \in 1 .. e
    BY <1>1, <1>2, <2>1
  <2>3. e \in 1 .. e
    BY <1>2
  <2>4. p \subseteq 1 .. e
    BY <1>1, <2>1, <2>2, <2>3
  <2>5. 1 .. e \subseteq Nat
    OBVIOUS
  <2> QED
    BY <2>4, <2>5
<1>13. SeqsOf(v) \subseteq p /\ \A t \in p : t > e - Horizon => t \in SeqsOf(v)
  <2>1. SeqsOf(v) \subseteq p
    BY <1>1, <1>11 DEF e
  <2>2. ASSUME NEW t \in p, t > e - Horizon PROVE t \in SeqsOf(v)
    <3>1. CASE t = e
      BY <1>11, <3>1
    <3>2. CASE t # e
      <4>1. t \in o /\ t \in Nat
        BY <1>1, <3>2 DEF e
      <4>2. t > g.lastSeq - Horizon
        <5>1. Horizon \in Nat /\ e > g.lastSeq
          BY GraphAssumption DEF e
        <5> QED
          BY <1>1, <1>2, <2>2, <4>1, <5>1
      <4> QED
        BY <1>1, <1>11, <4>1, <4>2
    <3> QED
      BY <3>1, <3>2
  <2> QED
    BY <2>1, <2>2
<1>14. Sliding(Kept(v, e), e, p) /\ Kept(v, e) # << >>
  <2> HIDE DEF p
  <2> QED
    BY <1>2, <1>5, <1>7, <1>8, <1>9, <1>10, <1>12, <1>13, KeptSlides
<1>15. e = s.seq
  BY DEF e
<1> QED
  BY <1>2, <1>3, <1>12, <1>14, <1>15 DEF Graphed

\* The row of a graph that has windows is backed by what it has observed.
LEMMA ScoreIsBacked ==
  ASSUME NEW g, NEW o, Graphed(g, o), g.windows # << >>
  PROVE  /\ Score(g).seqEnd = g.lastSeq /\ Score(g).trusted \in BOOLEAN
         /\ Backed(Score(g), o)
<1>1. /\ Score(g).seqEnd = g.lastSeq
      /\ Score(g).trusted = Enough(Confidence(g.windows)[1], Confidence(g.windows)[2])
  BY DEF Score
<1>2. Score(g).trusted \in BOOLEAN
  BY <1>1 DEF Enough
<1>3. /\ g.lastSeq \in Nat /\ o \in SUBSET Nat /\ \A s \in o : s <= g.lastSeq
      /\ Sliding(g.windows, g.lastSeq, o)
  BY DEF Graphed
<1>4. ASSUME Score(g).trusted PROVE Enough(Cardinality(Recent(o, g.lastSeq)), Horizon)
  <2>1. Enough(Len(g.windows), Horizon)
    BY <1>1, <1>3, <1>4, ConfidenceIsObserved
  <2>2. Cardinality(Recent(o, g.lastSeq)) = Len(g.windows)
    BY <1>3, WindowsAreRecent
  <2> QED
    BY <2>1, <2>2
<1> QED
  BY <1>1, <1>2, <1>4 DEF Backed

\* What is observed later leaves it so.
LEMMA BackedStays ==
  ASSUME NEW j, NEW o, NEW s \in Nat, j.seqEnd \in Nat, s > j.seqEnd, Backed(j, o)
  PROVE  Backed(j, o \cup {s})
<1>1. Horizon \in Nat
  BY GraphAssumption
<1>2. Recent(o \cup {s}, j.seqEnd) = Recent(o, j.seqEnd)
  BY <1>1 DEF Recent
<1> QED
  BY <1>2 DEF Backed

-------------------------------------------------------------------------------
(***************************************************************************)
(* The steps.                                                              *)
(***************************************************************************)

\* What is said of the data, and what of the processes.
Data ==
  /\ Graphed(graph, observed)
  /\ Streaming
  /\ Backed(journal, observed) /\ Backed(latest, observed)
  /\ journal.trusted \in BOOLEAN /\ latest.trusted \in BOOLEAN

\* A row is written only by a poll.
LEMMA NoRowIsObserved ==
  ASSUME row' = NoRow
  PROVE  PlacedIsObserved' /\ row'.status \in Rows
BY DEF NoRow, PlacedIsObserved, Rows

\* The numbers of the windows follow from the sliding window.
LEMMA WindowsInHorizon ==
  ASSUME NEW g, NEW o, Graphed(g, o)
  PROVE  \A i \in 1 .. Len(g.windows) : g.windows[i].seq > g.lastSeq - Horizon
<1>1. g.lastSeq \in Nat /\ o \in SUBSET Nat /\ Sliding(g.windows, g.lastSeq, o)
  BY DEF Graphed
<1>2. g.windows = << >> => Len(g.windows) = 0
  OBVIOUS
<1>3. g.windows # << >> => \A i \in 1 .. Len(g.windows) : g.windows[i].seq > g.lastSeq - Horizon
  BY <1>1, SpanInside
<1> QED
  BY <1>2, <1>3

\* A step that leaves stream, graph and files alone.
LEMMA QuietStep ==
  ASSUME PipeInv, UNCHANGED <<produced, wire, graph, journal, latest, observed>>, row' = NoRow,
         publisher' \in {"absent", "open", "closed"}, stop' \in BOOLEAN,
         scaling' \in {"one_node", "two_node"},
         \/ agent' = agent
         \/ agent = "connecting" /\ agent' \in {"reading", "draining", "failed"}
         \/ agent = "reading" /\ agent' \in {"waiting", "draining"}
         \/ agent = "waiting" /\ agent' \in {"draining", "failed"}
         \/ agent' = "failed"
  PROVE  PipeInv'
<1>1. Data'
  BY DEF PipeInv, Data, Streaming
<1>2. PlacedIsObserved' /\ row'.status \in Rows
  BY NoRowIsObserved
<1>3. Following'
  BY DEF PipeInv, Following
<1>4. TypeOK'
  BY <1>2 DEF PipeInv, TypeOK
<1> QED
  BY <1>1, <1>2, <1>3, <1>4 DEF PipeInv, Data

\* A snapshot that is published comes after those in the socket.
LEMMA PublishStep ==
  ASSUME PipeInv, NEW content \in Contents, NEW lost \in BOOLEAN, Publish(content, lost)
  PROVE  PipeInv'
<1>1. /\ produced \in Nat /\ produced' = produced + 1 /\ produced' \in 0 .. MaxSequence
      /\ graph.lastSeq \in 0 .. produced
  BY PipelineAssumption DEF PipeInv, TypeOK, Publish
<1>2. /\ wire \in Seq(Snapshots) /\ Rising(wire) /\ Len(wire) \in Nat
      /\ \A i \in 1 .. Len(wire) : wire[i] \in Snapshots
      /\ \A i \in 1 .. Len(wire) : wire[i].seq \in graph.lastSeq + 1 .. produced
  BY DEF PipeInv, Streaming
<1>3. UNCHANGED <<publisher, stop, agent, graph, journal, latest, observed, scaling>> /\ row' = NoRow
  BY DEF Publish, agentVars, shadowVars
<1>4. PlacedIsObserved' /\ row'.status \in Rows
  BY <1>3, NoRowIsObserved
<1> DEFINE s == [seq |-> produced', tasks |-> content.tasks, rows |-> content.rows]
<1>5. s \in Snapshots /\ s.seq = produced'
  <2>1. content.tasks \in SUBSET Threads /\ content.rows \in SUBSET Threads
    BY PipelineAssumption
  <2> QED
    BY <1>1, <2>1 DEF Snapshots
<1> HIDE DEF s
<1>6. wire' = wire \/ (wire' = Append(wire, s) /\ Len(wire) < MaxWire)
  BY DEF Publish, s
<1>7. Streaming' /\ Len(wire') <= MaxWire /\ \A i \in 1 .. Len(wire') : wire'[i] \in Snapshots
  <2>1. CASE wire' = wire
    <3>1. \A i \in 1 .. Len(wire) : wire[i].seq \in graph'.lastSeq + 1 .. produced'
      BY <1>1, <1>2, <1>3
    <3>2. Len(wire) <= MaxWire
      BY DEF PipeInv, TypeOK
    <3> QED
      BY <1>2, <1>3, <2>1, <3>1, <3>2 DEF Streaming
  <2>2. CASE wire' = Append(wire, s) /\ Len(wire) < MaxWire
    <3> DEFINE v == Append(wire, s)
    <3>1. /\ v \in Seq(Snapshots) /\ Len(v) = Len(wire) + 1 /\ v[Len(v)] = s
          /\ \A i \in 1 .. Len(wire) : v[i] = wire[i]
      BY <1>2, <1>5
    <3> HIDE DEF v
    <3>2. \A i \in 1 .. Len(v) : i = Len(v) \/ i \in 1 .. Len(wire)
      BY <1>2, <3>1
    <3>3. \A i \in 1 .. Len(v) : v[i].seq \in graph.lastSeq + 1 .. produced'
      <4> SUFFICES ASSUME NEW i \in 1 .. Len(v) PROVE v[i].seq \in graph.lastSeq + 1 .. produced'
        OBVIOUS
      <4>1. CASE i = Len(v)
        BY <1>1, <1>5, <3>1, <4>1
      <4>2. CASE i \in 1 .. Len(wire)
        <5>1. v[i].seq \in graph.lastSeq + 1 .. produced
          BY <1>2, <3>1, <4>2
        <5> QED
          BY <1>1, <5>1
      <4> QED
        BY <3>2, <4>1, <4>2
    <3>4. Rising(v)
      <4> SUFFICES ASSUME NEW i \in 1 .. Len(v), NEW j \in 1 .. Len(v), i < j
                   PROVE  v[i].seq < v[j].seq
        BY DEF Rising
      <4>1. i \in 1 .. Len(wire) /\ v[i] = wire[i] /\ wire[i].seq \in graph.lastSeq + 1 .. produced
        BY <1>2, <3>1
      <4>2. CASE j = Len(v)
        BY <1>1, <1>5, <3>1, <4>1, <4>2
      <4>3. CASE j \in 1 .. Len(wire)
        BY <1>2, <3>1, <4>1, <4>3 DEF Rising
      <4> QED
        BY <3>2, <4>2, <4>3
    <3>5. Len(v) <= MaxWire
      BY <1>2, <2>2, <3>1, PipelineAssumption
    <3>6. wire' = v /\ \A i \in 1 .. Len(v) : v[i] \in Snapshots
      BY <2>2, <3>1 DEF v
    <3> QED
      BY <1>3, <3>1, <3>3, <3>4, <3>5, <3>6 DEF Streaming
  <2> QED
    BY <1>6, <2>1, <2>2
<1>8. Data'
  BY <1>3, <1>7 DEF PipeInv, Data
<1>9. Following'
  BY <1>3 DEF PipeInv, Following
<1>10. TypeOK'
  <2>1. graph'.lastSeq \in 0 .. produced' /\ observed' \subseteq 1 .. produced'
    BY <1>1, <1>3 DEF PipeInv, TypeOK
  <2> QED
    BY <1>1, <1>3, <1>4, <1>7, <2>1 DEF PipeInv, TypeOK
<1> QED
  BY <1>4, <1>8, <1>9, <1>10 DEF PipeInv, Data

\* A line that is read makes the graph, and the row when it is due.
LEMMA ReadLineStep ==
  ASSUME PipeInv, ReadLine
  PROVE  PipeInv'
<1> DEFINE s == Head(wire)
<1>1. /\ wire # << >> /\ wire' = Tail(wire) /\ graph' = Ingest(graph, s)
      /\ observed' = observed \cup {s.seq}
      /\ UNCHANGED <<produced, publisher, stop, latest, scaling>> /\ row' = NoRow
      /\ agent = "waiting"
      /\ \/ Due(s.seq) /\ agent' = "replacing" /\ journal' = Score(graph')
         \/ ~Due(s.seq) /\ agent' = "reading" /\ journal' = journal
  BY DEF ReadLine, shadowVars
<1>2. /\ wire \in Seq(Snapshots) /\ Rising(wire) /\ Len(wire) \in Nat
      /\ \A i \in 1 .. Len(wire) : wire[i].seq \in graph.lastSeq + 1 .. produced
      /\ \A i \in 1 .. Len(wire) : wire[i] \in Snapshots
  BY DEF PipeInv, Streaming
<1>3. produced \in Nat /\ graph.lastSeq \in Nat /\ observed \subseteq 1 .. produced
      /\ journal.seqEnd \in 0 .. graph.lastSeq /\ latest.seqEnd \in 0 .. journal.seqEnd
      /\ Len(wire) <= MaxWire
  BY DEF PipeInv, TypeOK
<1>4. Len(wire) \in Nat \ {0} /\ s = wire[1] /\ 1 \in 1 .. Len(wire)
  BY <1>1, <1>2, EmptySeq
<1>5. s \in Snapshots /\ s.seq \in Nat \ {0} /\ s.seq > graph.lastSeq /\ s.seq <= produced
  <2>1. s \in Snapshots /\ s.seq \in graph.lastSeq + 1 .. produced
    BY <1>2, <1>4
  <2>2. s.seq \in Nat \ {0}
    BY <2>1 DEF Snapshots
  <2> HIDE DEF s
  <2> QED
    BY <1>3, <2>1, <2>2
<1> HIDE DEF s
<1>6. Graphed(graph', observed') /\ graph'.lastSeq = s.seq /\ graph'.windows # << >>
  <2>1. Graphed(graph, observed)
    BY DEF PipeInv
  <2> QED
    BY <1>1, <1>5, <2>1, IngestGraphed
<1>7. Streaming' /\ Len(wire') <= MaxWire /\ \A i \in 1 .. Len(wire') : wire'[i] \in Snapshots
  <2> DEFINE v == Tail(wire)
  <2>1. /\ v \in Seq(Snapshots) /\ Len(v) = Len(wire) - 1
        /\ \A i \in 1 .. Len(v) : v[i] = wire[i + 1]
    BY <1>1, <1>2
  <2> HIDE DEF v
  <2>2. \A i \in 1 .. Len(v) : i + 1 \in 1 .. Len(wire) /\ 1 < i + 1
    BY <1>4, <2>1
  <2>3. \A i \in 1 .. Len(v) : v[i].seq \in s.seq + 1 .. produced
    <3> SUFFICES ASSUME NEW i \in 1 .. Len(v) PROVE v[i].seq \in s.seq + 1 .. produced
      OBVIOUS
    <3>1. v[i] = wire[i + 1] /\ wire[i + 1].seq \in graph.lastSeq + 1 .. produced
      BY <1>2, <2>1, <2>2
    <3>2. s.seq < wire[i + 1].seq
      BY <1>2, <1>4, <2>2 DEF Rising
    <3> QED
      BY <1>3, <1>5, <3>1, <3>2
  <2>4. Rising(v)
    <3> SUFFICES ASSUME NEW i \in 1 .. Len(v), NEW j \in 1 .. Len(v), i < j
                 PROVE  v[i].seq < v[j].seq
      BY DEF Rising
    <3>1. i + 1 < j + 1
      BY <1>4, <2>1
    <3> QED
      BY <1>2, <2>1, <2>2, <3>1 DEF Rising
  <2>5. wire' = v /\ graph'.lastSeq = s.seq /\ produced' = produced
    BY <1>1, <1>6 DEF v
  <2>6. Len(v) <= MaxWire /\ \A i \in 1 .. Len(v) : v[i] \in Snapshots
    BY <1>2, <1>3, <2>1, PipelineAssumption
  <2> QED
    BY <2>1, <2>3, <2>4, <2>5, <2>6 DEF Streaming
<1>8. /\ journal.trusted \in BOOLEAN /\ latest.trusted \in BOOLEAN
      /\ Backed(journal, observed') /\ Backed(latest, observed')
  <2>1. /\ Backed(journal, observed) /\ Backed(latest, observed)
        /\ journal.trusted \in BOOLEAN /\ latest.trusted \in BOOLEAN
    BY DEF PipeInv
  <2>2. journal.seqEnd \in Nat /\ latest.seqEnd \in Nat /\ s.seq > journal.seqEnd
        /\ s.seq > latest.seqEnd
    BY <1>3, <1>5
  <2> QED
    BY <1>1, <1>5, <2>1, <2>2, BackedStays
<1>9. /\ Score(graph').seqEnd = s.seq /\ Score(graph').trusted \in BOOLEAN
      /\ Backed(Score(graph'), observed')
  BY <1>6, ScoreIsBacked
<1>10. Data'
  BY <1>1, <1>6, <1>7, <1>8, <1>9 DEF Data
<1>11. PlacedIsObserved' /\ row'.status \in Rows
  BY <1>1, NoRowIsObserved
<1>12. latest.seqEnd = journal.seqEnd
  BY <1>1 DEF PipeInv, Following
<1>13. Following'
  <2>1. CASE Due(s.seq)
    BY <1>1, <1>6, <1>9, <2>1 DEF Following
  <2>2. CASE ~Due(s.seq)
    <3>1. journal.seqEnd > 0 /\ s.seq - journal.seqEnd < Emit
      BY <1>3, <1>5, <2>2, PipelineAssumption DEF Due
    <3> QED
      BY <1>1, <1>6, <1>12, <2>2, <3>1 DEF Following
  <2> QED
    BY <2>1, <2>2
<1>14. TypeOK'
  <2>1. graph'.lastSeq \in 0 .. produced' /\ observed' \subseteq 1 .. produced'
    <3>1. s.seq \in 0 .. produced /\ s.seq \in 1 .. produced
      BY <1>3, <1>5
    <3> QED
      BY <1>1, <1>3, <1>6, <3>1
  <2>2. \A i \in 1 .. Len(graph'.windows) : graph'.windows[i].seq > graph'.lastSeq - Horizon
    BY <1>6, WindowsInHorizon
  <2>3. journal'.seqEnd \in 0 .. graph'.lastSeq /\ latest'.seqEnd \in 0 .. journal'.seqEnd
    BY <1>1, <1>3, <1>5, <1>6, <1>9
  <2>4. agent' \in {"replacing", "reading"}
    BY <1>1
  <2> QED
    BY <1>1, <1>7, <1>11, <2>1, <2>2, <2>3, <2>4 DEF PipeInv, TypeOK
<1> QED
  BY <1>10, <1>11, <1>13, <1>14 DEF PipeInv, Data

\* The latest file gets the last row of the journal.
LEMMA LatestStep ==
  ASSUME PipeInv, Replace \/ Finish
  PROVE  PipeInv'
<1>1. /\ UNCHANGED <<produced, wire, publisher, stop, graph, journal, observed, scaling>>
      /\ latest' = journal /\ row' = NoRow
      /\ \/ agent = "replacing" /\ agent' = "reading"
         \/ agent = "finishing" /\ agent' = "done"
  BY DEF Replace, Finish, streamVars, shadowVars
<1>2. Data'
  BY <1>1 DEF PipeInv, Data, Streaming
<1>3. PlacedIsObserved' /\ row'.status \in Rows
  BY <1>1, NoRowIsObserved
<1>4. graph.lastSeq \in Nat /\ journal.seqEnd \in 0 .. graph.lastSeq
  BY DEF PipeInv, TypeOK
<1>5. journal.seqEnd = graph.lastSeq
  BY <1>1 DEF PipeInv, Following
<1>6. Following'
  <2>1. graph.lastSeq = 0 \/ (journal.seqEnd > 0 /\ graph.lastSeq - journal.seqEnd < Emit)
    BY <1>4, <1>5, PipelineAssumption
  <2> QED
    BY <1>1, <1>5, <2>1 DEF Following
<1>7. TypeOK'
  <2>1. journal.seqEnd \in 0 .. journal.seqEnd
    BY <1>4
  <2> QED
    BY <1>1, <1>3, <2>1 DEF PipeInv, TypeOK
<1> QED
  BY <1>2, <1>3, <1>6, <1>7 DEF PipeInv, Data

\* The last row is written unless it is the last already.
LEMMA DrainStep ==
  ASSUME PipeInv, Drain
  PROVE  PipeInv'
<1>1. /\ UNCHANGED <<produced, wire, publisher, stop, graph, latest, observed, scaling>> /\ row' = NoRow
      /\ agent = "draining"
  BY DEF Drain, streamVars, shadowVars
<1>2. PlacedIsObserved' /\ row'.status \in Rows
  BY <1>1, NoRowIsObserved
<1>3. /\ graph.lastSeq \in Nat /\ journal.seqEnd \in 0 .. graph.lastSeq
      /\ latest.seqEnd \in 0 .. journal.seqEnd
  BY DEF PipeInv, TypeOK
<1>4. latest.seqEnd = journal.seqEnd
  BY <1>1 DEF PipeInv, Following
<1>5. CASE graph.windows # << >> /\ graph.lastSeq # journal.seqEnd
  <2>1. journal' = Score(graph) /\ agent' = "finishing"
    BY <1>5 DEF Drain
  <2>2. /\ Score(graph).seqEnd = graph.lastSeq /\ Score(graph).trusted \in BOOLEAN
        /\ Backed(Score(graph), observed)
    BY <1>5, ScoreIsBacked DEF PipeInv
  <2>3. Data'
    BY <1>1, <2>1, <2>2 DEF PipeInv, Data, Streaming
  <2>4. Following'
    BY <1>1, <2>1, <2>2 DEF Following
  <2>5. TypeOK'
    <3>1. journal'.seqEnd \in 0 .. graph.lastSeq /\ latest.seqEnd \in 0 .. journal'.seqEnd
      BY <1>3, <2>1, <2>2
    <3> QED
      BY <1>1, <1>2, <2>1, <3>1 DEF PipeInv, TypeOK
  <2> QED
    BY <1>2, <2>3, <2>4, <2>5 DEF PipeInv, Data
<1>6. CASE ~(graph.windows # << >> /\ graph.lastSeq # journal.seqEnd)
  <2>1. journal' = journal /\ agent' = "done"
    BY <1>6 DEF Drain
  <2>2. graph.lastSeq = journal.seqEnd
    <3>1. graph.windows = << >> => graph.lastSeq = 0
      BY DEF PipeInv, Graphed, Sliding
    <3> QED
      BY <1>3, <1>6, <3>1
  <2>3. Data'
    BY <1>1, <2>1 DEF PipeInv, Data, Streaming
  <2>4. Following'
    BY <1>1, <1>4, <2>1, <2>2 DEF Following
  <2>5. TypeOK'
    BY <1>1, <1>2, <2>1 DEF PipeInv, TypeOK
  <2> QED
    BY <1>2, <2>3, <2>4, <2>5 DEF PipeInv, Data
<1> QED
  BY <1>5, <1>6

\* A row that is placed comes from the latest file, when that is trusted.
LEMMA PlaceType ==
  ASSUME NEW r \in Relations
  PROVE  /\ Place(r).status \in Rows
         /\ Place(r).status # "insufficient_confidence" =>
              latest.trusted /\ Place(r).source = latest.seqEnd
<1> DEFINE b == BuildPlacement(r.groups, r.demand, r.edges, AvailableNodes)
<1>1. AvailableNodes \in {{0}, Nodes}
  BY DEF AvailableNodes
<1>2. Placements[r][AvailableNodes] = b
  BY <1>1 DEF Placements
<1>3. /\ b.status \in {"no_eligible_relationships", "graph_too_large", "candidate", "capacity_infeasible"}
      /\ "status" \in DOMAIN b /\ "source" \notin DOMAIN b
  BY DEF BuildPlacement
<1> HIDE DEF b
<1>4. CASE latest.trusted
  <2>1. Place(r) = [f \in DOMAIN b \cup {"source"} |-> IF f = "source" THEN latest.seqEnd ELSE b[f]]
    BY <1>2, <1>4 DEF Place
  <2>2. Place(r).status = b.status /\ Place(r).source = latest.seqEnd
    BY <1>3, <2>1
  <2> QED
    BY <1>3, <1>4, <2>2 DEF Rows
<1>5. CASE ~latest.trusted
  BY <1>5 DEF Place, Rows
<1> QED
  BY <1>4, <1>5

\* A placement rests on what the latest file rests on.
LEMMA PollStep ==
  ASSUME PipeInv, NEW r \in Relations, Poll(r)
  PROVE  PipeInv'
<1>1. /\ UNCHANGED <<produced, wire, publisher, stop, agent, graph, journal, latest, observed, scaling>>
      /\ row' = Place(r)
  BY DEF Poll, streamVars, agentVars
<1>2. Data'
  BY <1>1 DEF PipeInv, Data, Streaming
<1>3. Following'
  BY <1>1 DEF PipeInv, Following
<1>4. TypeOK'
  <2>1. row'.status \in Rows
    BY <1>1, PlaceType
  <2> QED
    BY <1>1, <2>1 DEF PipeInv, TypeOK
<1>5. PlacedIsObserved'
  <2> SUFFICES ASSUME row'.status \in Rows \ {"none", "insufficient_confidence"}
               PROVE  Enough(Cardinality({s \in observed' : s \in row'.source - Horizon + 1 .. row'.source}),
                             Horizon)
    BY DEF PlacedIsObserved
  <2>1. latest.trusted /\ row'.source = latest.seqEnd
    BY <1>1, PlaceType
  <2>2. Enough(Cardinality(Recent(observed, latest.seqEnd)), Horizon)
    BY <2>1 DEF PipeInv, Backed
  <2> QED
    BY <1>1, <2>1, <2>2 DEF Recent
<1> QED
  BY <1>2, <1>3, <1>4, <1>5 DEF PipeInv, Data

\* A new pipeline has read nothing.
LEMMA InitPipe == Init => PipeInv
<1> SUFFICES ASSUME Init PROVE PipeInv
  OBVIOUS
<1>1. /\ produced = 0 /\ wire = << >> /\ agent = "connecting" /\ graph = EmptyGraph /\ observed = {}
      /\ journal = NoScore /\ latest = NoScore /\ row = NoRow
      /\ publisher = "absent" /\ stop = FALSE /\ scaling = "one_node"
  BY DEF Init
<1>2. graph.lastSeq = 0 /\ graph.windows = << >> /\ Len(graph.windows) = 0
  BY <1>1 DEF EmptyGraph
<1>3. /\ journal.seqEnd = 0 /\ journal.trusted = FALSE /\ latest.seqEnd = 0 /\ latest.trusted = FALSE
      /\ row.status = "none"
  BY <1>1 DEF NoScore, NoRow
<1>4. Graphed(graph, observed)
  <2>1. << >> \in Seq(Windows)
    OBVIOUS
  <2> QED
    BY <1>1, <1>2, <2>1 DEF Graphed, Sliding, Rising, Linked, Mapped, SeqsOf
<1>5. Streaming
  <2>1. << >> \in Seq(Snapshots) /\ Len(<< >>) = 0
    OBVIOUS
  <2> QED
    BY <1>1, <2>1 DEF Streaming, Rising
<1>6. Backed(journal, observed) /\ Backed(latest, observed)
  BY <1>3 DEF Backed
<1>7. Following
  BY <1>1, <1>2, <1>3 DEF Following
<1>8. PlacedIsObserved
  BY <1>3 DEF PlacedIsObserved
<1>9. TypeOK
  <2>1. Len(wire) = 0 /\ Len(wire) <= MaxWire
    BY <1>1, PipelineAssumption
  <2>2. /\ produced \in 0 .. MaxSequence /\ graph.lastSeq \in 0 .. produced
        /\ observed \subseteq 1 .. produced
        /\ journal.seqEnd \in 0 .. graph.lastSeq /\ latest.seqEnd \in 0 .. journal.seqEnd
    BY <1>1, <1>2, <1>3, PipelineAssumption
  <2>3. /\ \A i \in 1 .. Len(wire) : wire[i] \in Snapshots
        /\ \A i \in 1 .. Len(graph.windows) : graph.windows[i].seq > graph.lastSeq - Horizon
    BY <1>2, <2>1
  <2>4. row.status \in Rows
    BY <1>3 DEF Rows
  <2> QED
    BY <1>1, <2>1, <2>2, <2>3, <2>4 DEF TypeOK
<1> QED
  BY <1>3, <1>4, <1>5, <1>6, <1>7, <1>8, <1>9 DEF PipeInv

\* Every step keeps the invariant.
LEMMA PipeStep == PipeInv /\ [Next]_vars => PipeInv'
<1> SUFFICES ASSUME PipeInv, [Next]_vars PROVE PipeInv'
  OBVIOUS
<1>1. publisher \in {"absent", "open", "closed"} /\ stop \in BOOLEAN
      /\ scaling \in {"one_node", "two_node"}
  BY DEF PipeInv, TypeOK
<1>2. CASE Listen \/ Close \/ Stop
  BY <1>1, <1>2, QuietStep DEF Listen, Close, Stop, agentVars, shadowVars, streamVars
<1>3. CASE Connect \/ ConnectEnds \/ Wait \/ ReadRaises \/ ReadEnds \/ Kill
  BY <1>1, <1>3, QuietStep
  DEF Connect, ConnectEnds, Wait, ReadRaises, ReadEnds, Kill, streamVars, shadowVars
<1>4. CASE Scale
  BY <1>1, <1>4, QuietStep DEF Scale, streamVars, agentVars
<1>5. CASE \E content \in Contents, lost \in BOOLEAN : Publish(content, lost)
  BY <1>5, PublishStep
<1>6. CASE ReadLine
  BY <1>6, ReadLineStep
<1>7. CASE Replace \/ Finish
  BY <1>7, LatestStep
<1>8. CASE Drain
  BY <1>8, DrainStep
<1>9. CASE \E r \in Relations : Poll(r)
  BY <1>9, PollStep
<1>10. CASE Ended \/ UNCHANGED vars
  <2>1. UNCHANGED vars
    BY <1>10 DEF Ended
  <2>2. Data'
    BY <2>1 DEF vars, PipeInv, Data, Streaming
  <2>3. Following' /\ PlacedIsObserved'
    BY <2>1 DEF vars, PipeInv, Following, PlacedIsObserved
  <2>4. TypeOK'
    BY <2>1 DEF vars, PipeInv, TypeOK
  <2> QED
    BY <2>2, <2>3, <2>4 DEF PipeInv, Data
<1> QED
  BY <1>2, <1>3, <1>4, <1>5, <1>6, <1>7, <1>8, <1>9, <1>10 DEF Next, Agent

-------------------------------------------------------------------------------
(***************************************************************************)
(* Induction over the subsets of a finite set, and sums over sets.         *)
(***************************************************************************)

\* A set of subsets that has a subset when it has all that lack one element of
\* it has them all.
LEMMA SetInduction ==
  ASSUME NEW S, IsFiniteSet(S), NEW T, {} \in T,
         \A s \in SUBSET S : s # {} /\ (\A x \in s : s \ {x} \in T) => s \in T
  PROVE  SUBSET S \subseteq T
<1> DEFINE N == {n \in Nat : \A s \in SUBSET S : Cardinality(s) = n => s \in T}
<1>1. \A s \in SUBSET S : IsFiniteSet(s) /\ Cardinality(s) \in Nat
  BY FS_Subset, FS_CardinalityType
<1>2. 0 \in N
  BY <1>1, FS_EmptySet
<1>3. ASSUME NEW n \in Nat, n \in N PROVE n + 1 \in N
  <2> SUFFICES ASSUME NEW s \in SUBSET S, Cardinality(s) = n + 1 PROVE s \in T
    OBVIOUS
  <2>1. s # {}
    BY <1>1, FS_EmptySet
  <2>2. ASSUME NEW x \in s PROVE s \ {x} \in T
    <3>1. IsFiniteSet(s) /\ s \ {x} \in SUBSET S
      BY <1>1
    <3>2. Cardinality(s \ {x}) = Cardinality(s) - 1
      BY <3>1, FS_RemoveElement
    <3> QED
      BY <1>3, <3>1, <3>2
  <2> QED
    BY <2>1, <2>2
<1>4. Nat \subseteq N
  <2> HIDE DEF N
  <2> QED
    BY <1>2, <1>3, Induction
<1> QED
  BY <1>1, <1>4

\* The folds over the subsets of S that take the elements as c gives them.
Folding(h, S, base, c, f) ==
  h = [s \in SUBSET S |-> IF s = {} THEN base ELSE f[c[s]][h[s \ {c[s]}]]]

\* There is such a fold.
LEMMA FoldExists ==
  ASSUME NEW S, IsFiniteSet(S), NEW V, NEW base \in V,
         NEW c, \A s \in SUBSET S : s # {} => c[s] \in s,
         NEW f, \A x \in S : \A v \in V : f[x][v] \in V
  PROVE  \E h \in [SUBSET S -> V] : Folding(h, S, base, c, f)
<1> DEFINE Step(h) == [s \in SUBSET S |-> IF s = {} THEN base ELSE f[c[s]][h[s \ {c[s]}]]]
           Upto(n, h) == \A s \in SUBSET S : Cardinality(s) <= n => h[s] = Step(h)[s]
           N == {n \in Nat : \E h \in [SUBSET S -> V] : Upto(n, h)}
<1>1. \A s \in SUBSET S : IsFiniteSet(s) /\ Cardinality(s) \in Nat
  BY FS_Subset, FS_CardinalityType
<1>2. ASSUME NEW h \in [SUBSET S -> V] PROVE Step(h) \in [SUBSET S -> V]
  <2>1. ASSUME NEW s \in SUBSET S, s # {} PROVE f[c[s]][h[s \ {c[s]}]] \in V
    <3>1. c[s] \in S /\ s \ {c[s]} \in SUBSET S
      BY <2>1
    <3>2. h[s \ {c[s]}] \in V
      BY <3>1
    <3> QED
      BY <3>1, <3>2
  <2> QED
    BY <2>1
<1>3. 0 \in N
  <2> DEFINE h == [s \in SUBSET S |-> base]
  <2>1. h \in [SUBSET S -> V]
    OBVIOUS
  <2>2. Upto(0, h)
    <3> SUFFICES ASSUME NEW s \in SUBSET S, Cardinality(s) <= 0 PROVE h[s] = Step(h)[s]
      OBVIOUS
    <3>1. s = {}
      BY <1>1, FS_EmptySet
    <3> QED
      BY <3>1
  <2> QED
    BY <2>1, <2>2
<1>4. ASSUME NEW n \in Nat, n \in N PROVE n + 1 \in N
  <2>1. PICK h \in [SUBSET S -> V] : Upto(n, h)
    BY <1>4
  <2> DEFINE g == Step(h)
  <2>2. g \in [SUBSET S -> V]
    BY <1>2
  <2>3. Upto(n + 1, g)
    <3> SUFFICES ASSUME NEW s \in SUBSET S, Cardinality(s) <= n + 1 PROVE g[s] = Step(g)[s]
      BY Zenon
    <3>1. CASE s = {}
      <4>1. Step(h)[s] = base
        BY <3>1
      <4> HIDE DEF g
      <4>2. Step(g)[s] = base
        BY <3>1
      <4> HIDE DEF Step, Upto
      <4> QED
        BY <4>1, <4>2, Zenon DEF g
    <3>2. CASE s # {}
      <4> DEFINE r == s \ {c[s]}
      <4>1. c[s] \in s /\ r \in SUBSET S
        BY <3>2
      <4>2. Cardinality(r) <= n
        BY <1>1, <4>1, FS_RemoveElement
      <4>3. h[r] = g[r]
        BY <2>1, <4>1, <4>2
      <4> HIDE DEF g
      <4>4. Step(g)[s] = f[c[s]][g[r]]
        BY <3>2
      <4>5. g[s] = f[c[s]][h[r]]
        BY <3>2 DEF g
      <4> HIDE DEF r, Step, Upto
      <4> QED
        BY <4>3, <4>4, <4>5
    <3> HIDE DEF g, Step, Upto
    <3> QED
      BY <3>1, <3>2
  <2>4. \E k \in [SUBSET S -> V] : Upto(n + 1, k)
    <3> HIDE DEF Upto, g
    <3> QED
      BY <2>2, <2>3
  <2> HIDE DEF Upto
  <2> QED
    BY <2>4
<1>5. Nat \subseteq N
  <2> HIDE DEF N
  <2> QED
    BY <1>3, <1>4, Induction
<1>6. Cardinality(S) \in N
  BY <1>1, <1>5
<1>7. PICK h \in [SUBSET S -> V] : Upto(Cardinality(S), h)
  BY <1>6
<1>8. \A s \in SUBSET S : h[s] = Step(h)[s]
  BY <1>7, FS_Subset
<1>9. h = [s \in SUBSET S |-> h[s]]
  OBVIOUS
<1>10. Folding(h, S, base, c, f)
  BY <1>8, <1>9 DEF Folding
<1> QED
  BY <1>10

\* The partial sums of w over the subsets of S.
Adds(h, w, S) ==
  h = [s \in SUBSET S |->
         IF s = {} THEN 0 ELSE LET x == CHOOSE x \in s : TRUE IN w[x] + h[s \ {x}]]

\* Numbers on a finite set have partial sums, of which SumFunctionOnSet is the
\* last.
LEMMA SumDefined ==
  ASSUME NEW S, IsFiniteSet(S), NEW w, \A x \in S : w[x] \in Nat
  PROVE  \E h \in [SUBSET S -> Nat] : Adds(h, w, S) /\ SumFunctionOnSet(w, S) = h[S]
<1> DEFINE c == [s \in SUBSET S |-> CHOOSE x \in s : TRUE]
           f == [x \in S |-> [v \in Nat |-> w[x] + v]]
           k == CHOOSE h : Adds(h, w, S)
<1>1. \A s \in SUBSET S : s # {} => c[s] \in s
  OBVIOUS
<1>2. \A x \in S : \A v \in Nat : f[x][v] \in Nat /\ f[x][v] = w[x] + v
  OBVIOUS
<1>3. \A s \in SUBSET S : c[s] = CHOOSE x \in s : TRUE
  OBVIOUS
<1> HIDE DEF c, f
<1>4. PICK h \in [SUBSET S -> Nat] : Folding(h, S, 0, c, f)
  <2>1. \A x \in S : \A v \in Nat : f[x][v] \in Nat
    BY <1>2
  <2>2. 0 \in Nat
    OBVIOUS
  <2> QED
    BY <1>1, <2>1, <2>2, FoldExists
<1>5. Adds(h, w, S)
  <2> DEFINE g == [s \in SUBSET S |->
                     IF s = {} THEN 0 ELSE LET x == CHOOSE x \in s : TRUE IN w[x] + h[s \ {x}]]
  <2>1. ASSUME NEW s \in SUBSET S PROVE h[s] = g[s]
    <3>1. CASE s = {}
      BY <1>4, <3>1 DEF Folding
    <3>2. CASE s # {}
      <4>1. c[s] \in S /\ s \ {c[s]} \in SUBSET S
        BY <1>1, <3>2
      <4>2. h[s \ {c[s]}] \in Nat
        BY <4>1
      <4>3. h[s] = w[c[s]] + h[s \ {c[s]}]
        BY <1>2, <1>4, <3>2, <4>1, <4>2 DEF Folding
      <4>4. g[s] = w[c[s]] + h[s \ {c[s]}]
        BY <1>3, <3>2
      <4> QED
        BY <4>3, <4>4
    <3> QED
      BY <3>1, <3>2
  <2>2. h = g
    <3>1. h = [s \in SUBSET S |-> h[s]] /\ g = [s \in SUBSET S |-> g[s]]
      OBVIOUS
    <3> HIDE DEF g
    <3> QED
      BY <2>1, <3>1
  <2> QED
    BY <2>2 DEF Adds
<1>6. Adds(k, w, S)
  BY <1>5
<1>7. SumFunctionOnSet(w, S) = k[S]
  BY DEF Adds, SumFunctionOnSet, FoldFunctionOnSet, MapThenFoldSet
<1> HIDE DEF k
<1>8. SUBSET S \subseteq {s \in SUBSET S : k[s] \in Nat}
  <2> DEFINE T == {s \in SUBSET S : k[s] \in Nat}
  <2>1. {} \in T
    BY <1>6 DEF Adds
  <2>2. ASSUME NEW s \in SUBSET S, s # {}, \A x \in s : s \ {x} \in T PROVE s \in T
    <3> DEFINE x == CHOOSE x \in s : TRUE
    <3>1. x \in s
      BY <2>2
    <3>2. k[s] = w[x] + k[s \ {x}]
      BY <1>6, <2>2 DEF Adds
    <3>3. w[x] \in Nat /\ k[s \ {x}] \in Nat
      BY <2>2, <3>1
    <3> HIDE DEF x
    <3> QED
      BY <3>2, <3>3
  <2> HIDE DEF T
  <2>3. SUBSET S \subseteq T
    BY <2>1, <2>2, SetInduction
  <2> QED
    BY <2>3 DEF T
<1>9. k \in [SUBSET S -> Nat]
  <2>1. k = [s \in SUBSET S |-> k[s]]
    BY <1>6 DEF Adds
  <2> QED
    BY <1>8, <2>1
<1> QED
  BY <1>6, <1>7, <1>9

\* Partial sums agree on a common subset.
LEMMA SumsAgree ==
  ASSUME NEW S, IsFiniteSet(S), NEW w, NEW h, Adds(h, w, S),
         NEW R \in SUBSET S, NEW k, Adds(k, w, R)
  PROVE  k[R] = h[R]
<1> DEFINE T == {s \in SUBSET R : k[s] = h[s]}
<1>1. IsFiniteSet(R)
  BY FS_Subset
<1>2. {} \in T
  BY DEF Adds
<1>3. ASSUME NEW s \in SUBSET R, s # {}, \A x \in s : s \ {x} \in T PROVE s \in T
  <2> DEFINE x == CHOOSE x \in s : TRUE
  <2>1. x \in s
    BY <1>3
  <2>2. k[s] = w[x] + k[s \ {x}]
    BY <1>3 DEF Adds
  <2>3. h[s] = w[x] + h[s \ {x}]
    <3>1. s \in SUBSET S
      OBVIOUS
    <3> QED
      BY <1>3, <3>1 DEF Adds
  <2> QED
    BY <1>3, <2>1, <2>2, <2>3
<1> HIDE DEF T
<1>4. SUBSET R \subseteq T
  BY <1>1, <1>2, <1>3, SetInduction
<1>5. R \in T
  BY <1>4
<1> QED
  BY <1>5 DEF T

\* A sum of numbers is a number, that of none is zero.
LEMMA SumType ==
  ASSUME NEW S, IsFiniteSet(S), NEW w, \A x \in S : w[x] \in Nat
  PROVE  SumFunctionOnSet(w, S) \in Nat /\ (S = {} => SumFunctionOnSet(w, S) = 0)
<1>1. PICK h \in [SUBSET S -> Nat] : Adds(h, w, S) /\ SumFunctionOnSet(w, S) = h[S]
  BY SumDefined
<1>2. S = {} => h[S] = 0
  BY <1>1 DEF Adds
<1>3. h[S] \in Nat
  OBVIOUS
<1> QED
  BY <1>1, <1>2, <1>3

\* A sum without some element.
LEMMA SumSome ==
  ASSUME NEW S, IsFiniteSet(S), NEW w, \A x \in S : w[x] \in Nat, S # {}
  PROVE  \E x \in S : SumFunctionOnSet(w, S) = w[x] + SumFunctionOnSet(w, S \ {x})
<1>1. PICK h \in [SUBSET S -> Nat] : Adds(h, w, S) /\ SumFunctionOnSet(w, S) = h[S]
  BY SumDefined
<1> DEFINE x == CHOOSE x \in S : TRUE
           R == S \ {x}
<1>2. x \in S
  OBVIOUS
<1>3. h[S] = w[x] + h[R]
  BY <1>1 DEF Adds
<1>4. IsFiniteSet(R) /\ R \in SUBSET S /\ \A y \in R : w[y] \in Nat
  BY FS_Subset
<1> HIDE DEF R
<1>5. PICK k \in [SUBSET R -> Nat] : Adds(k, w, R) /\ SumFunctionOnSet(w, R) = k[R]
  BY <1>4, SumDefined
<1>6. k[R] = h[R]
  BY <1>1, <1>4, <1>5, SumsAgree
<1>7. SumFunctionOnSet(w, S) = w[x] + SumFunctionOnSet(w, S \ {x})
  BY <1>1, <1>3, <1>5, <1>6 DEF R
<1> HIDE DEF x
<1> QED
  BY <1>2, <1>7

\* A sum without any of its elements.
LEMMA SumWithout ==
  ASSUME NEW S, IsFiniteSet(S), NEW w, \A x \in S : w[x] \in Nat, NEW a \in S
  PROVE  /\ SumFunctionOnSet(w, S) \in Nat /\ SumFunctionOnSet(w, S \ {a}) \in Nat
         /\ SumFunctionOnSet(w, S) = w[a] + SumFunctionOnSet(w, S \ {a})
<1> DEFINE T == {s \in SUBSET S :
                   \A y \in s : SumFunctionOnSet(w, s) = w[y] + SumFunctionOnSet(w, s \ {y})}
<1>1. \A s \in SUBSET S : IsFiniteSet(s) /\ SumFunctionOnSet(w, s) \in Nat
  <2> SUFFICES ASSUME NEW s \in SUBSET S
               PROVE  IsFiniteSet(s) /\ SumFunctionOnSet(w, s) \in Nat
    OBVIOUS
  <2>1. IsFiniteSet(s) /\ \A x \in s : w[x] \in Nat
    BY FS_Subset
  <2> QED
    BY <2>1, SumType
<1>2. {} \in T
  OBVIOUS
<1>3. ASSUME NEW s \in SUBSET S, s # {}, \A x \in s : s \ {x} \in T PROVE s \in T
  <2>1. \A z \in s : w[z] \in Nat /\ SumFunctionOnSet(w, s \ {z}) \in Nat
    BY <1>1
  <2>2. PICK x \in s : SumFunctionOnSet(w, s) = w[x] + SumFunctionOnSet(w, s \ {x})
    BY <1>1, <1>3, <2>1, SumSome
  <2>3. ASSUME NEW y \in s, y # x
        PROVE  SumFunctionOnSet(w, s) = w[y] + SumFunctionOnSet(w, s \ {y})
    <3> DEFINE r == (s \ {x}) \ {y}
    <3>1. SumFunctionOnSet(w, s \ {x}) = w[y] + SumFunctionOnSet(w, r)
      BY <1>3, <2>3
    <3>2. SumFunctionOnSet(w, s \ {y}) = w[x] + SumFunctionOnSet(w, r)
      <4>1. (s \ {y}) \ {x} = r
        OBVIOUS
      <4> QED
        BY <1>3, <2>3, <4>1
    <3>3. SumFunctionOnSet(w, r) \in Nat
      BY <1>1
    <3> HIDE DEF r
    <3> QED
      BY <2>1, <2>2, <3>1, <3>2, <3>3
  <2> QED
    BY <2>2, <2>3
<1>4. SUBSET S \subseteq T
  <2> HIDE DEF T
  <2> QED
    BY <1>2, <1>3, SetInduction
<1>5. S \in T /\ S \ {a} \in SUBSET S
  BY <1>4
<1> QED
  BY <1>1, <1>5

\* Equal numbers have equal sums.
LEMMA SumSame ==
  ASSUME NEW S, IsFiniteSet(S), NEW w, NEW v, \A x \in S : w[x] \in Nat /\ v[x] = w[x]
  PROVE  SumFunctionOnSet(v, S) = SumFunctionOnSet(w, S)
<1> DEFINE T == {s \in SUBSET S : SumFunctionOnSet(v, s) = SumFunctionOnSet(w, s)}
<1>1. \A s \in SUBSET S : IsFiniteSet(s)
  BY FS_Subset
<1>2. {} \in T
  <2>1. IsFiniteSet({}) /\ (\A x \in {} : w[x] \in Nat) /\ (\A x \in {} : v[x] \in Nat)
    BY <1>1
  <2>2. SumFunctionOnSet(v, {}) = 0 /\ SumFunctionOnSet(w, {}) = 0
    BY <2>1, SumType
  <2> QED
    BY <2>2
<1>3. ASSUME NEW s \in SUBSET S, s # {}, \A x \in s : s \ {x} \in T PROVE s \in T
  <2>1. PICK x \in s : TRUE
    BY <1>3
  <2>2. IsFiniteSet(s) /\ (\A y \in s : w[y] \in Nat) /\ (\A y \in s : v[y] \in Nat)
    BY <1>1
  <2>3. SumFunctionOnSet(v, s) = v[x] + SumFunctionOnSet(v, s \ {x})
    BY <2>2, SumWithout
  <2>4. SumFunctionOnSet(w, s) = w[x] + SumFunctionOnSet(w, s \ {x})
    BY <2>2, SumWithout
  <2> QED
    BY <1>3, <2>3, <2>4
<1> HIDE DEF T
<1>4. SUBSET S \subseteq T
  BY <1>2, <1>3, SetInduction
<1>5. S \in T
  BY <1>4
<1> QED
  BY <1>5 DEF T

\* The sum over two sets without a common element.
LEMMA SumDisjoint ==
  ASSUME NEW R, NEW S, IsFiniteSet(R), IsFiniteSet(S), R \cap S = {},
         NEW w, \A x \in R \cup S : w[x] \in Nat
  PROVE  SumFunctionOnSet(w, R \cup S) = SumFunctionOnSet(w, R) + SumFunctionOnSet(w, S)
<1> DEFINE T == {s \in SUBSET S :
                   SumFunctionOnSet(w, R \cup s) = SumFunctionOnSet(w, R) + SumFunctionOnSet(w, s)}
<1>1. \A s \in SUBSET S : IsFiniteSet(s) /\ IsFiniteSet(R \cup s)
  BY FS_Subset, FS_Union
<1>2. SumFunctionOnSet(w, R) \in Nat
  BY SumType
<1>3. {} \in T
  <2>1. IsFiniteSet({}) /\ \A x \in {} : w[x] \in Nat
    BY <1>1
  <2>2. SumFunctionOnSet(w, {}) = 0
    BY <2>1, SumType
  <2>3. R \cup {} = R
    OBVIOUS
  <2> QED
    BY <1>2, <2>2, <2>3
<1>4. ASSUME NEW s \in SUBSET S, s # {}, \A x \in s : s \ {x} \in T PROVE s \in T
  <2>1. PICK x \in s : TRUE
    BY <1>4
  <2>2. IsFiniteSet(s) /\ (\A y \in s : w[y] \in Nat)
    BY <1>1
  <2>3. IsFiniteSet(R \cup s) /\ (\A y \in R \cup s : w[y] \in Nat) /\ x \in R \cup s
    BY <1>1
  <2>4. /\ SumFunctionOnSet(w, s) = w[x] + SumFunctionOnSet(w, s \ {x})
        /\ SumFunctionOnSet(w, s \ {x}) \in Nat
    BY <2>2, SumWithout
  <2>5. SumFunctionOnSet(w, R \cup s) = w[x] + SumFunctionOnSet(w, (R \cup s) \ {x})
    BY <2>3, SumWithout
  <2>6. SumFunctionOnSet(w, (R \cup s) \ {x}) = SumFunctionOnSet(w, R \cup (s \ {x}))
    <3>1. (R \cup s) \ {x} = R \cup (s \ {x})
      OBVIOUS
    <3> QED
      BY <3>1, Zenon
  <2>7. SumFunctionOnSet(w, R \cup (s \ {x})) = SumFunctionOnSet(w, R) + SumFunctionOnSet(w, s \ {x})
    BY <1>4
  <2>8. w[x] \in Nat
    BY <2>2
  <2>9. SumFunctionOnSet(w, R \cup s) = SumFunctionOnSet(w, R) + SumFunctionOnSet(w, s)
    BY <1>2, <2>4, <2>5, <2>6, <2>7, <2>8
  <2> QED
    BY <2>9
<1> HIDE DEF T
<1>5. SUBSET S \subseteq T
  BY <1>3, <1>4, SetInduction
<1>6. S \in T
  BY <1>5
<1> QED
  BY <1>6 DEF T

\* A subset has no larger sum.
LEMMA SumSubset ==
  ASSUME NEW S, IsFiniteSet(S), NEW w, \A x \in S : w[x] \in Nat, NEW R \in SUBSET S
  PROVE  /\ SumFunctionOnSet(w, R) \in Nat /\ SumFunctionOnSet(w, S) \in Nat
         /\ SumFunctionOnSet(w, R) <= SumFunctionOnSet(w, S)
<1> DEFINE Q == S \ R
<1>1. IsFiniteSet(R) /\ IsFiniteSet(Q) /\ R \cap Q = {} /\ R \cup Q = S
  BY FS_Subset
<1>2. (\A x \in R : w[x] \in Nat) /\ (\A x \in Q : w[x] \in Nat) /\ (\A x \in R \cup Q : w[x] \in Nat)
  OBVIOUS
<1> HIDE DEF Q
<1>3. SumFunctionOnSet(w, R \cup Q) = SumFunctionOnSet(w, R) + SumFunctionOnSet(w, Q)
  BY <1>1, <1>2, SumDisjoint
<1>4. SumFunctionOnSet(w, R) \in Nat /\ SumFunctionOnSet(w, Q) \in Nat /\ SumFunctionOnSet(w, S) \in Nat
  BY <1>1, <1>2, SumType
<1>5. SumFunctionOnSet(w, R \cup Q) = SumFunctionOnSet(w, S)
  BY <1>1, Zenon
<1> QED
  BY <1>3, <1>4, <1>5

\* Two numbers that differ on one element.
LEMMA SumChange ==
  ASSUME NEW S, IsFiniteSet(S), NEW w, NEW v, NEW a \in S,
         \A x \in S : w[x] \in Nat /\ v[x] \in Nat, \A x \in S \ {a} : v[x] = w[x]
  PROVE  /\ SumFunctionOnSet(w, S) \in Nat /\ SumFunctionOnSet(v, S) \in Nat
         /\ SumFunctionOnSet(v, S) + w[a] = SumFunctionOnSet(w, S) + v[a]
<1> DEFINE Q == S \ {a}
<1>1. IsFiniteSet(Q)
  BY FS_Subset
<1>2. \A x \in Q : w[x] \in Nat /\ v[x] = w[x]
  OBVIOUS
<1>3. (\A x \in S : w[x] \in Nat) /\ (\A x \in S : v[x] \in Nat)
  OBVIOUS
<1>4. SumFunctionOnSet(w, S) = w[a] + SumFunctionOnSet(w, Q) /\ SumFunctionOnSet(w, Q) \in Nat
  BY <1>3, SumWithout
<1>5. SumFunctionOnSet(v, S) = v[a] + SumFunctionOnSet(v, Q)
  BY <1>3, SumWithout
<1> HIDE DEF Q
<1>6. SumFunctionOnSet(v, Q) = SumFunctionOnSet(w, Q)
  BY <1>1, <1>2, SumSame
<1>7. w[a] \in Nat /\ v[a] \in Nat
  BY <1>3
<1> QED
  BY <1>4, <1>5, <1>6, <1>7

\* Nothing sums up to nothing.
LEMMA SumZero ==
  ASSUME NEW S, IsFiniteSet(S), NEW w, \A x \in S : w[x] = 0
  PROVE  SumFunctionOnSet(w, S) = 0
<1> DEFINE T == {s \in SUBSET S : SumFunctionOnSet(w, s) = 0}
<1>1. \A s \in SUBSET S : IsFiniteSet(s) /\ \A x \in s : w[x] \in Nat
  BY FS_Subset
<1>2. {} \in T
  BY <1>1, SumType
<1>3. ASSUME NEW s \in SUBSET S, s # {}, \A x \in s : s \ {x} \in T PROVE s \in T
  <2>1. PICK x \in s : TRUE
    BY <1>3
  <2>2. IsFiniteSet(s) /\ \A y \in s : w[y] \in Nat
    BY <1>1
  <2>3. SumFunctionOnSet(w, s) = w[x] + SumFunctionOnSet(w, s \ {x})
    BY <2>2, SumWithout
  <2>4. SumFunctionOnSet(w, s \ {x}) = 0 /\ w[x] = 0
    BY <1>3
  <2> QED
    BY <2>3, <2>4
<1> HIDE DEF T
<1>4. SUBSET S \subseteq T
  BY <1>2, <1>3, SetInduction
<1>5. S \in T
  BY <1>4
<1> QED
  BY <1>5 DEF T

\* The sums over the nodes.
LEMMA SumOfNodes ==
  ASSUME NEW w
  PROVE  /\ w[0] \in Nat => SumFunctionOnSet(w, {0}) = w[0]
         /\ w[0] \in Nat /\ w[1] \in Nat => SumFunctionOnSet(w, Nodes) = w[0] + w[1]
<1>1. IsFiniteSet({}) /\ IsFiniteSet({0}) /\ IsFiniteSet({0, 1})
  <2>1. IsFiniteSet({0}) /\ {0, 1} = {0} \cup {1}
    BY FS_Singleton
  <2>2. IsFiniteSet({0, 1})
    BY <2>1, FS_AddElement
  <2> QED
    BY <2>1, <2>2, FS_EmptySet
<1>2. SumFunctionOnSet(w, {}) = 0
  BY <1>1, SumType
<1>3. ASSUME w[0] \in Nat PROVE SumFunctionOnSet(w, {0}) = w[0]
  <2>1. \A x \in {0} : w[x] \in Nat
    BY <1>3
  <2>2. SumFunctionOnSet(w, {0}) = w[0] + SumFunctionOnSet(w, {0} \ {0})
    BY <1>1, <2>1, SumWithout
  <2>3. {0} \ {0} = {}
    OBVIOUS
  <2> QED
    BY <1>2, <1>3, <2>2, <2>3
<1>4. ASSUME w[0] \in Nat, w[1] \in Nat PROVE SumFunctionOnSet(w, {0, 1}) = w[0] + w[1]
  <2>1. \A x \in {0, 1} : w[x] \in Nat
    BY <1>4
  <2>2. SumFunctionOnSet(w, {0, 1}) = w[1] + SumFunctionOnSet(w, {0, 1} \ {1})
    BY <1>1, <2>1, SumWithout
  <2>3. SumFunctionOnSet(w, {0, 1} \ {1}) = SumFunctionOnSet(w, {0})
    <3>1. {0, 1} \ {1} = {0}
      OBVIOUS
    <3> QED
      BY <3>1, Zenon
  <2> QED
    BY <1>3, <1>4, <2>2, <2>3
<1> QED
  BY <1>3, <1>4 DEF Nodes

-------------------------------------------------------------------------------
(***************************************************************************)
(* Orders.                                                                 *)
(***************************************************************************)

\* R orders the elements of S.
Orders(R, S) ==
  /\ \A x, y \in S : x # y => <<x, y>> \in R \/ <<y, x>> \in R
  /\ \A x, y, z \in S : <<x, y>> \in R /\ <<y, z>> \in R => <<x, z>> \in R

\* S has an element that R orders after every other one.
HasLast(R, S) == \E x \in S : \A y \in S \ {x} : <<y, x>> \in R

\* A finite set has a last element in every total order of it.
LEMMA LastExists ==
  ASSUME NEW S, IsFiniteSet(S), S # {}, NEW R, Orders(R, S)
  PROVE  HasLast(R, S)
<1> DEFINE Has(s) == \E x \in s : \A y \in s \ {x} : <<y, x>> \in R
           T == {s \in SUBSET S : s # {} => Has(s)}
<1>0. /\ \A x, y \in S : x # y => <<x, y>> \in R \/ <<y, x>> \in R
      /\ \A x, y, z \in S : <<x, y>> \in R /\ <<y, z>> \in R => <<x, z>> \in R
  BY DEF Orders
<1>1. {} \in T
  OBVIOUS
<1>2. ASSUME NEW s \in SUBSET S, s # {}, \A x \in s : s \ {x} \in T PROVE s \in T
  <2>1. PICK x \in s : TRUE
    BY <1>2
  <2>2. CASE s \ {x} = {}
    <3>1. \A y \in s \ {x} : <<y, x>> \in R
      BY <2>2
    <3> QED
      BY <3>1
  <2>3. CASE s \ {x} # {}
    <3>1. Has(s \ {x})
      BY <1>2, <2>3
    <3>2. PICK q \in s \ {x} : \A y \in (s \ {x}) \ {q} : <<y, q>> \in R
      BY <3>1
    <3>3. CASE <<x, q>> \in R
      <4>1. \A y \in s \ {q} : <<y, q>> \in R
        BY <1>0, <3>2, <3>3
      <4> QED
        BY <4>1
    <3>4. CASE <<q, x>> \in R
      <4>1. \A y \in s \ {x} : <<y, x>> \in R
        BY <1>0, <3>2, <3>4
      <4> QED
        BY <4>1
    <3> QED
      BY <1>0, <3>2, <3>3, <3>4
  <2> QED
    BY <2>2, <2>3
<1> HIDE DEF T
<1>3. SUBSET S \subseteq T
  BY <1>1, <1>2, SetInduction
<1>4. S \in T
  BY <1>3
<1> QED
  BY <1>4 DEF T, HasLast

\* Groups are in a total order.
LEMMA EarlierIsTotal ==
  ASSUME NEW size, NEW S \in SUBSET Nat, \A g \in S : size[g] \in Nat
  PROVE  /\ \A g, h \in S : g # h => Earlier(g, h, size) \/ Earlier(h, g, size)
         /\ \A g, h, k \in S : Earlier(g, h, size) /\ Earlier(h, k, size) => Earlier(g, k, size)
         /\ \A g, h \in S : Earlier(g, h, size) => ~Earlier(h, g, size)
         /\ \A g \in S : ~Earlier(g, g, size)
  BY DEF Earlier

\* A set of groups has a last one.
LEMMA LastIsOne ==
  ASSUME NEW size, NEW S \in SUBSET Nat, IsFiniteSet(S), S # {}, \A g \in S : size[g] \in Nat
  PROVE  LastOf(S, size) \in S
<1> DEFINE R == {gh \in S \X S : Earlier(gh[1], gh[2], size)}
<1>1. \A g, h \in S : <<g, h>> \in R <=> Earlier(g, h, size)
  OBVIOUS
<1> HIDE DEF R
<1>2. \A x, y \in S : x # y => <<x, y>> \in R \/ <<y, x>> \in R
  BY <1>1, EarlierIsTotal
<1>3. \A x, y, z \in S : <<x, y>> \in R /\ <<y, z>> \in R => <<x, z>> \in R
  BY <1>1, EarlierIsTotal
<1>4. \E x \in S : \A y \in S \ {x} : <<y, x>> \in R
  <2>1. Orders(R, S)
    BY <1>2, <1>3 DEF Orders
  <2>2. HasLast(R, S)
    BY <2>1, LastExists
  <2> QED
    BY <2>2 DEF HasLast
<1>5. \E x \in S : \A y \in S \ {x} : Earlier(y, x, size)
  BY <1>1, <1>4
<1> QED
  BY <1>5 DEF LastOf

\* The least of three numbers.
LEMMA MinOfThree ==
  ASSUME NEW a \in Nat, NEW b \in Nat, NEW c \in Nat
  PROVE  /\ Min({a, b, c}) \in Nat
         /\ Min({a, b, c}) <= a /\ Min({a, b, c}) <= b /\ Min({a, b, c}) <= c
<1>1. \E x \in {a, b, c} : \A y \in {a, b, c} : x =< y
  <2>1. {a, b, c} \in SUBSET Nat /\ {a, b, c} # {}
    OBVIOUS
  <2> QED
    BY <2>1, Least
<1>2. Min({a, b, c}) \in {a, b, c} /\ \A y \in {a, b, c} : Min({a, b, c}) =< y
  BY <1>1 DEF Min
<1> QED
  BY <1>2

-------------------------------------------------------------------------------
(***************************************************************************)
(* The splits.                                                             *)
(***************************************************************************)

\* What a split has: every group its demand, every node the load of its parts.
Splits(groups, demand) ==
  {p \in [shards : [groups -> [Nodes -> Nat]], loads : [Nodes -> Nat]] :
     /\ \A g \in groups : p.shards[g][0] + p.shards[g][1] = demand[g]
     /\ \A n \in Nodes : p.loads[n] = SumFunctionOnSet([g \in groups |-> p.shards[g][n]], groups)}

\* How much a node has too much.
Over(load) == Atleast0(load - Room)

\* What the groups assigned to a node have elsewhere.
Away(groups, demand, m, shards, n) ==
  SumFunctionOnSet([g \in groups |-> demand[g] - shards[g][n]], {g \in groups : m[g] = n})

\* What a split moved away from a node, and what is still too much there.
Excess(groups, demand, m, p, n) == Away(groups, demand, m, p.shards, n) + Over(p.loads[n])

\* A node has room for a number of thousandths.
LEMMA RoomType == Room \in Nat
BY PlacementAssumption DEF Room, Thousandths

\* q is a split too, and no node of it has another excess than in p.
Keeps(groups, demand, m, p, q) ==
  /\ q \in Splits(groups, demand)
  /\ \A k \in Nodes : Excess(groups, demand, m, q, k) = Excess(groups, demand, m, p, k)

\* A step of the relief keeps it; what it moves was too much on the node it
\* comes from, and is not too much on the other one.
LEMMA ShiftKeeps ==
  ASSUME NEW groups, IsFiniteSet(groups), NEW demand \in [groups -> Nat],
         NEW m \in [groups -> Nodes], NEW p \in Splits(groups, demand),
         NEW g \in groups, NEW n \in Nodes, m[g] = n
  PROVE  Keeps(groups, demand, m, p, Shift(p, g, n, 1 - n))
<1> DEFINE o == 1 - n
           x == p.shards[g][n]
           y == p.shards[g][o]
           over == Atleast0(p.loads[n] - Room)
           room == Atleast0(Room - p.loads[o])
           moved == Min({over, room, x})
           q == Shift(p, g, n, o)
<1>1. n \in {0, 1} /\ o \in {0, 1} /\ o # n /\ n \in Nodes /\ o \in Nodes /\ Nodes = {n, o}
  BY DEF Nodes
<1>2. /\ p = [shards |-> p.shards, loads |-> p.loads]
      /\ p.shards \in [groups -> [Nodes -> Nat]] /\ p.loads \in [Nodes -> Nat]
      /\ \A h \in groups : p.shards[h][0] + p.shards[h][1] = demand[h]
      /\ \A k \in Nodes : p.loads[k] = SumFunctionOnSet([h \in groups |-> p.shards[h][k]], groups)
  BY DEF Splits
<1> HIDE DEF o
<1>3. x \in Nat /\ y \in Nat /\ p.loads[n] \in Nat /\ p.loads[o] \in Nat /\ Room \in Nat
  BY <1>1, <1>2, RoomType
<1>4. over \in Nat /\ room \in Nat
  BY <1>3 DEF Atleast0
<1>5. moved \in Nat /\ moved <= over /\ moved <= room /\ moved <= x
  <2> HIDE DEF over, room, x
  <2> QED
    BY <1>3, <1>4, MinOfThree
<1>6. moved <= p.loads[n]
  BY <1>3, <1>5 DEF Atleast0
<1>7. q = [shards |-> [p.shards EXCEPT ![g][n] = @ - moved, ![g][o] = @ + moved],
           loads  |-> [p.loads EXCEPT ![n] = @ - moved, ![o] = @ + moved]]
  BY DEF Shift
<1> HIDE DEF moved, q
<1>8. x - moved \in Nat /\ y + moved \in Nat /\ p.loads[n] - moved \in Nat /\ p.loads[o] + moved \in Nat
  BY <1>3, <1>5, <1>6
<1>9. /\ q.shards[g] = [k \in Nodes |-> IF k = n THEN x - moved ELSE y + moved]
      /\ \A h \in groups \ {g} : q.shards[h] = p.shards[h]
      /\ DOMAIN q.shards = groups
  <2> DEFINE f == [p.shards EXCEPT ![g][n] = @ - moved, ![g][o] = @ + moved]
  <2>1. q.shards = f
    BY <1>7
  <2>2. p.shards[g] \in [Nodes -> Nat] /\ DOMAIN p.shards = groups
    BY <1>2
  <2>3. f[g] = [p.shards[g] EXCEPT ![n] = @ - moved, ![o] = @ + moved]
    BY <1>1, <2>2
  <2>4. f[g] = [k \in Nodes |-> IF k = n THEN x - moved ELSE y + moved]
    BY <1>1, <2>2, <2>3
  <2>5. (\A h \in groups \ {g} : f[h] = p.shards[h]) /\ DOMAIN f = groups
    BY <2>2
  <2> HIDE DEF f
  <2> QED
    BY <2>1, <2>4, <2>5
<1>10. q.loads = [k \in Nodes |-> IF k = n THEN p.loads[n] - moved ELSE p.loads[o] + moved]
  BY <1>1, <1>2, <1>7
<1>11. q.shards \in [groups -> [Nodes -> Nat]]
  <2>1. \A h \in groups : q.shards[h] \in [Nodes -> Nat]
    BY <1>2, <1>8, <1>9
  <2>2. q.shards = [h \in groups |-> q.shards[h]]
    BY <1>7, <1>2
  <2> QED
    BY <2>1, <2>2
<1>12. q.loads \in [Nodes -> Nat]
  BY <1>8, <1>10
<1>13. ASSUME NEW h \in groups PROVE q.shards[h][0] + q.shards[h][1] = demand[h]
  <2>1. CASE h # g
    BY <1>2, <1>9, <2>1
  <2>2. CASE h = g
    <3>1. q.shards[g][n] = x - moved /\ q.shards[g][o] = y + moved
      BY <1>1, <1>9
    <3>2. x + y = demand[g]
      <4>1. p.shards[g][0] \in Nat /\ p.shards[g][1] \in Nat
        BY <1>2 DEF Nodes
      <4> QED
        BY <1>1, <1>2, <4>1
    <3>3. moved \in Nat
      BY <1>5
    <3>4. q.shards[g][n] + q.shards[g][o] = demand[g] /\ q.shards[g][o] + q.shards[g][n] = demand[g]
      BY <1>3, <3>1, <3>2, <3>3
    <3> QED
      BY <1>1, <2>2, <3>4
  <2> QED
    BY <2>1, <2>2
<1>14. ASSUME NEW k \in Nodes
       PROVE  q.loads[k] = SumFunctionOnSet([h \in groups |-> q.shards[h][k]], groups)
  <2> DEFINE w == [h \in groups |-> p.shards[h][k]]
             v == [h \in groups |-> q.shards[h][k]]
  <2>1. \A h \in groups : w[h] = p.shards[h][k] /\ v[h] = q.shards[h][k]
    OBVIOUS
  <2>2. \A h \in groups : w[h] \in Nat /\ v[h] \in Nat
    BY <1>2, <1>11, <2>1
  <2>3. \A h \in groups \ {g} : v[h] = w[h]
    BY <1>9, <2>1
  <2>4. p.loads[k] = SumFunctionOnSet(w, groups)
    BY <1>2
  <2> HIDE DEF w, v
  <2>5. SumFunctionOnSet(v, groups) \in Nat /\ SumFunctionOnSet(w, groups) \in Nat
        /\ SumFunctionOnSet(v, groups) + w[g] = SumFunctionOnSet(w, groups) + v[g]
    BY <2>2, <2>3, SumChange
  <2>6. CASE k = n
    <3>1. w[g] = x /\ v[g] = x - moved /\ q.loads[k] = p.loads[n] - moved
      BY <1>1, <1>9, <1>10, <2>1, <2>6
    <3>2. q.loads[k] = SumFunctionOnSet(v, groups)
      BY <1>3, <1>5, <2>4, <2>5, <2>6, <3>1
    <3> QED
      BY <3>2 DEF v
  <2>7. CASE k = o
    <3>1. w[g] = y /\ v[g] = y + moved /\ q.loads[k] = p.loads[o] + moved
      BY <1>1, <1>9, <1>10, <2>1, <2>7
    <3>2. q.loads[k] = SumFunctionOnSet(v, groups)
      BY <1>3, <1>5, <2>4, <2>5, <2>7, <3>1
    <3> QED
      BY <3>2 DEF v
  <2> QED
    BY <1>1, <2>6, <2>7
<1>15. q \in Splits(groups, demand)
  <2>1. q = [shards |-> q.shards, loads |-> q.loads]
    BY <1>7
  <2>2. q \in [shards : [groups -> [Nodes -> Nat]], loads : [Nodes -> Nat]]
    BY <1>11, <1>12, <2>1
  <2> QED
    BY <1>13, <1>14, <2>2 DEF Splits
<1>16. ASSUME NEW k \in Nodes
       PROVE  Excess(groups, demand, m, q, k) = Excess(groups, demand, m, p, k)
  <2> DEFINE w == [h \in groups |-> demand[h] - p.shards[h][k]]
             v == [h \in groups |-> demand[h] - q.shards[h][k]]
             A == {h \in groups : m[h] = k}
  <2>1. \A h \in groups : w[h] = demand[h] - p.shards[h][k] /\ v[h] = demand[h] - q.shards[h][k]
    OBVIOUS
  <2>2. \A h \in groups : w[h] \in Nat /\ v[h] \in Nat
    <3> SUFFICES ASSUME NEW h \in groups PROVE w[h] \in Nat /\ v[h] \in Nat
      OBVIOUS
    <3>1. /\ p.shards[h][0] \in Nat /\ p.shards[h][1] \in Nat
          /\ q.shards[h][0] \in Nat /\ q.shards[h][1] \in Nat
      BY <1>2, <1>11 DEF Nodes
    <3>2. /\ p.shards[h][0] + p.shards[h][1] = demand[h]
          /\ q.shards[h][0] + q.shards[h][1] = demand[h]
      BY <1>2, <1>13
    <3>3. k = 0 \/ k = 1
      BY DEF Nodes
    <3>4. demand[h] \in Nat
      OBVIOUS
    <3> HIDE DEF w, v
    <3> QED
      BY <2>1, <3>1, <3>2, <3>3, <3>4
  <2>3. \A h \in groups \ {g} : v[h] = w[h]
    BY <1>9, <2>1
  <2>4. A \subseteq groups /\ IsFiniteSet(A) /\ (k = n => g \in A) /\ (k = o => g \notin A)
    BY <1>1, FS_Subset
  <2>5. /\ Excess(groups, demand, m, p, k) = SumFunctionOnSet(w, A) + Over(p.loads[k])
        /\ Excess(groups, demand, m, q, k) = SumFunctionOnSet(v, A) + Over(q.loads[k])
    BY DEF Excess, Away
  <2> HIDE DEF w, v, A
  <2>6. CASE k = n
    <3>1. w[g] = demand[g] - x /\ v[g] = demand[g] - (x - moved) /\ q.loads[k] = p.loads[n] - moved
      BY <1>1, <1>9, <1>10, <2>1, <2>6
    <3>2. v[g] = w[g] + moved
      <4>1. demand[g] \in Nat
        OBVIOUS
      <4> QED
        BY <1>3, <1>5, <3>1, <4>1
    <3>3. SumFunctionOnSet(w, A) \in Nat /\ SumFunctionOnSet(v, A) \in Nat
          /\ SumFunctionOnSet(v, A) + w[g] = SumFunctionOnSet(w, A) + v[g]
      <4>1. g \in A /\ (\A h \in A : w[h] \in Nat /\ v[h] \in Nat) /\ \A h \in A \ {g} : v[h] = w[h]
        BY <2>2, <2>3, <2>4, <2>6
      <4> HIDE DEF over, room, x, y
      <4> QED
        BY <2>4, <4>1, SumChange, SMTT(30)
    <3>4. SumFunctionOnSet(v, A) = SumFunctionOnSet(w, A) + moved
      BY <1>5, <2>2, <3>2, <3>3
    <3>5. Over(p.loads[k]) = over /\ Over(q.loads[k]) = over - moved
      BY <1>3, <1>5, <2>6, <3>1 DEF Over, Atleast0
    <3> HIDE DEF over
    <3> QED
      BY <1>4, <1>5, <2>5, <3>3, <3>4, <3>5
  <2>7. CASE k = o
    <3>1. SumFunctionOnSet(v, A) = SumFunctionOnSet(w, A)
      <4>1. \A h \in A : w[h] \in Nat /\ v[h] = w[h]
        BY <2>2, <2>3, <2>4, <2>7
      <4> QED
        BY <2>4, <4>1, SumSame
    <3>2. q.loads[k] = p.loads[o] + moved
      BY <1>1, <1>10, <2>7
    <3>3. Over(q.loads[k]) = Over(p.loads[k])
      BY <1>3, <1>5, <2>7, <3>2 DEF Over, Atleast0
    <3> QED
      BY <2>5, <3>1, <3>3
  <2> QED
    BY <1>1, <2>6, <2>7
<1>17. Keeps(groups, demand, m, p, q)
  BY <1>15, <1>16 DEF Keeps
<1> QED
  BY <1>17 DEF q, o

\* The recursion of Relieved over the subsets of the groups of a node.
Relieves(h, p, demand, n, residents) ==
  h = [s \in SUBSET residents |->
         IF s = {} THEN p
         ELSE Shift(h[s \ {LastOf(s, demand)}], LastOf(s, demand), n, 1 - n)]

\* What every step of the relief keeps, the relief of a node keeps.
LEMMA RelievedKeeps ==
  ASSUME NEW groups \in SUBSET Nat, IsFiniteSet(groups), NEW demand, \A g \in groups : demand[g] \in Nat,
         NEW m \in [groups -> Nodes], NEW n \in Nodes,
         NEW V, NEW p \in V,
         \A v \in V : \A g \in groups : m[g] = n => Shift(v, g, n, 1 - n) \in V
  PROVE  Relieved(p, m, demand, n) \in V
<1> DEFINE R == {g \in DOMAIN m : m[g] = n}
           c == [s \in SUBSET R |-> LastOf(s, demand)]
           f == [x \in R |-> [v \in V |-> Shift(v, x, n, 1 - n)]]
           k == CHOOSE h : Relieves(h, p, demand, n, R)
<1>1. R \in SUBSET groups /\ IsFiniteSet(R) /\ \A g \in R : m[g] = n
  BY FS_Subset
<1>2. Relieved(p, m, demand, n) = k[R]
  BY DEF Relieved, MapThenFoldSet, Relieves
<1> HIDE DEF R
<1>3. \A s \in SUBSET R : s # {} => LastOf(s, demand) \in s
  <2> SUFFICES ASSUME NEW s \in SUBSET R, s # {} PROVE LastOf(s, demand) \in s
    OBVIOUS
  <2>1. s \in SUBSET Nat /\ IsFiniteSet(s) /\ \A g \in s : demand[g] \in Nat
    BY <1>1, FS_Subset
  <2> QED
    BY <2>1, LastIsOne
<1>4. \A s \in SUBSET R : s # {} => c[s] \in s
  BY <1>3
<1>5. \A x \in R : \A v \in V : f[x][v] \in V /\ f[x][v] = Shift(v, x, n, 1 - n)
  BY <1>1
<1>6. \A s \in SUBSET R : c[s] = LastOf(s, demand)
  OBVIOUS
<1> HIDE DEF c, f
<1>7. PICK h \in [SUBSET R -> V] : Folding(h, R, p, c, f)
  <2>1. \A x \in R : \A v \in V : f[x][v] \in V
    BY <1>5
  <2> QED
    BY <1>1, <1>4, <2>1, FoldExists
<1>8. Relieves(h, p, demand, n, R)
  <2> DEFINE g == [s \in SUBSET R |->
                     IF s = {} THEN p
                     ELSE Shift(h[s \ {LastOf(s, demand)}], LastOf(s, demand), n, 1 - n)]
  <2>1. ASSUME NEW s \in SUBSET R PROVE h[s] = g[s]
    <3>1. CASE s = {}
      BY <1>7, <3>1 DEF Folding
    <3>2. CASE s # {}
      <4>1. c[s] \in R /\ s \ {c[s]} \in SUBSET R
        BY <1>4, <3>2
      <4>2. h[s \ {c[s]}] \in V
        BY <4>1, Zenon
      <4>3. h[s] = f[c[s]][h[s \ {c[s]}]]
        BY <1>7, <3>2 DEF Folding
      <4>4. h[s] = Shift(h[s \ {c[s]}], c[s], n, 1 - n)
        BY <1>5, <4>1, <4>2, <4>3
      <4>5. g[s] = Shift(h[s \ {c[s]}], c[s], n, 1 - n)
        BY <1>6, <3>2
      <4> QED
        BY <4>4, <4>5
    <3> QED
      BY <3>1, <3>2
  <2>2. h = [s \in SUBSET R |-> h[s]] /\ g = [s \in SUBSET R |-> g[s]]
    OBVIOUS
  <2>3. h = g
    <3> HIDE DEF g
    <3> QED
      BY <2>1, <2>2
  <2> QED
    BY <2>3 DEF Relieves
<1>9. Relieves(k, p, demand, n, R)
  BY <1>8
<1> HIDE DEF k
<1> DEFINE T == {s \in SUBSET R : k[s] \in V}
<1>10. {} \in T
  BY <1>9 DEF Relieves
<1>11. ASSUME NEW s \in SUBSET R, s # {}, \A x \in s : s \ {x} \in T PROVE s \in T
  <2>1. LastOf(s, demand) \in s /\ LastOf(s, demand) \in groups /\ m[LastOf(s, demand)] = n
    BY <1>1, <1>3, <1>11
  <2>2. k[s] = Shift(k[s \ {LastOf(s, demand)}], LastOf(s, demand), n, 1 - n)
    BY <1>9, <1>11 DEF Relieves
  <2> DEFINE x == LastOf(s, demand)
             v == k[s \ {x}]
  <2>3. v \in V
    BY <1>11, <2>1
  <2> HIDE DEF T
  <2>4. Shift(v, x, n, 1 - n) \in V
    <3>1. x \in groups /\ m[x] = n
      BY <2>1
    <3> HIDE DEF v, x
    <3> QED
      BY <2>3, <3>1
  <2>5. k[s] \in V
    <3>1. k[s] = Shift(v, x, n, 1 - n)
      BY <2>2
    <3> HIDE DEF v, x
    <3> QED
      BY <2>4, <3>1
  <2> QED
    BY <2>5 DEF T
<1> HIDE DEF T
<1>12. SUBSET R \subseteq T
  BY <1>1, <1>10, <1>11, SetInduction
<1>13. R \in T
  BY <1>12
<1> QED
  BY <1>2, <1>13 DEF T

\* The parts before the relief.
Whole(m, demand) ==
  [g \in DOMAIN m |-> [n \in Nodes |-> IF n = m[g] THEN demand[g] ELSE 0]]

\* A split gives every group its demand; what it moves and leaves of what is
\* too much on a node is what the assignment had too much there.  With one
\* node, nothing moves.
LEMMA SplitKeeps ==
  ASSUME NEW groups \in SUBSET Nat, IsFiniteSet(groups), NEW demand \in [groups -> Nat],
         NEW nodes \in {{0}, Nodes}, NEW m \in [groups -> nodes]
  PROVE  /\ Split(m, demand, nodes) \in Splits(groups, demand)
         /\ \A k \in Nodes : Excess(groups, demand, m, Split(m, demand, nodes), k)
                             = Over(Load(m, demand, k))
         /\ nodes = {0} => Split(m, demand, nodes).shards = Whole(m, demand)
<1> DEFINE start == [shards |-> Whole(m, demand), loads |-> [n \in Nodes |-> Load(m, demand, n)]]
<1>1. m \in [groups -> Nodes] /\ DOMAIN m = groups /\ \A g \in groups : demand[g] \in Nat
  BY DEF Nodes
<1>2. Whole(m, demand) \in [groups -> [Nodes -> Nat]]
  BY <1>1 DEF Whole
<1>3. ASSUME NEW g \in groups
      PROVE  Whole(m, demand)[g][0] + Whole(m, demand)[g][1] = demand[g]
  BY <1>1 DEF Whole, Nodes
<1>4. ASSUME NEW n \in Nodes
      PROVE  /\ Load(m, demand, n) \in Nat
             /\ Load(m, demand, n) =
                  SumFunctionOnSet([g \in groups |-> Whole(m, demand)[g][n]], groups)
  <2> DEFINE A == {g \in groups : m[g] = n}
             B == {g \in groups : m[g] # n}
             w == [g \in groups |-> Whole(m, demand)[g][n]]
  <2>1. IsFiniteSet(A) /\ IsFiniteSet(B) /\ A \cap B = {} /\ A \cup B = groups
    BY FS_Subset
  <2>2. Load(m, demand, n) = SumFunctionOnSet(demand, A)
    BY <1>1 DEF Load
  <2>3. \A g \in A : demand[g] \in Nat /\ w[g] = demand[g]
    BY <1>1 DEF Whole
  <2>4. \A g \in B : w[g] = 0
    BY <1>1 DEF Whole
  <2>5. \A g \in A \cup B : w[g] \in Nat
    BY <1>1, <1>2
  <2> HIDE DEF A, B, w
  <2>6. SumFunctionOnSet(w, A) = SumFunctionOnSet(demand, A)
    BY <2>1, <2>3, SumSame
  <2>7. SumFunctionOnSet(w, B) = 0
    BY <2>1, <2>4, SumZero
  <2>8. SumFunctionOnSet(w, A \cup B) = SumFunctionOnSet(w, A) + SumFunctionOnSet(w, B)
    BY <2>1, <2>5, SumDisjoint
  <2>9. SumFunctionOnSet(w, groups) = SumFunctionOnSet(w, A \cup B)
    BY <2>1, Zenon
  <2>10. SumFunctionOnSet(demand, A) \in Nat
    BY <2>1, <2>3, SumType
  <2>11. Load(m, demand, n) \in Nat /\ Load(m, demand, n) = SumFunctionOnSet(w, groups)
    BY <2>2, <2>6, <2>7, <2>8, <2>9, <2>10
  <2> QED
    BY <2>11 DEF w
<1>5. start \in Splits(groups, demand)
  <2>1. start.shards = Whole(m, demand) /\ start.loads = [n \in Nodes |-> Load(m, demand, n)]
    OBVIOUS
  <2>2. start \in [shards : [groups -> [Nodes -> Nat]], loads : [Nodes -> Nat]]
    BY <1>2, <1>4
  <2> HIDE DEF start
  <2> QED
    BY <1>3, <1>4, <2>1, <2>2 DEF Splits
<1>6. Split(m, demand, nodes) =
        IF nodes = Nodes THEN Relieved(Relieved(start, m, demand, 0), m, demand, 1) ELSE start
  BY DEF Split, Whole
<1>7. 0 \in Nodes /\ 1 \in Nodes /\ {0} # Nodes
  BY DEF Nodes
<1>8. \A k \in Nodes : Excess(groups, demand, m, start, k) = Over(Load(m, demand, k))
  <2> SUFFICES ASSUME NEW k \in Nodes
               PROVE  Excess(groups, demand, m, start, k) = Over(Load(m, demand, k))
    OBVIOUS
  <2> DEFINE w == [g \in groups |-> demand[g] - Whole(m, demand)[g][k]]
             A == {g \in groups : m[g] = k}
  <2>1. Excess(groups, demand, m, start, k) = SumFunctionOnSet(w, A) + Over(Load(m, demand, k))
    BY DEF Excess, Away
  <2>2. IsFiniteSet(A) /\ \A g \in A : w[g] = 0
    <3>1. \A g \in A : Whole(m, demand)[g][k] = demand[g] /\ demand[g] \in Nat
      BY <1>1 DEF Whole
    <3>2. A \subseteq groups /\ \A g \in A : w[g] = demand[g] - Whole(m, demand)[g][k]
      OBVIOUS
    <3>3. \A g \in A : w[g] = 0
      BY <3>1, <3>2
    <3> HIDE DEF w, A
    <3> QED
      BY <3>2, <3>3, FS_Subset
  <2> HIDE DEF w, A
  <2>3. SumFunctionOnSet(w, A) = 0
    BY <2>2, SumZero
  <2>4. Over(Load(m, demand, k)) \in Nat
    <3>1. Load(m, demand, k) \in Nat
      BY <1>4
    <3> QED
      BY <3>1, RoomType DEF Over, Atleast0
  <2> QED
    BY <2>1, <2>3, <2>4
<1> DEFINE V == {p \in Splits(groups, demand) :
                   \A k \in Nodes : Excess(groups, demand, m, p, k) = Over(Load(m, demand, k))}
<1>9. start \in V
  <2> HIDE DEF start
  <2> QED
    BY <1>5, <1>8, Zenon
<1>10. \A p \in V : \A g \in groups : \A n \in Nodes : m[g] = n => Shift(p, g, n, 1 - n) \in V
  <2> SUFFICES ASSUME NEW p \in V, NEW g \in groups, NEW n \in Nodes, m[g] = n
               PROVE  Shift(p, g, n, 1 - n) \in V
    OBVIOUS
  <2>1. /\ p \in Splits(groups, demand)
        /\ \A k \in Nodes : Excess(groups, demand, m, p, k) = Over(Load(m, demand, k))
    OBVIOUS
  <2>2. m \in [groups -> Nodes]
    BY <1>1
  <2> HIDE DEF V
  <2>3. Keeps(groups, demand, m, p, Shift(p, g, n, 1 - n))
    BY <2>1, <2>2, ShiftKeeps
  <2> QED
    BY <2>1, <2>3, Zenon DEF V, Keeps
<1>11. Split(m, demand, nodes) \in V
  <2> HIDE DEF start, V
  <2>1. ASSUME NEW n \in Nodes, NEW p \in V PROVE Relieved(p, m, demand, n) \in V
    <3>1. \A v \in V : \A g \in groups : m[g] = n => Shift(v, g, n, 1 - n) \in V
      BY <1>10
    <3> QED
      BY <1>1, <3>1, RelievedKeeps
  <2>2. Relieved(Relieved(start, m, demand, 0), m, demand, 1) \in V
    BY <1>7, <1>9, <2>1
  <2> QED
    BY <1>6, <1>9, <2>2
<1>12. nodes = {0} => Split(m, demand, nodes) = start
  BY <1>6, <1>7
<1> QED
  BY <1>11, <1>12

-------------------------------------------------------------------------------
(***************************************************************************)
(* The clusters.                                                           *)
(***************************************************************************)

\* What is rounded up is no less, and by less than a unit more.
LEMMA RoundedUp ==
  ASSUME NEW x \in Nat, NEW y \in Nat \ {0}
  PROVE  /\ CeilDiv(x, y) \in Nat /\ y * CeilDiv(x, y) \in Nat
         /\ y * CeilDiv(x, y) >= x /\ y * CeilDiv(x, y) < x + y
         /\ x > 0 => CeilDiv(x, y) > 0
<1> DEFINE q == (x + y - 1) \div y
           r == (x + y - 1) % y
<1>1. x + y - 1 \in Nat
  OBVIOUS
<1>2. q \in Nat /\ r \in 0 .. y - 1 /\ x + y - 1 = y * q + r
  BY <1>1, Z3
<1>3. CeilDiv(x, y) = q
  BY DEF CeilDiv
<1> HIDE DEF q, r
<1>4. y * q \in Nat
  BY <1>2
<1>5. x > 0 => q > 0
  <2> SUFFICES ASSUME x > 0, q = 0 PROVE FALSE
    BY <1>2
  <2>1. y * q = 0
    BY <1>2
  <2> QED
    BY <1>2, <2>1
<1> QED
  BY <1>2, <1>3, <1>4, <1>5

\* A CPU belongs to a cluster from the k-th on when so many clusters are before it.
LEMMA ClusterOf ==
  ASSUME NEW c \in Nat, NEW y \in Nat \ {0}, NEW k \in Nat
  PROVE  c \div y \in Nat /\ (c \div y >= k <=> c >= y * k)
<1> DEFINE q == c \div y
           r == c % y
<1>1. q \in Nat /\ r \in 0 .. y - 1 /\ c = y * q + r
  BY Z3
<1> HIDE DEF q, r
<1>2. ASSUME q >= k PROVE c >= y * k
  <2>1. y * k \in Nat /\ y * q \in Nat /\ y * k <= y * q
    BY <1>1, <1>2, Product
  <2> QED
    BY <1>1, <2>1
<1>3. ASSUME q < k PROVE c < y * k
  <2>1. q + 1 \in Nat /\ q + 1 <= k
    BY <1>1, <1>3
  <2>2. y * k \in Nat /\ y * (q + 1) \in Nat /\ y * (q + 1) <= y * k
    BY <2>1, Product
  <2>3. y * (q + 1) = y * q + y /\ y * q \in Nat
    BY <1>1
  <2> QED
    BY <1>1, <2>2, <2>3
<1>4. y * k \in Nat
  OBVIOUS
<1>5. q \in Nat /\ (q >= k <=> c >= y * k)
  BY <1>1, <1>2, <1>3, <1>4
<1> QED
  BY <1>5 DEF q

\* The CPUs of some clusters are what they count, or, with the last CPU of
\* the node, what they count without what misses there.
LEMMA CpusCount ==
  ASSUME NEW first \in Nat, NEW count \in Nat \ {0},
         first + count <= CeilDiv(Capacity, ClusterSize),
         NEW cpus, cpus = CpusOf(first, count)
  PROVE  /\ Cardinality(cpus) \in Nat /\ Missing \in Nat
         /\ \/ Cardinality(cpus) = ClusterSize * count
            \/ /\ Capacity - 1 \in cpus
               /\ Cardinality(cpus) + Missing = ClusterSize * count
<1> DEFINE all == CeilDiv(Capacity, ClusterSize)
           lo == ClusterSize * first
           size == ClusterSize * count
           hi == ClusterSize * (first + count)
<1>1. Capacity \in Nat \ {0} /\ ClusterSize \in Nat \ {0} /\ first + count \in Nat
  BY PlacementAssumption
<1>2. /\ all \in Nat /\ ClusterSize * all \in Nat /\ ClusterSize * all >= Capacity
      /\ ClusterSize * all < Capacity + ClusterSize
  <2>1. Capacity \in Nat
    BY <1>1
  <2> QED
    BY <1>1, <2>1, RoundedUp
<1>3. Missing = ClusterSize * all - Capacity
  BY DEF Missing
<1> HIDE DEF all
<1>4. lo \in Nat /\ size \in Nat /\ hi \in Nat /\ hi = lo + size /\ size >= ClusterSize
  <2>1. ClusterSize * 1 <= ClusterSize * count
    BY <1>1, Product
  <2> QED
    BY <1>1, <2>1
<1>5. hi <= ClusterSize * all
  BY <1>1, <1>2, Product DEF all
<1>6. hi <= Capacity \/ hi = ClusterSize * all
  <2>1. CASE first + count = all
    BY <2>1
  <2>2. CASE first + count <= all - 1
    <3>1. all - 1 \in Nat
      BY <1>1, <1>2, <2>2
    <3>2. hi <= ClusterSize * (all - 1)
      BY <1>1, <2>2, <3>1, Product
    <3>3. ClusterSize * (all - 1) = ClusterSize * all - ClusterSize
      BY <1>1, <1>2
    <3> HIDE DEF hi
    <3> QED
      BY <1>1, <1>2, <1>4, <3>2, <3>3
  <2>3. first + count <= all
    BY DEF all
  <2> QED
    BY <1>1, <1>2, <2>1, <2>2, <2>3
<1>7. ASSUME NEW c \in 0 .. Capacity - 1
      PROVE  c \in cpus <=> c >= lo /\ c < hi
  <2>1. c \in Nat
    OBVIOUS
  <2>2. c \div ClusterSize \in Nat /\ (c \div ClusterSize >= first <=> c >= lo)
    BY <1>1, <2>1, ClusterOf
  <2>3. c \div ClusterSize >= first + count <=> c >= hi
    BY <1>1, <2>1, ClusterOf
  <2>4. c \in cpus <=> c \div ClusterSize \in first .. first + count - 1
    BY DEF CpusOf
  <2> HIDE DEF lo, hi
  <2> QED
    BY <1>1, <1>4, <2>1, <2>2, <2>3, <2>4
<1>8. cpus \subseteq 0 .. Capacity - 1
  BY DEF CpusOf
<1> HIDE DEF lo, hi, size
<1>9. lo < Capacity
  BY <1>1, <1>2, <1>4, <1>5
<1>10. CASE hi <= Capacity
  <2>1. cpus = lo .. hi - 1
    <3>1. ASSUME NEW c \in cpus PROVE c \in lo .. hi - 1
      <4>1. c \in 0 .. Capacity - 1
        BY <1>8
      <4> QED
        BY <1>1, <1>4, <1>7, <1>10, <4>1
    <3>2. ASSUME NEW c \in lo .. hi - 1 PROVE c \in cpus
      <4>1. c \in 0 .. Capacity - 1 /\ c >= lo /\ c < hi
        BY <1>1, <1>4, <1>10
      <4> QED
        BY <1>7, <4>1
    <3> QED
      BY <3>1, <3>2
  <2>2. Cardinality(lo .. hi - 1) = size
    <3>1. lo \in Int /\ hi - 1 \in Int /\ ~(lo > hi - 1)
      BY <1>1, <1>4
    <3>2. Cardinality(lo .. hi - 1) = (hi - 1) - lo + 1
      BY <3>1, FS_Interval
    <3> QED
      BY <1>4, <3>2
  <2>3. Cardinality(cpus) = size
    BY <2>1, <2>2, Zenon
  <2> QED
    BY <1>1, <1>2, <1>3, <1>4, <2>3 DEF size
<1>11. CASE hi > Capacity
  <2>1. cpus = lo .. Capacity - 1
    <3>1. ASSUME NEW c \in cpus PROVE c \in lo .. Capacity - 1
      <4>1. c \in 0 .. Capacity - 1
        BY <1>8
      <4> QED
        BY <1>1, <1>4, <1>7, <1>11, <4>1
    <3>2. ASSUME NEW c \in lo .. Capacity - 1 PROVE c \in cpus
      <4>1. c \in 0 .. Capacity - 1 /\ c >= lo /\ c < hi
        BY <1>1, <1>4, <1>11
      <4> QED
        BY <1>7, <4>1
    <3> QED
      BY <3>1, <3>2
  <2>2. Cardinality(lo .. Capacity - 1) = Capacity - lo
    <3>1. lo \in Int /\ Capacity - 1 \in Int /\ ~(lo > Capacity - 1)
      BY <1>1, <1>4, <1>9
    <3>2. Cardinality(lo .. Capacity - 1) = (Capacity - 1) - lo + 1
      BY <3>1, FS_Interval
    <3> QED
      BY <1>1, <1>4, <3>2
  <2>3. Cardinality(cpus) = Capacity - lo
    BY <2>1, <2>2, Zenon
  <2>4. hi = ClusterSize * all
    BY <1>1, <1>4, <1>6, <1>11
  <2>5. Cardinality(cpus) + Missing = size
    BY <1>1, <1>2, <1>3, <1>4, <2>3, <2>4
  <2>6. Capacity - 1 \in cpus
    BY <1>1, <1>4, <1>9, <2>1
  <2>7. Cardinality(cpus) \in Nat /\ Missing \in Nat
    BY <1>1, <1>2, <1>3, <1>4, <1>9, <2>3
  <2> QED
    BY <2>5, <2>6, <2>7 DEF size
<1> QED
  BY <1>1, <1>4, <1>10, <1>11

\* A group has the CPUs of its part, or only what the last cluster has.
Covered(part, cpus) ==
  \/ Thousandths * Cardinality(cpus) >= part
  \/ /\ Capacity - 1 \in cpus
     /\ Thousandths * Cardinality(cpus) + Thousandths * Missing >= part

\* The clusters for a part have its CPUs.
LEMMA PartIsCovered ==
  ASSUME NEW part \in Nat, part > 0, NEW first \in Nat,
         first + ClustersFor(part) <= CeilDiv(Capacity, ClusterSize)
  PROVE  Covered(part, CpusOf(first, ClustersFor(part)))
<1> DEFINE cpus == CpusOf(first, ClustersFor(part))
           k == ClustersFor(part)
           unit == Thousandths * ClusterSize
<1>1. ClusterSize \in Nat \ {0} /\ unit \in Nat \ {0}
  BY PlacementAssumption DEF Thousandths
<1>2. k \in Nat \ {0} /\ unit * k >= part
  <2>1. k = CeilDiv(part, unit)
    BY DEF ClustersFor
  <2> HIDE DEF unit, k
  <2>2. CeilDiv(part, unit) \in Nat /\ CeilDiv(part, unit) > 0 /\ unit * CeilDiv(part, unit) >= part
    BY <1>1, RoundedUp
  <2> QED
    BY <2>1, <2>2
<1>3. unit * k = Thousandths * (ClusterSize * k)
  BY <1>1, <1>2 DEF Thousandths
<1> HIDE DEF unit
<1>4. /\ Cardinality(cpus) \in Nat /\ Missing \in Nat
      /\ \/ Cardinality(cpus) = ClusterSize * k
         \/ Capacity - 1 \in cpus /\ Cardinality(cpus) + Missing = ClusterSize * k
  BY <1>2, CpusCount
<1> HIDE DEF cpus, k
<1>5. Covered(part, cpus)
  BY <1>2, <1>3, <1>4 DEF Covered, Thousandths
<1> QED
  BY <1>5 DEF cpus

\* The CPUs of two groups on a node are different ones; when the clusters
\* suffice every group has those of its part.
LEMMA ClustersAreApart ==
  ASSUME NEW groups \in SUBSET Nat, IsFiniteSet(groups),
         NEW shards \in [groups -> [Nodes -> Nat]], NEW n \in Nodes
  PROVE  /\ \A g, h \in groups :
              g # h => Clusters(shards, n).cpus[g] \cap Clusters(shards, n).cpus[h] = {}
         /\ ~Clusters(shards, n).short =>
              \A g \in groups : Covered(shards[g][n], Clusters(shards, n).cpus[g])
<1> DEFINE part == [g \in DOMAIN shards |-> shards[g][n]]
           users == {g \in DOMAIN shards : part[g] > 0}
           needed == [g \in users |-> ClustersFor(part[g])]
           before(g) == {h \in users : Earlier(h, g, part)}
           offset(g) == SumFunctionOnSet(needed, before(g))
           cpus == [g \in groups |->
                     IF g \in users THEN CpusOf(offset(g), needed[g]) ELSE {}]
<1>1. /\ Clusters(shards, n).cpus = cpus
      /\ Clusters(shards, n).short =
           \E g \in users : offset(g) + needed[g] > CeilDiv(Capacity, ClusterSize)
  BY DEF Clusters
<1>2. \A g \in groups : part[g] = shards[g][n] /\ part[g] \in Nat
  OBVIOUS
<1>3. users \in SUBSET groups /\ IsFiniteSet(users) /\ \A g \in users : part[g] > 0
  BY FS_Subset
<1>4. \A g \in groups : g \notin users => part[g] = 0
  BY <1>2
<1> HIDE DEF part, users
<1>5. \A g \in users : needed[g] = ClustersFor(part[g])
  OBVIOUS
<1>6. \A g \in users : needed[g] \in Nat
  <2> SUFFICES ASSUME NEW g \in users PROVE ClustersFor(part[g]) \in Nat
    BY <1>5
  <2>1. part[g] \in Nat /\ Thousandths * ClusterSize \in Nat \ {0}
    BY <1>2, <1>3, PlacementAssumption DEF Thousandths
  <2> QED
    BY <2>1, RoundedUp DEF ClustersFor
<1> HIDE DEF needed
<1>7. \A g \in groups : before(g) \in SUBSET users /\ IsFiniteSet(before(g))
  BY <1>3, FS_Subset
<1>8. \A g \in users : offset(g) \in Nat
  <2> SUFFICES ASSUME NEW g \in users PROVE offset(g) \in Nat
    OBVIOUS
  <2>1. IsFiniteSet(before(g)) /\ \A h \in before(g) : needed[h] \in Nat
    BY <1>3, <1>6, <1>7
  <2> QED
    BY <2>1, SumType
<1>9. ASSUME NEW g \in users, NEW h \in users, Earlier(h, g, part)
      PROVE  offset(h) + needed[h] <= offset(g)
  <2> DEFINE s == before(h) \cup {h}
  <2>1. s \in SUBSET before(g) /\ h \notin before(h) /\ h \in s
    BY <1>2, <1>3, <1>9, EarlierIsTotal
  <2>2. IsFiniteSet(before(g)) /\ \A k \in before(g) : needed[k] \in Nat
    BY <1>3, <1>6, <1>7
  <2>3. IsFiniteSet(s) /\ \A k \in s : needed[k] \in Nat
    BY <2>1, <2>2, FS_Subset
  <2>4. SumFunctionOnSet(needed, s \ {h}) = offset(h)
    <3>1. s \ {h} = before(h)
      BY <2>1
    <3> QED
      BY <3>1, Zenon
  <2> HIDE DEF s, before
  <2>5. SumFunctionOnSet(needed, s) = needed[h] + SumFunctionOnSet(needed, s \ {h})
    BY <2>1, <2>3, SumWithout
  <2>6. SumFunctionOnSet(needed, s) <= SumFunctionOnSet(needed, before(g))
    BY <2>1, <2>2, SumSubset
  <2>7. needed[h] \in Nat /\ offset(h) \in Nat /\ offset(g) \in Nat
    BY <1>6, <1>8
  <2> QED
    BY <2>4, <2>5, <2>6, <2>7
<1> HIDE DEF offset
<1>10. ASSUME NEW g \in groups, NEW h \in groups, g # h PROVE cpus[g] \cap cpus[h] = {}
  <2> SUFFICES ASSUME NEW c \in cpus[g], c \in cpus[h] PROVE FALSE
    OBVIOUS
  <2>1. g \in users /\ h \in users /\ c \in CpusOf(offset(g), needed[g]) /\ c \in CpusOf(offset(h), needed[h])
    OBVIOUS
  <2> DEFINE k == c \div ClusterSize
  <2>2. k \in offset(g) .. offset(g) + needed[g] - 1 /\ k \in offset(h) .. offset(h) + needed[h] - 1
    BY <2>1 DEF CpusOf
  <2> HIDE DEF k
  <2>3. Earlier(g, h, part) \/ Earlier(h, g, part)
    BY <1>2, <1>10, EarlierIsTotal
  <2>4. offset(g) + needed[g] <= offset(h) \/ offset(h) + needed[h] <= offset(g)
    BY <1>9, <2>1, <2>3
  <2>5. offset(g) \in Nat /\ offset(h) \in Nat /\ needed[g] \in Nat /\ needed[h] \in Nat
    BY <1>6, <1>8, <2>1
  <2> QED
    BY <2>2, <2>4, <2>5
<1>11. ASSUME ~Clusters(shards, n).short, NEW g \in groups
       PROVE  Covered(part[g], cpus[g])
  <2>1. CASE g \in users
    <3>1. ~(offset(g) + needed[g] > CeilDiv(Capacity, ClusterSize))
      BY <1>1, <1>11, <2>1
    <3>2. CeilDiv(Capacity, ClusterSize) \in Nat
      BY PlacementAssumption, RoundedUp
    <3>3. offset(g) + needed[g] <= CeilDiv(Capacity, ClusterSize)
      BY <1>6, <1>8, <2>1, <3>1, <3>2
    <3>4. cpus[g] = CpusOf(offset(g), ClustersFor(part[g])) /\ offset(g) \in Nat
          /\ part[g] \in Nat /\ part[g] > 0 /\ needed[g] = ClustersFor(part[g])
      BY <1>2, <1>3, <1>5, <1>8, <2>1
    <3> HIDE DEF cpus
    <3> QED
      BY <3>3, <3>4, PartIsCovered
  <2>2. CASE g \notin users
    <3>1. cpus[g] = {} /\ part[g] = 0
      BY <1>4, <2>2
    <3>2. Cardinality({}) = 0
      BY FS_EmptySet
    <3> HIDE DEF cpus
    <3> QED
      BY <3>1, <3>2 DEF Covered, Thousandths
  <2> QED
    BY <2>1, <2>2
<1> HIDE DEF cpus
<1> QED
  BY <1>1, <1>2, <1>10, <1>11

-------------------------------------------------------------------------------
(***************************************************************************)
(* The partition.                                                          *)
(***************************************************************************)

\* The least of a set of numbers.
LEMMA MinOfSet ==
  ASSUME NEW S \in SUBSET Nat, S # {}
  PROVE  Min(S) \in S /\ \A y \in S : Min(S) <= y
<1>1. \E x \in S : \A y \in S : x =< y
  BY Least
<1> QED
  BY <1>1 DEF Min

\* Squares.
LEMMA SquareType ==
  ASSUME NEW x \in Int
  PROVE  Square(x) \in Nat /\ (x # 0 => Square(x) >= 1) /\ (x = 0 => Square(x) = 0)
<1>1. CASE x = 0
  BY <1>1 DEF Square
<1>2. CASE x > 0
  <2>1. x \in Nat /\ 1 \in Nat /\ 1 <= x
    BY <1>2
  <2>2. x * 1 \in Nat /\ x * x \in Nat /\ x * 1 <= x * x
    BY <2>1, Product
  <2> QED
    BY <2>1, <2>2 DEF Square
<1>3. CASE x < 0
  <2> DEFINE y == -x
  <2>1. y \in Nat /\ 1 \in Nat /\ 1 <= y /\ x * x = y * y
    BY <1>3
  <2> HIDE DEF y
  <2>2. y * 1 \in Nat /\ y * y \in Nat /\ y * 1 <= y * y
    BY <2>1, Product
  <2> QED
    BY <1>3, <2>1, <2>2 DEF Square
<1> QED
  BY <1>1, <1>2, <1>3

\* The square of the number with the smaller absolute value is no larger.
LEMMA SquareGrows ==
  ASSUME NEW x \in Int, NEW y \in Nat, -y <= x, x <= y
  PROVE  Square(x) <= Square(y)
<1> DEFINE z == IF x < 0 THEN -x ELSE x
<1>1. z \in Nat /\ z <= y /\ x * x = z * z
  OBVIOUS
<1> HIDE DEF z
<1>2. z * z <= z * y /\ z * z \in Nat /\ z * y \in Nat
  BY <1>1, Product
<1>3. y * z <= y * y /\ y * y \in Nat /\ y * z = z * y
  BY <1>1, Product
<1> QED
  BY <1>1, <1>2, <1>3 DEF Square

\* The loads of an assignment.
LEMMA LoadType ==
  ASSUME NEW groups, IsFiniteSet(groups), NEW demand \in [groups -> Nat],
         NEW m \in [groups -> Nodes]
  PROVE  /\ \A n \in Nodes : Load(m, demand, n) \in Nat
         /\ SumFunction(demand) \in Nat
         /\ Load(m, demand, 0) + Load(m, demand, 1) = SumFunction(demand)
<1> DEFINE A == {g \in groups : m[g] = 0}
           B == {g \in groups : m[g] = 1}
<1>1. IsFiniteSet(A) /\ IsFiniteSet(B) /\ A \cap B = {} /\ A \cup B = groups
  BY FS_Subset DEF Nodes
<1>2. (\A g \in A : demand[g] \in Nat) /\ (\A g \in B : demand[g] \in Nat) /\ (\A g \in A \cup B : demand[g] \in Nat)
  OBVIOUS
<1>3. Load(m, demand, 0) = SumFunctionOnSet(demand, A) /\ Load(m, demand, 1) = SumFunctionOnSet(demand, B)
  BY DEF Load
<1>4. SumFunction(demand) = SumFunctionOnSet(demand, groups)
  BY DEF SumFunction
<1> HIDE DEF A, B
<1>5. SumFunctionOnSet(demand, A \cup B) = SumFunctionOnSet(demand, A) + SumFunctionOnSet(demand, B)
  BY <1>1, <1>2, SumDisjoint
<1>6. SumFunctionOnSet(demand, A \cup B) = SumFunctionOnSet(demand, groups)
  BY <1>1, Zenon
<1>7. SumFunctionOnSet(demand, A) \in Nat /\ SumFunctionOnSet(demand, B) \in Nat
  BY <1>1, <1>2, SumType
<1> QED
  BY <1>3, <1>4, <1>5, <1>6, <1>7 DEF Nodes

\* Edges between some groups, with their scores.
Pairs(groups) == {{g, h} : g, h \in groups}
Edges(groups) == UNION {[s -> 0 .. MaxScore] : s \in SUBSET Pairs(groups)}

\* The score that an assignment cuts.
CutOf(m, edges) == SumFunctionOnSet(edges, {e \in DOMAIN edges : \E g, h \in e : m[g] # m[h]})

LEMMA CutType ==
  ASSUME NEW groups, IsFiniteSet(groups), NEW edges \in Edges(groups), NEW m
  PROVE  CutOf(m, edges) \in Nat
<1> DEFINE all == {{g, h} : g, h \in groups}
           f == [gh \in groups \X groups |-> {gh[1], gh[2]}]
           cut == {e \in DOMAIN edges : \E g, h \in e : m[g] # m[h]}
<1>1. IsFiniteSet(groups \X groups)
  BY FS_Product
<1>2. f \in Surjection(groups \X groups, all)
  <2>1. f \in [groups \X groups -> all]
    OBVIOUS
  <2>2. ASSUME NEW e \in all PROVE \E gh \in groups \X groups : f[gh] = e
    <3>1. PICK g \in groups, h \in groups : e = {g, h}
      OBVIOUS
    <3>2. <<g, h>> \in groups \X groups /\ f[<<g, h>>] = e
      BY <3>1
    <3> QED
      BY <3>2
  <2> HIDE DEF f, all
  <2>3. \A e \in all : \E gh \in groups \X groups : f[gh] = e
    BY <2>2
  <2> QED
    BY <2>1, <2>3 DEF Surjection
<1> HIDE DEF f
<1>3. IsFiniteSet(all)
  BY <1>1, <1>2, FS_Surjection
<1>4. cut \in SUBSET all /\ \A e \in cut : edges[e] \in Nat
  <2>1. PICK s \in SUBSET Pairs(groups) : edges \in [s -> 0 .. MaxScore]
    BY DEF Edges
  <2>2. DOMAIN edges \subseteq all
    BY <2>1 DEF Pairs
  <2>3. \A e \in cut : edges[e] \in 0 .. MaxScore
    BY <2>1
  <2> HIDE DEF all
  <2> QED
    BY <2>2, <2>3 DEF MaxScore
<1> HIDE DEF all, cut
<1>5. IsFiniteSet(cut)
  BY <1>3, <1>4, FS_Subset
<1>6. SumFunctionOnSet(edges, cut) \in Nat
  BY <1>4, <1>5, SumType
<1> QED
  BY <1>6 DEF cut, CutOf

\* How far the loads of two nodes are from each other.
Apart(a, b) == Square(a - b) + Square(b - a)

\* The objective on one node, where nothing can be too far from anything.
LEMMA ObjectiveOnOne ==
  ASSUME NEW groups, IsFiniteSet(groups), NEW demand \in [groups -> Nat],
         NEW edges \in Edges(groups), NEW m \in [groups -> {0}]
  PROVE  Objective(m, demand, edges, {0}).whole \in Nat
<1> DEFINE total == SumFunction(demand)
           load == [n \in {0} |-> Load(m, demand, n)]
           over == [n \in {0} |-> Square(Atleast0(load[n] - Room))]
           off == [n \in {0} |-> Square(1 * load[n] - total)]
           unit == 1 * 1 * Square(Thousandths)
<1>1. load[0] \in Nat /\ total \in Nat
  <2>1. m \in [groups -> Nodes] /\ 0 \in Nodes
    BY DEF Nodes
  <2> QED
    BY <2>1, LoadType
<1>2. Cardinality({0}) = 1
  BY FS_Singleton
<1>3. over[0] \in Nat /\ off[0] \in Nat
  <2>1. Atleast0(load[0] - Room) \in Int /\ 1 * load[0] - total \in Int
    BY <1>1, RoomType DEF Atleast0
  <2>2. over[0] = Square(Atleast0(load[0] - Room)) /\ off[0] = Square(1 * load[0] - total)
    OBVIOUS
  <2> HIDE DEF load, over, off, total
  <2> QED
    BY <2>1, <2>2, SquareType
<1>4. SumFunction(over) = over[0] /\ SumFunction(off) = off[0]
  <2>1. DOMAIN over = {0} /\ DOMAIN off = {0}
    OBVIOUS
  <2> HIDE DEF over, off
  <2> QED
    BY <1>3, <2>1, SumOfNodes DEF SumFunction
<1>5. Objective(m, demand, edges, {0}).whole
        = SumFunction(over) + CutOf(m, edges) + SumFunction(off) \div unit
  BY <1>2 DEF Objective, CutOf
<1>6. unit \in Nat \ {0}
  BY DEF Square, Thousandths
<1>7. CutOf(m, edges) \in Nat
  BY CutType
<1> HIDE DEF over, off, unit
<1>8. SumFunction(off) \div unit \in Nat
  BY <1>3, <1>4, <1>6, ClusterOf
<1> QED
  BY <1>3, <1>4, <1>5, <1>7, <1>8

\* The costs, which are totally ordered.
Costs == [whole : Nat, rest : Nat]

LEMMA CheaperIsTotal ==
  /\ \A c, d \in Costs : c = d \/ Cheaper(c, d) \/ Cheaper(d, c)
  /\ \A c, d \in Costs : Cheaper(c, d) => ~Cheaper(d, c) /\ c # d
  /\ \A c, d, e \in Costs : Cheaper(c, d) /\ Cheaper(d, e) => Cheaper(c, e)
BY DEF Costs, Cheaper

\* The cost of two loads and a cut.
CostOf(a, b, cut) ==
  [whole |-> Square(Over(a)) + Square(Over(b)) + cut
               + Apart(a, b) \div (2 * 2 * Square(Thousandths)),
   rest  |-> Apart(a, b) % (2 * 2 * Square(Thousandths))]

\* The objective on two nodes: a pair of numbers, the first at least the
\* square of what is too much on a node.
LEMMA ObjectiveOnTwo ==
  ASSUME NEW groups, IsFiniteSet(groups), NEW demand \in [groups -> Nat],
         NEW edges \in Edges(groups), NEW m \in [groups -> Nodes]
  PROVE  /\ Objective(m, demand, edges, Nodes)
              = CostOf(Load(m, demand, 0), Load(m, demand, 1), CutOf(m, edges))
         /\ Objective(m, demand, edges, Nodes) \in Costs
         /\ \A n \in Nodes : Square(Over(Load(m, demand, n))) <= Objective(m, demand, edges, Nodes).whole
<1> DEFINE total == SumFunction(demand)
           load == [n \in Nodes |-> Load(m, demand, n)]
           over == [n \in Nodes |-> Square(Atleast0(load[n] - Room))]
           off == [n \in Nodes |-> Square(2 * load[n] - total)]
           unit == 2 * 2 * Square(Thousandths)
           a == Load(m, demand, 0)
           b == Load(m, demand, 1)
           cost == Objective(m, demand, edges, Nodes)
<1>1. a \in Nat /\ b \in Nat /\ total \in Nat /\ a + b = total
  BY LoadType DEF Nodes
<1>2. Cardinality(Nodes) = 2
  <2>1. Cardinality({0}) = 1 /\ IsFiniteSet({0}) /\ {0} \cup {1} = {0, 1}
    BY FS_Singleton
  <2>2. Cardinality({0} \cup {1}) = IF 1 \in {0} THEN Cardinality({0}) ELSE Cardinality({0}) + 1
    BY <2>1, FS_AddElement
  <2>3. Cardinality({0} \cup {1}) = 2
    BY <2>1, <2>2
  <2>4. Nodes = {0} \cup {1}
    BY DEF Nodes
  <2> QED
    BY <2>3, <2>4, Zenon
<1>3. /\ load[0] = a /\ load[1] = b
      /\ over[0] = Square(Over(a)) /\ over[1] = Square(Over(b))
      /\ off[0] = Square(2 * a - total) /\ off[1] = Square(2 * b - total)
  BY DEF Nodes, Over
<1>4. over[0] \in Nat /\ over[1] \in Nat /\ off[0] \in Nat /\ off[1] \in Nat
  <2>1. Over(a) \in Int /\ Over(b) \in Int
    BY <1>1, RoomType DEF Over, Atleast0
  <2>2. 2 * a - total \in Int /\ 2 * b - total \in Int
    BY <1>1
  <2> HIDE DEF over, off
  <2> QED
    BY <1>3, <2>1, <2>2, SquareType
<1>5. SumFunction(over) = over[0] + over[1] /\ SumFunction(off) = off[0] + off[1]
  <2>1. DOMAIN over = Nodes /\ DOMAIN off = Nodes
    OBVIOUS
  <2> HIDE DEF over, off
  <2> QED
    BY <1>4, <2>1, SumOfNodes DEF SumFunction
<1>6. off[0] + off[1] = Apart(a, b)
  <2>1. 2 * a - total = a - b /\ 2 * b - total = b - a
    BY <1>1
  <2> QED
    BY <1>3, <2>1 DEF Apart
<1>7. cost = [whole |-> SumFunction(over) + CutOf(m, edges) + SumFunction(off) \div unit,
              rest  |-> SumFunction(off) % unit]
  BY <1>2 DEF Objective, CutOf
<1>8. unit \in Nat \ {0}
  BY DEF Square, Thousandths
<1>9. CutOf(m, edges) \in Nat
  BY CutType
<1> HIDE DEF over, off, unit, cost
<1>10. Apart(a, b) \in Nat /\ SumFunction(off) = Apart(a, b)
  BY <1>4, <1>5, <1>6
<1>11. Apart(a, b) \div unit \in Nat /\ Apart(a, b) % unit \in Nat
  <2> DEFINE u == Apart(a, b)
  <2>1. u \in Nat
    BY <1>10
  <2> HIDE DEF u
  <2>2. u \div unit \in Nat /\ u % unit \in Nat
    BY <1>8, <2>1, Z3
  <2> QED
    BY <2>2 DEF u
<1>12. cost = [whole |-> Square(Over(a)) + Square(Over(b)) + CutOf(m, edges) + Apart(a, b) \div unit,
               rest  |-> Apart(a, b) % unit]
  BY <1>3, <1>5, <1>7, <1>10
<1>13. Square(Over(a)) \in Nat /\ Square(Over(b)) \in Nat
  BY <1>3, <1>4
<1>14. /\ cost.whole \in Nat /\ cost.rest \in Nat
       /\ Square(Over(a)) <= cost.whole /\ Square(Over(b)) <= cost.whole
  BY <1>9, <1>11, <1>12, <1>13
<1>15. \A n \in Nodes : Square(Over(Load(m, demand, n))) <= cost.whole
  BY <1>14 DEF Nodes
<1>16. cost = CostOf(a, b, CutOf(m, edges)) /\ cost \in Costs
  BY <1>12, <1>14 DEF CostOf, Costs, unit
<1> QED
  BY <1>15, <1>16 DEF cost

\* Which node has which load is the same.
LEMMA CostIsSymmetric ==
  ASSUME NEW a \in Nat, NEW b \in Nat, NEW cut
  PROVE  CostOf(a, b, cut) = CostOf(b, a, cut)
<1>1. Over(a) \in Int /\ Over(b) \in Int /\ a - b \in Int /\ b - a \in Int
  BY RoomType DEF Over, Atleast0
<1>2. Apart(a, b) = Apart(b, a)
  <2>1. Square(a - b) \in Nat /\ Square(b - a) \in Nat
    BY <1>1, SquareType
  <2> QED
    BY <2>1 DEF Apart
<1>3. Square(Over(b)) + Square(Over(a)) = Square(Over(a)) + Square(Over(b))
  <2>1. Square(Over(b)) \in Nat /\ Square(Over(a)) \in Nat
    BY <1>1, SquareType
  <2> QED
    BY <2>1
<1> QED
  BY <1>2, <1>3 DEF CostOf

\* Assignments are enumerated in a total order.
LEMMA BeforeIsTotal ==
  ASSUME NEW groups \in SUBSET Nat
  PROVE  /\ \A m, o \in [groups -> Nodes] : m # o => Before(m, o) \/ Before(o, m)
         /\ \A m, o, q \in [groups -> Nodes] : Before(m, o) /\ Before(o, q) => Before(m, q)
<1>1. ASSUME NEW m \in [groups -> Nodes], NEW o \in [groups -> Nodes], m # o
      PROVE  Before(m, o) \/ Before(o, m)
  <2> DEFINE D == {g \in groups : m[g] # o[g]}
  <2>1. D \in SUBSET Nat /\ D # {}
    <3>1. m = [g \in groups |-> m[g]] /\ o = [g \in groups |-> o[g]]
      OBVIOUS
    <3>2. PICK g \in groups : m[g] # o[g]
      BY <1>1, <3>1, Zenon
    <3> QED
      BY <3>2
  <2>2. PICK g \in D : \A h \in D : g <= h
    BY <2>1, Least
  <2>3. g \in groups /\ m[g] # o[g] /\ m[g] \in {0, 1} /\ o[g] \in {0, 1}
    BY DEF Nodes
  <2>4. \A h \in groups : h < g => m[h] = o[h]
    <3> SUFFICES ASSUME NEW h \in groups, h < g, m[h] # o[h] PROVE FALSE
      OBVIOUS
    <3>1. h \in D /\ h \in Nat /\ g \in Nat
      OBVIOUS
    <3>2. g <= h
      BY <2>2, <3>1
    <3> QED
      BY <3>1, <3>2
  <2>5. DOMAIN m = groups /\ DOMAIN o = groups
    OBVIOUS
  <2>6. m[g] < o[g] \/ o[g] < m[g]
    BY <2>3
  <2> QED
    BY <2>3, <2>4, <2>5, <2>6 DEF Before
<1>2. ASSUME NEW m \in [groups -> Nodes], NEW o \in [groups -> Nodes], NEW q \in [groups -> Nodes],
             Before(m, o), Before(o, q)
      PROVE  Before(m, q)
  <2>1. DOMAIN m = groups /\ DOMAIN o = groups
    OBVIOUS
  <2>2. PICK g \in groups : m[g] < o[g] /\ \A h \in groups : h < g => m[h] = o[h]
    BY <1>2, <2>1 DEF Before
  <2>3. PICK k \in groups : o[k] < q[k] /\ \A h \in groups : h < k => o[h] = q[h]
    BY <1>2, <2>1 DEF Before
  <2>4. g \in Nat /\ k \in Nat
    OBVIOUS
  <2>5. \A h \in groups : m[h] \in Int /\ o[h] \in Int /\ q[h] \in Int /\ h \in Int
    BY DEF Nodes
  <2>6. CASE g <= k
    <3>1. m[g] < q[g]
      BY <2>2, <2>3, <2>4, <2>5, <2>6
    <3>2. \A h \in groups : h < g => m[h] = q[h]
      BY <2>2, <2>3, <2>4, <2>5, <2>6
    <3> QED
      BY <2>1, <3>1, <3>2 DEF Before
  <2>7. CASE k < g
    <3>1. m[k] < q[k]
      BY <2>2, <2>3, <2>4, <2>5, <2>7
    <3>2. \A h \in groups : h < k => m[h] = q[h]
      BY <2>2, <2>3, <2>4, <2>5, <2>7
    <3> QED
      BY <2>1, <3>1, <3>2 DEF Before
  <2> QED
    BY <2>4, <2>6, <2>7
<1> QED
  BY <1>1, <1>2

\* There are finitely many assignments.
LEMMA AssignmentsAreFinite ==
  ASSUME NEW groups, IsFiniteSet(groups)
  PROVE  IsFiniteSet([groups -> Nodes])
<1> DEFINE f == [s \in SUBSET groups |-> [g \in groups |-> IF g \in s THEN 1 ELSE 0]]
           all == [groups -> Nodes]
<1>1. IsFiniteSet(SUBSET groups)
  BY FS_SUBSET
<1>2. f \in [SUBSET groups -> all]
  BY DEF Nodes
<1>3. ASSUME NEW m \in all PROVE \E s \in SUBSET groups : f[s] = m
  <2> DEFINE s == {g \in groups : m[g] = 1}
  <2>1. s \in SUBSET groups
    OBVIOUS
  <2>2. f[s] = [g \in groups |-> IF g \in s THEN 1 ELSE 0]
    BY <2>1
  <2>3. \A g \in groups : m[g] = IF g \in s THEN 1 ELSE 0
    BY DEF Nodes
  <2> HIDE DEF s
  <2>4. [g \in groups |-> IF g \in s THEN 1 ELSE 0] = m
    BY <2>3
  <2>5. f[s] = m
    BY <2>2, <2>4
  <2> QED
    BY <2>1, <2>5
<1> HIDE DEF f, all
<1>4. f \in Surjection(SUBSET groups, all)
  <2>1. \A m \in all : \E s \in SUBSET groups : f[s] = m
    BY <1>3
  <2> QED
    BY <1>2, <2>1 DEF Surjection
<1>5. IsFiniteSet(all)
  BY <1>1, <1>4, FS_Surjection
<1> QED
  BY <1>5 DEF all

\* o is m with the nodes exchanged, and so are its loads; it cuts the same.
Exchange(groups, demand, edges, m, o) ==
  /\ \A g \in groups : o[g] = 1 - m[g]
  /\ Load(o, demand, 0) = Load(m, demand, 1) /\ Load(o, demand, 1) = Load(m, demand, 0)
  /\ CutOf(o, edges) = CutOf(m, edges)

\* The nodes of an assignment can be exchanged.
LEMMA Exchanged ==
  ASSUME NEW groups, NEW demand, NEW edges \in Edges(groups), NEW m \in [groups -> Nodes]
  PROVE  \E o \in [groups -> Nodes] : Exchange(groups, demand, edges, m, o)
<1> DEFINE o == [g \in groups |-> 1 - m[g]]
<1>1. o \in [groups -> Nodes] /\ \A g \in groups : m[g] \in {0, 1} /\ o[g] = 1 - m[g]
  BY DEF Nodes
<1> HIDE DEF o
<1>2. /\ {g \in DOMAIN o : o[g] = 0} = {g \in DOMAIN m : m[g] = 1}
      /\ {g \in DOMAIN o : o[g] = 1} = {g \in DOMAIN m : m[g] = 0}
  BY <1>1
<1>3. Load(o, demand, 0) = Load(m, demand, 1)
  BY <1>2, Zenon DEF Load
<1>4. Load(o, demand, 1) = Load(m, demand, 0)
  BY <1>2, Zenon DEF Load
<1>5. {e \in DOMAIN edges : \E g, h \in e : o[g] # o[h]}
        = {e \in DOMAIN edges : \E g, h \in e : m[g] # m[h]}
  <2>1. ASSUME NEW e \in DOMAIN edges, NEW g \in e, NEW h \in e
        PROVE  o[g] # o[h] <=> m[g] # m[h]
    <3>1. PICK s \in SUBSET Pairs(groups) : edges \in [s -> 0 .. MaxScore]
      BY DEF Edges
    <3>2. g \in groups /\ h \in groups
      BY <3>1 DEF Pairs
    <3> QED
      BY <1>1, <3>2
  <2>2. \A e \in DOMAIN edges :
          (\E g, h \in e : o[g] # o[h]) <=> (\E g, h \in e : m[g] # m[h])
    BY <2>1
  <2> QED
    BY <2>2
<1>6. CutOf(o, edges) = CutOf(m, edges)
  BY <1>5, Zenon DEF CutOf
<1> QED
  BY <1>1, <1>3, <1>4, <1>6 DEF Exchange

\* The assignment chosen on two nodes is one of the candidates, and none is
\* cheaper.
LEMMA PartitionIsLeast ==
  ASSUME NEW groups \in SUBSET Nat, IsFiniteSet(groups), groups # {},
         NEW demand \in [groups -> Nat],
         NEW edges \in Edges(groups)
  PROVE  LET p == Partition(groups, demand, edges, Nodes)
         IN  /\ p \in [groups -> Nodes]
             /\ \A m \in [groups -> Nodes] :
                  m[Min(groups)] = 0 =>
                    ~Cheaper(Objective(m, demand, edges, Nodes), Objective(p, demand, edges, Nodes))
<1> DEFINE C == {m \in [groups -> Nodes] : m[Min(groups)] = Min(Nodes)}
           cost(m) == Objective(m, demand, edges, Nodes)
           Best(m) == \A o \in C \ {m} :
                        Cheaper(cost(m), cost(o)) \/ (cost(m) = cost(o) /\ Before(m, o))
           Under(o, m) == Cheaper(cost(m), cost(o)) \/ (cost(m) = cost(o) /\ Before(m, o))
           R == {mo \in C \X C : Under(mo[1], mo[2])}
           p == Partition(groups, demand, edges, Nodes)
<1>1. p = CHOOSE m \in C : Best(m)
  BY DEF Partition
<1>2. \A m \in [groups -> Nodes] : cost(m) \in Costs
  BY ObjectiveOnTwo
<1>3. Min(groups) \in groups /\ Min(Nodes) = 0
  <2>1. Nodes \in SUBSET Nat /\ Nodes # {} /\ 0 \in Nodes
    BY DEF Nodes
  <2>2. Min(Nodes) \in Nodes /\ Min(Nodes) <= 0
    BY <2>1, MinOfSet
  <2>3. Min(groups) \in groups
    BY MinOfSet
  <2> QED
    BY <2>2, <2>3 DEF Nodes
<1>4. IsFiniteSet(C) /\ C # {} /\ C \subseteq [groups -> Nodes]
  <2>1. C \in SUBSET [groups -> Nodes]
    OBVIOUS
  <2>2. IsFiniteSet([groups -> Nodes])
    BY AssignmentsAreFinite, Zenon
  <2>3. [g \in groups |-> 0] \in [groups -> Nodes]
    BY DEF Nodes
  <2>4. [g \in groups |-> 0][Min(groups)] = Min(Nodes)
    BY <1>3
  <2>5. [g \in groups |-> 0] \in C
    BY <2>3, <2>4, Zenon
  <2> HIDE DEF C
  <2>6. IsFiniteSet(C)
    BY <2>1, <2>2, FS_Subset
  <2> QED
    BY <2>1, <2>5, <2>6
<1>5. \A m \in [groups -> Nodes] : m[Min(groups)] = 0 => m \in C
  BY <1>3
<1> HIDE DEF C, cost
<1>6. \A m, o \in C : <<m, o>> \in R <=> Under(m, o)
  OBVIOUS
<1>7. \A m \in C : Best(m) <=> \A o \in C \ {m} : Under(o, m)
  OBVIOUS
<1> HIDE DEF R
<1>8. \A m, o \in C : m # o => <<m, o>> \in R \/ <<o, m>> \in R
  <2> SUFFICES ASSUME NEW m \in C, NEW o \in C, m # o
               PROVE  Under(m, o) \/ Under(o, m)
    BY <1>6
  <2>1. m \in [groups -> Nodes] /\ o \in [groups -> Nodes]
    BY <1>4
  <2>2. cost(m) \in Costs /\ cost(o) \in Costs
    BY <1>2, <2>1
  <2>3. Before(m, o) \/ Before(o, m)
    BY <2>1, BeforeIsTotal
  <2> QED
    BY <2>2, <2>3, CheaperIsTotal
<1>9. \A m, o, q \in C : <<m, o>> \in R /\ <<o, q>> \in R => <<m, q>> \in R
  <2> SUFFICES ASSUME NEW m \in C, NEW o \in C, NEW q \in C, Under(m, o), Under(o, q)
               PROVE  Under(m, q)
    BY <1>6
  <2>1. m \in [groups -> Nodes] /\ o \in [groups -> Nodes] /\ q \in [groups -> Nodes]
    BY <1>4
  <2>2. cost(m) \in Costs /\ cost(o) \in Costs /\ cost(q) \in Costs
    BY <1>2, <2>1
  <2>3. Before(q, o) /\ Before(o, m) => Before(q, m)
    BY <2>1, BeforeIsTotal
  <2> QED
    BY <2>2, <2>3, CheaperIsTotal
<1>10. \E m \in C : \A o \in C \ {m} : <<o, m>> \in R
  <2>1. IsFiniteSet(C) /\ C # {}
    BY <1>4
  <2> HIDE DEF Best, Under, p, C, R, cost
  <2>2. Orders(R, C)
    BY <1>8, <1>9 DEF Orders
  <2>3. HasLast(R, C)
    BY <2>1, <2>2, LastExists
  <2> QED
    BY <2>3 DEF HasLast
<1>11. \E m \in C : Best(m)
  <2>1. PICK m \in C : \A o \in C \ {m} : <<o, m>> \in R
    BY <1>10
  <2>2. \A o \in C \ {m} : Under(o, m)
    BY <1>6, <2>1
  <2> QED
    BY <1>7, <2>2
<1>12. p \in C /\ Best(p)
  <2> HIDE DEF Best, p
  <2> QED
    BY <1>1, <1>11
<1>13. ASSUME NEW m \in [groups -> Nodes], m[Min(groups)] = 0
       PROVE  ~Cheaper(cost(m), cost(p))
  <2> HIDE DEF p
  <2>1. p \in [groups -> Nodes] /\ m \in C
    BY <1>4, <1>5, <1>12, <1>13
  <2>2. cost(p) \in Costs /\ cost(m) \in Costs
    BY <1>2, <2>1
  <2>3. m = p \/ Cheaper(cost(p), cost(m)) \/ cost(p) = cost(m)
    BY <1>12, <2>1
  <2> QED
    BY <2>2, <2>3, CheaperIsTotal
<1> QED
  BY <1>4, <1>12, <1>13 DEF cost

\* The partition puts every group on a node.
LEMMA PartitionAssigns ==
  ASSUME NEW groups \in SUBSET Nat, IsFiniteSet(groups), groups # {},
         NEW demand \in [groups -> Nat], NEW edges \in Edges(groups),
         NEW nodes \in {{0}, Nodes}
  PROVE  Partition(groups, demand, edges, nodes) \in [groups -> nodes]
<1>1. CASE nodes = Nodes
  BY <1>1, PartitionIsLeast
<1>2. CASE nodes = {0}
  <2> DEFINE C == {m \in [groups -> nodes] : m[Min(groups)] = Min(nodes)}
             cost(m) == Objective(m, demand, edges, nodes)
             Best(m) == \A o \in C \ {m} :
                          Cheaper(cost(m), cost(o)) \/ (cost(m) = cost(o) /\ Before(m, o))
             p == Partition(groups, demand, edges, nodes)
             z == [g \in groups |-> 0]
  <2>1. p = CHOOSE m \in C : Best(m)
    BY DEF Partition
  <2>2. Min(groups) \in groups /\ Min(nodes) = 0
    <3>1. {0} \in SUBSET Nat /\ {0} # {}
      OBVIOUS
    <3>2. Min({0}) \in {0}
      BY <3>1, MinOfSet
    <3> QED
      BY <1>2, <3>2, MinOfSet
  <2>3. \A m \in C : m = z
    BY <1>2
  <2>4. z \in C
    BY <1>2, <2>2
  <2>5. C \subseteq [groups -> nodes]
    OBVIOUS
  <2> HIDE DEF C, z, cost
  <2>6. Best(z)
    BY <2>3
  <2> HIDE DEF Best
  <2>7. p \in C
    BY <2>1, <2>4, <2>6
  <2> QED
    BY <2>5, <2>7
<1> QED
  BY <1>1, <1>2

\* What is too much on a node in the chosen assignment weighs no more than any
\* assignment does.
LEMMA OverloadIsPaid ==
  ASSUME NEW groups \in SUBSET Nat, IsFiniteSet(groups), groups # {},
         NEW demand \in [groups -> Nat], NEW edges \in Edges(groups),
         NEW o \in [groups -> Nodes], NEW n \in Nodes
  PROVE  Square(Over(Load(Partition(groups, demand, edges, Nodes), demand, n)))
           <= Objective(o, demand, edges, Nodes).whole
<1>0. \E m \in [groups -> Nodes] : Exchange(groups, demand, edges, o, m)
  BY Exchanged
<1> DEFINE p == Partition(groups, demand, edges, Nodes)
           cost(m) == Objective(m, demand, edges, Nodes)
<1>1. /\ p \in [groups -> Nodes]
      /\ \A m \in [groups -> Nodes] : m[Min(groups)] = 0 => ~Cheaper(cost(m), cost(p))
  BY PartitionIsLeast
<1> HIDE DEF p
<1>2. Min(groups) \in groups
  BY MinOfSet
<1>3. \A m \in [groups -> Nodes] :
        /\ cost(m) = CostOf(Load(m, demand, 0), Load(m, demand, 1), CutOf(m, edges))
        /\ cost(m) \in Costs
        /\ \A k \in Nodes : Square(Over(Load(m, demand, k))) <= cost(m).whole
  BY ObjectiveOnTwo
<1>4. \E m \in [groups -> Nodes] : m[Min(groups)] = 0 /\ cost(m) = cost(o)
  <2>1. CASE o[Min(groups)] = 0
    BY <2>1
  <2>2. CASE o[Min(groups)] = 1
    <3>1. PICK m \in [groups -> Nodes] : Exchange(groups, demand, edges, o, m)
      BY <1>0
    <3>2. m[Min(groups)] = 1 - 1
      <4>1. m[Min(groups)] = 1 - o[Min(groups)]
        BY <1>2, <3>1 DEF Exchange
      <4> QED
        BY <2>2, <4>1
    <3> DEFINE a == Load(o, demand, 0)
               b == Load(o, demand, 1)
    <3>3. cost(o) = CostOf(a, b, CutOf(o, edges)) /\ a \in Nat /\ b \in Nat
      <4>1. cost(o) = CostOf(a, b, CutOf(o, edges))
        BY <1>3
      <4>2. a \in Nat /\ b \in Nat
        BY LoadType DEF Nodes
      <4> QED
        BY <4>1, <4>2
    <3>4. cost(m) = CostOf(b, a, CutOf(o, edges))
      <4>1. cost(m) = CostOf(Load(m, demand, 0), Load(m, demand, 1), CutOf(m, edges))
        BY <1>3
      <4> QED
        BY <3>1, <4>1 DEF Exchange
    <3> HIDE DEF a, b
    <3>5. cost(m) = cost(o)
      BY <3>3, <3>4, CostIsSymmetric
    <3> QED
      BY <3>2, <3>5
  <2>3. o[Min(groups)] \in {0, 1}
    BY <1>2 DEF Nodes
  <2> QED
    BY <2>1, <2>2, <2>3
<1>5. PICK m \in [groups -> Nodes] : m[Min(groups)] = 0 /\ cost(m) = cost(o)
  BY <1>4
<1>6. ~Cheaper(cost(o), cost(p)) /\ cost(o) \in Costs /\ cost(p) \in Costs
  BY <1>1, <1>3, <1>5
<1>7. Square(Over(Load(p, demand, n))) <= cost(p).whole
  BY <1>1, <1>3
<1>8. Square(Over(Load(p, demand, n))) \in Nat
  <2>1. Load(p, demand, n) \in Nat
    BY <1>1, LoadType
  <2>2. Over(Load(p, demand, n)) \in Int
    BY <2>1, RoomType DEF Over, Atleast0
  <2> QED
    BY <2>2, SquareType
<1> HIDE DEF cost
<1>9. cost(p).whole <= cost(o).whole
  BY <1>6, CheaperIsTotal DEF Cheaper, Costs
<1>10. Square(Over(Load(p, demand, n))) <= cost(o).whole
  BY <1>6, <1>7, <1>8, <1>9 DEF Costs
<1> QED
  BY <1>10 DEF p, cost

-------------------------------------------------------------------------------
(***************************************************************************)
(* The rows.                                                               *)
(***************************************************************************)

\* What a candidate row promises.
Sound(groups, demand, home, edges, nodes, shards, cpus) ==
  /\ \A g \in groups : SumFunctionOnSet(shards[g], nodes) = demand[g]
  /\ \A n \in nodes :
       /\ SumFunction([g \in groups |-> shards[g][n]]) <= Room
       /\ \A g, h \in groups : g # h => cpus[n][g] \cap cpus[n][h] = {}
       /\ \A g \in groups : Covered(shards[g][n], cpus[n][g])
  /\ \A m \in [groups -> nodes] :
       (\A n \in nodes : Load(m, demand, n) <= Room) =>
         \A n \in nodes : Square(Away(groups, demand, home, shards, n))
                            <= Objective(m, demand, edges, nodes).whole

\* What is moved is at most the excess, and a number.
LEMMA AwayIsPaid ==
  ASSUME NEW groups \in SUBSET Nat, IsFiniteSet(groups), groups # {},
         NEW demand \in [groups -> Nat], NEW edges \in Edges(groups),
         NEW nodes \in {{0}, Nodes}, NEW o \in [groups -> nodes], NEW n \in nodes,
         NEW m, m = Partition(groups, demand, edges, nodes)
  PROVE  Square(Away(groups, demand, m, Split(m, demand, nodes).shards, n))
           <= Objective(o, demand, edges, nodes).whole
<1> DEFINE p == Split(m, demand, nodes)
           away == Away(groups, demand, m, p.shards, n)
<1>1. m \in [groups -> nodes]
  BY PartitionAssigns
<1>2. n \in Nodes /\ m \in [groups -> Nodes]
  BY <1>1 DEF Nodes
<1>3. /\ p \in Splits(groups, demand)
      /\ away + Over(p.loads[n]) = Over(Load(m, demand, n))
      /\ nodes = {0} => p.shards = Whole(m, demand)
  BY <1>1, <1>2, SplitKeeps DEF Excess
<1> HIDE DEF p
<1>4. /\ p.shards \in [groups -> [Nodes -> Nat]] /\ p.loads \in [Nodes -> Nat]
      /\ \A g \in groups : p.shards[g][0] + p.shards[g][1] = demand[g]
  BY <1>3 DEF Splits
<1>5. away \in Nat
  <2> DEFINE w == [g \in groups |-> demand[g] - p.shards[g][n]]
             A == {g \in groups : m[g] = n}
  <2>1. \A g \in groups : w[g] \in Nat
    <3> SUFFICES ASSUME NEW g \in groups PROVE w[g] \in Nat
      OBVIOUS
    <3>1. p.shards[g][0] \in Nat /\ p.shards[g][1] \in Nat /\ (n = 0 \/ n = 1)
      BY <1>2, <1>4 DEF Nodes
    <3>2. p.shards[g][0] + p.shards[g][1] = demand[g] /\ w[g] = demand[g] - p.shards[g][n]
      BY <1>4
    <3> HIDE DEF w
    <3> QED
      BY <3>1, <3>2
  <2>2. IsFiniteSet(A) /\ A \subseteq groups
    BY FS_Subset
  <2> HIDE DEF w, A
  <2>3. SumFunctionOnSet(w, A) \in Nat
    BY <2>1, <2>2, SumType
  <2> QED
    BY <2>3 DEF w, A, Away
<1>6. /\ Over(p.loads[n]) \in Nat /\ Over(Load(m, demand, n)) \in Nat
      /\ Objective(o, demand, edges, nodes).whole \in Nat \/ nodes = Nodes
  <2>1. p.loads[n] \in Nat /\ Load(m, demand, n) \in Nat
    BY <1>2, <1>4, LoadType
  <2>2. nodes = {0} => Objective(o, demand, edges, nodes).whole \in Nat
    BY ObjectiveOnOne
  <2> QED
    BY <2>1, <2>2, RoomType DEF Over, Atleast0
<1> HIDE DEF away
<1>7. away <= Over(Load(m, demand, n))
  BY <1>3, <1>5, <1>6
<1>8. CASE nodes = Nodes
  <2>1. Square(away) <= Square(Over(Load(m, demand, n)))
    BY <1>5, <1>6, <1>7, SquareGrows
  <2>2. Square(Over(Load(m, demand, n))) <= Objective(o, demand, edges, nodes).whole
    BY <1>2, <1>8, OverloadIsPaid
  <2>3. /\ Square(away) \in Nat /\ Square(Over(Load(m, demand, n))) \in Nat
        /\ Objective(o, demand, edges, nodes).whole \in Nat
    <3>1. Objective(o, demand, edges, Nodes) \in Costs
      BY <1>8, ObjectiveOnTwo
    <3> QED
      BY <1>5, <1>6, <1>8, <3>1, SquareType DEF Costs
  <2>4. Square(away) <= Objective(o, demand, edges, nodes).whole
    BY <2>1, <2>2, <2>3
  <2> QED
    BY <2>4 DEF away, p
<1>9. CASE nodes = {0}
  <2>1. away = 0
    <3> DEFINE w == [g \in groups |-> demand[g] - Whole(m, demand)[g][n]]
               A == {g \in groups : m[g] = n}
    <3>1. \A g \in A : Whole(m, demand)[g][n] = demand[g] /\ demand[g] \in Nat
      BY <1>2 DEF Whole
    <3>2. A \subseteq groups /\ \A g \in A : w[g] = demand[g] - Whole(m, demand)[g][n]
      OBVIOUS
    <3>3. away = SumFunctionOnSet(w, A)
      <4>1. away = Away(groups, demand, m, Whole(m, demand), n)
        BY <1>3, <1>9 DEF away
      <4> QED
        BY <4>1 DEF Away
    <3> HIDE DEF w, A
    <3>4. \A g \in A : w[g] = 0
      BY <3>1, <3>2
    <3>5. IsFiniteSet(A)
      BY <3>2, FS_Subset
    <3> QED
      BY <3>3, <3>4, <3>5, SumZero
  <2>2. Square(away) = 0
    BY <2>1 DEF Square
  <2>3. Objective(o, demand, edges, nodes).whole \in Nat
    BY <1>9, ObjectiveOnOne
  <2>4. Square(away) <= Objective(o, demand, edges, nodes).whole
    BY <2>2, <2>3
  <2> QED
    BY <2>4 DEF away, p
<1> QED
  BY <1>8, <1>9

\* The relations are finite and between groups of theirs.
LEMMA RelationType ==
  ASSUME NEW r \in Relations
  PROVE  /\ r.groups \in SUBSET Nat /\ IsFiniteSet(r.groups)
         /\ r.demand \in [r.groups -> Nat] /\ r.edges \in Edges(r.groups)
<1>1. r.groups \subseteq Groups
  BY PipelineAssumption
<1>2. Groups \subseteq Nat /\ IsFiniteSet(Groups)
  BY PlacementAssumption
<1>3. r.groups \in SUBSET Nat
  BY <1>1, <1>2
<1>4. r.groups \in SUBSET Groups
  BY <1>1
<1>5. IsFiniteSet(r.groups)
  BY <1>2, <1>4, FS_Subset
<1>6. r.demand \in [r.groups -> Nat]
  BY PipelineAssumption
<1>7. r.edges \in Edges(r.groups)
  <2>1. r.edges \in [DOMAIN r.edges -> 0 .. MaxScore]
    BY PipelineAssumption
  <2>2. DOMAIN r.edges \in SUBSET Pairs(r.groups)
    BY PipelineAssumption DEF Pairs
  <2> QED
    BY <2>1, <2>2 DEF Edges
<1> QED
  BY <1>3, <1>5, <1>6, <1>7

\* A candidate gives every group its demand, no node more than it has and no
\* CPU twice, and moves no more of a group than the overload it accepted.
LEMMA PlacementSound ==
  ASSUME NEW groups \in SUBSET Nat, IsFiniteSet(groups),
         NEW demand \in [groups -> Nat], NEW edges \in Edges(groups),
         NEW nodes \in {{0}, Nodes},
         NEW p, p = BuildPlacement(groups, demand, edges, nodes),
         p.status = "candidate"
  PROVE  Sound(DOMAIN p.demand, p.demand, p.home, p.edges, p.nodes, p.shards, p.cpus)
<1> DEFINE d == Raised(demand)
           m == Partition(groups, d, edges, nodes)
           split == Split(m, d, nodes)
           shards == split.shards
           given == [n \in nodes |-> Clusters(shards, n)]
<1>1. d \in [groups -> Nat] /\ DOMAIN d = groups
  BY DEF Raised, LeastDemand
<1> HIDE DEF d
<1>2. groups # {} /\ ~(Cardinality(groups) > MaxGroups)
  <2> HIDE DEF m, split, given
  <2> QED
    BY DEF BuildPlacement
<1>3. p = [status |-> IF \A n \in nodes : split.loads[n] <= Room /\ ~given[n].short
                      THEN "candidate" ELSE "capacity_infeasible",
           nodes  |-> nodes,
           edges  |-> edges,
           demand |-> d,
           home   |-> m,
           shards |-> shards,
           cpus   |-> [n \in nodes |-> given[n].cpus]]
  BY <1>2 DEF BuildPlacement, d
<1> HIDE DEF m, split
<1>4. \A n \in nodes : split.loads[n] <= Room /\ ~Clusters(shards, n).short
  <2> DEFINE fits == \A n \in nodes : split.loads[n] <= Room /\ ~given[n].short
  <2>1. p.status = IF fits THEN "candidate" ELSE "capacity_infeasible"
    BY <1>3
  <2>2. fits
    BY <2>1
  <2> QED
    BY <2>2
<1>5. /\ p.nodes = nodes /\ p.edges = edges /\ p.demand = d /\ p.home = m /\ p.shards = shards
      /\ \A n \in nodes : p.cpus[n] = Clusters(shards, n).cpus
  BY <1>3
<1> HIDE DEF given
<1>6. m \in [groups -> nodes]
  BY <1>1, <1>2, PartitionAssigns DEF m
<1>7. split \in Splits(groups, d) /\ (nodes = {0} => shards = Whole(m, d))
  BY <1>1, <1>6, SplitKeeps DEF split
<1>8. /\ shards \in [groups -> [Nodes -> Nat]]
      /\ \A g \in groups : shards[g][0] + shards[g][1] = d[g]
      /\ \A n \in Nodes : split.loads[n] = SumFunctionOnSet([g \in groups |-> shards[g][n]], groups)
  BY <1>7 DEF Splits
<1>9. nodes \subseteq Nodes
  BY DEF Nodes
<1>10. ASSUME NEW o \in [groups -> nodes], NEW n \in nodes
       PROVE  Square(Away(groups, d, m, shards, n)) <= Objective(o, d, edges, nodes).whole
  BY <1>1, <1>2, AwayIsPaid DEF m, split
<1> HIDE DEF shards
<1>11. ASSUME NEW g \in groups
       PROVE  SumFunctionOnSet(shards[g], nodes) = d[g]
  <2>1. shards[g][0] \in Nat /\ shards[g][1] \in Nat
    BY <1>8 DEF Nodes
  <2>2. CASE nodes = Nodes
    BY <1>8, <2>1, <2>2, SumOfNodes
  <2>3. CASE nodes = {0}
    <3>1. m[g] = 0 /\ DOMAIN m = groups
      BY <1>6, <2>3
    <3>2. shards[g][0] = d[g]
      BY <1>7, <2>3, <3>1 DEF Whole, Nodes
    <3> QED
      BY <2>1, <2>3, <3>2, SumOfNodes
  <2> QED
    BY <2>2, <2>3
<1>12. ASSUME NEW g \in groups, NEW n \in nodes
       PROVE  Covered(shards[g][n], p.cpus[n][g])
  <2>1. Covered(shards[g][n], Clusters(shards, n).cpus[g])
    BY <1>4, <1>8, <1>9, ClustersAreApart
  <2> QED
    BY <1>5, <2>1
<1>13. ASSUME NEW n \in nodes
       PROVE  SumFunction([g \in groups |-> shards[g][n]]) <= Room
  <2>1. SumFunction([g \in groups |-> shards[g][n]])
          = SumFunctionOnSet([g \in groups |-> shards[g][n]], groups)
    <3> DEFINE f == [g \in groups |-> shards[g][n]]
    <3>1. DOMAIN f = groups
      OBVIOUS
    <3> HIDE DEF f
    <3>2. SumFunction(f) = SumFunctionOnSet(f, groups)
      BY <3>1, Zenon DEF SumFunction
    <3> QED
      BY <3>2 DEF f
  <2>2. split.loads[n] = SumFunctionOnSet([g \in groups |-> shards[g][n]], groups)
    BY <1>8, <1>9
  <2> QED
    BY <1>4, <2>1, <2>2
<1>14. ASSUME NEW n \in nodes, NEW g \in groups, NEW h \in groups, g # h
       PROVE  p.cpus[n][g] \cap p.cpus[n][h] = {}
  <2>1. n \in Nodes
    BY <1>9
  <2>2. Clusters(shards, n).cpus[g] \cap Clusters(shards, n).cpus[h] = {}
    BY <1>8, <1>14, <2>1, ClustersAreApart
  <2> QED
    BY <1>5, <2>2
<1>15. Sound(groups, d, m, edges, nodes, shards, p.cpus)
  BY <1>10, <1>11, <1>12, <1>13, <1>14 DEF Sound
<1> QED
  BY <1>1, <1>5, <1>15

\* A row that is placed is a candidate only when it is sound.
LEMMA PlaceIsSound ==
  ASSUME NEW r \in Relations, NEW q, q = Place(r), q.status = "candidate"
  PROVE  Sound(DOMAIN q.demand, q.demand, q.home, q.edges, q.nodes, q.shards, q.cpus)
<1> DEFINE p == BuildPlacement(r.groups, r.demand, r.edges, AvailableNodes)
<1>1. AvailableNodes \in {{0}, Nodes}
  BY DEF AvailableNodes
<1>2. Placements[r][AvailableNodes] = p
  BY <1>1 DEF Placements
<1>3. /\ "status" \in DOMAIN p
      /\ p.status = "candidate" =>
           {"demand", "home", "edges", "nodes", "shards", "cpus"} \subseteq DOMAIN p
  BY DEF BuildPlacement
<1> HIDE DEF p
<1>4. q = [f \in DOMAIN p \cup {"source"} |-> IF f = "source" THEN latest.seqEnd ELSE p[f]]
  BY <1>2 DEF Place
<1>5. p.status = "candidate"
  BY <1>3, <1>4
<1>6. /\ q.demand = p.demand /\ q.home = p.home /\ q.edges = p.edges
      /\ q.nodes = p.nodes /\ q.shards = p.shards /\ q.cpus = p.cpus
  BY <1>3, <1>4, <1>5
<1>7. /\ r.groups \in SUBSET Nat /\ IsFiniteSet(r.groups)
      /\ r.demand \in [r.groups -> Nat] /\ r.edges \in Edges(r.groups)
  BY RelationType
<1>8. Sound(DOMAIN p.demand, p.demand, p.home, p.edges, p.nodes, p.shards, p.cpus)
  BY <1>1, <1>5, <1>7, PlacementSound DEF p
<1> QED
  BY <1>6, <1>8

\* What a row of the report says of the placement it was decided from.
SoundRow(q) ==
  q.status = "candidate" =>
    Sound(DOMAIN q.demand, q.demand, q.home, q.edges, q.nodes, q.shards, q.cpus)

\* The rows without a candidate.
LEMMA NoRowIsSound == SoundRow(NoRow)
BY DEF SoundRow, NoRow

\* A step writes a sound row or none.
LEMMA SoundStep == SoundRow(row) /\ [Next]_vars => SoundRow(row')
<1> SUFFICES ASSUME SoundRow(row), [Next]_vars PROVE SoundRow(row')
  OBVIOUS
<1>1. CASE row' = NoRow
  BY <1>1, NoRowIsSound
<1>2. CASE row' = row
  BY <1>2
<1>3. ASSUME NEW r \in Relations, Poll(r) PROVE SoundRow(row')
  <2> DEFINE q == Place(r)
  <2>1. row' = q
    BY <1>3 DEF Poll
  <2>2. SoundRow(q)
    BY PlaceIsSound DEF SoundRow
  <2> HIDE DEF q
  <2> QED
    BY <2>1, <2>2
<1>4. row' = NoRow \/ row' = row \/ \E r \in Relations : Poll(r)
  BY DEF Next, Agent, Listen, Publish, Close, Stop, Connect, ConnectEnds, Wait, ReadLine,
         ReadRaises, Replace, ReadEnds, Drain, Finish, Kill, Scale, Ended, vars
<1> QED
  BY <1>1, <1>2, <1>3, <1>4

-------------------------------------------------------------------------------
\* The invariant holds always.
LEMMA PipeInvariant == Spec => []PipeInv
BY InitPipe, PipeStep, PTL DEF Spec

(***************************************************************************)
(* The variables keep their types: the socket holds snapshots in number,   *)
(* the graph no window outside its horizon, and the files no row of a      *)
(* later graph than the one in memory (graph.py 303-344, agent.py 98-141). *)
(***************************************************************************)
THEOREM TypeCorrect == Spec => []TypeOK
<1>1. PipeInv => TypeOK
  BY DEF PipeInv
<1> QED
  BY <1>1, PipeInvariant, PTL

(***************************************************************************)
(* Whichever snapshots are lost, and whenever the analyzer is stopped or   *)
(* killed, a placement comes from a graph that observed at least the       *)
(* required share of the horizon: what is missing is counted in the        *)
(* confidence, since windows and missing snapshots are at least the span   *)
(* of the windows (graph.py 304-403, fine_placement.py 123-126).           *)
(***************************************************************************)
THEOREM PlacementsAreObserved == Spec => []PlacedIsObserved
<1>1. PipeInv => PlacedIsObserved
  BY DEF PipeInv
<1> QED
  BY <1>1, PipeInvariant, PTL

(***************************************************************************)
(* While the analyzer reads, the file that the controller polls is less    *)
(* than an emission behind the graph, and an analyzer that ended by itself *)
(* left the whole graph in it (agent.py 101-141).                          *)
(***************************************************************************)
THEOREM FileKeepsUp == Spec => []LatestKeepsUp
<1>1. PipeInv => LatestKeepsUp
  BY DEF PipeInv, Following, LatestKeepsUp
<1> QED
  BY <1>1, PipeInvariant, PTL

(***************************************************************************)
(* Whatever the groups and their demands, also those that differ by a      *)
(* thousandth of a CPU, a candidate placement gives each group its demand, *)
(* overfills no node and hands out no CPU twice.  A group has the CPUs of  *)
(* its part, but for what the last cluster of a node is short of; and what *)
(* was split although whole groups fit has an overload, and a square of    *)
(* it, that weighs no more than what the fitting assignment cuts and       *)
(* unbalances: the relief moves exactly what was too much, and the chosen  *)
(* assignment is the cheapest (fine_placement.py 14-55, 131-206).          *)
(***************************************************************************)
THEOREM PlacementsAreSound == Spec => []PlacementIsSound
<1> DEFINE Good == SoundRow(row)
<1>1. Init => Good
  BY NoRowIsSound DEF Init
<1>2. Good /\ [Next]_vars => Good'
  BY SoundStep
<1>3. Good => PlacementIsSound
  BY Zenon DEF SoundRow, PlacementIsSound, Sound, Covered, Away, MovedFrom
<1> HIDE DEF Good
<1> QED
  BY <1>1, <1>2, <1>3, PTL DEF Spec

===============================================================================
