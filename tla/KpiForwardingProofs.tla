------------------------- MODULE KpiForwardingProofs -------------------------
(***************************************************************************)
(* Proofs about the transport of KPI windows, for any number of windows,   *)
(* channels and faults.                                                    *)
(***************************************************************************)
EXTENDS KpiForwarding, TLAPS

Stored == Range(log)
Writing == {"append", "latest", "index"}

\* The store has the windows up to some number.
LogIsPrefix == \A w \in Stored : w <= written /\ 1..(w - 1) \subseteq Stored

\* Whatever a process believes to be stored is.
KnownIsStored ==
  /\ saved \subseteq Stored /\ fwd.acked \subseteq Stored /\ index \subseteq Stored
  /\ \A c \in Channels : recv[c].keys \subseteq Stored

\* The windows up to n, or the last ones of them, in their order.
InOrder(q, n) == Len(q) <= n /\ \A i \in 1..Len(q) : q[i] = n - Len(q) + i

\* The queue is the end of what was read; everything before is acknowledged.
QueueInOrder ==
  /\ fwd.position <= written
  /\ InOrder(fwd.pending, fwd.position)
  /\ 1..(fwd.position - Len(fwd.pending)) \subseteq fwd.acked

\* The window that is written to the state file next.
SavedIsBehind ==
  /\ fpc = "save" => \E w \in Stored : fwd.acked = saved \cup {w}
  /\ fpc \notin {"down", "save"} => fwd.acked = saved

\* Whatever is on its way into the store may be stored.
NextMayBeStored(w) == w <= written /\ 1..(w - 1) \subseteq Stored

ReceiverOrdered(c) ==
  LET r == recv[c] IN
  /\ r.inbox # 0 => NextMayBeStored(r.inbox)
  /\ r.row # 0 => NextMayBeStored(r.row) /\ r.inbox = 0
  /\ r.row # 0 <=> r.pc \in Writing
  /\ r.pc \in {"latest", "index"} => r.row \in Stored
  /\ r.answer # "none" => r.inbox = 0 /\ r.row = 0

\* Only the channel of the forwarder is open; between two answers it is quiet.
ChannelOrdered(c) ==
  LET r == recv[c]
      w == Head(fwd.pending)
  IN  r.linked =>
        /\ c = fwd.channel
        /\ fpc # "answer" => r.inbox = 0 /\ r.row = 0 /\ r.answer = "none"
        /\ fpc = "answer" =>
             /\ r.inbox \in {0, w} /\ r.row \in {0, w}
             /\ r.answer \in {"stored", "duplicate"} => w \in Stored

SendsHead == fpc = "answer" => fwd.pending # << >>

LineFits == partial => written < MaxWindows

ChannelGone == fpc \in {"down", "done"} => fwd.channel = NoChannel

Order ==
  /\ LogIsPrefix /\ KnownIsStored /\ QueueInOrder /\ SavedIsBehind
  /\ SendsHead /\ LineFits /\ ChannelGone
  /\ \A c \in Channels : ReceiverOrdered(c) /\ ChannelOrdered(c)

\* Two empty polls: the second one saw the whole file.
DrainOrdered ==
  /\ stop => ~partial
  /\ fwd.emptyPolls = 1 => stop /\ (fpc \notin {"down", "poll"} => fwd.position = written)
  /\ fpc = "done" => fwd.position = written /\ fwd.pending = << >> /\ stop

\* Without a fault on the way, one receiver writes at a time and the open one
\* knows the index.
CalmOrdered ==
  ~interrupted =>
    /\ IsInjective(log)
    /\ \A c \in Channels :
         /\ Ingesting(c) => recv[c].linked
         /\ recv[c].linked /\ recv[c].pc # "boot" => recv[c].keys = index
         /\ recv[c].linked => recv[c].pc # "gone"
         /\ recv[c].pc = "append" => recv[c].row \notin recv[c].keys
    /\ \A w \in Stored \ index :
         \E c \in Channels : recv[c].pc \in {"latest", "index"} /\ recv[c].row = w

-------------------------------------------------------------------------------
(* Sequences: what appending a row does to the log. *)

\* A row appended to kpi.jsonl joins the rows of before.
LEMMA RangeOfAppend ==
  ASSUME NEW S, NEW s \in Seq(S), NEW x \in S
  PROVE  Range(Append(s, x)) = Range(s) \cup {x}
<1>1. DOMAIN s = 1..Len(s) /\ Len(s) \in Nat
  OBVIOUS
<1>2. /\ DOMAIN Append(s, x) = 1..(Len(s) + 1)
      /\ \A i \in 1..Len(s) : Append(s, x)[i] = s[i]
      /\ Append(s, x)[Len(s) + 1] = x
  OBVIOUS
<1>3. 1..(Len(s) + 1) = 1..Len(s) \cup {Len(s) + 1}
  BY <1>1
<1>4. QED
  <2> DEFINE t == Append(s, x)
  <2>1. /\ DOMAIN t = DOMAIN s \cup {Len(s) + 1}
        /\ \A i \in DOMAIN s : t[i] = s[i]
        /\ t[Len(s) + 1] = x
    BY <1>1, <1>2, <1>3
  <2> HIDE DEF t
  <2>2. Range(t) = Range(s) \cup {x}
    <3> DEFINE n == Len(s) + 1
    <3>1. DOMAIN t = DOMAIN s \cup {n} /\ t[n] = x
      BY <2>1
    <3> HIDE DEF n
    <3>2. ASSUME NEW y \in Range(t) PROVE y \in Range(s) \cup {x}
      <4>1. PICK i \in DOMAIN t : y = t[i]
        BY DEF Range
      <4>2. CASE i \in DOMAIN s
        BY <2>1, <4>1, <4>2 DEF Range
      <4>3. CASE i = n
        BY <3>1, <4>1, <4>3
      <4> QED
        BY <3>1, <4>1, <4>2, <4>3
    <3>3. ASSUME NEW i \in DOMAIN s PROVE s[i] \in Range(t)
      BY <2>1, <3>1 DEF Range
    <3>4. x \in Range(t)
      BY <3>1 DEF Range
    <3>5. Range(s) \subseteq Range(t)
      BY <3>3 DEF Range
    <3> QED
      BY <3>2, <3>4, <3>5
  <2> QED
    BY <2>2 DEF t

\* A sequence holds members of its set.
LEMMA RangeOfTyped ==
  ASSUME NEW S, NEW s \in Seq(S)
  PROVE  Range(s) \subseteq S
BY DEF Range

\* A new row keeps the rows distinct.
LEMMA AppendNewIsInjective ==
  ASSUME NEW S, NEW s \in Seq(S), NEW x \in S, IsInjective(s), x \notin Range(s)
  PROVE  IsInjective(Append(s, x))
<1>1. DOMAIN s = 1..Len(s) /\ Len(s) \in Nat
  OBVIOUS
<1>2. \A i \in 1..Len(s) : s[i] # x
  BY <1>1 DEF Range
<1>3. QED
  BY <1>1, <1>2 DEF IsInjective

\* The windows a poll reads join the queue at its end.
LEMMA QueueGrows ==
  ASSUME NEW q \in Seq(Windows), NEW n \in 0..MaxWindows, NEW m \in 0..MaxWindows,
         MaxWindows \in Nat
  PROVE  q \o [i \in 1..(n - m) |-> m + i] \in Seq(Windows)
<1>1. [i \in 1..(n - m) |-> m + i] \in Seq(Windows)
  <2>1. CASE n - m \in Nat
    BY <2>1 DEF Windows
  <2>2. CASE n - m \notin Nat
    <3>1. 1..(n - m) = 1..0
      BY <2>2
    <3>2. QED
      BY <3>1
  <2>3. QED
    BY <2>1, <2>2
<1>2. QED
  BY <1>1

-------------------------------------------------------------------------------
(* Type correctness. *)

Forwarders ==
  [channel : Channels \cup {NoChannel}, pending : Seq(Windows),
   acked : SUBSET Windows, position : 0..MaxWindows, emptyPolls : 0..1,
   progressed : BOOLEAN]

\* A receiver stays one when a field of it is replaced.
LEMMA ReceiverUpdate ==
  ASSUME NEW r \in Receivers
  PROVE  /\ \A p \in {"gone", "boot", "idle", "append", "latest", "index"} :
              [r EXCEPT !.pc = p] \in Receivers
         /\ \A b \in BOOLEAN : [r EXCEPT !.linked = b] \in Receivers
         /\ \A w \in Windows \cup {0} : [r EXCEPT !.inbox = w] \in Receivers
         /\ \A w \in Windows \cup {0} : [r EXCEPT !.row = w] \in Receivers
         /\ \A S \in SUBSET Windows : [r EXCEPT !.keys = S] \in Receivers
         /\ \A a \in {"none", "stored", "duplicate", "error"} :
              [r EXCEPT !.answer = a] \in Receivers
  BY DEF Receivers

\* Closing the connection leaves the receivers as they are typed.
LEMMA ClosedReceivers ==
  ASSUME recv \in [Channels -> Receivers], NEW c
  PROVE  Closed(c) \in [Channels -> Receivers]
<1>1. ASSUME NEW d \in Channels
      PROVE  (IF d = c THEN [recv[d] EXCEPT !.linked = FALSE] ELSE recv[d]) \in Receivers
  <2>1. recv[d] \in Receivers
    OBVIOUS
  <2>2. [recv[d] EXCEPT !.linked = FALSE] \in Receivers
    BY <2>1, ReceiverUpdate
  <2> QED
    BY <2>1, <2>2
<1> QED
  BY <1>1 DEF Closed

\* Every step keeps the types; Order says which rows and lines are windows.
LEMMA TypeStep ==
  ASSUME TypeOK, Order, [Next]_vars
  PROVE  TypeOK'
<1> DEFINE Typed == fwd' \in Forwarders /\ recv' \in [Channels -> Receivers]
<1> DEFINE NewPending == fwd.pending \o [i \in 1..(written - fwd.position) |-> fwd.position + i]
<1>1. MaxWindows \in Nat /\ fwd \in Forwarders /\ recv \in [Channels -> Receivers]
  BY ForwardingAssumption DEF TypeOK, Forwarders
<1>2. CASE Application
  <2>1. CASE BeginWindow
    BY <2>1 DEF BeginWindow, fault, store, TypeOK
  <2>2. CASE EndWindow
    <3>1. written' \in 0..MaxWindows
      BY <1>1, <2>2 DEF EndWindow, Order, LineFits, TypeOK
    <3>2. QED
      BY <2>2, <3>1 DEF EndWindow, fault, store, TypeOK
  <2>3. CASE TouchStop
    BY <2>3 DEF TouchStop, fault, store, TypeOK
  <2>4. QED
    BY <1>2, <2>1, <2>2, <2>3 DEF Application
<1>3. CASE StartForwarder
  <2>1. fwd' = [channel |-> NoChannel, pending |-> << >>, acked |-> saved, position |-> 0,
                emptyPolls |-> 0, progressed |-> FALSE]
    BY <1>3 DEF StartForwarder, Idle
  <2>2. fwd' \in Forwarders
    BY <1>1, <2>1 DEF Forwarders, TypeOK
  <2>3. QED
    BY <1>3, <2>2 DEF StartForwarder, Forwarders, TypeOK, input, store, fault
<1>4. ASSUME NEW c \in Channels \cup {NoChannel}
      PROVE  Closed(c) \in [Channels -> Receivers]
  BY <1>1, ClosedReceivers
<1>5. Idle \in Forwarders
  BY <1>1 DEF Idle, Forwarders
<1>6. CASE Forwarder
  <2>1. Typed /\ fpc' \in {"down", "poll", "send", "answer", "save", "check", "done"}
        /\ saved' \in SUBSET Windows
    <3>1. CASE Poll /\ partial
      BY <1>1, <1>4, <1>5, <3>1 DEF Poll, Forwarders, TypeOK
    <3>2. CASE Poll /\ ~partial
      <4>1. NewPending \in Seq(Windows)
        <5>1. fwd.pending \in Seq(Windows) /\ written \in 0..MaxWindows
              /\ fwd.position \in 0..MaxWindows
          BY <1>1 DEF TypeOK, Forwarders
        <5>2. QED
          BY <1>1, <5>1, QueueGrows, Zenon
      <4> HIDE DEF NewPending
      <4>2. fwd' = [channel |-> fwd.channel, pending |-> NewPending, acked |-> fwd.acked,
                    position |-> written, emptyPolls |-> fwd.emptyPolls, progressed |-> FALSE]
        BY <1>1, <3>2 DEF Poll, Forwarders, NewPending
      <4>3. QED
        BY <1>1, <3>2, <4>1, <4>2 DEF Poll, Forwarders, TypeOK
    <3>3. CASE Skip
      <4>1. Tail(fwd.pending) \in Seq(Windows)
        BY <1>1, <3>3 DEF Skip, Forwarders
      <4>2. fwd' = [channel |-> fwd.channel, pending |-> Tail(fwd.pending), acked |-> fwd.acked,
                    position |-> fwd.position, emptyPolls |-> fwd.emptyPolls,
                    progressed |-> fwd.progressed]
        BY <1>1, <3>3 DEF Skip, Forwarders
      <4>3. QED
        BY <1>1, <3>3, <4>1, <4>2 DEF Skip, Forwarders, TypeOK
    <3>4. CASE Send
      <4>1. Head(fwd.pending) \in Windows
        BY <1>1, <3>4 DEF Send, Forwarders
      <4>2. CASE Connected
        <5>1. PICK c \in Channels : recv' = [recv EXCEPT ![c].inbox = Head(fwd.pending)]
          BY <1>1, <3>4, <4>2 DEF Send, Connected, Forwarders
        <5>2. recv' \in [Channels -> Receivers]
          BY <1>1, <4>1, <5>1 DEF Receivers
        <5>3. QED
          BY <1>1, <3>4, <4>2, <5>2 DEF Send, TypeOK
      <4>3. CASE ~Connected
        <5>1. PICK c \in Channels :
                /\ recv' = [Closed(fwd.channel) EXCEPT
                             ![c] = Opened(Head(fwd.pending))]
                /\ fwd' = [fwd EXCEPT !.channel = c]
          BY <3>4, <4>3 DEF Send
        <5>3. Opened(Head(fwd.pending)) \in Receivers
          BY <4>1 DEF Opened, Receivers
        <5>4. Closed(fwd.channel) \in [Channels -> Receivers]
          BY <1>1, <1>4 DEF Forwarders
        <5>5. recv' \in [Channels -> Receivers]
          BY <5>1, <5>3, <5>4
        <5>6. fwd' \in Forwarders
          BY <1>1, <5>1 DEF Forwarders
        <5>7. QED
          BY <3>4, <5>5, <5>6 DEF Send, TypeOK
      <4>4. QED
        BY <4>2, <4>3
    <3>5. CASE Answered
      <4>1. Head(fwd.pending) \in Windows /\ Tail(fwd.pending) \in Seq(Windows)
        BY <1>1, <3>5 DEF Answered, Forwarders, Order, SendsHead
      <4>2. fwd' = [channel |-> fwd.channel, pending |-> Tail(fwd.pending),
                    acked |-> fwd.acked \cup {Head(fwd.pending)},
                    position |-> fwd.position, emptyPolls |-> fwd.emptyPolls,
                    progressed |-> fwd.progressed]
        BY <1>1, <3>5 DEF Answered, Forwarders
      <4>3. fwd' \in Forwarders
        BY <1>1, <4>1, <4>2 DEF Forwarders
      <4>4. recv' \in [Channels -> Receivers]
        <5>1. PICK c \in Channels : recv' = [recv EXCEPT ![c].answer = "none"]
          BY <1>1, <3>5 DEF Answered, Connected, Forwarders
        <5>2. QED
          BY <1>1, <5>1 DEF Receivers
      <4>5. QED
        BY <3>5, <4>3, <4>4 DEF Answered, TypeOK
    <3>6. CASE SendFails
      BY <1>1, <1>4, <3>6 DEF SendFails, Forwarders, TypeOK
    <3>7. CASE Save
      BY <1>1, <3>7 DEF Save, Forwarders, TypeOK
    <3>8. CASE AllSent
      BY <1>1, <3>8 DEF AllSent, Forwarders, TypeOK
    <3>9. CASE Check
      <4>1. CASE EmptyPolls >= 2
        BY <1>1, <1>4, <3>9, <4>1 DEF Check, Forwarders, TypeOK
      <4>2. CASE ~(EmptyPolls >= 2)
        <5>1. EmptyPolls \in 0..1
          BY <1>1, <4>2 DEF EmptyPolls, Forwarders
        <5>2. QED
          BY <1>1, <3>9, <4>2, <5>1 DEF Check, Forwarders, TypeOK
      <4>3. QED
        BY <4>1, <4>2
    <3>10. QED
      BY <1>6, <3>1, <3>2, <3>3, <3>4, <3>5, <3>6, <3>7, <3>8, <3>9 DEF Forwarder
  <2>2. UNCHANGED <<input, store, fault>>
    BY <1>6 DEF Forwarder, Poll, Skip, Send, Answered, SendFails, Save, AllSent, Check
  <2>3. QED
    BY <2>1, <2>2 DEF Forwarders, TypeOK, input, store, fault
<1>7. ASSUME NEW c \in Channels, Receiver(c)
      PROVE  TypeOK'
  <2> DEFINE r == recv[c]
  <2>1. r \in Receivers
    BY <1>1
  <2>2. CASE Boot(c)
    <3>1. [[r EXCEPT !.pc = "idle"] EXCEPT !.keys = index] \in Receivers
      BY <2>1, ReceiverUpdate DEF TypeOK
    <3>2. [r EXCEPT !.pc = "idle", !.keys = index] \in Receivers
      BY <3>1
    <3>3. recv' = [recv EXCEPT ![c] = [r EXCEPT !.pc = "idle", !.keys = index]]
      BY <2>2 DEF Boot
    <3>4. QED
      BY <1>1, <2>2, <3>2, <3>3 DEF Boot, TypeOK, input, store, fault
  <2>3. CASE Receive(c)
    <3>1. PICK q \in Receivers : recv' = [recv EXCEPT ![c] = q]
      <4>1. CASE r.inbox \in rejected
        BY <2>1, <2>3, <4>1 DEF Receive, Receivers
      <4>2. CASE r.inbox \notin rejected /\ r.inbox \in r.keys
        BY <2>1, <2>3, <4>2 DEF Receive, Receivers
      <4>3. CASE r.inbox \notin rejected /\ r.inbox \notin r.keys
        BY <2>1, <2>3, <4>3 DEF Receive, Receivers
      <4>4. QED
        BY <4>1, <4>2, <4>3
    <3>2. recv' \in [Channels -> Receivers]
      BY <1>1, <3>1
    <3>3. QED
      BY <2>3, <3>2 DEF Receive, TypeOK, input, store, fault
  <2>4. CASE AppendRow(c)
    <3>1. r.row \in Windows
      BY <2>1, <2>4 DEF AppendRow, Order, ReceiverOrdered, Writing, Receivers
    <3>2. recv' \in [Channels -> Receivers]
      BY <1>1, <2>1, <2>4, ReceiverUpdate DEF AppendRow
    <3>3. log' \in Seq(Windows)
      BY <2>4, <3>1 DEF AppendRow, TypeOK
    <3>4. QED
      BY <2>4, <3>2, <3>3 DEF AppendRow, TypeOK, input, fault
  <2>5. CASE WriteLatest(c)
    <3>1. recv' \in [Channels -> Receivers]
      BY <1>1, <2>1, <2>5, ReceiverUpdate DEF WriteLatest
    <3>2. latest' \in Windows \cup {0}
      <4>1. latest' = recv[c].row
        BY <2>5 DEF WriteLatest
      <4>2. r.row \in Windows \cup {0}
        BY <2>1 DEF Receivers
      <4>3. QED
        BY <4>1, <4>2
    <3>3. QED
      BY <2>5, <3>1, <3>2 DEF WriteLatest, TypeOK, input, fault
  <2>6. CASE WriteIndex(c)
    <3>1. r.row \in Windows
      BY <2>1, <2>6 DEF WriteIndex, Order, ReceiverOrdered, Writing, Receivers
    <3>2. index' \in SUBSET Windows
      BY <2>1, <2>6, <3>1 DEF WriteIndex, Receivers
    <3>3. [[[[r EXCEPT !.pc = "idle"] EXCEPT !.keys = index'] EXCEPT !.row = 0]
             EXCEPT !.answer = "stored"] \in Receivers
      BY <2>1, <3>2, ReceiverUpdate
    <3>4. recv' \in [Channels -> Receivers]
      BY <1>1, <2>6, <3>3 DEF WriteIndex
    <3>5. QED
      BY <2>6, <3>2, <3>4 DEF WriteIndex, TypeOK, input, fault
  <2>7. CASE Leave(c)
    <3>1. Gone \in Receivers
      BY DEF Gone, Receivers
    <3>2. QED
      BY <1>1, <2>7, <3>1 DEF Leave, TypeOK, input, store, fault
  <2>8. QED
    BY <1>7, <2>2, <2>3, <2>4, <2>5, <2>6, <2>7 DEF Receiver
<1>8. CASE Fault
  <2>1. Gone \in Receivers
    BY DEF Gone, Receivers
  <2>2. ASSUME NEW c \in Channels, Break(c) \/ ReceiverDies(c)
        PROVE  recv' \in [Channels -> Receivers]
    <3> DEFINE r == recv[c]
    <3>0. r \in Receivers
      BY <1>1
    <3>1. CASE ReceiverDies(c)
      BY <1>1, <2>1, <3>1 DEF ReceiverDies
    <3>2. CASE Break(c)
      <4>1. PICK line \in {0, recv[c].inbox} :
              recv' = [recv EXCEPT ![c].linked = FALSE, ![c].inbox = line]
        BY <3>2 DEF Break
      <4>2. line \in Windows \cup {0}
        BY <1>1 DEF Receivers
      <4>3. [[r EXCEPT !.linked = FALSE] EXCEPT !.inbox = line] \in Receivers
        BY <3>0, <4>2, ReceiverUpdate
      <4>4. QED
        BY <1>1, <4>1, <4>3
    <3>3. QED
      BY <2>2, <3>1, <3>2
  <2>3. ASSUME NEW c \in Channels, Break(c) \/ ReceiverDies(c)
        PROVE  TypeOK'
    <3>1. faults' \in 0..MaxFaults /\ UNCHANGED <<input, saved, store, fpc, fwd>>
      BY <2>3, ForwardingAssumption DEF Break, ReceiverDies, Faulty, TypeOK
    <3>2. interrupted' \in BOOLEAN
      BY <2>3, Zenon DEF Break, ReceiverDies, Ingesting, TypeOK
    <3>3. QED
      BY <2>2, <2>3, <3>1, <3>2 DEF TypeOK, input, store
  <2>4. CASE ForwarderDies
    <3>1. Typed
      BY <1>1, <1>4, <1>5, <2>4 DEF ForwarderDies, Forwarders
    <3>2. QED
      BY <1>1, <2>4, <3>1, ForwardingAssumption
      DEF ForwarderDies, Faulty, Forwarders, TypeOK, input, store
  <2>5. QED
    BY <1>8, <2>3, <2>4 DEF Fault
<1>9. CASE UNCHANGED vars
  BY <1>9 DEF vars, TypeOK, input, store, fault
<1>10. QED
  BY <1>2, <1>3, <1>6, <1>7, <1>8, <1>9 DEF Next

-------------------------------------------------------------------------------
(* The order of the windows. *)

\* Closing a channel changes nothing but that channel's link.
LEMMA ClosedFields ==
  ASSUME NEW c, NEW d \in Channels, recv \in [Channels -> Receivers]
  PROVE  /\ Closed(c)[d].pc = recv[d].pc /\ Closed(c)[d].inbox = recv[d].inbox
         /\ Closed(c)[d].row = recv[d].row /\ Closed(c)[d].keys = recv[d].keys
         /\ Closed(c)[d].answer = recv[d].answer
         /\ Closed(c)[d].linked = (recv[d].linked /\ d # c)
  BY DEF Closed, Receivers

\* Only windows are stored.
LEMMA StoredTyped ==
  ASSUME TypeOK
  PROVE  Stored \subseteq Windows
<1>1. log \in Seq(Windows)
  BY DEF TypeOK
<1>2. QED
  BY <1>1, RangeOfTyped, Zenon DEF Stored

\* What the application does.
LEMMA OrderApplication ==
  ASSUME TypeOK, Order, Application
  PROVE  Order'
<1>1. written' \in Nat /\ written \in Nat /\ written <= written'
  BY DEF Application, BeginWindow, EndWindow, TouchStop, TypeOK
<1>2. UNCHANGED <<fpc, fwd, saved, recv, log, index>>
  BY DEF Application, BeginWindow, EndWindow, TouchStop, store
<1>3. fwd.position \in Nat
  BY DEF TypeOK
<1>4. LogIsPrefix' /\ \A w \in Windows : NextMayBeStored(w) => NextMayBeStored(w)'
  <2>1. Stored \subseteq Nat /\ Windows \subseteq Nat
    BY StoredTyped DEF Windows
  <2>2. QED
    BY <1>1, <1>2, <2>1 DEF Order, LogIsPrefix, NextMayBeStored, Stored
<1>5. KnownIsStored' /\ SavedIsBehind' /\ SendsHead' /\ ChannelGone'
  BY <1>2 DEF Order, ChannelGone, KnownIsStored, SavedIsBehind, SendsHead, Stored
<1>6. QueueInOrder'
  BY <1>1, <1>2, <1>3 DEF Order, QueueInOrder, InOrder
<1>7. LineFits'
  BY DEF Application, BeginWindow, EndWindow, TouchStop, Order, LineFits
<1>8. ASSUME NEW c \in Channels
      PROVE  (ReceiverOrdered(c) /\ ChannelOrdered(c))'
  <2>1. recv[c].inbox \in Windows \cup {0} /\ recv[c].row \in Windows \cup {0}
    BY DEF TypeOK, Receivers
  <2>2. QED
    BY <1>2, <1>4, <2>1 DEF Order, ReceiverOrdered, ChannelOrdered, Stored
<1>9. QED
  BY <1>4, <1>5, <1>6, <1>7, <1>8 DEF Order

\* A queue in order: what sending takes, what polling adds.

\* The oldest window of a queue in order, and the queue without it.
LEMMA FirstInOrder ==
  ASSUME NEW q \in Seq(Windows), NEW n \in Nat, InOrder(q, n), q # << >>
  PROVE  /\ Head(q) = n - Len(q) + 1
         /\ InOrder(Tail(q), n)
         /\ n - Len(Tail(q)) = Head(q)
         /\ 1..(n - Len(Tail(q))) = 1..(n - Len(q)) \cup {Head(q)}
<1>1. Len(q) \in Nat \ {0} /\ Head(q) = q[1]
  OBVIOUS
<1>2. Len(Tail(q)) = Len(q) - 1 /\ \A i \in 1..Len(Tail(q)) : Tail(q)[i] = q[i + 1]
  OBVIOUS
<1>3. Head(q) = n - Len(q) + 1
  BY <1>1 DEF InOrder
<1>4. InOrder(Tail(q), n)
  BY <1>1, <1>2 DEF InOrder
<1>5. QED
  BY <1>1, <1>2, <1>3, <1>4 DEF InOrder

\* What a poll reads continues a queue in order.
LEMMA MoreInOrder ==
  ASSUME NEW q \in Seq(Windows), NEW n \in Nat, NEW m \in Nat, InOrder(q, n), n <= m
  PROVE  LET more == q \o [i \in 1..(m - n) |-> n + i]
         IN  InOrder(more, m) /\ m - Len(more) = n - Len(q)
<1> DEFINE news == [i \in 1..(m - n) |-> n + i]
           more == q \o news
<1>0. m - n \in Nat
  OBVIOUS
<1>1. news \in Seq(Nat) /\ Len(news) = m - n
  <2>1. news \in [1..(m - n) -> Nat]
    OBVIOUS
  <2>2. news \in Seq(Nat)
    BY <1>0, <2>1
  <2>3. Len(news) = m - n
    BY <1>0
  <2>4. QED
    BY <2>2, <2>3
<1>2. q \in Seq(Nat)
  <2>1. Windows \subseteq Nat
    BY DEF Windows
  <2>2. q \in [1..Len(q) -> Windows] /\ Len(q) \in Nat
    OBVIOUS
  <2>3. q \in [1..Len(q) -> Nat]
    BY <2>1, <2>2
  <2>4. QED
    BY <2>2, <2>3
<1>3. /\ Len(more) = Len(q) + (m - n)
      /\ \A i \in 1..Len(more) : more[i] = IF i <= Len(q) THEN q[i] ELSE news[i - Len(q)]
  BY <1>0, <1>1, <1>2
<1>4. \A i \in 1..(m - n) : news[i] = n + i
  BY <1>0
<1> HIDE DEF news
<1>5. Len(q) \in Nat
  OBVIOUS
<1>6. ASSUME NEW i \in 1..Len(more)
      PROVE  more[i] = m - Len(more) + i
  <2>1. CASE i <= Len(q)
    BY <1>3, <1>5, <2>1 DEF InOrder
  <2>2. CASE i > Len(q)
    <3>1. i - Len(q) \in 1..(m - n)
      BY <1>3, <1>5, <2>2
    <3>2. more[i] = n + (i - Len(q))
      BY <1>3, <1>4, <1>5, <2>2, <3>1
    <3>3. QED
      BY <1>3, <1>5, <3>2
  <2>3. QED
    BY <1>3, <1>5, <2>1, <2>2
<1>7. QED
  BY <1>3, <1>5, <1>6 DEF InOrder, news

\* The forwarder leaves the file and the store alone.
LEMMA NotWritten ==
  ASSUME Order, UNCHANGED <<written, partial, log, index>>
  PROVE  /\ LogIsPrefix' /\ LineFits' /\ Stored' = Stored
         /\ \A w : NextMayBeStored(w)' = NextMayBeStored(w)
  BY DEF Order, LogIsPrefix, LineFits, Stored, NextMayBeStored

\* Each step of forward() keeps the order (kpi_forwarder.py 86-136).
LEMMA OrderForwarder ==
  ASSUME TypeOK, Order, Forwarder
  PROVE  Order'
<1> USE DEF Order
<1> DEFINE q == fwd.pending
           n == fwd.position
           Fine(c) == ReceiverOrdered(c) /\ ChannelOrdered(c)
<1>1. /\ q \in Seq(Windows) /\ n \in Nat /\ written \in Nat
      /\ fwd.channel \in Channels \cup {NoChannel}
      /\ recv \in [Channels -> Receivers]
      /\ fwd \in Forwarders
  BY DEF TypeOK, Forwarders
<1>2. UNCHANGED <<written, partial, log, index>>
  BY DEF Forwarder, Poll, Skip, Send, Answered, SendFails, Save, AllSent, Check, input, store
<1>3. /\ LogIsPrefix' /\ LineFits' /\ Stored' = Stored
      /\ \A w : NextMayBeStored(w)' = NextMayBeStored(w)
  BY <1>2, NotWritten
<1>4. q # << >> => /\ Head(q) = n - Len(q) + 1
                   /\ InOrder(Tail(q), n)
                   /\ 1..(n - Len(Tail(q))) = 1..(n - Len(q)) \cup {Head(q)}
  BY <1>1, FirstInOrder DEF QueueInOrder
\* Closing the channel of the forwarder closes every channel.
<1>5. ASSUME recv' = Closed(fwd.channel), fwd'.channel = NoChannel, NEW c \in Channels
      PROVE  Fine(c)'
  <2>1. /\ recv'[c].pc = recv[c].pc /\ recv'[c].inbox = recv[c].inbox
        /\ recv'[c].row = recv[c].row /\ recv'[c].answer = recv[c].answer
        /\ recv'[c].keys = recv[c].keys
        /\ recv'[c].linked = (recv[c].linked /\ c # fwd.channel)
    BY <1>1, <1>5, ClosedFields
  <2>2. ~recv'[c].linked
    BY <2>1 DEF ChannelOrdered
  <2>3. QED
    BY <1>3, <2>1, <2>2 DEF ReceiverOrdered, ChannelOrdered
<1>6. CASE Poll /\ partial
  <2>1. /\ fpc' = "down" /\ fwd' = Idle /\ recv' = Closed(fwd.channel)
        /\ UNCHANGED saved
    BY <1>6 DEF Poll
  <2>2. KnownIsStored'
    BY <1>1, <1>2, <1>3, <2>1, ClosedFields DEF KnownIsStored, Idle
  <2>3. QueueInOrder'
    BY <1>1, <1>2, <2>1 DEF QueueInOrder, InOrder, Idle
  <2>4. \A c \in Channels : Fine(c)'
    BY <1>5, <2>1 DEF Idle
  <2>5. QED
    BY <1>3, <2>1, <2>2, <2>3, <2>4 DEF SavedIsBehind, SendsHead, ChannelGone, Idle
<1>7. CASE Poll /\ ~partial
  <2> DEFINE more == q \o [i \in 1..(written - n) |-> n + i]
  <2>1. /\ fpc' = "send" /\ fpc = "poll" /\ fwd'.pending = more /\ fwd'.position = written
        /\ fwd'.acked = fwd.acked /\ fwd'.channel = fwd.channel
        /\ UNCHANGED <<recv, saved>>
    BY <1>1, <1>7 DEF Poll, Forwarders
  <2>2. InOrder(more, written) /\ written - Len(more) = n - Len(q)
    BY <1>1, MoreInOrder DEF QueueInOrder
  <2> HIDE DEF more
  <2>3. QueueInOrder'
    BY <1>1, <1>2, <2>1, <2>2 DEF QueueInOrder, InOrder
  <2>4. \A c \in Channels : Fine(c)'
    BY <1>3, <2>1 DEF ReceiverOrdered, ChannelOrdered
  <2>5. QED
    BY <1>2, <1>3, <2>1, <2>3, <2>4 DEF KnownIsStored, SavedIsBehind, SendsHead, ChannelGone
<1>8. CASE Skip
  <2>1. /\ fpc = "send" /\ fpc' = "send" /\ fwd'.pending = Tail(q) /\ fwd'.position = n
        /\ fwd'.acked = fwd.acked /\ fwd'.channel = fwd.channel
        /\ q # << >> /\ Head(q) \in fwd.acked
        /\ UNCHANGED <<recv, saved>>
    BY <1>1, <1>8 DEF Skip, Forwarders
  <2>2. QueueInOrder'
    BY <1>2, <1>4, <2>1 DEF QueueInOrder
  <2>3. \A c \in Channels : Fine(c)'
    BY <1>3, <2>1 DEF ReceiverOrdered, ChannelOrdered
  <2>4. QED
    BY <1>2, <1>3, <2>1, <2>2, <2>3 DEF KnownIsStored, SavedIsBehind, SendsHead, ChannelGone
<1>9. CASE Send
  <2> DEFINE w == Head(q)
  <2>1. /\ fpc = "send" /\ fpc' = "answer" /\ fwd'.pending = q /\ fwd'.position = n
        /\ fwd'.acked = fwd.acked /\ q # << >> /\ w \in Windows
        /\ UNCHANGED saved
    BY <1>1, <1>9 DEF Send, Forwarders
  <2>2. NextMayBeStored(w)
    <3>1. w = n - Len(q) + 1 /\ Len(q) \in Nat \ {0}
      BY <1>1, <1>4, <2>1
    <3>2. 1..(w - 1) = 1..(n - Len(q)) /\ w <= written
      BY <1>1, <3>1 DEF QueueInOrder
    <3>3. QED
      BY <3>2 DEF QueueInOrder, KnownIsStored, NextMayBeStored
  <2>3. QueueInOrder' /\ SavedIsBehind' /\ SendsHead' /\ ChannelGone'
    BY <1>2, <1>3, <2>1 DEF QueueInOrder, SavedIsBehind, SendsHead, ChannelGone
  <2>4. CASE Connected
    <3>1. /\ fwd'.channel = fwd.channel /\ fwd.channel \in Channels
          /\ recv[fwd.channel].linked
          /\ recv' = [recv EXCEPT ![fwd.channel].inbox = w]
      BY <1>1, <1>9, <2>4 DEF Send, Connected
    <3>2. \A c \in Channels :
            /\ recv'[c].pc = recv[c].pc /\ recv'[c].row = recv[c].row
            /\ recv'[c].keys = recv[c].keys /\ recv'[c].answer = recv[c].answer
            /\ recv'[c].linked = recv[c].linked
            /\ recv'[c].inbox = IF c = fwd.channel THEN w ELSE recv[c].inbox
      BY <1>1, <3>1 DEF Receivers
    <3>3. \A c \in Channels : Fine(c)'
      BY <1>3, <2>1, <2>2, <3>1, <3>2 DEF ReceiverOrdered, ChannelOrdered
    <3>4. KnownIsStored'
      BY <1>2, <1>3, <2>1, <3>2 DEF KnownIsStored
    <3>5. QED
      BY <1>3, <2>3, <3>3, <3>4
  <2>5. CASE ~Connected
    <3>1. PICK c \in Channels : /\ recv' = [Closed(fwd.channel) EXCEPT ![c] = Opened(w)]
                                /\ fwd'.channel = c
      BY <1>1, <1>9, <2>5 DEF Send, Forwarders
    <3>2. Closed(fwd.channel) \in [Channels -> Receivers]
      BY <1>1, ClosedReceivers
    <3>3. recv'[c] = Opened(w) /\ \A d \in Channels \ {c} : recv'[d] = Closed(fwd.channel)[d]
      BY <3>1, <3>2
    <3>4. Fine(c)'
      BY <1>3, <2>1, <2>2, <3>1, <3>3 DEF Opened, ReceiverOrdered, ChannelOrdered, Writing
    <3>5. ASSUME NEW d \in Channels \ {c}
          PROVE  Fine(d)' /\ recv'[d].keys = recv[d].keys
      <4>1. /\ recv'[d].pc = recv[d].pc /\ recv'[d].inbox = recv[d].inbox
            /\ recv'[d].row = recv[d].row /\ recv'[d].answer = recv[d].answer
            /\ recv'[d].keys = recv[d].keys
            /\ recv'[d].linked = (recv[d].linked /\ d # fwd.channel)
        BY <1>1, <3>3, ClosedFields
      <4>2. ~recv'[d].linked
        BY <4>1 DEF ChannelOrdered
      <4>3. QED
        BY <1>3, <4>1, <4>2 DEF ReceiverOrdered, ChannelOrdered
    <3>6. KnownIsStored'
      BY <1>2, <1>3, <2>1, <3>3, <3>5 DEF KnownIsStored, Opened
    <3>7. QED
      BY <1>3, <2>3, <3>4, <3>5, <3>6
  <2>6. QED
    BY <2>4, <2>5
<1>10. CASE Answered
  <2> DEFINE w == Head(q)
             c == fwd.channel
  <2>1. /\ fpc = "answer" /\ fpc' = "save" /\ fwd'.pending = Tail(q) /\ fwd'.position = n
        /\ fwd'.acked = fwd.acked \cup {w} /\ fwd'.channel = c
        /\ q # << >> /\ c \in Channels /\ recv[c].linked
        /\ recv[c].answer \in {"stored", "duplicate"}
        /\ recv' = [recv EXCEPT ![c].answer = "none"]
        /\ UNCHANGED saved
    BY <1>1, <1>10 DEF Answered, Connected, Forwarders, SendsHead
  <2>2. w \in Stored
    BY <2>1 DEF ChannelOrdered
  <2>3. QueueInOrder'
    BY <1>2, <1>4, <2>1 DEF QueueInOrder
  <2>4. \A d \in Channels :
            /\ recv'[d].pc = recv[d].pc /\ recv'[d].row = recv[d].row
            /\ recv'[d].keys = recv[d].keys /\ recv'[d].inbox = recv[d].inbox
            /\ recv'[d].linked = recv[d].linked
            /\ recv'[d].answer = IF d = c THEN "none" ELSE recv[d].answer
    BY <1>1, <2>1 DEF Receivers
  <2>5. \A d \in Channels : Fine(d)'
    BY <1>3, <2>1, <2>4 DEF ReceiverOrdered, ChannelOrdered
  <2>6. KnownIsStored' /\ SavedIsBehind'
    BY <1>2, <1>3, <2>1, <2>2, <2>4 DEF KnownIsStored, SavedIsBehind
  <2>7. QED
    BY <1>3, <2>1, <2>3, <2>5, <2>6 DEF SendsHead, ChannelGone
<1>11. CASE SendFails
  <2>1. /\ fpc = "answer" /\ fpc' = "check" /\ fwd'.pending = q /\ fwd'.position = n
        /\ fwd'.acked = fwd.acked /\ fwd'.channel = NoChannel
        /\ recv' = Closed(fwd.channel)
        /\ UNCHANGED saved
    BY <1>1, <1>11 DEF SendFails, Forwarders
  <2>2. KnownIsStored'
    BY <1>1, <1>2, <1>3, <2>1, ClosedFields DEF KnownIsStored
  <2>3. \A c \in Channels : Fine(c)'
    BY <1>5, <2>1
  <2>4. QED
    BY <1>2, <1>3, <2>1, <2>2, <2>3 DEF QueueInOrder, SavedIsBehind, SendsHead, ChannelGone
<1>12. CASE Save
  <2>1. /\ fpc = "save" /\ fpc' = "send" /\ saved' = fwd.acked /\ fwd'.pending = q
        /\ fwd'.position = n /\ fwd'.acked = fwd.acked /\ fwd'.channel = fwd.channel
        /\ UNCHANGED recv
    BY <1>1, <1>12 DEF Save, Forwarders
  <2>2. \A c \in Channels : Fine(c)'
    BY <1>3, <2>1 DEF ReceiverOrdered, ChannelOrdered
  <2>3. QED
    BY <1>2, <1>3, <2>1, <2>2
    DEF KnownIsStored, QueueInOrder, SavedIsBehind, SendsHead, ChannelGone
<1>13. CASE AllSent
  <2>1. fpc = "send" /\ fpc' = "check" /\ UNCHANGED <<fwd, saved, recv>>
    BY <1>13 DEF AllSent
  <2>2. \A c \in Channels : Fine(c)'
    BY <1>3, <2>1 DEF ReceiverOrdered, ChannelOrdered
  <2>3. QED
    BY <1>2, <1>3, <2>1, <2>2
    DEF KnownIsStored, QueueInOrder, SavedIsBehind, SendsHead, ChannelGone
<1>14. CASE Check
  <2>1. /\ fpc = "check" /\ fpc' \in {"done", "poll"} /\ fwd'.pending = q
        /\ fwd'.position = n /\ fwd'.acked = fwd.acked
        /\ UNCHANGED saved
        /\ \/ fpc' = "done" /\ fwd'.channel = NoChannel /\ recv' = Closed(fwd.channel)
           \/ fpc' = "poll" /\ fwd'.channel = fwd.channel /\ UNCHANGED recv
    BY <1>1, <1>14 DEF Check, Forwarders
  <2>2. \A c \in Channels : Fine(c)' /\ recv'[c].keys = recv[c].keys
    <3>1. CASE recv' = Closed(fwd.channel) /\ fwd'.channel = NoChannel
      BY <1>1, <1>5, <3>1, ClosedFields
    <3>2. CASE fpc' = "poll" /\ fwd'.channel = fwd.channel /\ UNCHANGED recv
      BY <1>3, <2>1, <3>2 DEF ReceiverOrdered, ChannelOrdered
    <3>3. QED
      BY <2>1, <3>1, <3>2
  <2>3. QED
    BY <1>2, <1>3, <2>1, <2>2
    DEF KnownIsStored, QueueInOrder, SavedIsBehind, SendsHead, ChannelGone
<1>15. QED
  BY <1>6, <1>7, <1>8, <1>9, <1>10, <1>11, <1>12, <1>13, <1>14 DEF Forwarder

\* A step of one receiver, or of what happens to it.
LEMMA OrderAtReceiver ==
  ASSUME TypeOK, Order, NEW c \in Channels, NEW r \in Receivers,
         recv' = [recv EXCEPT ![c] = r],
         UNCHANGED <<written, partial, fpc, fwd, saved>>,
         Stored \subseteq Stored', LogIsPrefix',
         index' \subseteq Stored', r.keys \subseteq Stored',
         (ReceiverOrdered(c) /\ ChannelOrdered(c))'
  PROVE  Order'
<1>1. /\ \A d \in Channels \ {c} : recv'[d] = recv[d]
      /\ recv'[c] = r
  BY DEF TypeOK
<1>2. written \in Nat
  BY DEF TypeOK
<1>3. \A w : NextMayBeStored(w) => NextMayBeStored(w)'
  BY DEF NextMayBeStored
<1>4. ASSUME NEW d \in Channels \ {c}
      PROVE  (ReceiverOrdered(d) /\ ChannelOrdered(d))'
  BY <1>1, <1>3 DEF Order, ReceiverOrdered, ChannelOrdered
<1>5. KnownIsStored'
  BY <1>1 DEF Order, KnownIsStored
<1>6. QueueInOrder' /\ SavedIsBehind' /\ SendsHead' /\ LineFits' /\ ChannelGone'
  BY DEF Order, QueueInOrder, InOrder, SavedIsBehind, SendsHead, LineFits, ChannelGone
<1>7. QED
  BY <1>4, <1>5, <1>6 DEF Order

\* Each step of a receiver keeps the order (kpi.py 25-75).
LEMMA OrderReceiver ==
  ASSUME TypeOK, Order, NEW c \in Channels, Receiver(c)
  PROVE  Order'
<1> DEFINE r == recv[c]
           w == Head(fwd.pending)
<1>1. r \in Receivers /\ r = recv[c] /\ log \in Seq(Windows) /\ recv \in [Channels -> Receivers]
  BY DEF TypeOK
<1>2. ReceiverOrdered(c) /\ ChannelOrdered(c) /\ KnownIsStored /\ LogIsPrefix
  BY DEF Order
<1>3. UNCHANGED <<written, partial, fpc, fwd, saved>>
  BY DEF Receiver, Boot, Receive, AppendRow, WriteLatest, WriteIndex, Leave, input
<1>4. CASE Boot(c)
  <2>1. PICK s \in Receivers : s = [r EXCEPT !.pc = "idle", !.keys = index]
    <3>1. [[r EXCEPT !.pc = "idle"] EXCEPT !.keys = index] \in Receivers
      BY <1>1, ReceiverUpdate DEF TypeOK
    <3>2. QED
      BY <3>1
  <2>2. /\ recv' = [recv EXCEPT ![c] = s] /\ recv'[c] = s /\ r.pc = "boot"
        /\ Stored' = Stored /\ UNCHANGED <<log, index>>
    BY <1>1, <1>4, <2>1 DEF Boot, store, Stored
  <2>3. /\ s.inbox = r.inbox /\ s.row = r.row /\ s.answer = r.answer
        /\ s.linked = r.linked /\ s.pc = "idle" /\ s.keys = index
    BY <1>1, <2>1 DEF Receivers
  <2>4. LogIsPrefix' /\ s.keys \subseteq Stored' /\ index' \subseteq Stored'
    BY <1>2, <1>3, <2>2, <2>3 DEF LogIsPrefix, KnownIsStored
  <2>5. (ReceiverOrdered(c) /\ ChannelOrdered(c))'
    BY <1>2, <1>3, <2>2, <2>3 DEF ReceiverOrdered, ChannelOrdered, NextMayBeStored, Writing
  <2>6. QED
    BY <1>3, <2>2, <2>4, <2>5, OrderAtReceiver

<1>5. CASE Receive(c)
  <2>1. PICK s \in Receivers :
          /\ recv' = [recv EXCEPT ![c] = s] /\ s.linked = r.linked /\ s.keys = r.keys
          /\ s.inbox = 0 /\ r.inbox # 0 /\ r.pc = "idle"
          /\ \/ s.row = r.row /\ s.pc = "idle" /\ s.answer = "error"
             \/ s.row = r.row /\ s.pc = "idle" /\ s.answer = "duplicate" /\ r.inbox \in r.keys
             \/ s.row = r.inbox /\ s.pc = "append" /\ s.answer = "none"
    <3>1. CASE r.inbox \in rejected
      <4> DEFINE s == [r EXCEPT !.inbox = 0, !.answer = "error"]
      <4>1. s \in Receivers
        BY <1>1 DEF Receivers
      <4>2. recv' = [recv EXCEPT ![c] = s] /\ r.inbox # 0 /\ r.pc = "idle"
        <5>1. r.inbox # 0 /\ r.pc = "idle"
          BY <1>5 DEF Receive
        <5>2. recv' = [recv EXCEPT ![c] = s]
          BY <1>5, <3>1, Zenon DEF Receive
        <5>3. QED
          BY <5>1, <5>2
      <4>3. /\ s.linked = r.linked /\ s.keys = r.keys /\ s.inbox = 0 /\ s.row = r.row
            /\ s.pc = r.pc /\ s.answer = "error"
        BY <1>1 DEF Receivers
      <4>4. QED
        BY <3>1, <4>1, <4>2, <4>3
    <3>2. CASE r.inbox \notin rejected /\ r.inbox \in r.keys
      <4> DEFINE s == [r EXCEPT !.inbox = 0, !.answer = "duplicate"]
      <4>1. s \in Receivers
        BY <1>1 DEF Receivers
      <4>2. recv' = [recv EXCEPT ![c] = s] /\ r.inbox # 0 /\ r.pc = "idle"
        BY <1>5, <3>2 DEF Receive
      <4>3. /\ s.linked = r.linked /\ s.keys = r.keys /\ s.inbox = 0 /\ s.row = r.row
            /\ s.pc = r.pc /\ s.answer = "duplicate"
        BY <1>1 DEF Receivers
      <4>4. QED
        BY <3>2, <4>1, <4>2, <4>3
    <3>3. CASE r.inbox \notin rejected /\ r.inbox \notin r.keys
      <4> DEFINE s == [r EXCEPT !.inbox = 0, !.row = r.inbox, !.pc = "append"]
      <4>1. s \in Receivers
        BY <1>1 DEF Receivers
      <4>2. recv' = [recv EXCEPT ![c] = s] /\ r.inbox # 0 /\ r.pc = "idle" /\ r.answer = "none"
        BY <1>5, <3>3 DEF Receive
      <4>3. /\ s.linked = r.linked /\ s.keys = r.keys /\ s.inbox = 0 /\ s.row = r.inbox
            /\ s.pc = "append" /\ s.answer = r.answer
        BY <1>1 DEF Receivers
      <4>4. QED
        BY <4>1, <4>2, <4>3
    <3>4. QED
      BY <3>1, <3>2, <3>3
  <2>2. recv'[c] = s /\ Stored' = Stored /\ UNCHANGED <<log, index>>
    BY <1>1, <1>5, <2>1 DEF Receive, store, Stored
  <2>3. LogIsPrefix' /\ s.keys \subseteq Stored' /\ index' \subseteq Stored'
    BY <1>2, <1>3, <2>1, <2>2 DEF LogIsPrefix, KnownIsStored
  <2>4. ReceiverOrdered(c)'
    BY <1>2, <1>3, <2>1, <2>2 DEF ReceiverOrdered, NextMayBeStored, Writing
  <2>5. ChannelOrdered(c)'
    BY <1>2, <1>3, <2>1, <2>2 DEF KnownIsStored, ReceiverOrdered, ChannelOrdered, Writing
  <2>6. QED
    BY <1>3, <2>1, <2>2, <2>3, <2>4, <2>5, OrderAtReceiver
<1>6. CASE AppendRow(c)
  <2>1. PICK s \in Receivers : s = [r EXCEPT !.pc = "latest"]
    BY <1>1, ReceiverUpdate
  <2>2. /\ recv' = [recv EXCEPT ![c] = s] /\ recv'[c] = s /\ r.pc = "append"
        /\ log' = Append(log, r.row) /\ UNCHANGED index
    BY <1>1, <1>6, <2>1 DEF AppendRow
  <2>3. /\ s.inbox = r.inbox /\ s.row = r.row /\ s.answer = r.answer
        /\ s.linked = r.linked /\ s.pc = "latest" /\ s.keys = r.keys
    BY <1>1, <2>1 DEF Receivers
  <2>4. r.row \in Windows /\ NextMayBeStored(r.row)
    BY <1>1, <1>2, <2>2 DEF ReceiverOrdered, Writing, Receivers
  <2>5. Stored' = Stored \cup {r.row}
    BY <1>1, <2>2, <2>4, RangeOfAppend DEF Stored
  <2>6. LogIsPrefix' /\ s.keys \subseteq Stored' /\ index' \subseteq Stored'
    BY <1>2, <1>3, <2>2, <2>3, <2>4, <2>5 DEF LogIsPrefix, KnownIsStored, NextMayBeStored
  <2>7. ReceiverOrdered(c)'
    BY <1>2, <1>3, <2>2, <2>3, <2>5 DEF ReceiverOrdered, NextMayBeStored, Writing
  <2>8. ChannelOrdered(c)'
    BY <1>2, <1>3, <2>2, <2>3, <2>5 DEF ChannelOrdered
  <2>9. QED
    BY <1>3, <2>2, <2>5, <2>6, <2>7, <2>8, OrderAtReceiver
<1>7. CASE WriteLatest(c)
  <2>1. PICK s \in Receivers : s = [r EXCEPT !.pc = "index"]
    BY <1>1, ReceiverUpdate
  <2>2. /\ recv' = [recv EXCEPT ![c] = s] /\ recv'[c] = s /\ r.pc = "latest"
        /\ Stored' = Stored /\ UNCHANGED <<log, index>>
    BY <1>1, <1>7, <2>1 DEF WriteLatest, Stored
  <2>3. /\ s.inbox = r.inbox /\ s.row = r.row /\ s.answer = r.answer
        /\ s.linked = r.linked /\ s.pc = "index" /\ s.keys = r.keys
    BY <1>1, <2>1 DEF Receivers
  <2>4. LogIsPrefix' /\ s.keys \subseteq Stored' /\ index' \subseteq Stored'
    BY <1>2, <1>3, <2>2, <2>3 DEF LogIsPrefix, KnownIsStored
  <2>5. (ReceiverOrdered(c) /\ ChannelOrdered(c))'
    BY <1>2, <1>3, <2>2, <2>3 DEF ReceiverOrdered, ChannelOrdered, NextMayBeStored, Writing
  <2>6. QED
    BY <1>3, <2>2, <2>4, <2>5, OrderAtReceiver
<1>8. CASE WriteIndex(c)
  <2>1. r.row \in Windows /\ r.row \in Stored /\ r.inbox = 0
    BY <1>1, <1>2, <1>8 DEF WriteIndex, ReceiverOrdered, Writing, Receivers
  <2>2. PICK s \in Receivers :
          s = [r EXCEPT !.pc = "idle", !.keys = index', !.row = 0, !.answer = "stored"]
    <3>1. index' \in SUBSET Windows
      BY <1>1, <1>8, <2>1 DEF WriteIndex, Receivers
    <3>2. [[[[r EXCEPT !.pc = "idle"] EXCEPT !.keys = index'] EXCEPT !.row = 0]
             EXCEPT !.answer = "stored"] \in Receivers
      BY <1>1, <3>1, ReceiverUpdate
    <3>3. QED
      BY <3>2
  <2>3. /\ recv' = [recv EXCEPT ![c] = s] /\ recv'[c] = s
        /\ Stored' = Stored /\ UNCHANGED log /\ index' = r.keys \cup {r.row}
    BY <1>1, <1>8, <2>2 DEF WriteIndex, Stored
  <2>4. /\ s.inbox = r.inbox /\ s.row = 0 /\ s.answer = "stored"
        /\ s.linked = r.linked /\ s.pc = "idle" /\ s.keys = index'
    BY <1>1, <2>2 DEF Receivers
  <2>5. LogIsPrefix' /\ s.keys \subseteq Stored' /\ index' \subseteq Stored'
    BY <1>2, <1>3, <2>1, <2>3, <2>4 DEF LogIsPrefix, KnownIsStored
  <2>6. ReceiverOrdered(c)'
    BY <2>1, <2>3, <2>4 DEF ReceiverOrdered, Writing
  <2>7. ChannelOrdered(c)'
    BY <1>2, <1>3, <2>1, <2>3, <2>4 DEF ChannelOrdered, Windows
  <2>8. QED
    BY <1>3, <2>3, <2>5, <2>6, <2>7, OrderAtReceiver
<1>9. CASE Leave(c)
  <2>1. /\ recv' = [recv EXCEPT ![c] = Gone] /\ recv'[c] = Gone /\ Gone \in Receivers
        /\ Stored' = Stored /\ UNCHANGED <<log, index>>
    BY <1>1, <1>9 DEF Leave, store, Stored, Gone, Receivers
  <2>2. LogIsPrefix' /\ Gone.keys \subseteq Stored' /\ index' \subseteq Stored'
    BY <1>2, <1>3, <2>1 DEF LogIsPrefix, KnownIsStored, Gone
  <2>3. (ReceiverOrdered(c) /\ ChannelOrdered(c))'
    BY <2>1 DEF Gone, ReceiverOrdered, ChannelOrdered, Writing
  <2>4. QED
    BY <1>3, <2>1, <2>2, <2>3, OrderAtReceiver
<1>10. QED
  BY <1>4, <1>5, <1>6, <1>7, <1>8, <1>9 DEF Receiver

\* A broken channel or a dead process keeps the order.
LEMMA OrderFault ==
  ASSUME TypeOK, Order, Fault
  PROVE  Order'
<1>1. /\ UNCHANGED <<written, partial, saved, log, index>>
      /\ recv \in [Channels -> Receivers] /\ log \in Seq(Windows)
  BY DEF Fault, Break, ReceiverDies, ForwarderDies, Faulty, input, store, TypeOK
<1>2. /\ LogIsPrefix' /\ LineFits' /\ Stored' = Stored
      /\ \A w : NextMayBeStored(w)' = NextMayBeStored(w)
  BY <1>1, NotWritten
<1>3. ASSUME NEW c \in Channels, Break(c)
      PROVE  Order'
  <2> DEFINE r == recv[c]
  <2>1. r \in Receivers
    BY <1>1
  <2>2. PICK line \in {0, r.inbox} :
          recv' = [recv EXCEPT ![c] = [r EXCEPT !.linked = FALSE, !.inbox = line]]
    BY <1>3 DEF Break
  <2>3. PICK s \in Receivers : s = [r EXCEPT !.linked = FALSE, !.inbox = line]
    <3>1. line \in Windows \cup {0}
      BY <2>1 DEF Receivers
    <3>2. [[r EXCEPT !.linked = FALSE] EXCEPT !.inbox = line] \in Receivers
      BY <2>1, <3>1, ReceiverUpdate
    <3>3. QED
      BY <3>2
  <2>4. recv' = [recv EXCEPT ![c] = s] /\ recv'[c] = s
    BY <1>1, <2>2, <2>3
  <2>5. /\ s.inbox = line /\ s.row = r.row /\ s.answer = r.answer
        /\ ~s.linked /\ s.pc = r.pc /\ s.keys = r.keys
    BY <2>1, <2>3 DEF Receivers
  <2>6. (ReceiverOrdered(c) /\ ChannelOrdered(c))'
    BY <1>2, <2>4, <2>5 DEF Order, ReceiverOrdered, ChannelOrdered
  <2>7. s.keys \subseteq Stored' /\ index' \subseteq Stored'
    BY <1>1, <1>2, <2>5 DEF Order, KnownIsStored
  <2>8. QED
    BY <1>1, <1>2, <1>3, <2>4, <2>6, <2>7, OrderAtReceiver DEF Break
<1>4. ASSUME NEW c \in Channels, ReceiverDies(c)
      PROVE  Order'
  <2>1. /\ recv' = [recv EXCEPT ![c] = Gone] /\ recv'[c] = Gone /\ Gone \in Receivers
        /\ UNCHANGED <<fpc, fwd>>
    BY <1>1, <1>4 DEF ReceiverDies, Gone, Receivers
  <2>2. Gone.keys \subseteq Stored' /\ index' \subseteq Stored'
    BY <1>1, <1>2 DEF Order, KnownIsStored, Gone
  <2>3. (ReceiverOrdered(c) /\ ChannelOrdered(c))'
    BY <2>1 DEF Gone, ReceiverOrdered, ChannelOrdered, Writing
  <2>4. QED
    BY <1>1, <1>2, <2>1, <2>2, <2>3, OrderAtReceiver
<1>5. CASE ForwarderDies
  <2>1. fpc' = "down" /\ fwd' = Idle /\ recv' = Closed(fwd.channel)
    BY <1>5 DEF ForwarderDies
  <2>2. ASSUME NEW c \in Channels
        PROVE  (ReceiverOrdered(c) /\ ChannelOrdered(c))' /\ recv'[c].keys = recv[c].keys
    <3>1. /\ recv'[c].pc = recv[c].pc /\ recv'[c].inbox = recv[c].inbox
          /\ recv'[c].row = recv[c].row /\ recv'[c].answer = recv[c].answer
          /\ recv'[c].keys = recv[c].keys
          /\ recv'[c].linked = (recv[c].linked /\ c # fwd.channel)
      BY <1>1, <2>1, ClosedFields
    <3>2. ~recv'[c].linked
      BY <3>1 DEF Order, ChannelOrdered
    <3>3. QED
      BY <1>2, <3>1, <3>2 DEF Order, ReceiverOrdered, ChannelOrdered
  <2>3. KnownIsStored'
    BY <1>1, <1>2, <2>1, <2>2 DEF Order, KnownIsStored, Idle
  <2>4. QueueInOrder'
    BY <1>1, <2>1 DEF QueueInOrder, InOrder, Idle, TypeOK
  <2>5. QED
    BY <1>2, <2>1, <2>2, <2>3, <2>4 DEF Order, SavedIsBehind, SendsHead, ChannelGone, Idle
<1>6. QED
  BY <1>3, <1>4, <1>5 DEF Fault

\* A forwarder started again keeps the order: it reads the file anew and
\* skips what the state file has.
LEMMA OrderStart ==
  ASSUME TypeOK, Order, StartForwarder
  PROVE  Order'
<1>1. /\ fwd' = [channel |-> NoChannel, pending |-> << >>, acked |-> saved, position |-> 0,
                 emptyPolls |-> 0, progressed |-> FALSE]
      /\ fpc = "down" /\ fpc' = "poll"
      /\ UNCHANGED <<written, partial, saved, recv, log, index>>
  BY DEF StartForwarder, Idle, input, store
<1>2. /\ LogIsPrefix' /\ LineFits' /\ Stored' = Stored
      /\ \A w : NextMayBeStored(w)' = NextMayBeStored(w)
  BY <1>1, NotWritten
<1>3. ASSUME NEW c \in Channels
      PROVE  (ReceiverOrdered(c) /\ ChannelOrdered(c))'
  <2>1. ~recv[c].linked
    BY <1>1, ForwardingAssumption DEF Order, ChannelGone, ChannelOrdered
  <2>2. QED
    BY <1>1, <1>2, <2>1 DEF Order, ReceiverOrdered, ChannelOrdered
<1>4. KnownIsStored' /\ SavedIsBehind' /\ SendsHead' /\ ChannelGone'
  BY <1>1, <1>2 DEF Order, KnownIsStored, SavedIsBehind, SendsHead, ChannelGone
<1>5. QueueInOrder'
  BY <1>1 DEF QueueInOrder, InOrder, TypeOK
<1>6. QED
  BY <1>2, <1>3, <1>4, <1>5 DEF Order

\* Every step keeps the order.
LEMMA OrderStep ==
  ASSUME TypeOK, Order, [Next]_vars
  PROVE  Order'
<1>1. CASE UNCHANGED vars
  <2>1. UNCHANGED <<written, partial, fpc, fwd, saved, recv, log, index>>
    BY <1>1 DEF vars, input, store
  <2>2. QED
    BY <2>1 DEF Order, LogIsPrefix, KnownIsStored, QueueInOrder, InOrder, SavedIsBehind,
                SendsHead, LineFits, ChannelGone, ReceiverOrdered, ChannelOrdered,
                NextMayBeStored, Stored
<1>2. QED
  BY <1>1, OrderApplication, OrderForwarder, OrderReceiver, OrderFault, OrderStart DEF Next

\* The order holds of an empty file and store.
LEMMA Initially ==
  ASSUME Init
  PROVE  TypeOK /\ Order
<1>1. TypeOK
  <2>1. Idle \in Forwarders /\ Gone \in Receivers /\ << >> \in Seq(Windows)
    BY ForwardingAssumption DEF Idle, Gone, Forwarders, Receivers
  <2>2. recv \in [Channels -> Receivers] /\ fwd \in Forwarders /\ log \in Seq(Windows)
    BY <2>1, Zenon DEF Init
  <2>3. written \in 0..MaxWindows /\ faults \in 0..MaxFaults
    BY ForwardingAssumption DEF Init
  <2>4. QED
    BY <2>2, <2>3 DEF Init, Forwarders, TypeOK
<1>2. Stored = {}
  BY DEF Init, Stored, Range
<1>3. QueueInOrder
  BY DEF Init, Idle, QueueInOrder, InOrder
<1>4. ASSUME NEW c \in Channels
      PROVE  ReceiverOrdered(c) /\ ChannelOrdered(c)
  BY DEF Init, Gone, ReceiverOrdered, ChannelOrdered, Writing
<1>5. QED
  BY <1>1, <1>2, <1>3, <1>4
  DEF Init, Idle, Gone, Order, LogIsPrefix, KnownIsStored, SavedIsBehind, SendsHead,
      LineFits, ChannelGone

-------------------------------------------------------------------------------
(* What follows. *)

(***************************************************************************)
(* The inductive invariant: windows go through the queue, the channel and  *)
(* the store in their order, whoever dies in between (kpi.py 25-75,        *)
(* kpi_forwarder.py 86-136).                                               *)
(***************************************************************************)
THEOREM OrderAlways == Spec => [](TypeOK /\ Order)
<1>1. Init => TypeOK /\ Order
  BY Initially
<1>2. TypeOK /\ Order /\ [Next]_vars => (TypeOK /\ Order)'
  BY TypeStep, OrderStep
<1>3. QED
  BY <1>1, <1>2, PTL DEF Spec

(***************************************************************************)
(* The variables keep their types: no process ever holds a line that is    *)
(* not a window of the file.                                               *)
(***************************************************************************)
THEOREM TypeCorrect == Spec => []TypeOK
BY OrderAlways, PTL

(***************************************************************************)
(* An acknowledged window is in kpi.jsonl, whichever process died between  *)
(* which two writes (kpi.py 55-58, kpi_forwarder.py 104-117).              *)
(***************************************************************************)
THEOREM AckedAreStored == Spec => []AckedIsStored
<1>1. TypeOK /\ Order => AckedIsStored
  BY DEF Order, KnownIsStored, Stored, AckedIsStored
<1>2. QED
  BY <1>1, OrderAlways, PTL

-------------------------------------------------------------------------------
(* The refinement, the drain and the retries. *)

\* Every step of the transport is one of the delivery, or a stutter.
LEMMA DeliveryStep ==
  ASSUME TypeOK, Order, [Next]_vars
  PROVE  [Delivery!Next]_Delivery!vars
<1>1. CASE EndWindow
  <2>1. Delivery!Write
    BY <1>1 DEF EndWindow, store, Delivery!Write
  <2>2. QED
    BY <2>1 DEF Delivery!Next
<1>2. ASSUME NEW c \in Channels, AppendRow(c)
      PROVE  [Delivery!Next]_Delivery!vars
  <2> DEFINE w == recv[c].row
  <2>1. w \in Windows /\ NextMayBeStored(w)
    <3>1. recv[c] \in Receivers
      BY DEF TypeOK
    <3>2. w # 0 /\ NextMayBeStored(w)
      BY <1>2 DEF AppendRow, Order, ReceiverOrdered, Writing
    <3>3. QED
      BY <3>1, <3>2 DEF Receivers
  <2>2. Stored' = Stored \cup {w} /\ UNCHANGED <<written, saved>>
    <3>1. log \in Seq(Windows)
      BY DEF TypeOK
    <3>2. log' = Append(log, w) /\ UNCHANGED <<written, saved>>
      BY <1>2 DEF AppendRow, input
    <3>3. Range(Append(log, w)) = Range(log) \cup {w}
      <4> HIDE DEF w
      <4> QED
        BY <2>1, <3>1, RangeOfAppend
    <3>4. QED
      BY <3>2, <3>3 DEF Stored
  <2>3. CASE w \in Stored
    BY <2>2, <2>3 DEF Delivery!vars, Stored
  <2>4. CASE w \notin Stored
    <3>1. w \in 1..written
      BY <2>1 DEF NextMayBeStored, Windows, TypeOK
    <3>2. Delivery!Store(w)
      BY <2>1, <2>2, <2>4, <3>1 DEF NextMayBeStored, Stored, Delivery!Store
    <3>3. QED
      BY <3>1, <3>2 DEF Delivery!Next
  <2>5. QED
    BY <2>3, <2>4
<1>3. CASE Save
  <2>1. PICK w \in Stored : saved' = saved \cup {w}
    <3>1. fpc = "save" /\ saved' = fwd.acked
      BY <1>3 DEF Save
    <3>2. \E w \in Stored : fwd.acked = saved \cup {w}
      BY <3>1 DEF Order, SavedIsBehind
    <3>3. QED
      BY <3>1, <3>2, Zenon
  <2>2. w \in 1..written
    <3>1. w \in Windows
      BY StoredTyped
    <3>2. w <= written /\ written \in Nat
      BY DEF Order, LogIsPrefix, TypeOK
    <3>3. QED
      BY <3>1, <3>2 DEF Windows
  <2>3. Delivery!Acknowledge(w)
    BY <1>3, <2>1 DEF Save, input, store, Stored, Delivery!Acknowledge
  <2>4. QED
    BY <2>2, <2>3 DEF Delivery!Next
<1>4. CASE UNCHANGED <<written, log, saved>>
  BY <1>4 DEF Delivery!vars
<1>5. CASE Application
  BY <1>1, <1>4, <1>5 DEF Application, BeginWindow, TouchStop, store
<1>6. CASE StartForwarder \/ Forwarder
  BY <1>3, <1>4, <1>6
  DEF StartForwarder, Forwarder, Poll, Skip, Send, Answered, SendFails, AllSent, Check,
      input, store
<1>7. ASSUME NEW c \in Channels, Receiver(c)
      PROVE  [Delivery!Next]_Delivery!vars
  BY <1>2, <1>4, <1>7
  DEF Receiver, Boot, Receive, WriteLatest, WriteIndex, Leave, input, store
<1>8. CASE Fault
  BY <1>4, <1>8 DEF Fault, Break, ReceiverDies, ForwarderDies, Faulty, input, store
<1>9. CASE UNCHANGED vars
  BY <1>4, <1>9 DEF vars, input, store
<1>10. QED
  BY <1>5, <1>6, <1>7, <1>8, <1>9 DEF Next

(***************************************************************************)
(* Forwarding implements KpiDelivery: whatever breaks, the store gains the *)
(* windows in their order, none left out, and the state file records only  *)
(* stored ones (kpi_forwarder.py 100-121).                                 *)
(***************************************************************************)
THEOREM DeliveredInOrder == Spec => InOrderDelivery
<1>1. Init => Delivery!Init
  BY DEF Init, Delivery!Init, Range
<1>2. TypeOK /\ Order /\ [Next]_vars => [Delivery!Next]_Delivery!vars
  BY DeliveryStep
<1>3. QED
  BY <1>1, <1>2, OrderAlways, PTL DEF Spec, InOrderDelivery, Delivery!Spec

\* The second empty poll saw the whole file.
LEMMA DrainStep ==
  ASSUME TypeOK, Order, DrainOrdered, [Next]_vars
  PROVE  DrainOrdered'
<1>1. fwd \in Forwarders /\ stop \in BOOLEAN /\ partial \in BOOLEAN
  BY DEF TypeOK, Forwarders
<1>2. CASE Application
  <2>1. UNCHANGED <<fpc, fwd>> /\ (stop => UNCHANGED <<written, partial, stop>>)
        /\ (stop' => ~partial')
    BY <1>2 DEF Application, BeginWindow, EndWindow, TouchStop, DrainOrdered
  <2>2. QED
    BY <2>1 DEF DrainOrdered
<1>3. CASE UNCHANGED <<written, partial, stop, fwd>> /\ fpc' # "done"
           /\ (fpc \in {"down", "poll"} => fpc' \in {"down", "poll"})
  BY <1>3 DEF DrainOrdered
<1>4. CASE fwd'.emptyPolls = 0 /\ fpc' # "done" /\ UNCHANGED <<stop, partial>>
  BY <1>4 DEF DrainOrdered
<1>5. CASE Poll
  <2>1. CASE partial
    <3>1. fwd' = Idle /\ fpc' = "down" /\ UNCHANGED <<stop, partial>>
      BY <1>5, <2>1 DEF Poll, input
    <3>2. QED
      BY <1>4, <3>1 DEF Idle
  <2>2. CASE ~partial
    <3>1. /\ fpc' = "send" /\ fwd'.position = written /\ fwd'.emptyPolls = fwd.emptyPolls
          /\ UNCHANGED <<written, stop, partial>>
      BY <1>1, <1>5, <2>2 DEF Poll, input, Forwarders
    <3>2. QED
      BY <3>1 DEF DrainOrdered
  <2>3. QED
    BY <2>1, <2>2
<1>6. CASE Skip \/ Send \/ Answered \/ SendFails \/ Save
  <2>1. /\ fwd'.position = fwd.position /\ fwd'.emptyPolls = fwd.emptyPolls
        /\ fpc \notin {"down", "poll"} /\ fpc' # "done"
        /\ UNCHANGED <<written, stop, partial>>
    BY <1>1, <1>6 DEF Skip, Send, Answered, SendFails, Save, input, Forwarders
  <2>2. QED
    BY <2>1 DEF DrainOrdered
<1>7. CASE Check
  <2>1. /\ fpc = "check" /\ fpc' \in {"done", "poll"}
        /\ fwd'.position = fwd.position /\ fwd'.pending = fwd.pending
        /\ fpc' = "done" => EmptyPolls >= 2 /\ fwd'.emptyPolls = fwd.emptyPolls
        /\ fpc' = "poll" => fwd'.emptyPolls = EmptyPolls
        /\ UNCHANGED <<written, stop, partial>>
    BY <1>1, <1>7 DEF Check, input, Forwarders
  <2>2. EmptyPolls # 0 => stop /\ fwd.pending = << >>
    BY DEF EmptyPolls
  <2>3. EmptyPolls >= 2 => fwd.emptyPolls = 1
    BY <1>1 DEF EmptyPolls, Forwarders
  <2>4. QED
    BY <2>1, <2>2, <2>3 DEF DrainOrdered
<1>8. CASE StartForwarder \/ ForwarderDies
  <2>1. fwd'.emptyPolls = 0 /\ fpc' # "done" /\ UNCHANGED <<stop, partial>>
    BY <1>8 DEF StartForwarder, ForwarderDies, Faulty, Idle, input
  <2>2. QED
    BY <1>4, <2>1
<1>9. CASE UNCHANGED <<written, partial, stop, fwd, fpc>>
  BY <1>9 DEF DrainOrdered
<1>10. CASE AllSent
  BY <1>3, <1>10 DEF AllSent, input
<1>11. QED
  <2>1. ASSUME NEW c \in Channels, Receiver(c) \/ Break(c) \/ ReceiverDies(c)
        PROVE  UNCHANGED <<written, partial, stop, fwd, fpc>>
    BY <2>1 DEF Receiver, Boot, Receive, AppendRow, WriteLatest, WriteIndex, Leave,
                Break, ReceiverDies, Faulty, input
  <2>2. CASE UNCHANGED vars
    BY <1>9, <2>2 DEF vars, input
  <2>3. QED
    BY <1>2, <1>5, <1>6, <1>7, <1>8, <1>9, <1>10, <2>1, <2>2 DEF Next, Forwarder, Fault

(***************************************************************************)
(* A forwarder that left by itself has delivered the whole file            *)
(* (kpi_forwarder.py 127-133).                                             *)
(***************************************************************************)
THEOREM DoneIsDrained == Spec => []DoneMeansDrained
<1>1. Init => DrainOrdered
  BY DEF Init, Idle, DrainOrdered
<1>2. TypeOK /\ Order /\ DrainOrdered /\ [Next]_vars => DrainOrdered'
  BY DrainStep
<1>3. TypeOK /\ Order /\ DrainOrdered => DoneMeansDrained
  BY DEF Order, QueueInOrder, SavedIsBehind, DrainOrdered, DoneMeansDrained, TypeOK
<1>4. QED
  BY <1>1, <1>2, <1>3, OrderAlways, PTL DEF Spec

\* The forwarder lets go of a channel on which nothing is under way.
LEMMA CalmClosed ==
  ASSUME TypeOK, Order, CalmOrdered, recv' = Closed(fwd.channel), ~interrupted,
         UNCHANGED <<log, index>>,
         fpc # "answer" \/ ~Connected \/ recv[fwd.channel].answer = "error"
           \/ ~Ingesting(fwd.channel)
  PROVE  CalmOrdered'
<1>1. recv \in [Channels -> Receivers]
  BY DEF TypeOK
<1>2. ASSUME NEW d \in Channels
      PROVE  ~Ingesting(d)
  <2>1. recv[d].linked => d = fwd.channel
    BY DEF Order, ChannelOrdered
  <2>2. Ingesting(d) => recv[d].inbox # 0 \/ recv[d].row # 0
    BY DEF Ingesting, Order, ReceiverOrdered, Writing
  <2>3. ReceiverOrdered(d) /\ ChannelOrdered(d) /\ (Ingesting(d) => recv[d].linked)
    BY DEF Order, CalmOrdered
  <2>4. recv[d].linked => Connected
    BY <2>1, ForwardingAssumption DEF Connected
  <2>5. QED
    BY <2>1, <2>2, <2>3, <2>4 DEF ReceiverOrdered, ChannelOrdered
<1>3. ASSUME NEW d \in Channels
      PROVE  /\ recv'[d].pc = recv[d].pc /\ recv'[d].inbox = recv[d].inbox
             /\ recv'[d].row = recv[d].row /\ recv'[d].keys = recv[d].keys
             /\ recv'[d].linked => recv[d].linked
  BY <1>1, ClosedFields
<1>4. ASSUME NEW d \in Channels
      PROVE  ~Ingesting(d)'
  BY <1>2, <1>3 DEF Ingesting
<1>5. Stored' = Stored /\ IsInjective(log') /\ Stored \subseteq index
  <2>1. ASSUME NEW w \in Stored \ index
        PROVE  FALSE
    BY <1>2 DEF CalmOrdered, Ingesting
  <2>2. QED
    BY <2>1 DEF CalmOrdered, Stored
<1>6. QED
  BY <1>2, <1>3, <1>4, <1>5 DEF CalmOrdered, Ingesting

\* Nothing that matters to a writing receiver changes.
LEMMA CalmUnchanged ==
  ASSUME CalmOrdered, UNCHANGED <<log, index, interrupted>>,
         \A d \in Channels :
           /\ recv'[d].pc = recv[d].pc /\ recv'[d].inbox = recv[d].inbox
           /\ recv'[d].row = recv[d].row /\ recv'[d].keys = recv[d].keys
           /\ recv'[d].linked = recv[d].linked
  PROVE  CalmOrdered'
BY DEF CalmOrdered, Ingesting, Stored

\* The forwarder keeps the store calm: it opens a channel only when none is
\* open, and closes one with nothing under way.
LEMMA CalmForwarder ==
  ASSUME TypeOK, Order, CalmOrdered, Forwarder
  PROVE  CalmOrdered'
<1>1. /\ recv \in [Channels -> Receivers] /\ fwd \in Forwarders
      /\ UNCHANGED <<log, index, interrupted>>
  BY DEF Forwarder, Poll, Skip, Send, Answered, SendFails, Save, AllSent, Check, store, fault,
         TypeOK, Forwarders
<1>2. CASE UNCHANGED recv
  BY <1>1, <1>2, CalmUnchanged
<1>3. CASE interrupted
  BY <1>1, <1>3 DEF CalmOrdered
<1>4. CASE ~interrupted /\ recv' = Closed(fwd.channel) /\ (Poll \/ Check)
  BY <1>1, <1>4, CalmClosed DEF Poll, Check
<1>5. CASE ~interrupted /\ SendFails
  BY <1>1, <1>5, CalmClosed DEF SendFails
<1>6. CASE ~interrupted /\ Send
  <2>1. PICK w \in Windows : w = Head(fwd.pending)
    BY <1>1, <1>6 DEF Send, Forwarders
  <2>2. CASE Connected
    <3>1. /\ fwd.channel \in Channels /\ recv[fwd.channel].linked
          /\ recv' = [recv EXCEPT ![fwd.channel].inbox = w]
      BY <1>1, <1>6, <2>1, <2>2 DEF Send, Connected, Forwarders
    <3>2. \A d \in Channels :
            /\ recv'[d].pc = recv[d].pc /\ recv'[d].row = recv[d].row
            /\ recv'[d].keys = recv[d].keys /\ recv'[d].linked = recv[d].linked
            /\ recv'[d].inbox = IF d = fwd.channel THEN w ELSE recv[d].inbox
      BY <1>1, <3>1 DEF Receivers
    <3>3. QED
      BY <1>1, <3>1, <3>2 DEF CalmOrdered, Ingesting, Stored
  <2>3. CASE ~Connected
    <3>1. PICK c \in Channels : recv' = [Closed(fwd.channel) EXCEPT ![c] = Opened(w)]
      BY <1>6, <2>1, <2>3 DEF Send
    <3>2. Closed(fwd.channel) \in [Channels -> Receivers]
      BY <1>1, ClosedReceivers
    <3>3. /\ recv'[c] = Opened(w)
          /\ \A d \in Channels \ {c} : recv'[d] = Closed(fwd.channel)[d]
      BY <3>1, <3>2
    <3>4. ASSUME NEW d \in Channels
          PROVE  ~recv[d].linked /\ ~Ingesting(d)
      <4>1. ~recv[d].linked
        <5>1. recv[d].linked => d = fwd.channel
          BY DEF Order, ChannelOrdered
        <5>2. QED
          BY <2>3, <5>1, ForwardingAssumption DEF Connected
      <4>2. QED
        BY <1>6, <4>1 DEF CalmOrdered
    <3>5. ASSUME NEW d \in Channels \ {c}
          PROVE  ~recv'[d].linked /\ ~Ingesting(d)'
      <4>1. /\ recv'[d].pc = recv[d].pc /\ recv'[d].inbox = recv[d].inbox
            /\ recv'[d].linked = (recv[d].linked /\ d # fwd.channel)
        <5>1. recv'[d] = Closed(fwd.channel)[d]
          BY <3>3
        <5>2. QED
          BY <1>1, <5>1, ClosedFields
      <4>2. QED
        BY <3>4, <4>1 DEF Ingesting
    <3>6. Stored' = Stored /\ IsInjective(log') /\ Stored \subseteq index
      <4>1. ASSUME NEW v \in Stored \ index
            PROVE  FALSE
        BY <1>6, <3>4 DEF CalmOrdered, Ingesting
      <4>2. QED
        BY <1>1, <1>6, <4>1 DEF CalmOrdered, Stored
    <3>7. /\ recv'[c].linked /\ recv'[c].pc = "boot"
          /\ \A d \in Channels \ {c} : recv'[d].pc # "append"
      BY <3>3, <3>5 DEF Opened, Ingesting
    <3>8. QED
      BY <1>1, <3>5, <3>6, <3>7 DEF CalmOrdered
  <2>4. QED
    BY <2>2, <2>3
<1>7. CASE Answered
  <2>1. PICK c \in Channels : recv' = [recv EXCEPT ![c].answer = "none"]
    BY <1>1, <1>7 DEF Answered, Connected, Forwarders
  <2>2. \A d \in Channels :
           /\ recv'[d].pc = recv[d].pc /\ recv'[d].inbox = recv[d].inbox
           /\ recv'[d].row = recv[d].row /\ recv'[d].keys = recv[d].keys
           /\ recv'[d].linked = recv[d].linked
    BY <1>1, <2>1 DEF Receivers
  <2>3. QED
    BY <1>1, <2>2, CalmUnchanged
<1>8. interrupted \in BOOLEAN
  BY DEF TypeOK
<1>9. QED
  BY <1>1, <1>2, <1>3, <1>4, <1>5, <1>6, <1>7, <1>8
  DEF Forwarder, Poll, Skip, Save, AllSent, Check

\* One receiver writes at a time, with the index of before.
LEMMA CalmReceiver ==
  ASSUME TypeOK, Order, CalmOrdered, NEW c \in Channels, Receiver(c)
  PROVE  CalmOrdered'
<1> DEFINE r == recv[c]
<1>1. /\ recv \in [Channels -> Receivers] /\ r \in Receivers /\ r = recv[c]
      /\ log \in Seq(Windows) /\ interrupted \in BOOLEAN
      /\ UNCHANGED interrupted
  BY DEF TypeOK, Receiver, Boot, Receive, AppendRow, WriteLatest, WriteIndex, Leave, fault
<1>2. CASE interrupted
  BY <1>1, <1>2 DEF CalmOrdered
<1>3. ASSUME ~interrupted, NEW d \in Channels, Ingesting(d), NEW e \in Channels, recv[e].linked
      PROVE  d = e
  BY <1>3 DEF CalmOrdered, Order, ChannelOrdered
<1>4. ASSUME ~interrupted, Ingesting(c), NEW d \in Channels \ {c}
      PROVE  ~recv[d].linked /\ ~Ingesting(d)
  <2>1. recv[c].linked
    BY <1>4 DEF CalmOrdered
  <2>2. QED
    BY <1>3, <1>4, <2>1
<1>5. CASE ~interrupted /\ Boot(c)
  <2>1. /\ recv' = [recv EXCEPT ![c] = [r EXCEPT !.pc = "idle", !.keys = index]]
        /\ r.pc = "boot" /\ UNCHANGED <<log, index>>
    BY <1>5 DEF Boot, store
  <2>2. /\ recv'[c].pc = "idle" /\ recv'[c].keys = index
        /\ recv'[c].linked = r.linked /\ recv'[c].inbox = r.inbox
        /\ \A d \in Channels \ {c} : recv'[d] = recv[d]
    BY <1>1, <2>1 DEF Receivers
  <2>3. QED
    BY <1>1, <1>5, <2>1, <2>2 DEF CalmOrdered, Ingesting, Stored
<1>6. CASE ~interrupted /\ Receive(c)
  <2>1. /\ \A d \in Channels \ {c} : recv'[d] = recv[d]
        /\ recv'[c].linked = r.linked /\ recv'[c].keys = r.keys /\ recv'[c].inbox = 0
        /\ r.inbox # 0 /\ r.pc = "idle"
        /\ \/ recv'[c].pc = "idle"
           \/ recv'[c].pc = "append" /\ recv'[c].row = r.inbox /\ r.inbox \notin r.keys
        /\ UNCHANGED <<log, index>>
    <3>1. CASE r.inbox \in rejected
      BY <1>1, <1>6, <3>1 DEF Receive, Receivers, store
    <3>2. CASE r.inbox \notin rejected /\ r.inbox \in r.keys
      BY <1>1, <1>6, <3>2 DEF Receive, Receivers, store
    <3>3. CASE r.inbox \notin rejected /\ r.inbox \notin r.keys
      BY <1>1, <1>6, <3>3 DEF Receive, Receivers, store
    <3>4. QED
      BY <3>1, <3>2, <3>3
  <2>2. Ingesting(c) /\ r.linked
    BY <1>6, <2>1 DEF CalmOrdered, Ingesting
  <2>3. r.keys = index /\ \A d \in Channels \ {c} : ~recv[d].linked /\ ~Ingesting(d)
    BY <1>4, <1>6, <2>1, <2>2 DEF CalmOrdered
  <2>4. \A d \in Channels \ {c} : ~recv'[d].linked /\ ~Ingesting(d)'
    BY <2>1, <2>3 DEF Ingesting
  <2>5. Stored' = Stored /\ IsInjective(log') /\ Stored \subseteq index
    <3>1. ASSUME NEW w \in Stored \ index
          PROVE  FALSE
      BY <1>6, <2>1, <2>3 DEF CalmOrdered, Ingesting
    <3>2. QED
      BY <1>6, <2>1, <3>1 DEF CalmOrdered, Stored
  <2>6. \A d \in Channels \ {c} : recv'[d].pc # "append"
    BY <2>4 DEF Ingesting
  <2>7. ASSUME NEW d \in Channels \ {c}
        PROVE  ~Ingesting(d)' /\ ~recv'[d].linked /\ recv'[d].pc # "append"
    BY <2>4, <2>6, <2>7
  <2>8. /\ recv'[c].linked /\ recv'[c].keys = index' /\ recv'[c].pc # "gone"
        /\ recv'[c].pc = "append" => recv'[c].row \notin recv'[c].keys
    BY <2>1, <2>2, <2>3
  <2>9. Stored' \ index' = {}
    BY <2>1, <2>5
  <2>10. ASSUME NEW e \in Channels
         PROVE  /\ Ingesting(e)' => recv'[e].linked
                /\ recv'[e].linked /\ recv'[e].pc # "boot" => recv'[e].keys = index'
                /\ recv'[e].linked => recv'[e].pc # "gone"
                /\ recv'[e].pc = "append" => recv'[e].row \notin recv'[e].keys
    <3>1. CASE e = c
      BY <2>8, <3>1
    <3>2. CASE e # c
      BY <2>7, <3>2
    <3>3. QED
      BY <3>1, <3>2
  <2>11. QED
    BY <2>5, <2>9, <2>10 DEF CalmOrdered
<1>7. CASE ~interrupted /\ AppendRow(c)
  <2>1. /\ log' = Append(log, r.row) /\ r.pc = "append"
        /\ recv' = [recv EXCEPT ![c].pc = "latest"] /\ UNCHANGED index
    BY <1>7 DEF AppendRow
  <2>2. /\ recv'[c].pc = "latest" /\ recv'[c].linked = r.linked
        /\ recv'[c].keys = r.keys /\ recv'[c].inbox = r.inbox /\ recv'[c].row = r.row
        /\ \A d \in Channels \ {c} : recv'[d] = recv[d]
    BY <1>1, <2>1 DEF Receivers
  <2>3. Ingesting(c) /\ r.linked /\ r.keys = index /\ r.row \notin index /\ r.row \in Windows
    <3>1. Ingesting(c)
      BY <2>1 DEF Ingesting
    <3>2. r.row # 0
      BY <2>1 DEF Order, ReceiverOrdered, Writing
    <3>3. r.row \in Windows
      BY <1>1, <3>2 DEF Receivers
    <3>4. QED
      BY <1>7, <2>1, <3>1, <3>3 DEF CalmOrdered
  <2>4. Stored \subseteq index
    <3>1. ASSUME NEW w \in Stored \ index
          PROVE  FALSE
      <4>1. PICK d \in Channels : recv[d].pc \in {"latest", "index"}
        BY <1>7 DEF CalmOrdered
      <4>2. d = c
        BY <1>4, <1>7, <2>3, <4>1 DEF Ingesting
      <4>3. QED
        BY <2>1, <4>1, <4>2
    <3>2. QED
      BY <3>1
  <2>5. IsInjective(log)
    BY <1>7 DEF CalmOrdered
  <2>6. IsInjective(log') /\ Stored' = Stored \cup {r.row}
    BY <1>1, <2>1, <2>3, <2>4, <2>5, RangeOfAppend, AppendNewIsInjective DEF Stored
  <2>7. QED
    BY <1>1, <1>7, <2>1, <2>2, <2>3, <2>4, <2>6 DEF CalmOrdered, Ingesting
<1>8. CASE ~interrupted /\ WriteLatest(c)
  <2>1. /\ recv' = [recv EXCEPT ![c].pc = "index"] /\ r.pc = "latest"
        /\ UNCHANGED <<log, index>>
    BY <1>8 DEF WriteLatest
  <2>2. /\ recv'[c].pc = "index" /\ recv'[c].linked = r.linked
        /\ recv'[c].keys = r.keys /\ recv'[c].inbox = r.inbox /\ recv'[c].row = r.row
        /\ \A d \in Channels \ {c} : recv'[d] = recv[d]
    BY <1>1, <2>1 DEF Receivers
  <2>3. Ingesting(c)
    BY <2>1 DEF Ingesting
  <2>4. QED
    BY <1>1, <1>8, <2>1, <2>2, <2>3 DEF CalmOrdered, Ingesting, Stored
<1>9. CASE ~interrupted /\ WriteIndex(c)
  <2>1. /\ recv' = [recv EXCEPT ![c] = [r EXCEPT !.pc = "idle", !.keys = index', !.row = 0,
                                                 !.answer = "stored"]]
        /\ r.pc = "index" /\ index' = r.keys \cup {r.row} /\ UNCHANGED log
    BY <1>9 DEF WriteIndex
  <2>2. /\ recv'[c].pc = "idle" /\ recv'[c].linked = r.linked
        /\ recv'[c].keys = index' /\ recv'[c].inbox = r.inbox
        /\ \A d \in Channels \ {c} : recv'[d] = recv[d]
    BY <1>1, <2>1 DEF Receivers
  <2>3. Ingesting(c) /\ r.linked /\ r.keys = index
    <3>1. Ingesting(c)
      BY <2>1 DEF Ingesting
    <3>2. QED
      BY <1>9, <2>1, <3>1 DEF CalmOrdered
  <2>4. Stored \subseteq index' /\ Stored' = Stored /\ IsInjective(log')
    <3>1. ASSUME NEW w \in Stored \ index
          PROVE  w = r.row
      <4>1. PICK d \in Channels : recv[d].pc \in {"latest", "index"} /\ recv[d].row = w
        BY <1>9 DEF CalmOrdered
      <4>2. d = c
        BY <1>4, <1>9, <2>3, <4>1 DEF Ingesting
      <4>3. QED
        BY <4>1, <4>2
    <3>2. QED
      BY <1>9, <2>1, <2>3, <3>1 DEF CalmOrdered, Stored
  <2>5. \A d \in Channels \ {c} : ~recv'[d].linked /\ ~Ingesting(d)'
    BY <1>4, <1>9, <2>2, <2>3 DEF Ingesting
  <2>6. \A d \in Channels \ {c} : recv'[d].pc # "append"
    BY <2>5 DEF Ingesting
  <2>7. QED
    BY <1>1, <2>2, <2>3, <2>4, <2>5, <2>6 DEF CalmOrdered
<1>10. CASE ~interrupted /\ Leave(c)
  <2>1. /\ recv'[c] = Gone /\ r.pc = "idle" /\ UNCHANGED <<log, index>>
        /\ \A d \in Channels \ {c} : recv'[d] = recv[d]
    BY <1>1, <1>10 DEF Leave, store
  <2>2. QED
    BY <1>1, <1>10, <2>1 DEF CalmOrdered, Ingesting, Stored, Gone
<1>11. QED
  BY <1>1, <1>2, <1>5, <1>6, <1>7, <1>8, <1>9, <1>10 DEF Receiver

\* A fault that hits no window on its way keeps the store calm.
LEMMA CalmFault ==
  ASSUME TypeOK, Order, CalmOrdered, Fault
  PROVE  CalmOrdered'
<1>1. /\ recv \in [Channels -> Receivers] /\ interrupted \in BOOLEAN
      /\ UNCHANGED <<log, index>>
  BY DEF TypeOK, Fault, Break, ReceiverDies, ForwarderDies, Faulty, store
<1>2. ASSUME NEW c \in Channels, Break(c) \/ ReceiverDies(c)
      PROVE  CalmOrdered'
  <2>1. CASE interrupted \/ Ingesting(c)
    <3>1. interrupted'
      BY <1>2, <2>1 DEF Break, ReceiverDies
    <3>2. QED
      BY <3>1 DEF CalmOrdered
  <2>2. CASE ~interrupted /\ ~Ingesting(c)
    <3>1. /\ \A d \in Channels \ {c} : recv'[d] = recv[d]
          /\ ~recv'[c].linked /\ recv'[c].inbox = 0
          /\ recv'[c].pc \notin {"append", "latest", "index"}
      <4>1. CASE ReceiverDies(c)
        BY <1>1, <4>1 DEF ReceiverDies, Gone
      <4>2. CASE Break(c)
        <5>1. recv' = [recv EXCEPT ![c] = [recv[c] EXCEPT !.linked = FALSE, !.inbox = 0]]
          BY <2>2, <4>2 DEF Break, Ingesting
        <5>2. recv[c] \in Receivers
          BY <1>1
        <5>3. QED
          BY <1>1, <2>2, <5>1, <5>2 DEF Ingesting, Receivers
      <4>3. QED
        BY <1>2, <4>1, <4>2
    <3>2. QED
      BY <1>1, <2>2, <3>1 DEF CalmOrdered, Ingesting, Stored
  <2>3. QED
    BY <1>1, <2>1, <2>2
<1>3. CASE ForwarderDies
  <2>1. CASE interrupted'
    BY <2>1 DEF CalmOrdered
  <2>2. CASE ~interrupted'
    <3>1. /\ recv' = Closed(fwd.channel) /\ ~interrupted
          /\ fpc # "answer" \/ ~Connected \/ ~Ingesting(fwd.channel)
      BY <1>3, <2>2, Zenon DEF ForwarderDies
    <3>2. QED
      BY <1>1, <3>1, CalmClosed
  <2>3. QED
    BY <2>1, <2>2
<1>4. QED
  BY <1>2, <1>3 DEF Fault

\* Every step without such a fault keeps the store calm.
LEMMA CalmStep ==
  ASSUME TypeOK, Order, CalmOrdered, [Next]_vars
  PROVE  CalmOrdered'
<1>1. CASE Application \/ StartForwarder \/ UNCHANGED vars
  <2>1. UNCHANGED <<recv, log, index, interrupted>>
    BY <1>1 DEF Application, BeginWindow, EndWindow, TouchStop, StartForwarder, vars, store, fault
  <2>2. QED
    BY <2>1, CalmUnchanged
<1>2. QED
  BY <1>1, CalmForwarder, CalmReceiver, CalmFault DEF Next

(***************************************************************************)
(* Without a fault in the middle of an ingest kpi.jsonl has every window   *)
(* once, however often a window was sent (kpi.py 32-59).                   *)
(***************************************************************************)
THEOREM RetriesHarmless == Spec => []RetriesAreHarmless
<1>1. Init => CalmOrdered
  BY DEF Init, Gone, CalmOrdered, Ingesting, Stored, IsInjective, Range
<1>2. TypeOK /\ Order /\ CalmOrdered /\ [Next]_vars => CalmOrdered'
  BY CalmStep
<1>3. CalmOrdered => RetriesAreHarmless
  BY DEF CalmOrdered, RetriesAreHarmless
<1>4. QED
  BY <1>1, <1>2, <1>3, OrderAlways, PTL DEF Spec

===============================================================================
