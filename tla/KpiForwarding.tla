---------------------------- MODULE KpiForwarding ----------------------------
(***************************************************************************)
(* The transport of KPI windows (controller/kpi.py, kpi_forwarder.py).     *)
(* The application appends windows to a file; forward() reads the file,    *)
(* sends each window over an SSH channel and waits for its answer; every   *)
(* channel has a receiver process of its own, whose KpiStore appends the   *)
(* window to kpi.jsonl, replaces kpi-latest.json and then the index of the *)
(* keys it has seen.                                                       *)
(*                                                                         *)
(* A receiver may outlive its channel: closing waits three seconds for the *)
(* local ssh only, and a window already in the pipe is still processed.    *)
(* Each receiver loads the index once, when it starts.                     *)
(***************************************************************************)
EXTENDS Naturals, Sequences, FiniteSets, Functions

CONSTANTS
  MaxWindows,   \* bound of the windows written
  Channels,     \* bound of the receivers alive at a time
  NoChannel,    \* the forwarder has no channel
  Rejections,   \* the sets of windows a receiver may answer with an error
  MaxFaults     \* bound of broken channels, receiver and forwarder crashes

ASSUME ForwardingAssumption ==
  /\ MaxWindows \in Nat /\ MaxFaults \in Nat
  /\ Rejections \subseteq SUBSET Nat
  /\ NoChannel \notin Channels

VARIABLES
  written,   \* windows in the input file, numbered in their order
  partial,   \* the last line of the file is half written
  stop,      \* the stop file exists
  rejected,  \* windows without a field the store needs; fixed
  fpc,       \* where forward() is
  fwd,       \* its local variables
  saved,     \* "acked" of the state file
  recv,      \* the receiver behind each channel
  log,       \* kpi.jsonl
  latest,    \* kpi-latest.json, 0 while it is absent
  index,     \* kpi-index.json
  faults,    \* bound: faults so far
  interrupted \* history: a fault hit a window on its way into the store

input == <<written, partial, stop, rejected>>
store == <<log, latest, index>>
fault == <<faults, interrupted>>
vars == <<input, fpc, fwd, saved, recv, store, fault>>

Windows == 1..MaxWindows

Receivers ==
  [pc : {"gone", "boot", "idle", "append", "latest", "index"},
   linked : BOOLEAN,         \* the channel is open
   inbox : Windows \cup {0}, \* a line sent and not yet read
   row : Windows \cup {0},   \* the line being ingested
   keys : SUBSET Windows,    \* KpiStore.keys
   answer : {"none", "stored", "duplicate", "error"}]

Gone == [pc |-> "gone", linked |-> FALSE, inbox |-> 0, row |-> 0, keys |-> {},
         answer |-> "none"]

Idle == [channel |-> NoChannel, pending |-> << >>, acked |-> {}, position |-> 0,
         emptyPolls |-> 0, progressed |-> FALSE]

Init ==
  /\ written = 0 /\ partial = FALSE /\ stop = FALSE
  /\ rejected \in Rejections
  /\ fpc = "down" /\ fwd = Idle
  /\ saved = {}
  /\ recv = [c \in Channels |-> Gone]
  /\ log = << >> /\ latest = 0 /\ index = {}
  /\ faults = 0 /\ interrupted = FALSE

-------------------------------------------------------------------------------
(* The application. *)

BeginWindow ==
  /\ written < MaxWindows /\ ~partial /\ ~stop
  /\ partial' = TRUE
  /\ UNCHANGED <<written, stop, rejected, fpc, fwd, saved, recv, store, fault>>

EndWindow ==
  /\ partial
  /\ partial' = FALSE /\ written' = written + 1
  /\ UNCHANGED <<stop, rejected, fpc, fwd, saved, recv, store, fault>>

TouchStop ==
  /\ ~stop /\ ~partial
  /\ stop' = TRUE
  /\ UNCHANGED <<written, partial, rejected, fpc, fwd, saved, recv, store, fault>>

-------------------------------------------------------------------------------
(* The forwarder. *)

\* Channel c, when there is one, after forward() has closed it.
Closed(c) == [d \in Channels |-> IF d = c THEN [recv[d] EXCEPT !.linked = FALSE]
                                          ELSE recv[d]]

\* Started for the first time, or again because the recorded process is gone.
StartForwarder ==
  /\ fpc = "down"
  /\ fpc' = "poll"
  /\ fwd' = [Idle EXCEPT !.acked = saved]
  /\ UNCHANGED <<input, saved, recv, store, fault>>

\* Defect: "progressed" is not reset at the start of a round.
PollKeepingProgress ==
  /\ fpc = "poll" /\ ~partial
  /\ fpc' = "send"
  /\ fwd' = [fwd EXCEPT !.pending = @ \o [i \in 1..(written - fwd.position) |->
                                            fwd.position + i],
                        !.position = written]
  /\ UNCHANGED <<input, saved, recv, store, fault>>

\* Read what the file gained.  A line that is half written raises.
Poll ==
  /\ fpc = "poll"
  /\ IF partial
     THEN /\ fpc' = "down" /\ fwd' = Idle
          /\ recv' = Closed(fwd.channel)
     ELSE /\ fpc' = "send"
          /\ fwd' = [fwd EXCEPT !.pending = @ \o [i \in 1..(written - fwd.position) |->
                                                    fwd.position + i],
                                !.position = written,
                                !.progressed = FALSE]
          /\ UNCHANGED recv
  /\ UNCHANGED <<input, saved, store, fault>>

Skip ==
  /\ fpc = "send" /\ fwd.pending # << >> /\ Head(fwd.pending) \in fwd.acked
  /\ fwd' = [fwd EXCEPT !.pending = Tail(@)]
  /\ UNCHANGED <<input, fpc, saved, recv, store, fault>>

Connected == fwd.channel # NoChannel /\ recv[fwd.channel].linked

\* A new channel with a window in it.
Opened(w) == [pc |-> "boot", linked |-> TRUE, inbox |-> w, row |-> 0, keys |-> {},
              answer |-> "none"]

\* Send the oldest window, over a new channel when there is none.
Send ==
  /\ fpc = "send" /\ fwd.pending # << >> /\ Head(fwd.pending) \notin fwd.acked
  /\ LET w == Head(fwd.pending) IN
     IF Connected
     THEN /\ recv' = [recv EXCEPT ![fwd.channel].inbox = w]
          /\ UNCHANGED fwd
     ELSE \E c \in Channels :
            /\ recv[c].pc = "gone"
            /\ recv' = [Closed(fwd.channel) EXCEPT
                          ![c] = Opened(w)]
            /\ fwd' = [fwd EXCEPT !.channel = c]
  /\ fpc' = "answer"
  /\ UNCHANGED <<input, saved, store, fault>>

\* Defect: an answer is taken for an acknowledgement without a look at its error.
AnsweredUnchecked ==
  /\ fpc = "answer" /\ Connected /\ recv[fwd.channel].answer # "none"
  /\ fwd' = [fwd EXCEPT !.acked = @ \cup {Head(fwd.pending)}, !.pending = Tail(@)]
  /\ recv' = [recv EXCEPT ![fwd.channel].answer = "none"]
  /\ fpc' = "save"
  /\ UNCHANGED <<input, saved, store, fault>>

Answered ==
  /\ fpc = "answer" /\ Connected
  /\ recv[fwd.channel].answer \in {"stored", "duplicate"}
  /\ fwd' = [fwd EXCEPT !.acked = @ \cup {Head(fwd.pending)}, !.pending = Tail(@)]
  /\ recv' = [recv EXCEPT ![fwd.channel].answer = "none"]
  /\ fpc' = "save"
  /\ UNCHANGED <<input, saved, store, fault>>

\* Defect: a failed window goes behind the others.
SendFailsRotating ==
  /\ fpc = "answer"
  /\ ~Connected \/ recv[fwd.channel].answer = "error"
  /\ recv' = Closed(fwd.channel)
  /\ fwd' = [fwd EXCEPT !.channel = NoChannel,
                        !.pending = Append(Tail(@), Head(@))]
  /\ fpc' = "check"
  /\ UNCHANGED <<input, saved, store, fault>>

\* The channel ended before its answer, or the answer is an error: the window
\* stays the oldest one, and the windows after it wait for the next poll.
SendFails ==
  /\ fpc = "answer"
  /\ ~Connected \/ recv[fwd.channel].answer = "error"
  /\ recv' = Closed(fwd.channel)
  /\ fwd' = [fwd EXCEPT !.channel = NoChannel]
  /\ fpc' = "check"
  /\ UNCHANGED <<input, saved, store, fault>>

Save ==
  /\ fpc = "save"
  /\ saved' = fwd.acked
  /\ fwd' = [fwd EXCEPT !.progressed = TRUE]
  /\ fpc' = "send"
  /\ UNCHANGED <<input, recv, store, fault>>

AllSent ==
  /\ fpc = "send" /\ fwd.pending = << >>
  /\ fpc' = "check"
  /\ UNCHANGED <<input, fwd, saved, recv, store, fault>>

\* Defect: one empty poll is enough.
EmptyPollsOnce == IF stop /\ fwd.pending = << >> THEN 2 ELSE 0

EmptyPolls == IF stop /\ fwd.pending = << >> /\ ~fwd.progressed THEN fwd.emptyPolls + 1 ELSE 0

\* Defect: three empty polls are asked for.
CheckThrice ==
  /\ fpc = "check"
  /\ IF EmptyPolls >= 3
     THEN /\ fpc' = "done"
          /\ recv' = Closed(fwd.channel)
          /\ fwd' = [fwd EXCEPT !.channel = NoChannel]
     ELSE /\ fpc' = "poll"
          /\ fwd' = [fwd EXCEPT !.emptyPolls = EmptyPolls]
          /\ UNCHANGED recv
  /\ UNCHANGED <<input, saved, store, fault>>

\* Leave after two polls in a row that found the stop file and nothing to send.
Check ==
  /\ fpc = "check"
  /\ IF EmptyPolls >= 2
     THEN /\ fpc' = "done"
          /\ recv' = Closed(fwd.channel)
          /\ fwd' = [fwd EXCEPT !.channel = NoChannel]
     ELSE /\ fpc' = "poll"
          /\ fwd' = [fwd EXCEPT !.emptyPolls = EmptyPolls]
          /\ UNCHANGED recv
  /\ UNCHANGED <<input, saved, store, fault>>

-------------------------------------------------------------------------------
(* A receiver: ingest_stream() with its KpiStore. *)

\* Defect: the store starts without the index of earlier receivers.
BootForgetful(c) ==
  /\ recv[c].pc = "boot"
  /\ recv' = [recv EXCEPT ![c].pc = "idle"]
  /\ UNCHANGED <<input, fpc, fwd, saved, store, fault>>

Boot(c) ==
  /\ recv[c].pc = "boot"
  /\ recv' = [recv EXCEPT ![c].pc = "idle", ![c].keys = index]
  /\ UNCHANGED <<input, fpc, fwd, saved, store, fault>>

Receive(c) ==
  LET r == recv[c] IN
  /\ r.pc = "idle" /\ r.inbox # 0 /\ r.answer = "none"
  /\ recv' = [recv EXCEPT ![c] =
       CASE r.inbox \in rejected          -> [r EXCEPT !.inbox = 0, !.answer = "error"]
         [] r.inbox \in r.keys \ rejected -> [r EXCEPT !.inbox = 0, !.answer = "duplicate"]
         [] OTHER                         -> [r EXCEPT !.inbox = 0, !.row = r.inbox, !.pc = "append"]]
  /\ UNCHANGED <<input, fpc, fwd, saved, store, fault>>

AppendRow(c) ==
  /\ recv[c].pc = "append"
  /\ log' = Append(log, recv[c].row)
  /\ recv' = [recv EXCEPT ![c].pc = "latest"]
  /\ UNCHANGED <<input, fpc, fwd, saved, latest, index, fault>>

WriteLatest(c) ==
  /\ recv[c].pc = "latest"
  /\ latest' = recv[c].row
  /\ recv' = [recv EXCEPT ![c].pc = "index"]
  /\ UNCHANGED <<input, fpc, fwd, saved, log, index, fault>>

\* The index is replaced by the keys of this receiver, whatever it holds.
WriteIndex(c) ==
  LET r == recv[c] IN
  /\ r.pc = "index"
  /\ index' = r.keys \cup {r.row}
  /\ recv' = [recv EXCEPT ![c] = [r EXCEPT !.pc = "idle", !.keys = index', !.row = 0,
                                           !.answer = "stored"]]
  /\ UNCHANGED <<input, fpc, fwd, saved, log, latest, fault>>

\* End of input, or an answer that nobody reads.
Leave(c) ==
  LET r == recv[c] IN
  /\ r.pc = "idle" /\ ~r.linked
  /\ r.inbox = 0 \/ r.answer # "none"
  /\ recv' = [recv EXCEPT ![c] = Gone]
  /\ UNCHANGED <<input, fpc, fwd, saved, store, fault>>

-------------------------------------------------------------------------------
(* Faults: a channel breaks and may lose a line, a process dies. *)

Ingesting(c) == recv[c].inbox # 0 \/ recv[c].pc \in {"append", "latest", "index"}

Faulty ==
  /\ faults < MaxFaults
  /\ faults' = faults + 1
  /\ UNCHANGED <<input, saved, store>>

Break(c) ==
  /\ recv[c].linked /\ Faulty
  /\ \E line \in {0, recv[c].inbox} :
       recv' = [recv EXCEPT ![c].linked = FALSE, ![c].inbox = line]
  /\ interrupted' = (interrupted \/ Ingesting(c))
  /\ UNCHANGED <<fpc, fwd>>

ReceiverDies(c) ==
  /\ recv[c].pc # "gone" /\ Faulty
  /\ recv' = [recv EXCEPT ![c] = Gone]
  /\ interrupted' = (interrupted \/ Ingesting(c))
  /\ UNCHANGED <<fpc, fwd>>

\* Also what stop_kpi_forwarder does to one that has not left in time.
ForwarderDies ==
  /\ fpc \notin {"down", "done"} /\ Faulty
  /\ fpc' = "down" /\ fwd' = Idle
  /\ recv' = Closed(fwd.channel)
  /\ interrupted' = (interrupted \/ (fpc = "answer" /\ Connected /\ Ingesting(fwd.channel)))

-------------------------------------------------------------------------------
Application == BeginWindow \/ EndWindow \/ TouchStop

Forwarder == Poll \/ Skip \/ Send \/ Answered \/ SendFails \/ Save \/ AllSent \/ Check

Receiver(c) ==
  Boot(c) \/ Receive(c) \/ AppendRow(c) \/ WriteLatest(c) \/ WriteIndex(c) \/ Leave(c)

Fault == (\E c \in Channels : Break(c) \/ ReceiverDies(c)) \/ ForwarderDies

Next ==
  \/ Application \/ StartForwarder \/ Forwarder
  \/ \E c \in Channels : Receiver(c)
  \/ Fault

Spec == Init /\ [][Next]_vars

\* Running processes go on; nothing is asked of the application, and nobody
\* has to start the forwarder again.
FairSpec == Spec /\ WF_vars(Forwarder) /\ \A c \in Channels : WF_vars(Receiver(c))

-------------------------------------------------------------------------------
TypeOK ==
  /\ written \in 0..MaxWindows /\ partial \in BOOLEAN /\ stop \in BOOLEAN
  /\ rejected \in Rejections
  /\ fpc \in {"down", "poll", "send", "answer", "save", "check", "done"}
  /\ fwd \in [channel : Channels \cup {NoChannel}, pending : Seq(Windows),
              acked : SUBSET Windows, position : 0..MaxWindows, emptyPolls : 0..1,
              progressed : BOOLEAN]
  /\ saved \in SUBSET Windows
  /\ recv \in [Channels -> Receivers]
  /\ log \in Seq(Windows) /\ latest \in Windows \cup {0} /\ index \in SUBSET Windows
  /\ faults \in 0..MaxFaults /\ interrupted \in BOOLEAN

(***************************************************************************)
(* An acknowledged window is in kpi.jsonl, whichever process died between  *)
(* which two writes, and however many receivers of broken channels were    *)
(* still writing (kpi.py 55-58, kpi_forwarder.py 104-117).                 *)
(***************************************************************************)
AckedIsStored == saved \cup fwd.acked \subseteq Range(log)

(***************************************************************************)
(* A forwarder that left by itself has delivered every window of the file, *)
(* also one written between its last read and the stop file: that is what  *)
(* the second empty poll is for (kpi_forwarder.py 127-133).                *)
(***************************************************************************)
DoneMeansDrained == fpc = "done" => 1..written \subseteq saved

(***************************************************************************)
(* Retries are harmless: a lost answer, a channel that broke between two   *)
(* windows, or a forwarder that died before it saved an answer make it     *)
(* send a window again, and kpi.jsonl still has it once.  Only a fault in  *)
(* the middle of an ingest may repeat one, since the index is written      *)
(* last (kpi.py 32-59).                                                    *)
(***************************************************************************)
RetriesAreHarmless == ~interrupted => IsInjective(log)

(***************************************************************************)
(* Forwarding is an in-order delivery: the detailed steps implement those  *)
(* of KpiDelivery, with the state file as the record of acknowledgements.  *)
(***************************************************************************)
Delivery == INSTANCE KpiDelivery WITH stored <- Range(log), acked <- saved
InOrderDelivery == Delivery!Spec

(***************************************************************************)
(* After the stop file a forwarder that does not die drains the file and   *)
(* leaves, unless the receiver rejects a window: that one is retried for   *)
(* ever and nothing behind it is sent (kpi_forwarder.py 104-110).          *)
(***************************************************************************)
StopDrains == (stop /\ fpc # "down" /\ rejected = {}) ~> fpc \in {"done", "down"}

===============================================================================
