-------------------------------- MODULE P2P --------------------------------
(***************************************************************************)
(* The file distribution of mini_P2P/work/P2P: the server cuts the file    *)
(* into one part per peer and writes in the tracer file who has which      *)
(* part; every peer gets its part from the server, sends it to the others  *)
(* from threads of its own and fetches the other parts from them.          *)
(* TCP is reliable; a connection waits in the listener's backlog until it  *)
(* is accepted.  Byte i of the file has the value i.                       *)
(***************************************************************************)
EXTENDS Integers, Sequences, FiniteSets

CONSTANTS Peers,     \* the hosts that run peer
          FileSizes  \* the lengths of test.txt to consider

ASSUME FileSizesAssumption == FileSizes \subseteq Nat

peerN == Cardinality(Peers)
Hole == -1

VARIABLES
  fileSize,  \* the length of test.txt, which nobody changes
  serverUp,  \* "down", "listening" or "tracing": how far main() of the server is
  arrivals,  \* the backlog of the server
  tracer,    \* the lines of tracer.txt
  toSend,    \* the server threads that have not sent their part yet
  inbox,     \* what a peer finds on its connection to the server
  pc,        \* where main() of a peer is
  mine,      \* the part that a peer was given
  i,         \* the loop counter of request(), and so the lines of tracer read
  file,      \* receiveX.txt
  listening, \* sender() has called listen()
  backlog,   \* the backlog of sender()
  accepted,  \* the connections that sender() has accepted
  sending,   \* the sendOne() threads of a peer that still run
  data,      \* "none", "held" or "freed": the buffer that they send from
  reply      \* what a peer finds on its connection to another peer

serverVars == <<fileSize, serverUp, arrivals, tracer, toSend>>
requestVars == <<inbox, pc, mine, i, file, reply>>
senderVars == <<listening, backlog, accepted, sending, data>>
vars == <<serverVars, requestVars, senderVars>>

\* Faulty variant: the division rounds down.
FloorDiv(a, b) == a \div b

\* C division truncates, so an empty file gives 0 / b + 1
CEIL_DIV(a, b) == IF a = 0 THEN 1 ELSE ((a - 1) \div b) + 1

partSize == CEIL_DIV(fileSize, peerN)

NoPart == [offset |-> 0, bytes |-> <<>>]

\* what fread finds from offset on: partSize bytes, or what is left of the file
Part(offset) ==
  LET readSize == IF offset >= fileSize THEN 0
                  ELSE IF offset + partSize > fileSize THEN fileSize - offset
                  ELSE partSize
  IN  [offset |-> offset, bytes |-> [k \in 1 .. readSize |-> offset + k - 1]]

\* fseek and fwrite: a hole is left where nothing was written yet
Written(f, part) ==
  LET end == part.offset + Len(part.bytes)
      size == IF end > Len(f) /\ part.bytes # <<>> THEN end ELSE Len(f)
  IN  [k \in 1 .. size |->
         IF k > part.offset /\ k <= end THEN part.bytes[k - part.offset]
         ELSE IF k <= Len(f) THEN f[k] ELSE Hole]

\* tracer.txt as an earlier distribution may have left it
OldTracer ==
  {<<>>} \cup {[k \in 1 .. peerN |-> [host |-> f[k], offset |-> k - 1]] : f \in [1 .. peerN -> Peers]}

Init ==
  /\ fileSize \in FileSizes
  /\ serverUp = "down"
  /\ arrivals = <<>>
  /\ tracer \in OldTracer
  /\ toSend = {}
  /\ inbox = [p \in Peers |-> NoPart]
  /\ pc = [p \in Peers |-> "connect"]
  /\ mine = [p \in Peers |-> NoPart]
  /\ i = [p \in Peers |-> 0]
  /\ file = [p \in Peers |-> <<>>]
  /\ listening = [p \in Peers |-> FALSE]
  /\ backlog = [p \in Peers |-> <<>>]
  /\ accepted = [p \in Peers |-> {}]
  /\ sending = [p \in Peers |-> {}]
  /\ data = [p \in Peers |-> "none"]
  /\ reply = [p \in Peers |-> NoPart]

-----------------------------------------------------------------------------
\* The server

Listen ==
  /\ serverUp = "down"
  /\ serverUp' = "listening"
  /\ UNCHANGED <<fileSize, arrivals, tracer, toSend, requestVars, senderVars>>

OpenTracer ==
  /\ serverUp = "listening"
  /\ serverUp' = "tracing"
  /\ tracer' = <<>>
  /\ UNCHANGED <<fileSize, arrivals, toSend, requestVars, senderVars>>

TraceLine(host) == [host |-> host, offset |-> Len(tracer) * partSize]

\* one turn of the accept loop, up to pthread_create
Accept ==
  /\ serverUp = "tracing"
  /\ Len(tracer) < peerN
  /\ arrivals # <<>>
  /\ tracer' = Append(tracer, TraceLine(Head(arrivals)))
  /\ toSend' = toSend \cup {[host |-> Head(arrivals), offset |-> Len(tracer) * partSize]}
  /\ arrivals' = Tail(arrivals)
  /\ UNCHANGED <<fileSize, serverUp, requestVars, senderVars>>

work(t) ==
  /\ t \in toSend
  /\ toSend' = toSend \ {t}
  /\ inbox' = [inbox EXCEPT ![t.host] = Part(t.offset)]
  /\ pc' = [pc EXCEPT ![t.host] = "save"]
  /\ UNCHANGED <<fileSize, serverUp, arrivals, tracer, mine, i, file, reply, senderVars>>

-----------------------------------------------------------------------------
\* main() and request() of a peer

Connect(p) ==
  /\ pc[p] = "connect"
  /\ serverUp # "down"
  /\ arrivals' = Append(arrivals, p)
  /\ pc' = [pc EXCEPT ![p] = "fread"]
  /\ UNCHANGED <<fileSize, serverUp, tracer, toSend, inbox, mine, i, file, reply, senderVars>>

\* the part is saved, and the sender thread is created
SavePart(p) ==
  /\ pc[p] = "save"
  /\ mine' = [mine EXCEPT ![p] = inbox[p]]
  /\ file' = [file EXCEPT ![p] = Written(<<>>, inbox[p])]
  /\ data' = [data EXCEPT ![p] = "held"]
  /\ pc' = [pc EXCEPT ![p] = "scan"]
  /\ UNCHANGED <<serverVars, inbox, i, reply, listening, backlog, accepted, sending>>

OwnLine(p, line) == line.offset = mine[p].offset

\* the next line of the tracer is there, and it is the peer's own
SkipOwn(p) ==
  /\ pc[p] = "scan"
  /\ i[p] < Len(tracer)
  /\ OwnLine(p, tracer[i[p] + 1])
  /\ i' = [i EXCEPT ![p] = @ + 1]
  /\ UNCHANGED <<serverVars, inbox, pc, mine, file, reply, senderVars>>

\* the next line names another peer, and the connection to it succeeds
ConnectPeer(p) ==
  /\ pc[p] = "scan"
  /\ i[p] < Len(tracer)
  /\ LET line == tracer[i[p] + 1]
     IN  /\ ~OwnLine(p, line)
         /\ listening[line.host]
         /\ backlog' = [backlog EXCEPT ![line.host] = Append(@, p)]
  /\ pc' = [pc EXCEPT ![p] = "fetch"]
  /\ UNCHANGED <<serverVars, inbox, mine, i, file, reply, listening, accepted, sending, data>>

\* the header and the data have come
SaveReply(p) ==
  /\ pc[p] = "got"
  /\ file' = [file EXCEPT ![p] = Written(@, reply[p])]
  /\ i' = [i EXCEPT ![p] = @ + 1]
  /\ pc' = [pc EXCEPT ![p] = "scan"]
  /\ UNCHANGED <<serverVars, inbox, mine, reply, senderVars>>

\* the end of the loop of request()
Complete(p) ==
  /\ pc[p] = "scan"
  /\ i[p] = peerN
  /\ pc' = [pc EXCEPT ![p] = "complete"]
  /\ UNCHANGED <<serverVars, inbox, mine, i, file, reply, senderVars>>

-----------------------------------------------------------------------------
\* sender() and sendOne() of a peer

\* Faulty variant: sender() is called after request() has returned.
SenderRunsAfterRequest(p) == data[p] = "held" /\ pc[p] = "complete"

\* sender() is a thread of its own, started once the part has been received
SenderRuns(p) == data[p] = "held"

SenderListen(p) ==
  /\ SenderRuns(p)
  /\ ~listening[p]
  /\ listening' = [listening EXCEPT ![p] = TRUE]
  /\ UNCHANGED <<serverVars, requestVars, backlog, accepted, sending, data>>

AcceptsMore(p) == Cardinality(accepted[p]) < peerN - 1

SenderAccept(p) ==
  /\ listening[p]
  /\ AcceptsMore(p)
  /\ backlog[p] # <<>>
  /\ accepted' = [accepted EXCEPT ![p] = @ \cup {Head(backlog[p])}]
  /\ sending' = [sending EXCEPT ![p] = @ \cup {Head(backlog[p])}]
  /\ backlog' = [backlog EXCEPT ![p] = Tail(@)]
  /\ UNCHANGED <<serverVars, requestVars, listening, data>>

sendOne(p, q) ==
  /\ q \in sending[p]
  /\ sending' = [sending EXCEPT ![p] = @ \ {q}]
  /\ reply' = [reply EXCEPT ![q] = mine[p]]
  /\ pc' = [pc EXCEPT ![q] = "got"]
  /\ UNCHANGED <<serverVars, inbox, mine, i, file, listening, backlog, accepted, data>>

\* Faulty variant: the threads are not joined.
NotJoined(p) == TRUE

AllJoined(p) == sending[p] = {}

\* the threads have been joined, and the buffer is freed
FreeData(p) ==
  /\ data[p] = "held"
  /\ listening[p]
  /\ ~AcceptsMore(p)
  /\ AllJoined(p)
  /\ data' = [data EXCEPT ![p] = "freed"]
  /\ UNCHANGED <<serverVars, requestVars, listening, backlog, accepted, sending>>

-----------------------------------------------------------------------------
PeerMain(p) == Connect(p) \/ SavePart(p) \/ SkipOwn(p) \/ ConnectPeer(p) \/ SaveReply(p) \/ Complete(p)

Sender(p) == SenderListen(p) \/ SenderAccept(p) \/ FreeData(p)

Next ==
  \/ Listen \/ OpenTracer \/ Accept
  \/ \E t \in toSend : work(t)
  \/ \E p \in Peers : PeerMain(p) \/ Sender(p) \/ (\E q \in Peers : sendOne(p, q))

\* Every thread of every process is scheduled, and every peer is started.
Spec ==
  /\ Init /\ [][Next]_vars
  /\ WF_vars(Listen \/ OpenTracer \/ Accept)
  /\ WF_vars(\E t \in toSend : work(t))
  /\ \A p \in Peers :
       WF_vars(PeerMain(p)) /\ WF_vars(Sender(p)) /\ WF_vars(\E q \in Peers : sendOne(p, q))

-----------------------------------------------------------------------------
\* When request() has gone through the tracer the peer has the whole file,
\* byte by byte, however the parts were cut and in whatever order they came,
\* also when the file is too short to give every peer a part.  On the way the
\* assertion of request() holds: the header of the peer it connected to has the
\* offset that the tracer gives for that peer.
FileIsWhole ==
  \A p \in Peers :
    /\ pc[p] = "complete" => file[p] = [k \in 1 .. fileSize |-> k - 1]
    /\ pc[p] = "got" => reply[p].offset = tracer[i[p] + 1].offset

\* sender() frees the buffer only when no sendOne() thread sends from it any
\* more, and when no other peer will ask for it any more.
NotFreedWhileSending ==
  \A p \in Peers :
    data[p] = "freed" =>
      /\ sending[p] = {}
      /\ backlog[p] = <<>>
      /\ \A q \in Peers \ {p} : \A k \in i[q] + 1 .. Len(tracer) :
           tracer[k].host = p => k = i[q] + 1 /\ pc[q] = "got"

\* Every peer gets its file, and every sender ends: nobody waits for ever for
\* a line of the tracer, for a listener or for an accept().
AllComplete == <>(\A p \in Peers : pc[p] = "complete" /\ data[p] = "freed")
=============================================================================
