-------------------------------- MODULE Rdt --------------------------------
(***************************************************************************)
(* The selective-repeat transport of src/mini_rdt: rdt_sender.cc,          *)
(* rdt_receiver.cc and the simulated link of rdt_sim.cc.                   *)
(*                                                                         *)
(* Data.  The byte stream is cut into payloads; payload n is the number n, *)
(* counted from 0, and a message is a run of payloads.  A packet carries   *)
(* its sequence number, n modulo MaxSeqN, and its payload.  Packets and    *)
(* acks that are corrupted fail the checksum and are dropped: a corrupted  *)
(* one is a lost one.                                                      *)
(*                                                                         *)
(* Link.  Packets are lost and overtake each other.  A retransmission can  *)
(* put a second copy of a packet on the link, so a delivery may leave the  *)
(* packet there.  The link delivers a packet within 0.2s or never (line    *)
(* 269 of rdt_sim.cc); in that time the sender's window moves on by a      *)
(* bounded number of packets, Lag.                                         *)
(***************************************************************************)
EXTENDS Integers, Sequences, FiniteSets

CONSTANTS
  WindowSize,   \* kWindowSize
  MaxSeqN,      \* kMaxSeqN
  Lag,          \* packets the window may move on while a packet is on the link
  MaxPayloads,  \* bound: payloads the upper layer sends in all
  MaxMsg        \* bound: payloads of a message

ASSUME WindowAssumption == WindowSize \in Nat \ {0} /\ MaxSeqN \in Nat \ {0} /\ Lag \in Nat
\* The sequence numbers of two windows, and of what is still on the link, differ:
\* with 10 and 30, ten packets may overtake one that the link delays.
ASSUME LagAssumption == 2 * WindowSize + Lag <= MaxSeqN
ASSUME RdtBounds == MaxPayloads \in Nat /\ MaxMsg \in Nat

VARIABLES
  sender,       \* Sender_SlidingWindow: base_, top_, base_seq_n_, cells_
  buffer,       \* CircleQueueBuffer: payloads that wait for the window
  timers,       \* VirtualTimer: the sequence numbers with a timer
  receiver,     \* Receiver_SlidingWindow: base_, base_seq_n_, cells_
  data, acks,   \* packets and acks on the link
  produced,     \* payloads handed to the sender
  completed,    \* payloads the sender's window has moved past
  delivered,    \* payloads handed to the receiver's upper layer, in order
  failed        \* an ASSERT has failed

vars == <<sender, buffer, timers, receiver, data, acks, produced, completed, delivered, failed>>

Cells == 0..WindowSize

r_minus(a, b, K) == (a - b + K) % K
r_add(a, b, K) == (a + b) % K

Index(i, n) == r_add(i, n, WindowSize + 1)

Init ==
  /\ sender = [base |-> 0, top |-> 0, seq |-> 0,
               cells |-> [i \in Cells |-> [status |-> FALSE, backup |-> 0]]]
  /\ buffer = <<>>
  /\ timers = {}
  /\ receiver = [base |-> 0, seq |-> 0, cells |-> [i \in Cells |-> [status |-> FALSE, payload |-> 0]]]
  /\ data = {}
  /\ acks = {}
  /\ produced = 0
  /\ completed = 0
  /\ delivered = <<>>
  /\ failed = FALSE

-----------------------------------------------------------------------------
(* The sender *)

InFlight(w) == r_minus(w.top, w.base, WindowSize + 1)

\* Faulty variant of Room: the window is one packet too large.
RoomForOneMore(w) == WindowSize + 1 - InFlight(w)

\* How often send() returns a sequence number before it returns -1.
Room(w) == WindowSize - InFlight(w)

\* The sequence number send() returns after j more packets.
SeqOf(w, j) == r_add(w.seq, InFlight(w) + j, MaxSeqN)

BackupIndex(w, seq_n) == Index(w.base, r_minus(seq_n, w.seq, MaxSeqN))

\* The loop that sends payloads while the window has room: window w, payloads q.
Sent(w, q) == IF Len(q) < Room(w) THEN Len(q) ELSE Room(w)

Packets(w, q) == {[seq |-> SeqOf(w, j), payload |-> q[j + 1]] : j \in 0 .. Sent(w, q) - 1}

AfterSend(w, q) ==
  [w EXCEPT !.top = Index(@, Sent(w, q)),
            !.cells = [i \in Cells |->
                         IF \E j \in 0 .. Sent(w, q) - 1 : BackupIndex(w, SeqOf(w, j)) = i
                         THEN [status |-> TRUE,
                               backup |-> q[1 + CHOOSE j \in 0 .. Sent(w, q) - 1 :
                                                  BackupIndex(w, SeqOf(w, j)) = i]]
                         ELSE @[i]]]

\* What the loop does, from window w with timers t and link net: packets are backed
\* up, their timers are started, and they are put on the link; the rest is kept in
\* buffer.  start() asserts that no more than WindowSize timers run.
SendLoop(w, q, t, net) ==
  /\ sender' = AfterSend(w, q)
  /\ timers' = t \cup {p.seq : p \in Packets(w, q)}
  /\ data' = net \cup Packets(w, q)
  /\ buffer' = SubSeq(q, Sent(w, q) + 1, Len(q))
  /\ failed' = (failed \/ Cardinality(t) + Sent(w, q) > WindowSize)

Sender_FromUpperLayer(n) ==
  LET msg == [j \in 1..n |-> produced + j - 1] IN
  /\ produced + n <= MaxPayloads
  /\ produced' = produced + n
  /\ \/ /\ buffer # <<>>
        /\ buffer' = buffer \o msg
        /\ failed' = (failed \/ sender.base = sender.top)
        /\ UNCHANGED <<sender, timers, data>>
     \/ /\ buffer = <<>>
        /\ SendLoop(sender, msg, timers, data)
  /\ UNCHANGED <<receiver, acks, completed, delivered>>

\* How far ack() moves the window when its first packet is acknowledged: up to
\* the next packet that is not, or to the end of the window.
Acknowledged(w) ==
  CHOOSE n \in 1 .. WindowSize + 1 :
    /\ Index(w.base, n) = w.top \/ w.cells[Index(w.base, n)].status
    /\ \A k \in 1 .. n - 1 : Index(w.base, k) # w.top /\ ~w.cells[Index(w.base, k)].status

InWindow(w, seq_n) == r_minus(seq_n, w.seq, MaxSeqN) < WindowSize

\* The window after its packet seq_n is marked as acknowledged.
Marked(w, seq_n) == [w EXCEPT !.cells[BackupIndex(w, seq_n)].status = FALSE]

Moved(w, n) == [w EXCEPT !.base = Index(@, n), !.seq = r_add(@, n, MaxSeqN)]

\* What is still on the link when the window has moved past `done' packets.
OnLink(net, done) == {m \in net : m.payload + Lag >= done}

\* Faulty variant of EndTimer: an ack stands for all earlier packets too.
EndTimersUpTo(seq_n) == {s \in timers : s > seq_n}

\* virtual_timer->end: also for an ack that is outside the window.
EndTimer(seq_n) == timers \ {seq_n}

\* An ack arrives.  One that moves the window makes room for the buffer.
Sender_FromLowerLayer(a) ==
  LET w == Marked(sender, a.seq)
      n == Acknowledged(w)
  IN
  \/ /\ ~InWindow(sender, a.seq)
     /\ timers' = EndTimer(a.seq)
     /\ acks' \in {acks, acks \ {a}}
     /\ UNCHANGED <<sender, buffer, data, failed, receiver, produced, completed, delivered>>
  \/ /\ InWindow(sender, a.seq)
     /\ a.seq # sender.seq
     /\ timers' = EndTimer(a.seq)
     /\ sender' = w
     /\ acks' \in {acks, acks \ {a}}
     /\ UNCHANGED <<buffer, data, failed, receiver, produced, completed, delivered>>
  \/ /\ InWindow(sender, a.seq)
     /\ a.seq = sender.seq
     /\ completed' = completed + n
     /\ SendLoop(Moved(w, n), buffer, EndTimer(a.seq), OnLink(data, completed + n))
     /\ \E left \in {acks, acks \ {a}} : acks' = OnLink(left, completed + n)
     /\ UNCHANGED <<receiver, produced, delivered>>

\* The timer of packet seq_n expires: it is sent again, and its timer restarted.
Sender_ReSend(seq_n) ==
  LET cell == sender.cells[BackupIndex(sender, seq_n)] IN
  /\ failed' = (failed \/ ~cell.status)
  /\ data' = data \cup {[seq |-> seq_n, payload |-> cell.backup]}
  /\ UNCHANGED <<sender, buffer, timers, receiver, acks, produced, completed, delivered>>

-----------------------------------------------------------------------------
(* The receiver *)

\* Faulty variant of IsNew: the window is one packet too large.
IsNewOrNext(seq_n) == r_minus(seq_n, receiver.seq, MaxSeqN) <= WindowSize

\* seq_to_index: a packet of the window, ...
IsNew(seq_n) == r_minus(seq_n, receiver.seq, MaxSeqN) < WindowSize

\* Faulty variant of IsOld: a packet is acknowledged only once.
NeverOld(seq_n) == FALSE

\* ... or one of the WindowSize packets before it, whose ack was lost (-1).
IsOld(seq_n) == ~IsNew(seq_n) /\ r_minus(receiver.seq, seq_n, MaxSeqN) <= WindowSize

\* How many cells after the first get_after_base takes.
RunAfterBase ==
  CHOOSE n \in 0..WindowSize :
    /\ \A k \in 1..n : receiver.cells[Index(receiver.base, k)].status
    /\ n = WindowSize \/ ~receiver.cells[Index(receiver.base, n + 1)].status

\* Faulty variant of PutOnce: a packet that comes early is not kept.
PutNothing(i, payload) == receiver.cells

\* put: a packet that is already there is not copied again.
PutOnce(i, payload) ==
  IF receiver.cells[i].status THEN receiver.cells
  ELSE [receiver.cells EXCEPT ![i] = [status |-> TRUE, payload |-> payload]]

\* The first packet of the window is handed up with all that follow it.
Upload(m) ==
  LET n == RunAfterBase
      taken == {Index(receiver.base, k) : k \in 1..n}
  IN
  /\ delivered' = delivered \o <<m.payload>>
                    \o [k \in 1..n |-> receiver.cells[Index(receiver.base, k)].payload]
  /\ receiver' = [base |-> Index(receiver.base, n + 1),
                  seq |-> r_add(receiver.seq, n + 1, MaxSeqN),
                  cells |-> [i \in Cells |->
                     IF i \in taken THEN [receiver.cells[i] EXCEPT !.status = FALSE]
                                    ELSE receiver.cells[i]]]

Receiver_FromLowerLayer(m) ==
  /\ data' \in {data, data \ {m}}
  /\ acks' = IF IsNew(m.seq) \/ IsOld(m.seq) THEN acks \cup {m} ELSE acks
  /\ \/ /\ ~IsNew(m.seq)
        /\ UNCHANGED <<receiver, delivered>>
     \/ /\ IsNew(m.seq) /\ m.seq = receiver.seq
        /\ Upload(m)
     \/ /\ IsNew(m.seq) /\ m.seq # receiver.seq
        /\ receiver' = [receiver EXCEPT !.cells =
             PutOnce(Index(receiver.base, r_minus(m.seq, receiver.seq, MaxSeqN)), m.payload)]
        /\ UNCHANGED delivered
  /\ UNCHANGED <<sender, buffer, timers, produced, completed, failed>>

\* loss_rate and corrupt_rate
Lose(m) ==
  /\ \/ m \in data /\ data' = data \ {m} /\ UNCHANGED acks
     \/ m \in acks /\ acks' = acks \ {m} /\ UNCHANGED data
  /\ UNCHANGED <<sender, buffer, timers, receiver, produced, completed, delivered, failed>>

-----------------------------------------------------------------------------

Next ==
  \/ \E n \in 1..MaxMsg : Sender_FromUpperLayer(n)
  \/ \E a \in acks : Sender_FromLowerLayer(a)
  \/ \E seq_n \in timers : Sender_ReSend(seq_n)
  \/ \E m \in data : Receiver_FromLowerLayer(m)
  \/ \E m \in data \cup acks : Lose(m)

Spec == Init /\ [][Next]_vars

\* The upper layer keeps sending.  A timer that runs expires.  The link loses
\* packets at random, so what is sent again and again arrives.
Fairness ==
  /\ WF_vars(\E n \in 1..MaxMsg : Sender_FromUpperLayer(n))
  /\ \A s \in 0 .. MaxSeqN - 1 :
       /\ WF_vars(s \in timers /\ Sender_ReSend(s))
       /\ SF_vars(\E a \in acks : a.seq = s /\ Sender_FromLowerLayer(a))
       /\ SF_vars(\E m \in data : m.seq = s /\ Receiver_FromLowerLayer(m))

FairSpec == Spec /\ Fairness

-----------------------------------------------------------------------------
(* Properties *)

\* Receiver_ToUpperLayer of rdt_sim.cc checks it: the upper layer gets the
\* payloads in order, each one once.
InOrder == \A k \in 1..Len(delivered) : delivered[k] = k - 1

\* The ASSERTs of rdt_sender.cc (lines 65, 125) and rdt_util.cc (line 34) hold.
NoAssertFails == ~failed

\* A packet has a timer exactly while it is sent and not acknowledged: nothing
\* that is missing is forgotten, whatever acks come late.
TimerWhileUnacknowledged ==
  timers = {SeqOf([sender EXCEPT !.top = sender.base], j) : j \in
              {k \in 0 .. InFlight(sender) - 1 : sender.cells[Index(sender.base, k)].status}}

\* The sender's window moves past a payload only when it has been delivered, and
\* the receiver never runs more than a window ahead (SlidingWindow of both sides).
\* base_ and base_seq_n_ of each side, which go around two rings of different
\* sizes, tell how far it is.
WindowsOverlap ==
  /\ completed <= Len(delivered) /\ Len(delivered) <= completed + WindowSize
  /\ sender.seq = completed % MaxSeqN /\ receiver.seq = Len(delivered) % MaxSeqN
  /\ sender.base = Index(0, completed) /\ receiver.base = Index(0, Len(delivered))

\* What the upper layer sends arrives, in spite of losses: the receiver catches
\* up with the sender again and again.
AllDelivered == []<>(Len(delivered) = produced)
=============================================================================
