----------------------------- MODULE RdtSender -----------------------------
(***************************************************************************)
(* The sender's memory in src/mini_rdt/rdt_sender.cc: its ring buffer      *)
(* (module CircleQueue) and its timers (module VirtualTimer), in every     *)
(* order in which the handlers of the sender can use them.  The protocol   *)
(* is in module Rdt, where both are abstract; here the packets acked and   *)
(* the room of the window are arbitrary.                                   *)
(***************************************************************************)
EXTENDS CircleQueue, VirtualTimer

CONSTANTS
  MaxPush,    \* bound: bytes of one message
  Payload     \* kPayloadSize

ASSUME SizeAssumption == InitSize \in Nat \ {0} /\ MaxSize \in Nat /\ MaxPush \in Nat /\ Payload \in Nat \ {0}
ASSUME TimerAssumption == MaxTimers \in Nat /\ WaitTime \in Nat \ {0} /\ Keys \subseteq Nat

vars == <<queueVars, timerVars>>

\* Sender_Init
Init == QueueInit /\ TimerInit

\* A message, or what the window has no room for, is buffered.
Buffer(n) == push(n) /\ UNCHANGED timerVars

\* A packet is made of a message while nothing is buffered.
SendNew(key) == queue = <<>> /\ start(key) /\ UNCHANGED queueVars

\* Sender_PktMake takes a full payload, or all there is.
PktSize == IF last_size > Payload THEN Payload ELSE last_size

\* A packet is made of the buffer when an ack has made room for it.
SendBuffered(key) == last_size # 0 /\ pop(PktSize) /\ start(key)

Ack(key) == end(key) /\ UNCHANGED queueVars

Sender_Timeout == timeout /\ UNCHANGED queueVars

Time == Tick /\ UNCHANGED queueVars

Next ==
  \/ \E n \in 1..MaxPush : Buffer(n)
  \/ \E key \in Keys : SendNew(key) \/ SendBuffered(key) \/ Ack(key)
  \/ Sender_Timeout
  \/ Time

Spec == Init /\ [][Next]_vars
=============================================================================
