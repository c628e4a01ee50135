----------------------------- MODULE RaftApply -----------------------------
(***************************************************************************)
(* How applied entries reach the service: applyLog of raft.go leaves each  *)
(* batch to a goroutine of its own, and the harness reads the peer's       *)
(* applyCh (config.go).  The steps of the peers are those of Raft; the     *)
(* goroutines and the reader are added to them.  Goroutines of an instance *)
(* that was crashed go on: its applyCh is still read.                      *)
(***************************************************************************)
EXTENDS MCRaft

VARIABLES batches,  \* the messages that each goroutine of a peer has still to send
          logs      \* cfg.logs: what the harness has read from each peer, by index

applyLogVars == <<batches, logs>>

\* the batch that a step of Raft hands out at peer i
AppMsgs(i) ==
  [k \in 1 .. lastApplied'[i] - lastApplied[i] |->
     [index |-> lastApplied[i] + k, command |-> log'[i][lastApplied[i] + k].cmd]]

\* the end of applyLog: a goroutine is started
StartSending ==
  batches' = [i \in Server |-> IF lastApplied'[i] > lastApplied[i]
                               THEN Append(batches[i], AppMsgs(i)) ELSE batches[i]]

\* Goroutine b of peer i is the one whose send the reader takes.
ReadApplyCh(i, b) ==
  LET m == Head(batches[i][b]) IN
  /\ batches[i][b] # <<>>
  /\ batches' = [batches EXCEPT ![i][b] = Tail(@)]
  /\ logs' = [logs EXCEPT ![i] = [k \in DOMAIN @ \cup {m.index} |->
                                    IF k = m.index THEN m.command ELSE @[k]]]
  /\ UNCHANGED vars

ApplyInit ==
  /\ Init
  /\ batches = [i \in Server |-> <<>>]
  /\ logs = [i \in Server |-> <<>>]

ApplyNext ==
  \/ Next /\ StartSending /\ UNCHANGED logs
  \/ \E i \in Server : \E b \in DOMAIN batches[i] : ReadApplyCh(i, b)

ApplySpec == ApplyInit /\ [][ApplyNext]_<<vars, applyLogVars>>

ApplyView == <<LogView, applyLogVars>>

\* config.go line 194: an entry is read after the entry before it, or the
\* harness stops with "apply out of order".
AppliedInOrder ==
  \A i \in Server : \A k \in DOMAIN logs[i] : k > 1 => k - 1 \in DOMAIN logs[i]
=============================================================================
