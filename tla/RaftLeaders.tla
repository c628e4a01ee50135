---------------------------- MODULE RaftLeaders -----------------------------
(***************************************************************************)
(* Schedules of Raft in which a deposed peer steps down first              *)
(* (StepDownFirst):                                                        *)
(*   1. A leader has won the election of its term, and only appends to its *)
(*      log.                                                               *)
(*   2. Any two pieces of logs match.  Logs, saved logs and AppendEntries  *)
(*      calls are treated alike, as pieces; Start and AppendEntries are the *)
(*      only steps that make a piece that is not a part of an earlier one. *)
(*      A refusal therefore never asks for index 0.                        *)
(* The theorems are in RaftSafety.                                         *)
(***************************************************************************)
EXTENDS RaftPieces

-----------------------------------------------------------------------------
(* 1. Leaders *)

\* Nobody leads when the peers are made.
LEMMA RoleInit == Init => RoleInv
BY DEF Init, RoleInv, RoleOK

\* A peer the step does not touch keeps its role.
LEMMA RoleFrame ==
  ASSUME NEW j \in Server, RoleOK(j),
         routine'[j] = routine[j], status'[j] = status[j], toFollower'[j] = toFollower[j],
         ballot'[j] = ballot[j], currentTerm'[j] = currentTerm[j],
         elected \subseteq elected', \A e \in elected' \ elected : e.server # j
  PROVE  RoleOK(j)'
BY DEF RoleOK

\* A call that remains in the network still comes from a winner.
LEMMA CallsFrame ==
  ASSUME RoleInv, requests' \subseteq requests, elected \subseteq elected'
  PROVE  \A m \in requests' : CallOK(m)'
BY Zenon DEF RoleInv, CallOK

\* updateTerm leaves a token for whoever it deposes (lines 170-183).
LEMMA RoleUpdateTerm ==
  ASSUME TypeOK, RoleInv, NEW i \in Server, NEW t \in Nat, updateTerm(i, t),
         UNCHANGED <<routine, ballot, elected>>
  PROVE  \A j \in Server : RoleOK(j)'
<1> SUFFICES ASSUME NEW j \in Server PROVE RoleOK(j)'
  OBVIOUS
<1>0. RoleOK(j)
  BY DEF RoleInv
<1>1. CASE j # i
  <2>1. currentTerm'[j] = currentTerm[j] /\ status'[j] = status[j] /\ toFollower'[j] = toFollower[j]
    BY <1>1 DEF updateTerm, TypeOK
  <2>2. QED
    BY <1>0, <2>1, RoleFrame
<1>2. CASE j = i
  <2>1. /\ currentTerm[i] \in Nat /\ toFollower[i] \in BOOLEAN
        /\ status[i] \in {"leader", "candidate", "follower"}
        /\ routine[i] \in RoutineState
        /\ elected \subseteq [term : Nat, server : Server]
    BY SMTT(30) DEF TypeOK
  <2>2. /\ currentTerm'[i] = SeenTerm(i, t)
        /\ status'[i] = IF Deposed(i, t) THEN "follower" ELSE status[i]
        /\ toFollower'[i] = (toFollower[i] \/ Deposed(i, t))
    BY DEF updateTerm, TypeOK
  <2>3. status[i] # "follower" => ~toFollower[i]
    BY <1>0, <1>2, <2>1 DEF RoleOK, RoutineState
  <2>4. CASE t > currentTerm[i]
    <3>1. /\ currentTerm'[i] = t /\ status'[i] = "follower"
          /\ status[i] # "follower" => toFollower'[i]
          /\ status[i] = "follower" => toFollower'[i] = toFollower[i]
      BY <2>1, <2>2, <2>3, <2>4, Zenon DEF SeenTerm, Deposed
    <3>2. QED
      BY <1>0, <1>2, <2>1, <2>4, <3>1 DEF RoleOK
  <2>5. CASE ~(t > currentTerm[i])
    <3>1. currentTerm'[i] = currentTerm[i] /\ status'[i] = status[i] /\ toFollower'[i] = toFollower[i]
      BY <2>1, <2>2, <2>5 DEF SeenTerm, Deposed
    <3>2. QED
      BY <1>0, <1>2, <3>1, RoleFrame
  <2>6. QED
    BY <2>4, <2>5
<1>3. QED
  BY <1>1, <1>2

\* RequestVote and AppendEntries change a role by updateTerm only.
LEMMA RoleHandler ==
  ASSUME TypeOK, RoleInv, Handler
  PROVE  RoleInv'
<1>1. CASE \E m \in voteCalls : RequestVote(m)
  <2>1. PICK m \in voteCalls : RequestVote(m)
    BY <1>1
  <2>2. m.to \in Server /\ m.term \in Nat
    BY Zenon DEF TypeOK, VoteCall
  <2>3. updateTerm(m.to, m.term) /\ UNCHANGED <<routine, ballot, elected, requests>>
    BY <2>1 DEF RequestVote, appendVars
  <2>4. QED
    BY <2>2, <2>3, RoleUpdateTerm, CallsFrame DEF RoleInv
<1>2. CASE \E m \in requests : AppendEntries(m)
  <2>1. PICK m \in requests : AppendEntries(m)
    BY <1>2
  <2>2. m.to \in Server /\ m.term \in Nat
    BY Zenon DEF TypeOK, Request
  <2>3. requests' \subseteq requests /\ elected' = elected
    BY <2>1 DEF AppendEntries, RefuseOldTerm, RefuseConflict, AcceptEntries, Reply, histVars
  <2>4. \A m2 \in requests' : CallOK(m2)'
    BY <2>3, CallsFrame
  <2>5. CASE RefuseOldTerm(m)
    <3>1. UNCHANGED <<routine, status, toFollower, ballot, currentTerm, elected>>
      BY <2>5 DEF RefuseOldTerm, roleVars, candVars, termVars, histVars
    <3>2. QED
      BY <2>4, <3>1, RoleFrame DEF RoleInv
  <2>6. CASE RefuseConflict(m) \/ AcceptEntries(m)
    <3>1. updateTerm(m.to, m.term) /\ UNCHANGED <<routine, ballot, elected>>
      BY <2>6, Zenon DEF RefuseConflict, AcceptEntries, candVars, histVars
    <3>2. QED
      BY <2>2, <2>4, <3>1, RoleUpdateTerm DEF RoleInv
  <2>7. QED
    BY <2>1, <2>5, <2>6 DEF AppendEntries
<1>3. QED
  BY <1>1, <1>2 DEF Handler

\* One peer moves: the others keep their roles.
LEMMA RoleOfOne ==
  ASSUME TypeOK, RoleInv, NEW i \in Server, RoleOK(i)',
         elected \subseteq elected', \A e \in elected' \ elected : e.server = i,
         \A j \in Server \ {i} :
           /\ routine'[j] = routine[j] /\ status'[j] = status[j] /\ toFollower'[j] = toFollower[j]
           /\ ballot'[j] = ballot[j] /\ currentTerm'[j] = currentTerm[j]
  PROVE  \A j \in Server : RoleOK(j)'
<1>1. ASSUME NEW j \in Server \ {i} PROVE RoleOK(j)'
  BY RoleFrame DEF RoleInv
<1>2. QED
  BY <1>1

\* A candidate stands in a term it has not won, and holds no token.
LEMMA RoleBeginElection ==
  ASSUME TypeOK, RoleInv, NEW i \in Server, BeginElection(i), ~toFollower[i],
         status' = [status EXCEPT ![i] = "candidate"], UNCHANGED toFollower
  PROVE  RoleInv'
<1>1. /\ currentTerm[i] \in Nat /\ currentTerm'[i] = currentTerm[i] + 1
      /\ ballot'[i] = currentTerm[i] + 1
      /\ routine'[i] = "candidate" /\ status'[i] = "candidate" /\ ~toFollower'[i]
      /\ elected' = elected /\ requests' = requests
      /\ elected \subseteq [term : Nat, server : Server]
  BY DEF BeginElection, TypeOK, appendVars
<1>2. RoleOK(i)
  BY DEF RoleInv
<1>3. RoleOK(i)'
  BY <1>1, <1>2 DEF RoleOK
<1>4. \A j \in Server \ {i} :
        /\ routine'[j] = routine[j] /\ status'[j] = status[j] /\ toFollower'[j] = toFollower[j]
        /\ ballot'[j] = ballot[j] /\ currentTerm'[j] = currentTerm[j]
  BY DEF BeginElection, TypeOK
<1>5. QED
  BY <1>1, <1>3, <1>4, RoleOfOne, CallsFrame DEF RoleInv

\* A step that leaves a peer a follower, with no token and no lower term.
LEMMA RoleFollower ==
  ASSUME TypeOK, RoleInv, NEW i \in Server, NEW t \in Nat, t >= currentTerm[i],
         currentTerm' = [currentTerm EXCEPT ![i] = t],
         status'[i] = "follower", ~toFollower'[i], routine'[i] \in {"follower", "return"},
         \A j \in Server \ {i} : /\ routine'[j] = routine[j] /\ status'[j] = status[j]
                                  /\ toFollower'[j] = toFollower[j] /\ ballot'[j] = ballot[j],
         elected' = elected, requests' = requests
  PROVE  RoleInv'
<1>1. /\ currentTerm[i] \in Nat /\ currentTerm'[i] = t
      /\ elected \subseteq [term : Nat, server : Server]
      /\ \A j \in Server \ {i} : currentTerm'[j] = currentTerm[j]
  BY DEF TypeOK
<1>2. RoleOK(i)
  BY DEF RoleInv
<1>3. RoleOK(i)'
  BY <1>1, <1>2 DEF RoleOK
<1>4. QED
  BY <1>1, <1>3, RoleOfOne, CallsFrame DEF RoleInv

\* A peer that steps down held no token (MayProceed).
LEMMA RoleStepDown ==
  ASSUME TypeOK, RoleInv, NEW i \in Server, NEW t \in Nat, t > currentTerm[i], StepDown(i, t),
         ~toFollower[i]
  PROVE  RoleInv'
<1>1. /\ status'[i] = "follower" /\ ~toFollower'[i] /\ routine'[i] = "follower"
      /\ currentTerm' = [currentTerm EXCEPT ![i] = t]
      /\ elected' = elected /\ requests' = requests
      /\ \A j \in Server \ {i} : /\ routine'[j] = routine[j] /\ status'[j] = status[j]
                                  /\ toFollower'[j] = toFollower[j] /\ ballot'[j] = ballot[j]
  BY DEF StepDown, NoBallot, TypeOK, histVars
<1>2. currentTerm[i] \in Nat /\ t >= currentTerm[i]
  BY DEF TypeOK
<1>3. QED
  BY <1>1, <1>2, RoleFollower, Zenon

\* The winner of an election leads the term of its ballot, which is its term:
\* it has not been deposed since it sent its calls.
LEMMA RoleWin ==
  ASSUME TypeOK, RoleInv, NEW i \in Server, routine[i] = "candidate", ~toFollower[i],
         NEW g, WinElection(i, g), UNCHANGED <<currentTerm, toFollower, requests>>
  PROVE  RoleInv'
<1>1. RoleOK(i)
  BY DEF RoleInv
<1>2. status[i] = "candidate" /\ ballot[i] = currentTerm[i] /\ 1 <= ballot[i]
  BY <1>1 DEF RoleOK
<1>3. /\ status'[i] = "leader" /\ routine'[i] = "enter" /\ ~toFollower'[i]
      /\ elected' = elected \cup {[term |-> currentTerm[i], server |-> i]}
      /\ \A j \in Server \ {i} :
           /\ routine'[j] = routine[j] /\ status'[j] = status[j]
           /\ toFollower'[j] = toFollower[j] /\ ballot'[j] = ballot[j]
  BY <1>2 DEF WinElection, BeginLeader, NoBallot, TypeOK
<1>4. currentTerm[i] \in Nat /\ elected \subseteq [term : Nat, server : Server]
  BY DEF TypeOK
<1>5. RoleOK(i)'
  BY <1>1, <1>2, <1>3, <1>4 DEF RoleOK
<1>6. \A e \in elected' \ elected : e.server = i
  BY <1>3
<1>7. QED
  BY <1>3, <1>5, <1>6, RoleOfOne, CallsFrame DEF RoleInv

\* A leader that has not been deposed sends calls of the term it has won.
LEMMA RoleBroadcast ==
  ASSUME TypeOK, RoleInv, StepDownFirst, NEW i \in Server, Broadcast(i)
  PROVE  RoleInv'
<1>1. RoleOK(i) /\ routine[i] \in {"enter", "wait"} /\ ~toFollower[i]
  BY DEF RoleInv, Broadcast, MayProceed
<1>2. status[i] = "leader" /\ [term |-> currentTerm[i], server |-> i] \in elected
  BY <1>1 DEF RoleOK
<1>3. /\ UNCHANGED <<status, toFollower, ballot, currentTerm, elected>>
      /\ \E w \in {"panic", "wait"} : routine' = [routine EXCEPT ![i] = w]
  BY Zenon DEF Broadcast, Panic, termVars, candVars, histVars
<1>4. routine'[i] \in {"panic", "wait"} /\ \A j \in Server \ {i} : routine'[j] = routine[j]
  BY <1>3 DEF TypeOK
<1>5. RoleOK(i)'
  BY <1>1, <1>2, <1>3, <1>4 DEF RoleOK
<1>6. \A j \in Server : RoleOK(j)'
  BY <1>3, <1>4, <1>5, RoleOfOne
<1>7. ASSUME NEW m \in requests', m \notin requests
      PROVE  m.from = i /\ m.to # i /\ m.term = currentTerm[i]
  <2> DEFINE call(p) == [from |-> i, to |-> p, term |-> currentTerm[i],
                         prev |-> nextIndex[i][p] - 1,
                         prevTerm |-> TermAt(log[i], nextIndex[i][p] - 1),
                         entries |-> SubSeq(log[i], nextIndex[i][p] - 1 + 1, Len(log[i])),
                         commit |-> commitIndex[i]]
  <2>1. requests' \subseteq requests \cup {call(p) : p \in Server \ {i}}
    BY Zenon DEF Broadcast, Panic, appendVars
  <2>2. PICK p \in Server \ {i} : m = call(p)
    BY <1>7, <2>1
  <2>3. QED
    BY <2>2
<1>8. \A m \in requests' : CallOK(m)'
  BY <1>2, <1>3, <1>7, Zenon DEF RoleInv, CallOK
<1>9. QED
  BY <1>6, <1>8 DEF RoleInv

\* The routine goroutine moves between roles as the invariant says.
LEMMA RoleRoutine ==
  ASSUME TypeOK, RoleInv, StepDownFirst, NEW i \in Server, Routine(i)
  PROVE  RoleInv'
<1>0. /\ RoleOK(i)
      /\ status[i] \in {"leader", "candidate", "follower"} /\ toFollower[i] \in BOOLEAN
      /\ currentTerm[i] \in Nat
  BY DEF RoleInv, TypeOK
<1>1. CASE ElectionTimeout(i)
  <2>1. ~toFollower[i]
    BY <1>0, <1>1 DEF RoleOK, ElectionTimeout
  <2>2. QED
    BY <1>1, <2>1, RoleBeginElection, Zenon DEF ElectionTimeout
<1>2. CASE CandidateTimeout(i)
  <2>1. ~toFollower[i] /\ status[i] = "candidate"
    BY <1>0, <1>2 DEF RoleOK, CandidateTimeout, MayProceed
  <2>2. status' = [status EXCEPT ![i] = "candidate"]
    BY <1>2, <2>1 DEF CandidateTimeout, TypeOK
  <2>3. QED
    BY <1>2, <2>1, <2>2, RoleBeginElection, Zenon DEF CandidateTimeout
<1>3. CASE TakeToFollower(i)
  <2>1. status[i] = "follower"
    BY <1>0, <1>3 DEF RoleOK, TakeToFollower
  <2>2. /\ status'[i] = "follower" /\ ~toFollower'[i] /\ routine'[i] = "return"
        /\ elected' = elected /\ requests' = requests
        /\ \A j \in Server \ {i} : /\ routine'[j] = routine[j] /\ status'[j] = status[j]
                                    /\ toFollower'[j] = toFollower[j] /\ ballot'[j] = ballot[j]
    BY <1>3, <2>1 DEF TakeToFollower, NoBallot, TypeOK, histVars
  <2>3. currentTerm' = [currentTerm EXCEPT ![i] = currentTerm[i]] /\ currentTerm[i] >= currentTerm[i]
    BY <1>0, <1>3 DEF TakeToFollower, TypeOK, termVars
  <2>4. QED
    BY <1>0, <2>2, <2>3, RoleFollower, Zenon
<1>4. CASE Dispatch(i)
  <2>1. status[i] = "follower" /\ ~toFollower[i]
    BY <1>0, <1>4 DEF RoleOK, Dispatch
  <2>2. /\ status'[i] = "follower" /\ ~toFollower'[i] /\ routine'[i] = "follower"
        /\ elected' = elected /\ requests' = requests
        /\ \A j \in Server \ {i} : /\ routine'[j] = routine[j] /\ status'[j] = status[j]
                                    /\ toFollower'[j] = toFollower[j] /\ ballot'[j] = ballot[j]
    BY <1>4, <2>1 DEF Dispatch, TypeOK, histVars, candVars, appendVars
  <2>3. currentTerm' = [currentTerm EXCEPT ![i] = currentTerm[i]] /\ currentTerm[i] >= currentTerm[i]
    BY <1>0, <1>4, <2>1 DEF Dispatch, TypeOK, termVars
  <2>4. QED
    BY <1>0, <2>2, <2>3, RoleFollower, Zenon
<1>5. CASE \E r \in voteReplies[i] : CountVote(i, r)
  <2>1. PICK r \in voteReplies[i] : CountVote(i, r)
    BY <1>5
  <2>2. r.term \in Nat
    BY DEF TypeOK, VoteReply
  <2>3. routine[i] = "candidate" /\ ~toFollower[i]
    BY <2>1, Zenon DEF CountVote, MayProceed
  <2>4. CASE r.term > currentTerm[i] /\ StepDown(i, r.term)
    BY <2>2, <2>3, <2>4, RoleStepDown
  <2>5. CASE \E g : /\ WinElection(i, g)
                    /\ UNCHANGED <<currentTerm, toFollower, requests>>
    BY <2>3, <2>5, RoleWin
  <2>6. CASE UNCHANGED <<routine, status, toFollower, ballot, currentTerm, elected, requests>>
    BY <2>6, RoleFrame, CallsFrame DEF RoleInv
  <2>7. QED
    BY <2>1, <2>4, <2>5, <2>6, Zenon DEF CountVote, termVars
<1>6. CASE Broadcast(i)
  BY <1>6, RoleBroadcast
<1>7. CASE \E r \in replies[i] : TakeReply(i, r)
  <2>1. PICK r \in replies[i] : TakeReply(i, r)
    BY <1>7
  <2>2. r.term \in Nat
    <3>1. r \in AppendReply
      BY DEF TypeOK
    <3>2. QED
      BY <3>1 DEF AppendReply
  <2>3. routine[i] = "wait" /\ ~toFollower[i]
    BY <2>1 DEF TakeReply, MayProceed
  <2>4. CASE r.term > currentTerm[i] /\ StepDown(i, r.term)
    BY <2>2, <2>3, <2>4, RoleStepDown, SMTT(30)
  <2>5. CASE UNCHANGED <<routine, status, toFollower, ballot, currentTerm, elected, requests>>
    BY <2>5, RoleFrame, CallsFrame DEF RoleInv
  <2>6. CASE Panic(i)
    <3>1. /\ UNCHANGED <<status, toFollower, ballot, currentTerm, elected, requests>>
          /\ routine'[i] = "panic" /\ \A j \in Server \ {i} : routine'[j] = routine[j]
      BY <2>6 DEF Panic, TypeOK, termVars, candVars, histVars, appendVars
    <3>2. RoleOK(i)'
      BY <1>0, <2>3, <3>1 DEF RoleOK
    <3>3. QED
      BY <3>1, <3>2, RoleOfOne, CallsFrame DEF RoleInv
  <2>7. QED
    BY <2>1, <2>4, <2>5, <2>6, Zenon
    DEF TakeReply, AdvanceCommit, termVars, roleVars, candVars, histVars
<1>8. QED
  BY <1>1, <1>2, <1>3, <1>4, <1>5, <1>6, <1>7 DEF Routine

\* Every step keeps RoleInv.
LEMMA RoleNext ==
  ASSUME TypeOK, SavedVote, RoleInv, StepDownFirst, [Next]_vars
  PROVE  RoleInv'
<1>1. CASE Handler
  BY <1>1, RoleHandler
<1>2. CASE \E i \in Server : Routine(i)
  BY <1>2, RoleRoutine
<1>3. CASE \E i \in Server, c \in Command : Start(i, c)
  <2>1. UNCHANGED <<routine, status, toFollower, ballot, currentTerm, elected, requests>>
    BY <1>3 DEF Start, roleVars, candVars, termVars, histVars, appendVars
  <2>2. QED
    BY <2>1, RoleFrame, CallsFrame DEF RoleInv
<1>4. CASE \E i \in Server : CrashRestart(i)
  <2>1. PICK i \in Server : CrashRestart(i)
    BY <1>4
  <2>2. /\ status'[i] = "follower" /\ ~toFollower'[i] /\ routine'[i] = "follower"
        /\ elected' = elected /\ requests' = requests
        /\ \A j \in Server \ {i} : /\ routine'[j] = routine[j] /\ status'[j] = status[j]
                                    /\ toFollower'[j] = toFollower[j] /\ ballot'[j] = ballot[j]
    BY <2>1 DEF CrashRestart, NoBallot, TypeOK, histVars
  <2>3. currentTerm' = [currentTerm EXCEPT ![i] = currentTerm[i]]
    BY <2>1, Zenon DEF CrashRestart, SavedVote
  <2>4. currentTerm[i] \in Nat /\ currentTerm[i] >= currentTerm[i]
    BY DEF TypeOK
  <2>5. QED
    BY <2>2, <2>3, <2>4, RoleFollower, Zenon
<1>5. CASE UNCHANGED vars
  <2>1. UNCHANGED <<routine, status, toFollower, ballot, currentTerm, elected, requests>>
    BY <1>5 DEF vars, roleVars, candVars, termVars, histVars, appendVars
  <2>2. QED
    BY <2>1, RoleFrame, CallsFrame DEF RoleInv
<1>6. QED
  BY <1>1, <1>2, <1>3, <1>4, <1>5 DEF Next

\* A log that is not touched.
LEMMA AppendStepFrame ==
  ASSUME TypeOK, NEW i \in Server, log'[i] = log[i]
  PROVE  Len(log'[i]) >= Len(log[i]) /\ SubSeq(log'[i], 1, Len(log[i])) = log[i]
<1>1. PICK l \in Seq(Entry) : log[i] = l /\ log'[i] = l
  BY Zenon DEF TypeOK
<1>2. Len(l) \in Nat /\ SubSeq(l, 1, Len(l)) = l
  BY <1>1, LenFacts, FullFacts, Zenon
<1>3. Len(l) >= Len(l)
  BY <1>2, RangeFacts, Zenon
<1>4. QED
  BY <1>1, <1>2, <1>3, Zenon

\* A log with an entry more.
LEMMA SubSeqOfAppended ==
  ASSUME NEW l \in Seq(Entry), NEW e \in Entry
  PROVE  Len(Append(l, e)) >= Len(l) /\ SubSeq(Append(l, e), 1, Len(l)) = l
<1> DEFINE a == Append(l, e)
<1>1. /\ a \in Seq(Entry) /\ Len(a) = Len(l) + 1 /\ Len(l) \in Nat
      /\ \A k \in 1..Len(l) : a[k] = l[k]
  BY AppendFacts
<1> HIDE DEF a
<1>2. \A k \in 1..Len(l) : a[k] \in Entry
  BY <1>1, LenFacts, SMTT(30)
<1>3. /\ SubSeq(a, 1, Len(l)) \in Seq(Entry)
      /\ Len(SubSeq(a, 1, Len(l))) = Len(l)
      /\ \A k \in 1..Len(l) : SubSeq(a, 1, Len(l))[k] = a[k]
  BY <1>1, <1>2, SubSeqFacts
<1>4. SubSeq(a, 1, Len(l)) = l
  BY <1>1, <1>3, EqualFacts
<1>5. QED
  BY <1>1, <1>4 DEF a

\* Only the leader itself sends calls of the term it leads, and not to itself;
\* so no AppendEntries call reaches the log of a leader that stays one.
LEMMA LeaderAppendNext ==
  ASSUME TypeOK, RoleInv, OneWinnerPerTerm, [Next]_vars
  PROVE  LeaderAppendStep
<1> SUFFICES ASSUME NEW i \in Server, status[i] = "leader", status'[i] = "leader",
                    currentTerm'[i] = currentTerm[i], log'[i] # log[i]
             PROVE  /\ Len(log'[i]) >= Len(log[i])
                    /\ SubSeq(log'[i], 1, Len(log[i])) = log[i]
  BY AppendStepFrame DEF LeaderAppendStep
<1>1. ASSUME NEW m \in requests, AcceptEntries(m) PROVE FALSE
  <2>1. m.to \in Server /\ m.term \in Nat /\ currentTerm \in [Server -> Nat]
    BY ZenonT(30) DEF TypeOK, Request
  <2>2. m.to = i
    BY <1>1, <2>1, Zenon DEF AcceptEntries, TypeOK
  <2>3. m.term = currentTerm[i]
    <3>1. ~(m.term < currentTerm[i])
      BY <1>1, <2>2, Zenon DEF AcceptEntries, OldTerm
    <3>2. currentTerm' = [currentTerm EXCEPT ![i] = SeenTerm(i, m.term)]
      BY <1>1, <2>2, Zenon DEF AcceptEntries, updateTerm
    <3>3. QED
      BY <2>1, <3>1, <3>2 DEF SeenTerm
  <2> DEFINE e == [term |-> currentTerm[i], server |-> i]
             f == [term |-> m.term, server |-> m.from]
  <2>4. e \in elected /\ f \in elected /\ m.from # m.to
    BY Zenon DEF RoleInv, RoleOK, CallOK
  <2>5. e.server = f.server
    BY <2>3, <2>4 DEF OneWinnerPerTerm
  <2>6. QED
    BY <2>2, <2>4, <2>5
<1>2. CASE Handler
  BY <1>1, <1>2, ZenonT(30) DEF Handler, RequestVote, AppendEntries, RefuseOldTerm, RefuseConflict
<1>3. CASE \E j \in Server : Routine(j)
  <2>1. PICK j \in Server : Routine(j)
    BY <1>3
  <2>2. UNCHANGED log
    BY <2>1, Zenon
    DEF Routine, ElectionTimeout, CandidateTimeout, BeginElection, TakeToFollower, Dispatch,
        CountVote, StepDown, Broadcast, TakeReply, AdvanceCommit, Panic
  <2>3. QED
    BY <2>2
<1>4. CASE \E j \in Server, c \in Command : Start(j, c)
  <2>1. PICK j \in Server, c \in Command : Start(j, c)
    BY <1>4, SMTT(30)
  <2>2. /\ log[i] \in Seq(Entry) /\ Len(log[i]) \in Nat
        /\ log'[i] = Append(log[i], NewEntry(i, c))
    BY <2>1, LenFacts, SMTT(30) DEF Start, TypeOK
  <2>3. NewEntry(i, c) \in Entry
    BY DEF NewEntry, Entry, TypeOK
  <2>4. QED
    BY <2>2, <2>3, SubSeqOfAppended
<1>5. CASE \E j \in Server : CrashRestart(j)
  <2>1. PICK j \in Server : CrashRestart(j)
    BY <1>5
  <2>2. /\ status' = [status EXCEPT ![j] = "follower"]
        /\ log' = [log EXCEPT ![j] = persisted[j].log]
    BY <2>1, Zenon DEF CrashRestart
  <2>3. QED
    BY <2>2 DEF TypeOK
<1>6. QED
  BY <1>2, <1>3, <1>4, <1>5 DEF Next, vars

\* updateTerm deposes a leader when it raises its term.
LEMMA StaysUpdateTerm ==
  ASSUME TypeOK, RoleInv, NEW j \in Server, NEW t \in Nat, updateTerm(j, t),
         NEW i \in Server, status'[i] = "leader"
  PROVE  status[i] = "leader" /\ currentTerm'[i] = currentTerm[i]
<1>1. CASE i # j
  BY <1>1 DEF updateTerm, TypeOK
<1>2. CASE i = j
  <2>1. /\ status[i] \in {"leader", "candidate", "follower"} /\ routine[i] \in RoutineState
        /\ currentTerm[i] \in Nat
    BY DEF TypeOK
  <2>2. /\ status'[i] = IF Deposed(i, t) THEN "follower" ELSE status[i]
        /\ currentTerm'[i] = SeenTerm(i, t)
    BY <1>2 DEF updateTerm, TypeOK
  <2>3. status[i] = "leader" /\ ~Deposed(i, t)
    BY <2>2
  <2>4. ~toFollower[i]
    BY <2>1, <2>3, ZenonT(30) DEF RoleInv, RoleOK, RoutineState
  <2>5. QED
    BY <2>1, <2>2, <2>3, <2>4 DEF Deposed, SeenTerm
<1>3. QED
  BY <1>1, <1>2

\* Stepping down leaves the other leaders alone.
LEMMA StaysStepDown ==
  ASSUME TypeOK, NEW j \in Server, NEW t, StepDown(j, t), NEW i \in Server, status'[i] = "leader"
  PROVE  status[i] = "leader" /\ currentTerm'[i] = currentTerm[i]
BY DEF StepDown, TypeOK

\* A routine makes a leader only by winning an election.
LEMMA StaysRoutine ==
  ASSUME TypeOK, RoleInv, StepDownFirst, NEW j \in Server, Routine(j), OneWinnerPerTerm',
         NEW i \in Server, status'[i] = "leader"
  PROVE  \/ status[i] = "leader" /\ currentTerm'[i] = currentTerm[i]
         \/ 1 <= currentTerm'[i] /\ \A e \in elected : e.term # currentTerm'[i]
<1>0. RoleOK(j)
  BY DEF RoleInv
<1>1. CASE ElectionTimeout(j)
  BY <1>1, ZenonT(30) DEF ElectionTimeout, BeginElection, TypeOK
<1>2. CASE CandidateTimeout(j)
  <2>1. status[j] = "candidate"
    BY <1>0, <1>2, ZenonT(30) DEF RoleOK, CandidateTimeout, MayProceed
  <2>2. QED
    BY <1>2, <2>1, ZenonT(30) DEF CandidateTimeout, BeginElection, TypeOK
<1>3. CASE TakeToFollower(j)
  BY <1>3, ZenonT(30) DEF TakeToFollower, termVars
<1>4. CASE Dispatch(j)
  <2>1. status[j] = "follower"
    BY <1>0, <1>4 DEF RoleOK, Dispatch
  <2>2. QED
    BY <1>4, <2>1, ZenonT(30) DEF Dispatch, termVars
<1>5. CASE \E r \in voteReplies[j] : CountVote(j, r)
  <2>1. PICK r \in voteReplies[j] : CountVote(j, r)
    BY <1>5, SMTT(30)
  <2>2. CASE StepDown(j, r.term)
    BY <2>2, StaysStepDown
  <2>3. CASE UNCHANGED <<status, currentTerm>>
    BY <2>3
  <2>4. CASE UNCHANGED currentTerm /\ \E g : WinElection(j, g)
    <3>1. /\ status' = [status EXCEPT ![j] = "leader"]
          /\ elected' = elected \cup {[term |-> ballot[j], server |-> j]}
      BY <2>4 DEF WinElection
    <3>2. CASE i # j
      BY <2>4, <3>1, <3>2, SMTT(30) DEF TypeOK
    <3>3. CASE i = j
      <4>1. status[i] = "candidate" /\ ballot[i] = currentTerm[i] /\ 1 <= ballot[i]
        BY <1>0, <2>1, <3>3, Zenon DEF RoleOK, CountVote, MayProceed
      <4>2. ASSUME NEW e \in elected, e.term = currentTerm[i] PROVE FALSE
        <5> DEFINE f == [term |-> ballot[i], server |-> i]
        <5>1. e \in elected' /\ f \in elected' /\ f.term = ballot[i] /\ f.server = i
          BY <3>1, <3>3
        <5>2. e.server = i
          BY <4>1, <4>2, <5>1, SMTT(30) DEF OneWinnerPerTerm
        <5>3. e.term < currentTerm[i] /\ currentTerm[i] \in Nat
          BY <1>0, <3>3, <4>1, <5>2, SMTT(30) DEF RoleOK, TypeOK
        <5>4. QED
          BY <4>2, <5>3
      <4>3. QED
        BY <2>4, <4>1, <4>2
    <3>4. QED
      BY <3>2, <3>3
  <2>5. QED
    BY <2>1, <2>2, <2>3, <2>4, ZenonT(30) DEF CountVote, termVars
<1>6. CASE Broadcast(j)
  <2>1. UNCHANGED <<status, currentTerm>>
    BY <1>6, Zenon DEF Broadcast, Panic, termVars
  <2>2. QED
    BY <2>1
<1>7. CASE \E r \in replies[j] : TakeReply(j, r)
  <2>1. PICK r \in replies[j] : TakeReply(j, r)
    BY <1>7
  <2>2. CASE StepDown(j, r.term)
    BY <2>2, StaysStepDown
  <2>3. CASE UNCHANGED <<status, currentTerm>>
    BY <2>3
  <2>4. QED
    BY <2>1, <2>2, <2>3, Zenon DEF TakeReply, AdvanceCommit, Panic, termVars, roleVars
<1>8. QED
  BY <1>1, <1>2, <1>3, <1>4, <1>5, <1>6, <1>7, Zenon DEF Routine

\* Every step is a LeaderStep.
LEMMA LeaderStepNext ==
  ASSUME TypeOK, TypeOK', RoleInv, StepDownFirst, OneWinnerPerTerm, OneWinnerPerTerm', [Next]_vars
  PROVE  LeaderStep
<1> SUFFICES ASSUME NEW i \in Server, status'[i] = "leader"
             PROVE  \/ status[i] = "leader" /\ currentTerm'[i] = currentTerm[i]
                    \/ 1 <= currentTerm'[i] /\ \A e \in elected : e.term # currentTerm'[i]
  BY LeaderAppendNext DEF LeaderStep, LeaderAppendStep
<1>1. CASE \E m \in voteCalls : RequestVote(m)
  <2>1. PICK m \in voteCalls : RequestVote(m)
    BY <1>1
  <2>2. m.to \in Server /\ m.term \in Nat
    BY Zenon DEF TypeOK, VoteCall
  <2>3. QED
    BY <2>1, <2>2, StaysUpdateTerm, Zenon DEF RequestVote
<1>2. CASE \E m \in requests : AppendEntries(m)
  <2>1. PICK m \in requests : AppendEntries(m)
    BY <1>2
  <2>2. m.to \in Server /\ m.term \in Nat
    BY ZenonT(30) DEF TypeOK, Request
  <2>3. updateTerm(m.to, m.term) \/ UNCHANGED <<status, currentTerm>>
    BY <2>1, Zenon DEF AppendEntries, RefuseOldTerm, RefuseConflict, AcceptEntries, roleVars, termVars
  <2>4. QED
    BY <2>2, <2>3, StaysUpdateTerm
<1>3. CASE \E j \in Server : Routine(j)
  BY <1>3, StaysRoutine
<1>4. CASE \E j \in Server, c \in Command : Start(j, c)
  BY <1>4 DEF Start, roleVars, termVars
<1>5. CASE \E j \in Server : CrashRestart(j)
  <2>1. PICK j \in Server : CrashRestart(j)
    BY <1>5
  <2>2. /\ status' = [status EXCEPT ![j] = "follower"]
        /\ currentTerm' = [currentTerm EXCEPT ![j] = persisted[j].currentTerm]
    BY <2>1, Zenon DEF CrashRestart
  <2>3. QED
    BY <2>2 DEF TypeOK
<1>6. CASE UNCHANGED vars
  BY <1>6, Zenon DEF vars, roleVars, termVars
<1>7. QED
  BY <1>1, <1>2, <1>3, <1>4, <1>5, <1>6, ZenonT(30) DEF Next, Handler

-----------------------------------------------------------------------------
(* 2. Matching logs *)

\* Logs, saved logs and calls are pieces.
LEMMA PiecesType ==
  ASSUME TypeOK
  PROVE  \A x \in Pieces : IsPiece(x)
<1>1. \A i \in Server : log[i] \in Seq(Entry) /\ persisted[i].log \in Seq(Entry)
  BY DEF TypeOK
<1>2. \A i \in Server : IsPiece(Whole(log[i])) /\ IsPiece(Whole(persisted[i].log))
  BY <1>1, WholeFacts
<1>3. \A m \in requests : IsPiece(m)
  BY Zenon DEF TypeOK, Request, IsPiece
<1>4. QED
  BY <1>2, <1>3 DEF Pieces

\* All logs are empty when the peers are made.
LEMMA MatchInit == Init => MatchInv
<1> SUFFICES ASSUME Init PROVE MatchInv
  OBVIOUS
<1>1. <<>> \in Seq(Entry) /\ Len(<<>>) = 0
  OBVIOUS
<1>2. \A x \in Pieces : x = Whole(<<>>)
  BY DEF Init, Pieces, Saved
<1>3. Covered(Whole(<<>>)) = {0} /\ TermOf(Whole(<<>>), 0) = 0
  <2>1. PICK l : l = <<>>
    OBVIOUS
  <2>2. l \in Seq(Entry) /\ Len(l) = 0
    BY <1>1, <2>1
  <2>3. Covered(Whole(l)) = 0..0 /\ TermOf(Whole(l), 0) = TermAt(l, 0)
    <3>1. Covered(Whole(l)) = 0..Len(l) /\ \A k \in 0..Len(l) : TermOf(Whole(l), k) = TermAt(l, k)
      BY <2>2, WholeFacts, ZenonT(30)
    <3>2. 0 \in 0..Len(l)
      BY <2>2
    <3>3. QED
      BY <2>2, <3>1, <3>2
  <2>4. QED
    BY <2>1, <2>3 DEF TermAt
<1>4. TermsWon(Whole(<<>>))
  BY <1>3 DEF TermsWon
<1>5. LeaderHolds(Whole(<<>>))
  BY DEF LeaderHolds, Init
<1>6. QED
  BY <1>2, <1>4, <1>5, MatchSelf DEF MatchInv

\* A piece of before the step is still as the invariant says.
LEMMA HoldsFrame ==
  ASSUME TypeOK, TypeOK', LeaderStep, elected \subseteq elected', NEW x, IsPiece(x),
         TermsWon(x), LeaderHolds(x)
  PROVE  TermsWon(x)' /\ LeaderHolds(x)'
<1>1. TermsWon(x)'
  BY DEF TermsWon
<1>2. ASSUME NEW i \in Server, NEW k \in Covered(x), status'[i] = "leader",
             TermOf(x, k) = currentTerm'[i]
      PROVE  k <= Len(log'[i])
  <2>0. /\ k \in Nat /\ Len(log[i]) \in Nat /\ Len(log'[i]) \in Nat /\ currentTerm'[i] \in Nat
    BY CoveredFacts, LenFacts DEF TypeOK
  <2>1. CASE /\ status[i] = "leader" /\ currentTerm'[i] = currentTerm[i]
             /\ Len(log'[i]) >= Len(log[i])
    <3>1. k <= Len(log[i])
      BY <1>2, <2>1 DEF LeaderHolds
    <3>2. QED
      BY <2>0, <2>1, <3>1, SMTT(30)
  <2>2. CASE 1 <= currentTerm'[i] /\ \A e \in elected : e.term # currentTerm'[i]
    <3>1. k = 0 /\ TermOf(x, k) = 0
      BY <1>2, <2>2 DEF TermsWon
    <3>2. QED
      BY <1>2, <2>0, <2>2, <3>1
  <2>3. QED
    BY <1>2, <2>1, <2>2 DEF LeaderStep
<1>3. QED
  BY <1>1, <1>2 DEF LeaderHolds

\* ... and so is every part of it.
LEMMA HoldsPart ==
  ASSUME NEW x, NEW z, Part(z, x), TermsWon(x)', LeaderHolds(x)'
  PROVE  TermsWon(z)' /\ LeaderHolds(z)'
BY DEF Part, TermsWon, LeaderHolds

\* A step that makes one piece x, which matches what was there, and parts of x
\* and of what was there.
LEMMA MatchStep ==
  ASSUME TypeOK, TypeOK', MatchInv, LeaderStep, elected \subseteq elected',
         NEW x, \A y \in Pieces : Match(x, y), TermsWon(x)', LeaderHolds(x)',
         \A z \in Pieces' : Part(z, x) \/ \E y \in Pieces : Part(z, y)
  PROVE  MatchInv'
<1>1. ASSUME NEW z \in Pieces' PROVE TermsWon(z)' /\ LeaderHolds(z)'
  <2>1. CASE Part(z, x)
    BY <2>1, HoldsPart
  <2>2. CASE \E y \in Pieces : Part(z, y)
    <3>1. PICK y \in Pieces : Part(z, y)
      BY <2>2
    <3>2. TermsWon(y)' /\ LeaderHolds(y)'
      BY HoldsFrame, PiecesType DEF MatchInv
    <3>3. QED
      BY <3>1, <3>2, HoldsPart
  <2>3. QED
    BY <2>1, <2>2
<1>2. ASSUME NEW z \in Pieces', NEW w \in Pieces' PROVE Match(z, w)
  <2>1. PICK a \in Pieces \cup {x} : Part(z, a)
    BY <1>2
  <2>2. PICK b \in Pieces \cup {x} : Part(w, b)
    BY <1>2
  <2>3. Match(a, b)
    BY MatchSymmetric, MatchSelf DEF MatchInv
  <2>4. QED
    BY <2>1, <2>2, <2>3, MatchParts
<1>3. QED
  BY <1>1, <1>2 DEF MatchInv

\* A step that makes only parts of what was there.
LEMMA MatchOld ==
  ASSUME TypeOK, TypeOK', MatchInv, LeaderStep, elected \subseteq elected',
         \A z \in Pieces' : \E y \in Pieces : Part(z, y)
  PROVE  MatchInv'
<1>1. PICK x \in Pieces : TRUE
  BY ServerAssumption DEF Pieces
<1>2. TermsWon(x)' /\ LeaderHolds(x)' /\ \A y \in Pieces : Match(x, y)
  BY HoldsFrame, PiecesType DEF MatchInv
<1>3. QED
  BY <1>2, MatchStep

\* A step that leaves logs alone, or reads or saves one, and sends nothing.
LEMMA MatchKeep ==
  ASSUME TypeOK, TypeOK', MatchInv, LeaderStep, elected \subseteq elected',
         \A j \in Server : /\ log'[j] \in {log[j], persisted[j].log}
                           /\ persisted'[j].log \in {log[j], persisted[j].log},
         requests' \subseteq requests
  PROVE  MatchInv'
<1>1. ASSUME NEW z \in Pieces' PROVE z \in Pieces
  BY DEF Pieces
<1>2. QED
  BY <1>1, MatchOld, PartSelf

\* AppendEntries keeps logs matching.
LEMMA MatchAccept ==
  ASSUME TypeOK, TypeOK', MatchInv, LeaderStep, NEW m \in requests, AcceptEntries(m)
  PROVE  MatchInv'
<1> DEFINE i == m.to
<1>0. PICK l, x : l = log[i] /\ x = Whole(Extended(l, m))
  OBVIOUS
<1>1. /\ i \in Server /\ l \in Seq(Entry) /\ m \in Request
      /\ m.prev \in Nat /\ IsPiece(m)
  BY <1>0, ZenonT(30) DEF TypeOK, Request, IsPiece
<1>2. HasPrev(l, m)
  BY <1>0, Zenon DEF AcceptEntries
<1>3. Whole(l) \in Pieces /\ m \in Pieces
  BY <1>0, <1>1 DEF Pieces
<1>4. Match(Whole(l), m)
  BY <1>3 DEF MatchInv
<1>5. /\ IsPiece(x) /\ m.prev \in Covered(x)
      /\ \A k \in Covered(x) : k <= m.prev => k \in Covered(Whole(l)) /\ TermOf(x, k) = TermOf(Whole(l), k)
      /\ \A k \in Held(x) : k <= m.prev => k \in Held(Whole(l)) /\ EntryOf(x, k) = EntryOf(Whole(l), k)
      /\ \A k \in Covered(x) : m.prev <= k => k \in Covered(m) /\ TermOf(x, k) = TermOf(m, k)
      /\ \A k \in Held(x) : m.prev < k => k \in Held(m) /\ EntryOf(x, k) = EntryOf(m, k)
  BY <1>0, <1>1, <1>2, <1>4, ExtendedIsJoin, ZenonT(30)
<1>6. ASSUME NEW y \in Pieces PROVE Match(x, y)
  <2>1. IsPiece(y) /\ Match(Whole(l), y) /\ Match(m, y)
    BY <1>3, PiecesType DEF MatchInv
  <2>2. QED
    BY <1>5, <2>1, MatchJoin
<1>7. /\ elected' = elected
      /\ log' = [log EXCEPT ![i] = Extended(l, m)]
      /\ persisted' = [persisted EXCEPT ![i] =
                         Saved(SeenTerm(i, m.term), SeenVote(i, m.term), Truncated(l, m))]
      /\ requests' \subseteq requests
  BY <1>0, ZenonT(30) DEF AcceptEntries, Reply, histVars
<1>8. TermsWon(x)' /\ LeaderHolds(x)'
  <2>1. /\ TermsWon(Whole(l))' /\ LeaderHolds(Whole(l))'
        /\ TermsWon(m)' /\ LeaderHolds(m)'
    BY <1>3, <1>7, HoldsFrame, PiecesType DEF MatchInv
  <2>2. ASSUME NEW k \in Covered(x)
        PROVE  \/ k \in Covered(Whole(l)) /\ TermOf(x, k) = TermOf(Whole(l), k)
               \/ k \in Covered(m) /\ TermOf(x, k) = TermOf(m, k)
    <3>1. k \in Nat
      BY <1>5, CoveredFacts
    <3>2. k <= m.prev \/ m.prev <= k
      BY <1>1, <3>1
    <3>3. QED
      BY <1>5, <3>2
  <2>3. QED
    BY <2>1, <2>2 DEF TermsWon, LeaderHolds
<1>9. ASSUME NEW z \in Pieces' PROVE Part(z, x) \/ \E y \in Pieces : Part(z, y)
  <2>1. /\ log'[i] = Extended(l, m) /\ \A j \in Server \ {i} : log'[j] = log[j]
        /\ persisted'[i].log = Truncated(l, m)
        /\ \A j \in Server \ {i} : persisted'[j] = persisted[j]
    <3>1. /\ log \in [Server -> Seq(Entry)] /\ i \in Server
          /\ persisted \in [Server -> [currentTerm : Nat, votedFor : Server \cup {NoVote}, log : Seq(Entry)]]
      BY <1>1, Zenon DEF TypeOK
    <3>2. PICK s : s = Saved(SeenTerm(i, m.term), SeenVote(i, m.term), Truncated(l, m))
      BY Zenon
    <3>3. PICK x1 : x1 = Extended(l, m)
      BY Zenon
    <3>4. /\ log'[i] = x1 /\ \A j \in Server \ {i} : log'[j] = log[j]
          /\ persisted'[i] = s /\ \A j \in Server \ {i} : persisted'[j] = persisted[j]
      BY <1>7, <3>1, <3>2, <3>3
    <3>5. s.log = Truncated(l, m)
      BY <3>2, Zenon DEF Saved
    <3>6. QED
      BY <3>3, <3>4, <3>5, Zenon
  <2>2. z \in Pieces \/ z = x \/ z = Whole(Truncated(l, m))
    BY <1>0, <1>7, <2>1 DEF Pieces
  <2>3. QED
    BY <1>1, <1>2, <1>3, <2>2, PartSelf, TruncatedIsPart, SMTT(30)
<1>10. QED
  BY <1>6, <1>7, <1>8, <1>9, MatchStep

\* No piece has an entry of the leader's term beyond its log, so the entry that
\* Start appends makes no two pieces agree that did not.
LEMMA MatchStart ==
  ASSUME TypeOK, TypeOK', MatchInv, RoleInv, OneWinnerPerTerm, LeaderStep,
         NEW i \in Server, NEW c \in Command, Start(i, c)
  PROVE  MatchInv'
<1>0. PICK l, T, w, x : /\ l = log[i] /\ T = currentTerm[i]
                        /\ w = Append(l, NewEntry(i, c)) /\ x = Whole(w)
  BY Zenon
<1> DEFINE e == NewEntry(i, c)
           L == Len(l)
<1>1. /\ l \in Seq(Entry) /\ L \in Nat /\ T \in Nat /\ e \in Entry /\ e.term = T
      /\ L = Len(l) /\ status[i] = "leader"
  <2>1. l \in Seq(Entry) /\ T \in Nat
    BY <1>0 DEF TypeOK
  <2>2. e = [term |-> T, cmd |-> c]
    BY <1>0, Zenon DEF NewEntry
  <2>3. e \in Entry /\ e.term = T
    BY <2>1, <2>2 DEF Entry
  <2>4. status[i] = "leader"
    BY DEF Start
  <2>5. QED
    BY <2>1, <2>3, <2>4, LenFacts, SMTT(30)
<1>2. /\ w \in Seq(Entry) /\ Len(w) = L + 1
      /\ \A k \in 1..L : w[k] = l[k]
      /\ w[L + 1] = e
  <2>1. w = Append(l, e)
    BY <1>0
  <2> HIDE DEF e, L
  <2>2. /\ Append(l, e) \in Seq(Entry) /\ Len(Append(l, e)) = Len(l) + 1
        /\ \A k \in 1..Len(l) : Append(l, e)[k] = l[k]
        /\ Append(l, e)[Len(l) + 1] = e
    BY <1>1, AppendFacts, ZenonT(30)
  <2>3. QED
    BY <1>1, <2>1, <2>2, ZenonT(30)
<1>3. Whole(l) \in Pieces
  BY <1>0 DEF Pieces
<1>4. /\ log' = [log EXCEPT ![i] = w]
      /\ persisted' = [persisted EXCEPT ![i] = Saved(T, votedFor[i], w)]
      /\ UNCHANGED <<requests, elected, status, currentTerm>>
  BY <1>0 DEF Start, appendVars, histVars, roleVars, termVars
<1> HIDE DEF e, L
<1>5. /\ IsPiece(x) /\ Covered(x) = 0 .. L + 1 /\ Held(x) = 1 .. L + 1
      /\ \A k \in 0..L : TermOf(x, k) = TermOf(Whole(l), k)
      /\ \A k \in 1..L : EntryOf(x, k) = EntryOf(Whole(l), k)
      /\ TermOf(x, L + 1) = T
      /\ Covered(Whole(l)) = 0..L /\ Held(Whole(l)) = 1..L
  <2>1. /\ IsPiece(x) /\ Covered(x) = 0 .. L + 1 /\ Held(x) = 1 .. L + 1
        /\ \A k \in 0 .. L + 1 : TermOf(x, k) = TermAt(w, k)
        /\ \A k \in 1 .. L + 1 : EntryOf(x, k) = w[k]
    BY <1>0, <1>2, WholeFacts, Zenon
  <2>2. /\ Covered(Whole(l)) = 0..L /\ Held(Whole(l)) = 1..L
        /\ \A k \in 0..L : TermOf(Whole(l), k) = TermAt(l, k)
        /\ \A k \in 1..L : EntryOf(Whole(l), k) = l[k]
    BY <1>1, WholeFacts, SMTT(30)
  <2>3. \A k \in 0..L : k \in 0 .. L + 1 /\ TermAt(w, k) = TermAt(l, k)
    BY <1>1, <1>2 DEF TermAt
  <2>4. \A k \in 1..L : k \in 1 .. L + 1
    BY <1>1
  <2>5. L + 1 \in 0 .. L + 1 /\ TermAt(w, L + 1) = T
    BY <1>1, <1>2 DEF TermAt
  <2>6. QED
    BY <1>2, <2>1, <2>2, <2>3, <2>4, <2>5, SMTT(30)
<1>6. ASSUME NEW y \in Pieces PROVE Match(x, y)
  <2>1. Match(Whole(l), y) /\ LeaderHolds(y) /\ Covered(y) \subseteq Nat
    BY <1>3, PiecesType, CoveredFacts DEF MatchInv
  <2> SUFFICES ASSUME NEW k \in Covered(x) \cap Covered(y), TermOf(x, k) = TermOf(y, k),
                      NEW n \in Covered(x) \cap Covered(y), n <= k
               PROVE  Same(x, y, n)
    BY DEF Match
  <2>2. k # L + 1
    <3> SUFFICES ASSUME k = L + 1 PROVE FALSE
      BY SMTT(30)
    <3>1. TermOf(y, k) = currentTerm[i]
      BY <1>0, <1>5
    <3>2. k <= Len(log[i])
      BY <1>1, <2>1, <3>1 DEF LeaderHolds
    <3>3. QED
      BY <1>0, <1>1, <3>2
  <2>3. k \in 0..L /\ n \in 0..L
    BY <1>1, <1>5, <2>1, <2>2, SMTT(30)
  <2>4. Same(Whole(l), y, n)
    BY <1>5, <2>1, <2>3, SMTT(30) DEF Match
  <2>5. n \in Held(x) => n \in 1..L /\ n \in Held(Whole(l))
    BY <1>1, <1>5, <2>3
  <2>6. QED
    BY <1>5, <2>3, <2>4, <2>5 DEF Same
<1>7. TermsWon(x)' /\ LeaderHolds(x)'
  <2>1. TermsWon(Whole(l))' /\ LeaderHolds(Whole(l))'
    BY <1>3, <1>4, HoldsFrame, PiecesType DEF MatchInv
  <2>2. \A k \in Covered(x) : k \in 0..L \/ k = L + 1
    BY <1>1, <1>5, SMTT(30)
  <2>3. [term |-> T, server |-> i] \in elected'
    BY <1>0, <1>1, <1>4, Zenon DEF RoleInv, RoleOK
  <2>4. \E f \in elected' : f.term = T
    BY <2>3
  <2>5. TermsWon(x)'
    BY <1>1, <1>5, <2>1, <2>2, <2>4, SMTT(30) DEF TermsWon
  <2>6. ASSUME NEW j \in Server, status'[j] = "leader", T = currentTerm'[j]
        PROVE  L + 1 <= Len(log'[j])
    <3> DEFINE f == [term |-> T, server |-> i]
               g == [term |-> T, server |-> j]
    <3>1. f \in elected /\ g \in elected
      BY <1>0, <1>1, <1>4, <2>6, ZenonT(30) DEF RoleInv, RoleOK
    <3>2. f.server = g.server
      BY <3>1 DEF OneWinnerPerTerm
    <3>3. log'[j] = w
      BY <1>4, <3>2, Zenon DEF TypeOK
    <3>4. QED
      BY <1>1, <1>2, <3>3, SMTT(30)
  <2>7. LeaderHolds(x)'
    BY <1>5, <2>1, <2>2, <2>6, Zenon DEF LeaderHolds
  <2>8. QED
    BY <2>5, <2>7
<1>8. ASSUME NEW z \in Pieces' PROVE Part(z, x) \/ \E y \in Pieces : Part(z, y)
  <2>1. /\ log'[i] = w /\ \A j \in Server \ {i} : log'[j] = log[j]
        /\ persisted'[i].log = w
        /\ \A j \in Server \ {i} : persisted'[j] = persisted[j]
    BY <1>4, Zenon DEF TypeOK, Saved
  <2>2. z \in Pieces \/ z = x
    BY <1>0, <1>4, <2>1, Zenon DEF Pieces
  <2>3. QED
    BY <2>2, PartSelf, SMTT(30)
<1>9. QED
  BY <1>4, <1>6, <1>7, <1>8, MatchStep

\* leaderRoutine sends parts of its log.
LEMMA MatchBroadcast ==
  ASSUME TypeOK, TypeOK', MatchInv, LeaderStep, NEW i \in Server, Broadcast(i)
  PROVE  MatchInv'
<1> DEFINE prev(p) == nextIndex[i][p] - 1
           call(p) == [from |-> i, to |-> p, term |-> currentTerm[i], prev |-> prev(p),
                       prevTerm |-> TermAt(log[i], prev(p)),
                       entries |-> SubSeq(log[i], prev(p) + 1, Len(log[i])),
                       commit |-> commitIndex[i]]
           round == {call(p) : p \in Server \ {i}}
<1>1. UNCHANGED <<log, persisted, elected>>
  BY ZenonT(30) DEF Broadcast, Panic, histVars
<1>2. CASE Panic(i)
  <2>1. requests' \subseteq requests
    BY <1>2 DEF Panic, appendVars
  <2>2. QED
    BY <1>1, <2>1, MatchKeep, Zenon
<1>3. CASE ~Panic(i)
  <2>1. requests' \subseteq requests \cup round
    <3>1. requests' = (IF Delays THEN requests ELSE {m \in requests : m.from # i}) \cup round
      BY <1>3, Zenon DEF Broadcast
    <3> HIDE DEF round
    <3>2. QED
      BY <3>1
  <2>2. ASSUME NEW p \in Server \ {i} PROVE Part(call(p), Whole(log[i]))
    <3>1. PICK k, m : k = prev(p) /\ m = call(p)
      BY ZenonT(30)
    <3>2. k \in 0..Len(log[i]) /\ log[i] \in Seq(Entry)
      BY <1>3, <3>1, Zenon DEF Broadcast, TypeOK
    <3>3. /\ m.prev = k /\ m.prevTerm = TermAt(log[i], k)
          /\ m.entries = SubSeq(log[i], k + 1, Len(log[i]))
      BY <3>1, Zenon
    <3>4. Part(m, Whole(log[i]))
      BY <3>2, <3>3, SuffixPart
    <3> HIDE DEF call, prev
    <3>5. QED
      BY <3>1, <3>4, Zenon
  <2>3. Whole(log[i]) \in Pieces
    BY DEF Pieces
  <2> HIDE DEF call
  <2>4. ASSUME NEW z \in Pieces' PROVE \E y \in Pieces : Part(z, y)
    <3>1. z \in Pieces \/ \E p \in Server \ {i} : z = call(p)
      BY <1>1, <2>1 DEF Pieces
    <3>2. QED
      BY <2>2, <2>3, <3>1, PartSelf
  <2>5. QED
    BY <1>1, <2>4, MatchOld, SMTT(30)
<1>4. QED
  BY <1>2, <1>3

\* A step that saves the log of peer i as it is, or saves nothing.
LEMMA MatchSave ==
  ASSUME TypeOK, TypeOK', MatchInv, LeaderStep, NEW i \in Server, NEW t, NEW v,
         \/ persisted' = [persisted EXCEPT ![i] = Saved(t, v, log[i])]
         \/ persisted' = persisted,
         log' = log, elected \subseteq elected', requests' \subseteq requests
  PROVE  MatchInv'
<1>1. ASSUME NEW j \in Server PROVE persisted'[j].log \in {log[j], persisted[j].log}
  <2>1. persisted'[j] = Saved(t, v, log[j]) \/ persisted'[j] = persisted[j]
    BY ZenonT(30) DEF TypeOK
  <2>2. QED
    BY <2>1, SMTT(30) DEF Saved
<1>2. QED
  BY <1>1, MatchKeep

\* The handlers keep MatchInv.
LEMMA MatchHandler ==
  ASSUME TypeOK, TypeOK', MatchInv, LeaderStep, Handler
  PROVE  MatchInv'
<1>1. ASSUME NEW m \in voteCalls, RequestVote(m) PROVE MatchInv'
  <2>1. m.to \in Server
    BY DEF TypeOK, VoteCall
  <2>2. PICK t, v : \/ persisted' = [persisted EXCEPT ![m.to] = Saved(t, v, log[m.to])]
                    \/ persisted' = [persisted EXCEPT ![m.to] = @]
    BY <1>1, ZenonT(30) DEF RequestVote
  <2>3. [persisted EXCEPT ![m.to] = @] = persisted
    BY SMTT(30) DEF TypeOK
  <2>4. log' = log /\ requests' = requests /\ elected' = elected
    BY <1>1, Zenon DEF RequestVote, appendVars
  <2>5. QED
    BY <2>1, <2>2, <2>3, <2>4, MatchSave
<1>2. ASSUME NEW m \in requests, RefuseOldTerm(m) PROVE MatchInv'
  <2>1. /\ requests' \subseteq requests /\ elected' = elected /\ log' = log
        /\ persisted' = persisted
    BY <1>2, Zenon DEF RefuseOldTerm, Reply, histVars
  <2>2. QED
    BY <2>1, MatchKeep, SMTT(30)
<1>3. ASSUME NEW m \in requests, RefuseConflict(m) PROVE MatchInv'
  <2>1. m.to \in Server
    BY DEF TypeOK, Request
  <2>2. PICK t, v : \/ persisted' = [persisted EXCEPT ![m.to] = Saved(t, v, log[m.to])]
                    \/ persisted' = [persisted EXCEPT ![m.to] = @]
    BY <1>3, ZenonT(30) DEF RefuseConflict
  <2>3. [persisted EXCEPT ![m.to] = @] = persisted
    BY SMTT(30) DEF TypeOK
  <2>4. requests' \subseteq requests /\ elected' = elected /\ log' = log
    BY <1>3, ZenonT(30) DEF RefuseConflict, Reply, histVars
  <2>5. QED
    BY <2>1, <2>2, <2>3, <2>4, MatchSave, SMTT(30)
<1>4. QED
  BY <1>1, <1>2, <1>3, MatchAccept DEF Handler, AppendEntries

\* The routine goroutine keeps MatchInv.
LEMMA MatchRoutine ==
  ASSUME TypeOK, TypeOK', MatchInv, LeaderStep, NEW i \in Server, Routine(i)
  PROVE  MatchInv'
<1>1. CASE ElectionTimeout(i) \/ CandidateTimeout(i) \/ (Dispatch(i) /\ status[i] = "candidate")
  <2>1. BeginElection(i)
    BY <1>1 DEF ElectionTimeout, CandidateTimeout, Dispatch
  <2>2. /\ persisted' = [persisted EXCEPT ![i] = Saved(currentTerm[i] + 1, i, log[i])]
        /\ log' = log /\ requests' = requests /\ elected' = elected
    BY <2>1, Zenon DEF BeginElection, appendVars
  <2>3. PICK t : t = currentTerm[i] + 1
    OBVIOUS
  <2>4. QED
    BY <2>2, <2>3, MatchSave, Zenon
<1>2. ASSUME UNCHANGED <<log, persisted, requests>>, elected \subseteq elected' PROVE MatchInv'
  BY <1>2, MatchKeep
<1>3. CASE TakeToFollower(i)
  BY <1>2, <1>3 DEF TakeToFollower, histVars
<1>4. CASE Dispatch(i) /\ status[i] # "candidate"
  BY <1>2, <1>4 DEF Dispatch, appendVars, histVars
<1>5. ASSUME NEW t, StepDown(i, t) PROVE MatchInv'
  <2>1. /\ persisted' = [persisted EXCEPT ![i] = Saved(t, NoVote, log[i])]
        /\ log' = log /\ requests' = requests /\ elected' = elected
    BY <1>5 DEF StepDown, histVars
  <2>2. QED
    BY <2>1, MatchSave, Zenon
<1>6. CASE \E r \in voteReplies[i] : CountVote(i, r)
  <2>1. PICK r \in voteReplies[i] : CountVote(i, r)
    BY <1>6
  <2>2. CASE StepDown(i, r.term)
    BY <1>5, <2>2
  <2>3. CASE ~StepDown(i, r.term)
    <3>1. UNCHANGED <<log, persisted, requests>> /\ elected \subseteq elected'
      BY <2>1, <2>3, Zenon DEF CountVote, WinElection
    <3>2. QED
      BY <1>2, <3>1, SMTT(30)
  <2>4. QED
    BY <2>2, <2>3
<1>7. CASE Broadcast(i)
  BY <1>7, MatchBroadcast, SMTT(30)
<1>8. CASE \E r \in replies[i] : TakeReply(i, r)
  <2>1. PICK r \in replies[i] : TakeReply(i, r)
    BY <1>8
  <2>2. CASE StepDown(i, r.term)
    BY <1>5, <2>2
  <2>3. CASE ~StepDown(i, r.term)
    <3>1. UNCHANGED <<log, persisted, requests, elected>>
      BY <2>1, <2>3, Zenon DEF TakeReply, AdvanceCommit, Panic, appendVars, histVars
    <3>2. QED
      BY <1>2, <3>1
  <2>4. QED
    BY <2>2, <2>3
<1>9. QED
  BY <1>1, <1>3, <1>4, <1>6, <1>7, <1>8, SMTT(30) DEF Routine

\* Every step keeps MatchInv.
LEMMA MatchNext ==
  ASSUME TypeOK, TypeOK', MatchInv, RoleInv, OneWinnerPerTerm, LeaderStep, [Next]_vars
  PROVE  MatchInv'
<1>1. CASE \E i \in Server : CrashRestart(i)
  <2>1. PICK i \in Server : CrashRestart(i)
    BY <1>1
  <2>2. /\ log' = [log EXCEPT ![i] = persisted[i].log] /\ persisted' = persisted
        /\ requests' = requests /\ elected' = elected
    BY <2>1, SMTT(30) DEF CrashRestart, histVars
  <2>3. \A j \in Server : log'[j] \in {log[j], persisted[j].log}
    BY <2>2, ZenonT(30) DEF TypeOK
  <2>4. QED
    BY <2>2, <2>3, MatchKeep
<1>2. CASE UNCHANGED vars
  <2>1. UNCHANGED <<log, persisted, requests, elected>>
    BY <1>2 DEF vars, appendVars, histVars
  <2>2. QED
    BY <2>1, MatchKeep
<1>3. QED
  BY <1>1, <1>2, MatchHandler, MatchRoutine, MatchStart, SMTT(30) DEF Next

\* What AppendEntries asks for when it refuses a call (lines 260-272) is an
\* index that the call has passed over: not 0, as a call that starts at the
\* beginning of the log is never refused.
LEMMA RefusalsAskInside ==
  ASSUME TypeOK, RoleInv, MatchInv
  PROVE  AsksInside
<1> SUFFICES ASSUME NEW m \in requests, ~HasPrev(log[m.to], m) PROVE NextAsked(m) \in 1..m.prev
  BY DEF AsksInside
<1>1. PICK l, x : l = log[m.to] /\ x = Whole(l)
  OBVIOUS
<1>2. /\ m.to \in Server /\ m.prev \in Nat /\ m.prevTerm \in Nat
      /\ m.entries \in Seq(Entry) /\ l \in Seq(Entry) /\ Len(l) \in Nat
  BY <1>1, LenFacts, ZenonT(30) DEF TypeOK, Request
<1>3. TermsWon(m) /\ TermsWon(x) /\ IsPiece(m)
  <2>1. m \in Pieces /\ x \in Pieces
    BY <1>1, <1>2 DEF Pieces
  <2>2. QED
    BY <2>1, PiecesType DEF MatchInv
<1>4. m.prev # 0
  <2> SUFFICES ASSUME m.prev = 0 PROVE FALSE
    OBVIOUS
  <2>1. m.prev \in Covered(m) /\ TermOf(m, m.prev) = m.prevTerm
    BY <1>2, <1>3, LenFacts, SMTT(30) DEF Covered, TermOf
  <2>2. m.prevTerm = 0
    BY <1>3, <2>1 DEF TermsWon
  <2>3. QED
    BY <1>1, <1>2, <2>2 DEF HasPrev, TermAt
<1>5. CASE Len(l) < m.prev
  BY <1>1, <1>2, <1>5, SMTT(30) DEF NextAsked
<1>6. CASE ~(Len(l) < m.prev)
  <2>1. PICK k : k = ConflictStart(l, m.prev)
    OBVIOUS
  <2>2. k \in 0..m.prev /\ \A n \in k..m.prev : TermAt(l, n) = TermAt(l, m.prev)
    BY <1>2, <2>1, ConflictStartProperties
  <2>3. \E e \in elected : e.term = l[m.prev].term
    <3>1. m.prev \in Covered(x) /\ TermOf(x, m.prev) = l[m.prev].term
      BY <1>1, <1>2, <1>4, <1>6 DEF Covered, TermOf, Whole, EntryOf
    <3>2. QED
      BY <1>3, <1>4, <3>1 DEF TermsWon
  <2>4. l[m.prev].term # 0
    <3>1. PICK e \in elected : e.term = l[m.prev].term
      BY <2>3
    <3>2. e.server \in Server /\ e.term \in Nat
      BY SMTT(30) DEF TypeOK
    <3>3. 1 <= e.term
      BY <3>2, Zenon DEF RoleInv, RoleOK
    <3>4. QED
      BY <3>1, <3>2, <3>3
  <2>5. k # 0
    <3> SUFFICES ASSUME k = 0 PROVE FALSE
      OBVIOUS
    <3>1. TermAt(l, 0) = TermAt(l, m.prev)
      BY <1>2, <2>2
    <3>2. QED
      BY <1>4, <2>4, <3>1 DEF TermAt
  <2>6. QED
    BY <1>1, <1>2, <1>6, <2>1, <2>2, <2>5 DEF NextAsked
<1>7. QED
  BY <1>5, <1>6
=============================================================================
