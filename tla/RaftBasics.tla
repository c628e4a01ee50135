---------------------------- MODULE RaftBasics ------------------------------
(***************************************************************************)
(* Proofs about every schedule of Raft: types, elections, sorted logs.  A  *)
(* term or vote is saved before anything depends on it, so crashes and late *)
(* messages change nothing.                                                *)
(***************************************************************************)
EXTENDS RaftPieces

-----------------------------------------------------------------------------
(* 1. Types *)

\* The shape of the state is what Make builds.
LEMMA TypeInit == Init => TypeOK
<1> SUFFICES ASSUME Init PROVE TypeOK
  OBVIOUS
<1>1. <<>> \in Seq(Entry)
  BY EmptyFacts
<1>2. QED
  BY <1>1, ServerAssumption DEF Init, TypeOK, Saved, RoutineState

\* updateTerm leaves a term, a status and a token of the right types.
LEMMA updateTermType ==
  ASSUME TypeOK, NEW i \in Server, NEW t \in Nat, updateTerm(i, t)
  PROVE  /\ currentTerm' \in [Server -> Nat]
         /\ status' \in [Server -> {"leader", "candidate", "follower"}]
         /\ toFollower' \in [Server -> BOOLEAN]
         /\ SeenTerm(i, t) \in Nat
         /\ SeenVote(i, t) \in Server \cup {NoVote}
BY Zenon DEF TypeOK, updateTerm, SeenTerm, SeenVote, Deposed

\* Replying to an AppendEntries call keeps the network and appendChan typed.
LEMMA ReplyType ==
  ASSUME TypeOK, NEW m \in requests, NEW success \in BOOLEAN, NEW next \in Int,
         Reply(m, success, next)
  PROVE  /\ requests' \subseteq Request
         /\ awaiting' \in [Server -> SUBSET Request]
         /\ replies' \in [Server -> SUBSET AppendReply]
<1>1. m \in Request
  BY DEF TypeOK
<1>2. /\ m.from \in Server /\ m.to \in Server /\ m.prev \in Nat
      /\ m.entries \in Seq(Entry) /\ Len(m.entries) \in Nat
  BY <1>1 DEF Request
<1> DEFINE r == [from |-> m.to, term |-> currentTerm[m.to], success |-> success,
                 next |-> next, prev |-> m.prev, sent |-> Len(m.entries)]
<1>3. r \in AppendReply
  BY <1>2 DEF TypeOK, AppendReply
<1>4. requests' \subseteq Request
  BY DEF TypeOK, Reply
<1>5. \/ /\ awaiting' = [awaiting EXCEPT ![m.from] = @ \ {m}]
         /\ replies' = [replies EXCEPT ![m.from] = @ \cup {r}]
      \/ UNCHANGED <<awaiting, replies>>
  BY Zenon DEF Reply
<1> HIDE DEF r
<1>t. awaiting \in [Server -> SUBSET Request] /\ replies \in [Server -> SUBSET AppendReply]
  BY DEF TypeOK
<1>6. awaiting' \in [Server -> SUBSET Request]
  <2>1. awaiting' = awaiting \/ awaiting' = [awaiting EXCEPT ![m.from] = @ \ {m}]
    BY <1>5
  <2>2. awaiting[m.from] \ {m} \in SUBSET Request
    BY <1>2, <1>t
  <2>3. QED
    BY <1>t, <2>1, <2>2
<1>7. replies' \in [Server -> SUBSET AppendReply]
  <2>1. replies' = replies \/ replies' = [replies EXCEPT ![m.from] = @ \cup {r}]
    BY <1>5
  <2>2. replies[m.from] \cup {r} \in SUBSET AppendReply
    BY <1>2, <1>3, <1>t
  <2>3. QED
    BY <1>t, <2>1, <2>2
<1>8. QED
  BY <1>4, <1>6, <1>7

\* applyLog hands out entries of the log only.
LEMMA applyLogType ==
  ASSUME TypeOK, NEW i \in Server, NEW l \in Seq(Entry), NEW c \in 0..Len(l),
         applyLog(i, l, c)
  PROVE  /\ commitIndex' \in [Server -> Nat]
         /\ lastApplied' \in [Server -> Nat]
         /\ applied' \subseteq (Nat \X Command)
<1>1. lastApplied[i] \in Nat /\ c \in Nat
  BY DEF TypeOK
<1>2. ASSUME NEW k \in lastApplied[i] + 1 .. c
      PROVE  <<k, l[k].cmd>> \in Nat \X Command
  <2>1. k \in 1..Len(l)
    BY <1>1
  <2>2. l[k] \in Entry
    BY <2>1, LenFacts
  <2>3. QED
    BY <2>1, <2>2 DEF Entry
<1>3. applied' \subseteq (Nat \X Command)
  BY <1>2 DEF TypeOK, applyLog
<1>4. QED
  BY <1>1, <1>3 DEF TypeOK, applyLog

\* The RequestVote handler keeps the types.
LEMMA TypeRequestVote ==
  ASSUME TypeOK, NEW m \in voteCalls, RequestVote(m)
  PROVE  TypeOK'
<1> DEFINE i == m.to
           grant == GrantVote(i, m)
           vote == IF grant THEN m.from ELSE SeenVote(i, m.term)
<1>1. i \in Server /\ m.from \in Server /\ m.term \in Nat
  BY Zenon DEF TypeOK, VoteCall
<1>2. /\ currentTerm' \in [Server -> Nat]
      /\ status' \in [Server -> {"leader", "candidate", "follower"}]
      /\ toFollower' \in [Server -> BOOLEAN]
      /\ SeenTerm(i, m.term) \in Nat
      /\ SeenVote(i, m.term) \in Server \cup {NoVote}
  BY <1>1, updateTermType DEF RequestVote
<1>3. vote \in Server \cup {NoVote}
  BY <1>1, <1>2
<1>4. votedFor' \in [Server -> Server \cup {NoVote}]
  BY <1>3, Zenon DEF RequestVote, TypeOK
<1>5. persisted' \in [Server -> [currentTerm : Nat, votedFor : Server \cup {NoVote},
                                 log : Seq(Entry)]]
  BY <1>1, <1>2, <1>3, Zenon DEF RequestVote, TypeOK, Saved
<1>6. votes' \subseteq [voter : Server, term : Nat, cand : Server]
  <2> DEFINE v == [voter |-> i, term |-> SeenTerm(i, m.term), cand |-> m.from]
  <2>1. v \in [voter : Server, term : Nat, cand : Server]
    BY <1>1, <1>2
  <2>2. votes' = votes \/ votes' = votes \cup {v}
    BY Zenon DEF RequestVote
  <2> HIDE DEF v
  <2>3. QED
    BY <2>1, <2>2, ZenonT(30) DEF TypeOK
<1>7. voteReplies' \in [Server -> SUBSET VoteReply]
  <2>1. grant \in BOOLEAN
    BY DEF GrantVote
  <2>2. [from |-> i, term |-> currentTerm[i], granted |-> grant] \in VoteReply
    BY <1>1, <2>1 DEF TypeOK, VoteReply
  <2> HIDE DEF grant
  <2>3. QED
    BY <1>1, <2>2, Zenon DEF RequestVote, TypeOK, grant
<1>8. voteCalls' \subseteq VoteCall
  BY DEF RequestVote, TypeOK
<1>9. QED
  BY <1>2, <1>4, <1>5, <1>6, <1>7, <1>8, Zenon
     DEF RequestVote, TypeOK, applyVars, leaderVars, appendVars

\* The AppendEntries handler keeps the types, on each of its three ways out.
LEMMA TypeAppendEntries ==
  ASSUME TypeOK, NEW m \in requests, AppendEntries(m)
  PROVE  TypeOK'
<1> DEFINE i == m.to
           Persisted == [currentTerm : Nat, votedFor : Server \cup {NoVote}, log : Seq(Entry)]
<1>1. m \in Request
  BY DEF TypeOK
<1>2. /\ i \in Server /\ m.term \in Nat /\ m.prev \in Nat /\ m.commit \in Nat
      /\ m.entries \in Seq(Entry) /\ log[i] \in Seq(Entry) /\ Len(log[i]) \in Nat
  BY <1>1 DEF Request, TypeOK
<1>3. CASE RefuseOldTerm(m)
  <2>1. /\ requests' \subseteq Request
        /\ awaiting' \in [Server -> SUBSET Request]
        /\ replies' \in [Server -> SUBSET AppendReply]
    <3>1. Reply(m, FALSE, -1)
      BY <1>3, Zenon DEF RefuseOldTerm
    <3>2. -1 \in Int
      OBVIOUS
    <3>3. QED
      BY <3>1, <3>2, ReplyType, Zenon
  <2>2. QED
    BY <1>3, <2>1 DEF RefuseOldTerm, TypeOK, termVars, applyVars, leaderVars, roleVars,
                      candVars, histVars
<1>4. CASE RefuseConflict(m)
  <2> DEFINE next == IF Len(log[i]) < m.prev THEN Len(log[i]) + 1
                                             ELSE ConflictStart(log[i], m.prev)
  <2>1. next \in Int
    BY <1>2, ConflictStartProperties
  <2>2. /\ requests' \subseteq Request
        /\ awaiting' \in [Server -> SUBSET Request]
        /\ replies' \in [Server -> SUBSET AppendReply]
    <3>1. Reply(m, FALSE, next)
      BY <1>4, Zenon DEF RefuseConflict
    <3> HIDE DEF next
    <3>2. QED
      BY <2>1, <3>1, ReplyType, Zenon
  <2>3. /\ currentTerm' \in [Server -> Nat]
        /\ status' \in [Server -> {"leader", "candidate", "follower"}]
        /\ toFollower' \in [Server -> BOOLEAN]
        /\ SeenVote(i, m.term) \in Server \cup {NoVote}
    BY <1>2, <1>4, updateTermType DEF RefuseConflict
  <2>4. votedFor' \in [Server -> Server \cup {NoVote}]
    BY <1>4, <2>3, Zenon DEF RefuseConflict, TypeOK
  <2>5. persisted' \in [Server -> Persisted]
    BY <1>2, <1>4 DEF RefuseConflict, TypeOK, Saved
  <2>6. QED
    BY <1>4, <2>2, <2>3, <2>4, <2>5, Zenon
       DEF RefuseConflict, TypeOK, applyVars, leaderVars, candVars, histVars
<1>5. CASE AcceptEntries(m)
  <2> DEFINE l == Extended(log[i], m)
  <2>1. /\ requests' \subseteq Request
        /\ awaiting' \in [Server -> SUBSET Request]
        /\ replies' \in [Server -> SUBSET AppendReply]
    <3>1. Reply(m, TRUE, 0)
      BY <1>5, Zenon DEF AcceptEntries
    <3>2. 0 \in Int
      OBVIOUS
    <3>3. QED
      BY <3>1, <3>2, ReplyType, Zenon
  <2>2. /\ currentTerm' \in [Server -> Nat]
        /\ status' \in [Server -> {"leader", "candidate", "follower"}]
        /\ toFollower' \in [Server -> BOOLEAN]
        /\ SeenTerm(i, m.term) \in Nat
        /\ SeenVote(i, m.term) \in Server \cup {NoVote}
    BY <1>2, <1>5, updateTermType DEF AcceptEntries
  <2>3. votedFor' \in [Server -> Server \cup {NoVote}]
    BY <1>5, <2>2, Zenon DEF AcceptEntries, TypeOK
  <2>4. l \in Seq(Entry) /\ Truncated(log[i], m) \in Seq(Entry)
    BY <1>1, <1>2, <1>5, ExtendedProperties, TruncatedProperties DEF AcceptEntries
  <2>5. log' \in [Server -> Seq(Entry)]
    BY <1>5, <2>4, Zenon DEF AcceptEntries, TypeOK
  <2>6. persisted' \in [Server -> Persisted]
    BY <1>2, <1>5, <2>2, <2>4, Zenon DEF AcceptEntries, TypeOK, Saved
  <2>7. /\ commitIndex' \in [Server -> Nat]
        /\ lastApplied' \in [Server -> Nat]
        /\ applied' \subseteq (Nat \X Command)
    <3>1. MinOf(Len(l), m.commit) \in 0..Len(l)
      BY <1>2, <2>4 DEF MinOf
    <3>2. CASE m.commit > commitIndex[i]
      <4>1. applyLog(i, l, MinOf(Len(l), m.commit))
        BY <1>5, <3>2 DEF AcceptEntries
      <4>2. QED
        BY <1>2, <2>4, <3>1, <4>1, applyLogType
    <3>3. CASE ~(m.commit > commitIndex[i])
      BY <1>5, <3>3 DEF AcceptEntries, TypeOK, applyVars
    <3>4. QED
      BY <3>2, <3>3
  <2>8. QED
    BY <1>5, <2>1, <2>2, <2>3, <2>5, <2>6, <2>7, Zenon
       DEF AcceptEntries, TypeOK, leaderVars, candVars, histVars
<1>6. QED
  BY <1>3, <1>4, <1>5 DEF AppendEntries

\* Start keeps the types.
LEMMA TypeStart ==
  ASSUME TypeOK, NEW i \in Server, NEW c \in Command, Start(i, c)
  PROVE  TypeOK'
<1> DEFINE l == Append(log[i], NewEntry(i, c))
<1>1. NewEntry(i, c) \in Entry /\ log[i] \in Seq(Entry)
  BY Zenon DEF NewEntry, Entry, TypeOK
<1>2. l \in Seq(Entry)
  BY <1>1, AppendFacts
<1>3. log' \in [Server -> Seq(Entry)]
  BY <1>2 DEF Start, TypeOK
<1>4. persisted' \in [Server -> [currentTerm : Nat, votedFor : Server \cup {NoVote},
                                 log : Seq(Entry)]]
  BY <1>2 DEF Start, TypeOK, Saved
<1>5. matchIndex' \in [Server -> [Server -> Nat]]
  BY DEF Start, TypeOK
<1>6. QED
  BY <1>3, <1>4, <1>5, Zenon
     DEF Start, TypeOK, termVars, applyVars, roleVars, candVars, appendVars, histVars

\* NoRound and NoBallot empty the channels of one iteration.
LEMMA EmptiedType ==
  ASSUME TypeOK, NEW i \in Server
  PROVE  /\ NoRound(i) => /\ awaiting' \in [Server -> SUBSET Request]
                          /\ replies' \in [Server -> SUBSET AppendReply]
         /\ NoBallot(i) => /\ ballot' \in [Server -> Nat]
                           /\ granted' \in [Server -> SUBSET Server]
                           /\ voteReplies' \in [Server -> SUBSET VoteReply]
<1>1. ASSUME NEW S, NEW f \in [Server -> SUBSET S]
      PROVE  [f EXCEPT ![i] = {}] \in [Server -> SUBSET S]
  OBVIOUS
<1>2. NoRound(i) => /\ awaiting' \in [Server -> SUBSET Request]
                    /\ replies' \in [Server -> SUBSET AppendReply]
  BY <1>1 DEF NoRound, TypeOK
<1>3. NoBallot(i) => /\ granted' \in [Server -> SUBSET Server]
                     /\ voteReplies' \in [Server -> SUBSET VoteReply]
  BY <1>1 DEF NoBallot, TypeOK
<1>4. NoBallot(i) => ballot' \in [Server -> Nat]
  BY DEF NoBallot, TypeOK
<1>5. QED
  BY <1>2, <1>3, <1>4

\* The first part of candidateRoutine keeps the types.
LEMMA TypeBeginElection ==
  ASSUME TypeOK, NEW i \in Server, BeginElection(i),
         status' \in [Server -> {"leader", "candidate", "follower"}],
         toFollower' \in [Server -> BOOLEAN]
  PROVE  TypeOK'
<1> DEFINE t == currentTerm[i] + 1
           calls == {[from |-> i, to |-> p, term |-> t, lastIndex |-> Len(log[i]),
                      lastTerm |-> LastTerm(log[i])] : p \in Server \ {i}}
<1>1. t \in Nat /\ log[i] \in Seq(Entry) /\ Len(log[i]) \in Nat
  BY DEF TypeOK
<1>2. LastTerm(log[i]) \in Nat
  BY <1>1, LastTermType, Zenon
<1>3. calls \subseteq VoteCall
  <2> HIDE DEF t
  <2>1. \A n, k \in Nat : \A p \in Server :
          [from |-> i, to |-> p, term |-> t, lastIndex |-> n, lastTerm |-> k] \in VoteCall
    BY <1>1 DEF VoteCall
  <2>2. QED
    BY <1>1, <1>2, <2>1
<1>4. voteCalls' \subseteq VoteCall
  <2>1. voteCalls' = voteCalls \cup calls
    BY DEF BeginElection
  <2> HIDE DEF calls
  <2>2. QED
    BY <1>3, <2>1 DEF TypeOK
<1>5. currentTerm' \in [Server -> Nat] /\ ballot' \in [Server -> Nat]
  BY <1>1 DEF BeginElection, TypeOK
<1>6. persisted' \in [Server -> [currentTerm : Nat, votedFor : Server \cup {NoVote},
                                 log : Seq(Entry)]]
  BY <1>1 DEF BeginElection, TypeOK, Saved
<1>7. votes' \subseteq [voter : Server, term : Nat, cand : Server]
  <2>1. [voter |-> i, term |-> t, cand |-> i] \in [voter : Server, term : Nat, cand : Server]
    BY <1>1
  <2>2. QED
    BY <2>1 DEF BeginElection, TypeOK
<1>8. /\ votedFor' \in [Server -> Server \cup {NoVote}]
      /\ granted' \in [Server -> SUBSET Server]
      /\ voteReplies' \in [Server -> SUBSET VoteReply]
      /\ routine' \in [Server -> RoutineState]
  BY DEF BeginElection, TypeOK, RoutineState
<1>9. QED
  BY <1>4, <1>5, <1>6, <1>7, <1>8, Zenon
     DEF BeginElection, TypeOK, applyVars, leaderVars, appendVars

\* leaderRoutine starts with indices of the right types.
LEMMA BeginLeaderType ==
  ASSUME TypeOK, NEW i \in Server, BeginLeader(i)
  PROVE  /\ nextIndex' \in [Server -> [Server -> Int]]
         /\ matchIndex' \in [Server -> [Server -> Nat]]
         /\ routine' \in [Server -> RoutineState]
         /\ awaiting' \in [Server -> SUBSET Request]
         /\ replies' \in [Server -> SUBSET AppendReply]
<1>1. Len(log[i]) \in Nat
  BY DEF TypeOK
<1>2. NoRound(i)
  BY DEF BeginLeader
<1>3. /\ nextIndex' \in [Server -> [Server -> Int]]
      /\ matchIndex' \in [Server -> [Server -> Nat]]
      /\ routine' \in [Server -> RoutineState]
  BY <1>1 DEF BeginLeader, TypeOK, RoutineState
<1>4. QED
  BY <1>2, <1>3, EmptiedType

\* The election timeouts of followers and candidates keep the types.
LEMMA TypeTimeouts ==
  ASSUME TypeOK, NEW i \in Server, ElectionTimeout(i) \/ CandidateTimeout(i)
  PROVE  TypeOK'
<1>1. BeginElection(i)
  BY DEF ElectionTimeout, CandidateTimeout
<1>2. /\ status' \in [Server -> {"leader", "candidate", "follower"}]
      /\ toFollower' \in [Server -> BOOLEAN]
  BY Zenon DEF ElectionTimeout, CandidateTimeout, TypeOK
<1>3. QED
  BY <1>1, <1>2, TypeBeginElection

\* Taking a token from toFollower keeps the types.
LEMMA TypeTakeToFollower ==
  ASSUME TypeOK, NEW i \in Server, TakeToFollower(i)
  PROVE  TypeOK'
<1>1. NoRound(i) /\ NoBallot(i)
  BY DEF TakeToFollower
<1>2. toFollower' \in [Server -> BOOLEAN] /\ routine' \in [Server -> RoutineState]
  BY DEF TakeToFollower, TypeOK, RoutineState
<1>3. QED
  BY <1>1, <1>2, EmptiedType, Zenon
     DEF TakeToFollower, TypeOK, termVars, applyVars, leaderVars, histVars

\* The loop of dispatchRoutine keeps the types.
LEMMA TypeDispatch ==
  ASSUME TypeOK, NEW i \in Server, Dispatch(i)
  PROVE  TypeOK'
<1>1. /\ status' \in [Server -> {"leader", "candidate", "follower"}]
      /\ toFollower' \in [Server -> BOOLEAN]
  BY DEF Dispatch, TypeOK
<1>2. CASE status[i] = "follower"
  <2>1. /\ routine' = [routine EXCEPT ![i] = "follower"]
        /\ UNCHANGED <<termVars, log, persisted, applyVars, leaderVars, candVars, voteCalls,
                       appendVars, histVars, crashes>>
    BY <1>2 DEF Dispatch
  <2>2. QED
    BY <1>1, <2>1 DEF TypeOK, RoutineState, termVars, applyVars, leaderVars, candVars,
                      appendVars, histVars
<1>3. CASE status[i] = "candidate"
  <2>1. BeginElection(i)
    BY <1>3 DEF Dispatch
  <2>2. QED
    BY <1>1, <2>1, TypeBeginElection
<1>4. CASE status[i] = "leader"
  <2>1. /\ BeginLeader(i)
        /\ UNCHANGED <<termVars, log, persisted, applyVars, candVars, voteCalls, requests,
                       histVars, crashes>>
    BY <1>4 DEF Dispatch
  <2>2. QED
    BY <1>1, <2>1, BeginLeaderType, Zenon DEF TypeOK, termVars, applyVars, candVars, histVars
<1>5. QED
  BY <1>2, <1>3, <1>4 DEF Dispatch

\* Stepping down on a reply keeps the types.
LEMMA TypeStepDown ==
  ASSUME TypeOK, NEW i \in Server, NEW t \in Nat, StepDown(i, t)
  PROVE  TypeOK'
<1>1. NoRound(i) /\ NoBallot(i)
  BY DEF StepDown
<1>2. /\ currentTerm' \in [Server -> Nat]
      /\ votedFor' \in [Server -> Server \cup {NoVote}]
      /\ status' \in [Server -> {"leader", "candidate", "follower"}]
      /\ routine' \in [Server -> RoutineState]
  BY DEF StepDown, TypeOK, RoutineState
<1>3. persisted' \in [Server -> [currentTerm : Nat, votedFor : Server \cup {NoVote},
                                 log : Seq(Entry)]]
  BY DEF StepDown, TypeOK, Saved
<1>4. QED
  BY <1>1, <1>2, <1>3, EmptiedType, Zenon
     DEF StepDown, TypeOK, applyVars, leaderVars, histVars

\* Counting a vote, and winning by it, keeps the types.
LEMMA TypeCountVote ==
  ASSUME TypeOK, NEW i \in Server, NEW r \in voteReplies[i], CountVote(i, r)
  PROVE  TypeOK'
<1> DEFINE g == IF r.granted THEN granted[i] \cup {r.from} ELSE granted[i]
           Rest == UNCHANGED <<termVars, log, persisted, applyVars, toFollower, voteCalls,
                               requests, votes, crashes>>
<1>1. r \in VoteReply /\ r.from \in Server /\ r.term \in Nat
  <2>1. voteReplies \in [Server -> SUBSET VoteReply]
    BY DEF TypeOK
  <2>2. r \in VoteReply
    BY <2>1
  <2>3. QED
    BY <2>2 DEF VoteReply
<1>2. g \in SUBSET Server
  BY <1>1 DEF TypeOK
<1>3. CASE StepDown(i, r.term)
  BY <1>1, <1>3, TypeStepDown
<1>4. CASE WinElection(i, g) /\ Rest
  <2>1. NoBallot(i) /\ BeginLeader(i)
    BY <1>4, Zenon DEF WinElection
  <2>2. elected' \subseteq [term : Nat, server : Server]
    <3>1. [term |-> ballot[i], server |-> i] \in [term : Nat, server : Server]
      BY DEF TypeOK
    <3>2. QED
      BY <1>4, <3>1 DEF WinElection, TypeOK
  <2>3. status' \in [Server -> {"leader", "candidate", "follower"}]
    BY <1>4 DEF WinElection, TypeOK
  <2>4. QED
    BY <1>4, <2>1, <2>2, <2>3, EmptiedType, BeginLeaderType, Zenon
       DEF TypeOK, termVars, applyVars
<1>5. CASE /\ granted' = [granted EXCEPT ![i] = g]
           /\ voteReplies' = [voteReplies EXCEPT ![i] = @ \ {r}]
           /\ UNCHANGED <<status, elected, ballot, leaderVars, routine, awaiting, replies>>
           /\ Rest
  <2>1. granted' \in [Server -> SUBSET Server]
    BY <1>2, <1>5 DEF TypeOK
  <2>2. voteReplies' \in [Server -> SUBSET VoteReply]
    BY <1>5, ZenonT(30) DEF TypeOK
  <2>3. QED
    BY <1>5, <2>1, <2>2, Zenon DEF TypeOK, termVars, applyVars, leaderVars
<1>6. QED
  BY <1>3, <1>4, <1>5, Zenon DEF CountVote

\* A panic stops the peer and changes nothing else.
LEMMA TypePanic ==
  ASSUME TypeOK, NEW i \in Server, Panic(i)
  PROVE  TypeOK'
BY DEF Panic, TypeOK, RoutineState, termVars, applyVars, leaderVars, candVars, appendVars,
       histVars

\* A round of leaderRoutine sends calls of the right type.
LEMMA TypeBroadcast ==
  ASSUME TypeOK, NEW i \in Server, Broadcast(i)
  PROVE  TypeOK'
<1> DEFINE prev(p) == nextIndex[i][p] - 1
           call(p) == [from |-> i, to |-> p, term |-> currentTerm[i], prev |-> prev(p),
                       prevTerm |-> TermAt(log[i], prev(p)),
                       entries |-> SubSeq(log[i], prev(p) + 1, Len(log[i])),
                       commit |-> commitIndex[i]]
           round == {call(p) : p \in Server \ {i}}
<1>1. CASE \E p \in Server \ {i} : prev(p) \notin 0..Len(log[i])
  <2>1. Panic(i)
    BY <1>1 DEF Broadcast
  <2>2. QED
    BY <2>1, TypePanic
<1>2. CASE ~\E p \in Server \ {i} : prev(p) \notin 0..Len(log[i])
  <2>1. /\ requests' = (IF Delays THEN requests ELSE {m \in requests : m.from # i}) \cup round
        /\ awaiting' = [awaiting EXCEPT ![i] = round]
        /\ replies' = [replies EXCEPT ![i] = {}]
        /\ routine' = [routine EXCEPT ![i] = "wait"]
        /\ UNCHANGED <<termVars, log, persisted, applyVars, leaderVars, status, toFollower,
                       candVars, voteCalls, histVars, crashes>>
    BY <1>2 DEF Broadcast
  <2>2. ASSUME NEW p \in Server \ {i}
        PROVE  call(p) \in Request
    <3>1. prev(p) \in 0..Len(log[i]) /\ log[i] \in Seq(Entry)
      BY <1>2 DEF TypeOK
    <3>2. prev(p) \in Nat
      BY <3>1
    <3>3. TermAt(log[i], prev(p)) \in Nat
      BY <3>1, TermAtType
    <3>4. SubSeq(log[i], prev(p) + 1, Len(log[i])) \in Seq(Entry)
      BY <3>1, SuffixProperties
    <3>5. QED
      BY <3>2, <3>3, <3>4, Zenon DEF TypeOK, Request
  <2>3. round \in SUBSET Request
    BY <2>2
  <2> HIDE DEF round
  <2>4. requests' \subseteq Request
    BY <2>1, <2>3 DEF TypeOK
  <2>5. awaiting' \in [Server -> SUBSET Request]
    BY <2>1, <2>3 DEF TypeOK
  <2>6. replies' \in [Server -> SUBSET AppendReply] /\ routine' \in [Server -> RoutineState]
    BY <2>1 DEF TypeOK, RoutineState
  <2>7. QED
    BY <2>1, <2>4, <2>5, <2>6, ZenonT(30)
       DEF TypeOK, termVars, applyVars, leaderVars, candVars, histVars
<1>3. QED
  BY <1>1, <1>2

\* Taking a reply of AppendEntries keeps nextIndex, matchIndex and commitIndex typed.
LEMMA TypeTakeReply ==
  ASSUME TypeOK, NEW i \in Server, NEW r \in replies[i], TakeReply(i, r)
  PROVE  TypeOK'
<1>1. /\ r.from \in Server /\ r.term \in Nat /\ r.prev \in Nat /\ r.sent \in Nat
      /\ r.next \in Int /\ r.prev + r.sent \in Nat
  <2>1. r \in AppendReply
    BY DEF TypeOK
  <2>2. QED
    BY <2>1 DEF AppendReply
<1>2. [replies EXCEPT ![i] = @ \ {r}] \in [Server -> SUBSET AppendReply]
  BY DEF TypeOK
<1>3. CASE StepDown(i, r.term)
  BY <1>1, <1>3, TypeStepDown
<1>4. CASE AdvanceCommit(i, r)
  <2> DEFINE match == [matchIndex[i] EXCEPT ![r.from] = r.prev + r.sent]
             newCommit == SortedMiddle(match)
  <2>1. CASE newCommit \notin 0..Len(log[i])
    <3>1. Panic(i)
      BY <1>4, <2>1 DEF AdvanceCommit
    <3>2. QED
      BY <3>1, TypePanic
  <2>2. CASE newCommit \in 0..Len(log[i])
    <3>1. /\ matchIndex' = [matchIndex EXCEPT ![i] = match]
          /\ nextIndex' = [nextIndex EXCEPT ![i][r.from] = NextAfter(r)]
          /\ replies' = [replies EXCEPT ![i] = @ \ {r}]
          /\ applyLog(i, log[i], newCommit) \/ UNCHANGED applyVars
          /\ UNCHANGED <<termVars, log, persisted, roleVars, candVars, voteCalls, requests,
                         awaiting, histVars, crashes>>
      BY <1>4, <2>2, Zenon DEF AdvanceCommit
    <3>2. match \in [Server -> Nat]
      <4>1. matchIndex[i] \in [Server -> Nat]
        BY DEF TypeOK
      <4>2. QED
        BY <1>1, <4>1
    <3> HIDE DEF match
    <3>3. matchIndex' \in [Server -> [Server -> Nat]]
      BY <3>1, <3>2, Zenon DEF TypeOK
    <3>4. nextIndex' \in [Server -> [Server -> Int]]
      <4>1. NextAfter(r) \in Int
        BY <1>1 DEF NextAfter
      <4>2. QED
        BY <1>1, <3>1, <4>1, Zenon DEF TypeOK
    <3>5. /\ commitIndex' \in [Server -> Nat]
          /\ lastApplied' \in [Server -> Nat]
          /\ applied' \subseteq (Nat \X Command)
      <4>1. CASE applyLog(i, log[i], newCommit)
        <5>1. log[i] \in Seq(Entry)
          BY DEF TypeOK
        <5> HIDE DEF newCommit
        <5>2. QED
          BY <2>2, <4>1, <5>1, applyLogType
      <4>2. CASE UNCHANGED applyVars
        BY <4>2 DEF TypeOK, applyVars
      <4>3. QED
        BY <3>1, <4>1, <4>2
    <3>6. QED
      BY <1>2, <3>1, <3>3, <3>4, <3>5, Zenon
         DEF TypeOK, termVars, roleVars, candVars, histVars
  <2>3. QED
    BY <2>1, <2>2
<1>5. CASE /\ nextIndex' = IF ~r.success /\ r.next # -1
                           THEN [nextIndex EXCEPT ![i][r.from] = r.next]
                           ELSE nextIndex
           /\ replies' = [replies EXCEPT ![i] = @ \ {r}]
           /\ UNCHANGED <<termVars, log, persisted, applyVars, matchIndex, roleVars, candVars,
                          voteCalls, requests, awaiting, histVars, crashes>>
  <2>1. nextIndex' \in [Server -> [Server -> Int]]
    BY <1>1, <1>5, Zenon DEF TypeOK
  <2>2. QED
    BY <1>2, <1>5, <2>1, Zenon DEF TypeOK, termVars, applyVars, roleVars, candVars, histVars
<1>6. QED
  BY <1>3, <1>4, <1>5, Zenon DEF TakeReply

\* A crash and the restart from the Persister keep the types.
LEMMA TypeCrashRestart ==
  ASSUME TypeOK, NEW i \in Server, CrashRestart(i)
  PROVE  TypeOK'
<1>1. NoRound(i) /\ NoBallot(i)
  BY DEF CrashRestart
<1>2. /\ currentTerm' \in [Server -> Nat]
      /\ votedFor' \in [Server -> Server \cup {NoVote}]
      /\ log' \in [Server -> Seq(Entry)]
  BY DEF CrashRestart, TypeOK
<1>3. /\ commitIndex' \in [Server -> Nat]
      /\ lastApplied' \in [Server -> Nat]
      /\ nextIndex' \in [Server -> [Server -> Int]]
      /\ matchIndex' \in [Server -> [Server -> Nat]]
      /\ crashes' \in Nat
  <2>1. commitIndex' \in [Server -> Nat] /\ lastApplied' \in [Server -> Nat] /\ crashes' \in Nat
    BY DEF CrashRestart, TypeOK
  <2>2. nextIndex' \in [Server -> [Server -> Int]]
    BY DEF CrashRestart, TypeOK
  <2>3. matchIndex' \in [Server -> [Server -> Nat]]
    BY DEF CrashRestart, TypeOK
  <2>4. QED
    BY <2>1, <2>2, <2>3
<1>4. /\ status' \in [Server -> {"leader", "candidate", "follower"}]
      /\ toFollower' \in [Server -> BOOLEAN]
      /\ routine' \in [Server -> RoutineState]
  BY DEF CrashRestart, TypeOK, RoutineState
<1>5. QED
  BY <1>1, <1>2, <1>3, <1>4, EmptiedType, Zenon DEF CrashRestart, TypeOK, histVars

\* Every step of every goroutine keeps the types.
LEMMA TypeNext == TypeOK /\ [Next]_vars => TypeOK'
<1> SUFFICES ASSUME TypeOK, [Next]_vars PROVE TypeOK'
  OBVIOUS
<1>1. CASE Handler
  BY <1>1, TypeRequestVote, TypeAppendEntries DEF Handler
<1>2. CASE \E i \in Server : Routine(i)
  <2>1. PICK i \in Server : Routine(i)
    BY <1>2
  <2>2. CASE \E r \in voteReplies[i] : CountVote(i, r)
    BY <2>2, TypeCountVote
  <2>3. CASE \E r \in replies[i] : TakeReply(i, r)
    BY <2>3, TypeTakeReply
  <2>4. QED
    BY <2>1, <2>2, <2>3, TypeTimeouts, TypeTakeToFollower, TypeDispatch, TypeBroadcast, Zenon
       DEF Routine
<1>3. CASE \E i \in Server, c \in Command : Start(i, c)
  BY <1>3, TypeStart
<1>4. CASE \E i \in Server : CrashRestart(i)
  BY <1>4, TypeCrashRestart
<1>5. CASE UNCHANGED vars
  BY <1>5, Zenon DEF vars, TypeOK, termVars, applyVars, leaderVars, roleVars, candVars, appendVars,
              histVars
<1>6. QED
  BY <1>1, <1>2, <1>3, <1>4, <1>5 DEF Next

\* The type invariant holds in every reachable state of every instance.
THEOREM TypeCorrect == Spec => []TypeOK
<1>1. QED
  BY TypeInit, TypeNext, PTL DEF Spec

-----------------------------------------------------------------------------
(* 2. Elections *)

\* A step that gives peer i a later term, or keeps its term and its vote.
LEMMA StableAt ==
  ASSUME TypeOK, NEW i \in Server, NEW t \in Nat, NEW v,
         currentTerm' = [currentTerm EXCEPT ![i] = t],
         votedFor' = [votedFor EXCEPT ![i] = v],
         t >= currentTerm[i],
         t = currentTerm[i] /\ votedFor[i] # NoVote => v = votedFor[i]
  PROVE  TermAndVoteStep
<1>1. /\ currentTerm \in [Server -> Nat]
      /\ votedFor \in [Server -> Server \cup {NoVote}]
  BY DEF TypeOK
<1>2. ASSUME NEW p \in Server
      PROVE  /\ currentTerm'[p] >= currentTerm[p]
             /\ currentTerm'[p] = currentTerm[p] /\ votedFor[p] # NoVote => votedFor'[p] = votedFor[p]
  BY <1>1
<1>3. QED
  BY <1>2 DEF TermAndVoteStep

\* updateTerm, with the vote reset, only moves a peer to a later term.
LEMMA updateTermStable ==
  ASSUME TypeOK, NEW i \in Server, NEW t \in Nat, updateTerm(i, t),
         votedFor' = [votedFor EXCEPT ![i] = SeenVote(i, t)]
  PROVE  TermAndVoteStep
<1>1. currentTerm' = [currentTerm EXCEPT ![i] = SeenTerm(i, t)]
  BY DEF updateTerm
<1>2. currentTerm[i] \in Nat
  BY DEF TypeOK
<1>3. /\ SeenTerm(i, t) \in Nat
      /\ SeenTerm(i, t) >= currentTerm[i]
      /\ SeenTerm(i, t) = currentTerm[i] => SeenVote(i, t) = votedFor[i]
  BY <1>2 DEF SeenTerm, SeenVote
<1>4. QED
  BY <1>1, <1>3, StableAt, Zenon

\* Steps that change neither terms nor votes nor what is saved.
LEMMA VoteStepFrame ==
  ASSUME TypeOK, SavedVote, UNCHANGED <<termVars, votes>>,
         \A i \in Server : /\ persisted'[i].currentTerm = persisted[i].currentTerm
                           /\ persisted'[i].votedFor = persisted[i].votedFor
  PROVE  VoteStep
BY DEF TypeOK, VoteStep, SavedVote, TermAndVoteStep, NewVotes, termVars

\* RequestVote changes a vote only from nobody, or with a later term, and saves it.
LEMMA VoteStepRequestVote ==
  ASSUME TypeOK, SavedVote, NEW m \in voteCalls, RequestVote(m)
  PROVE  VoteStep
<1> DEFINE i == m.to
           t == SeenTerm(i, m.term)
           vote == IF GrantVote(i, m) THEN m.from ELSE SeenVote(i, m.term)
<1>1. i \in Server /\ m.from \in Server /\ m.term \in Nat /\ currentTerm[i] \in Nat
  BY Zenon DEF TypeOK, VoteCall
<1>2. /\ currentTerm' = [currentTerm EXCEPT ![i] = t]
      /\ votedFor' = [votedFor EXCEPT ![i] = vote]
      /\ persisted' = [persisted EXCEPT ![i] = IF SaveVote(i, m) THEN Saved(t, vote, log[i]) ELSE @]
      /\ votes' = IF GrantVote(i, m) THEN votes \cup {[voter |-> i, term |-> t, cand |-> m.from]}
                                     ELSE votes
  BY Zenon DEF RequestVote, updateTerm
<1>3. t \in Nat /\ t >= currentTerm[i]
  BY <1>1 DEF SeenTerm
<1>4. t = currentTerm[i] /\ votedFor[i] # NoVote => vote = votedFor[i]
  <2>1. ASSUME t = currentTerm[i], votedFor[i] # NoVote PROVE vote = votedFor[i]
    <3>1. ~(m.term > currentTerm[i])
      BY <1>1, <2>1 DEF SeenTerm
    <3>2. SeenVote(i, m.term) = votedFor[i]
      BY <3>1, Zenon DEF SeenVote
    <3>3. GrantVote(i, m) => votedFor[i] = m.from
      BY <2>1, <3>2, Zenon DEF GrantVote
    <3>4. QED
      BY <3>2, <3>3, Zenon
  <2>2. QED
    BY <2>1, Zenon
<1>5. ~SaveVote(i, m) => t = currentTerm[i] /\ vote = votedFor[i]
  BY <1>1, Zenon DEF SaveVote, SeenTerm, SeenVote
<1>6. GrantVote(i, m) => vote = m.from
  OBVIOUS
<1> HIDE DEF t, vote
<1>7. TermAndVoteStep
  BY <1>1, <1>2, <1>3, <1>4, StableAt, Zenon
<1>8. SavedVote'
  BY <1>1, <1>2, <1>5, ZenonT(30) DEF TypeOK, SavedVote, Saved
<1>9. votes \subseteq votes' /\ NewVotes
  <2>1. currentTerm'[i] = t /\ votedFor'[i] = vote
    BY <1>1, <1>2, Zenon DEF TypeOK
  <2>2. QED
    BY <1>2, <1>6, <2>1 DEF NewVotes
<1>10. QED
  BY <1>7, <1>8, <1>9 DEF VoteStep

\* AppendEntries resets the vote only with a later term, and saves it.
LEMMA VoteStepAppendEntries ==
  ASSUME TypeOK, SavedVote, NEW m \in requests, AppendEntries(m)
  PROVE  VoteStep
<1> DEFINE i == m.to
<1>1. i \in Server /\ m.term \in Nat /\ currentTerm[i] \in Nat
  BY Zenon DEF TypeOK, Request
<1>2. CASE RefuseOldTerm(m)
  BY <1>2, VoteStepFrame DEF RefuseOldTerm, histVars
<1>3. CASE RefuseConflict(m)
  <2>1. TermAndVoteStep
    BY <1>1, <1>3, updateTermStable, Zenon DEF RefuseConflict
  <2>2. SavedVote'
    BY <1>1, <1>3, Zenon DEF RefuseConflict, updateTerm, SeenTerm, SeenVote, TypeOK, SavedVote, Saved
  <2>3. QED
    BY <1>3, <2>1, <2>2, Zenon DEF RefuseConflict, VoteStep, NewVotes, histVars
<1>4. CASE AcceptEntries(m)
  <2>1. TermAndVoteStep
    BY <1>1, <1>4, updateTermStable, Zenon DEF AcceptEntries
  <2>2. SavedVote'
    BY <1>1, <1>4, Zenon DEF AcceptEntries, updateTerm, TypeOK, SavedVote, Saved
  <2>3. QED
    BY <1>4, <2>1, <2>2, Zenon DEF AcceptEntries, VoteStep, NewVotes, histVars
<1>5. QED
  BY <1>2, <1>3, <1>4 DEF AppendEntries

\* Start touches neither terms nor votes.
LEMMA VoteStepStart ==
  ASSUME TypeOK, SavedVote, NEW i \in Server, NEW c \in Command, Start(i, c)
  PROVE  VoteStep
BY VoteStepFrame, Zenon DEF Start, TypeOK, SavedVote, Saved, histVars

\* A candidate votes for itself in a term that is new to it, and saves both.
LEMMA VoteStepBeginElection ==
  ASSUME TypeOK, SavedVote, NEW i \in Server, BeginElection(i)
  PROVE  VoteStep
<1> DEFINE t == currentTerm[i] + 1
<1>1. currentTerm[i] \in Nat
  BY DEF TypeOK
<1>2. /\ currentTerm' = [currentTerm EXCEPT ![i] = t]
      /\ votedFor' = [votedFor EXCEPT ![i] = i]
      /\ persisted' = [persisted EXCEPT ![i] = Saved(t, i, log[i])]
      /\ votes' = votes \cup {[voter |-> i, term |-> t, cand |-> i]}
  BY Zenon DEF BeginElection
<1>3. TermAndVoteStep
  <2>1. t \in Nat /\ t >= currentTerm[i] /\ t # currentTerm[i]
    BY <1>1
  <2>2. QED
    BY <1>2, <2>1, StableAt, Zenon
<1>4. SavedVote'
  BY <1>2, ZenonT(30) DEF TypeOK, SavedVote, Saved
<1>5. NewVotes /\ votes \subseteq votes'
  BY <1>2 DEF TypeOK, NewVotes
<1>6. QED
  BY <1>3, <1>4, <1>5 DEF VoteStep

\* Stepping down on a reply only moves to a later term.
LEMMA VoteStepStepDown ==
  ASSUME TypeOK, SavedVote, NEW i \in Server, NEW t \in Nat, t > currentTerm[i], StepDown(i, t)
  PROVE  VoteStep
<1>1. TermAndVoteStep
  <2>1. currentTerm[i] \in Nat
    BY DEF TypeOK
  <2>2. t >= currentTerm[i] /\ t # currentTerm[i]
    BY <2>1
  <2>3. QED
    BY <2>2, StableAt, Zenon DEF StepDown
<1>2. SavedVote'
  BY Zenon DEF TypeOK, StepDown, SavedVote, Saved
<1>3. QED
  BY <1>1, <1>2, Zenon DEF StepDown, VoteStep, NewVotes, histVars

\* A restart reads back the term and the vote that the peer had.
LEMMA VoteStepCrashRestart ==
  ASSUME TypeOK, SavedVote, NEW i \in Server, CrashRestart(i)
  PROVE  VoteStep
<1>1. UNCHANGED <<termVars, votes, persisted>>
  BY DEF TypeOK, SavedVote, CrashRestart, termVars, histVars
<1>2. QED
  BY <1>1, VoteStepFrame

\* No step takes a term or a vote back, and every step saves what it changes.
LEMMA VoteStepNext ==
  ASSUME TypeOK, SavedVote, [Next]_vars
  PROVE  VoteStep
<1>1. CASE Handler
  BY <1>1, VoteStepRequestVote, VoteStepAppendEntries DEF Handler
<1>2. CASE \E i \in Server : Routine(i)
  <2>1. PICK i \in Server : Routine(i)
    BY <1>2
  <2>2. CASE ElectionTimeout(i) \/ CandidateTimeout(i)
    BY <2>2, VoteStepBeginElection DEF ElectionTimeout, CandidateTimeout
  <2>3. CASE TakeToFollower(i)
    BY <2>3, VoteStepFrame DEF TakeToFollower, histVars
  <2>4. CASE Dispatch(i)
    <3>1. CASE BeginElection(i)
      BY <3>1, VoteStepBeginElection
    <3>2. CASE UNCHANGED <<termVars, persisted, votes>>
      BY <3>2, VoteStepFrame
    <3>3. QED
      BY <2>4, <3>1, <3>2 DEF Dispatch, histVars
  <2>5. CASE \E r \in voteReplies[i] : CountVote(i, r)
    <3>1. PICK r \in voteReplies[i] : CountVote(i, r)
      BY <2>5
    <3>2. r.term \in Nat
      BY DEF TypeOK, VoteReply
    <3>3. CASE r.term > currentTerm[i] /\ StepDown(i, r.term)
      BY <3>2, <3>3, VoteStepStepDown
    <3>4. CASE UNCHANGED <<termVars, persisted, votes>>
      BY <3>4, VoteStepFrame
    <3>5. QED
      BY <3>1, <3>3, <3>4 DEF CountVote
  <2>6. CASE Broadcast(i)
    <3>1. UNCHANGED <<termVars, persisted, votes>>
      BY <2>6, Zenon DEF Broadcast, Panic, histVars
    <3>2. QED
      BY <3>1, VoteStepFrame
  <2>7. CASE \E r \in replies[i] : TakeReply(i, r)
    <3>1. PICK r \in replies[i] : TakeReply(i, r)
      BY <2>7
    <3>2. r.term \in Nat
      <4>1. r \in AppendReply
        BY DEF TypeOK
      <4>2. QED
        BY <4>1 DEF AppendReply
    <3>3. CASE r.term > currentTerm[i] /\ StepDown(i, r.term)
      BY <3>2, <3>3, VoteStepStepDown
    <3>4. CASE UNCHANGED <<termVars, persisted, votes>>
      BY <3>4, VoteStepFrame
    <3>5. CASE AdvanceCommit(i, r)
      <4>1. UNCHANGED <<termVars, persisted, votes>>
        BY <3>5, Zenon DEF AdvanceCommit, Panic, histVars
      <4>2. QED
        BY <4>1, VoteStepFrame
    <3>6. QED
      BY <3>1, <3>3, <3>4, <3>5 DEF TakeReply, histVars
  <2>8. QED
    BY <2>1, <2>2, <2>3, <2>4, <2>5, <2>6, <2>7 DEF Routine
<1>3. CASE \E i \in Server, c \in Command : Start(i, c)
  BY <1>3, VoteStepStart
<1>4. CASE \E i \in Server : CrashRestart(i)
  BY <1>4, VoteStepCrashRestart
<1>5. CASE UNCHANGED vars
  BY <1>5, VoteStepFrame DEF vars, histVars
<1>6. QED
  BY <1>1, <1>2, <1>3, <1>4, <1>5 DEF Next

\* Votes that were counted stay on record while the iteration lasts.
LEMMA CountedFrame ==
  ASSUME TypeOK, CountedVotes, votes \subseteq votes', NEW i \in Server,
         UNCHANGED candVars \/ NoBallot(i)
  PROVE  CountedVotes'
<1>1. CASE UNCHANGED candVars
  BY <1>1, ZenonT(30) DEF CountedVotes, candVars
<1>2. CASE NoBallot(i)
  <2> SUFFICES ASSUME NEW j \in Server
               PROVE  /\ \A p \in granted'[j] : [voter |-> p, term |-> ballot'[j], cand |-> j] \in votes'
                      /\ \A r \in voteReplies'[j] :
                           r.granted => [voter |-> r.from, term |-> ballot'[j], cand |-> j] \in votes'
    BY DEF CountedVotes
  <2>1. CASE j = i
    <3>1. granted'[i] = {} /\ voteReplies'[i] = {}
      BY <1>2 DEF NoBallot, TypeOK
    <3>2. QED
      BY <2>1, <3>1
  <2>2. CASE j # i
    <3>1. granted'[j] = granted[j] /\ voteReplies'[j] = voteReplies[j] /\ ballot'[j] = ballot[j]
      BY <1>2, <2>2 DEF NoBallot, TypeOK
    <3>2. QED
      BY <3>1, Zenon DEF CountedVotes
  <2>3. QED
    BY <2>1, <2>2
<1>3. QED
  BY <1>1, <1>2

\* An election won stays backed by its votes.
LEMMA QuorumFrame ==
  ASSUME WonByQuorum, votes \subseteq votes', elected' = elected
  PROVE  WonByQuorum'
<1> SUFFICES ASSUME NEW e \in elected PROVE HasQuorum(e)'
  BY DEF WonByQuorum
<1>1. HasQuorum(e)
  BY DEF WonByQuorum
<1>2. QED
  BY <1>1 DEF HasQuorum

\* A reply is read only in the iteration that made the call, so a granted one
\* stands for a vote of that iteration's term.
LEMMA CountedRequestVote ==
  ASSUME TypeOK, CountedVotes, NEW m \in voteCalls, RequestVote(m), votes \subseteq votes'
  PROVE  CountedVotes'
<1> DEFINE i == m.to
           c == m.from
           new == [from |-> i, term |-> currentTerm[i], granted |-> GrantVote(i, m)]
<1>1. i \in Server /\ c \in Server
  BY Zenon DEF TypeOK, VoteCall
<1>2. /\ voteReplies' = [voteReplies EXCEPT ![c] = IF ReplyIsRead(m) THEN @ \cup {new} ELSE @]
      /\ UNCHANGED <<ballot, granted>>
  BY Zenon DEF RequestVote
<1>3. ReplyIsRead(m) => ballot[c] = m.term
  BY Zenon DEF ReplyIsRead
<1>4. GrantVote(i, m) => [voter |-> i, term |-> m.term, cand |-> c] \in votes'
  BY Zenon DEF RequestVote, GrantVote
<1>5. ASSUME NEW j \in Server, NEW r \in voteReplies'[j], r.granted
      PROVE  [voter |-> r.from, term |-> ballot[j], cand |-> j] \in votes'
  <2>1. CASE r \in voteReplies[j]
    BY <1>5, <2>1 DEF CountedVotes
  <2>2. CASE r \notin voteReplies[j]
    <3>1. j = c /\ ReplyIsRead(m) /\ r = new
      BY <1>1, <1>2, <2>2, ZenonT(30) DEF TypeOK
    <3>2. r.from = i /\ GrantVote(i, m)
      BY <1>5, <3>1
    <3>3. QED
      BY <1>3, <1>4, <3>1, <3>2
  <2>3. QED
    BY <2>1, <2>2, Zenon
<1>6. QED
  BY <1>2, <1>5, Zenon DEF CountedVotes

\* A new iteration of candidateRoutine has counted the candidate's own vote only.
LEMMA CountedBeginElection ==
  ASSUME TypeOK, CountedVotes, NEW i \in Server, BeginElection(i), votes \subseteq votes'
  PROVE  CountedVotes'
<1> SUFFICES ASSUME NEW j \in Server
             PROVE  /\ \A p \in granted'[j] : [voter |-> p, term |-> ballot'[j], cand |-> j] \in votes'
                    /\ \A r \in voteReplies'[j] :
                         r.granted => [voter |-> r.from, term |-> ballot'[j], cand |-> j] \in votes'
  BY Zenon DEF CountedVotes
<1>1. CASE j = i
  <2>1. /\ granted'[i] = {i} /\ voteReplies'[i] = {} /\ ballot'[i] = currentTerm[i] + 1
        /\ [voter |-> i, term |-> currentTerm[i] + 1, cand |-> i] \in votes'
    BY Zenon DEF BeginElection, TypeOK
  <2>2. QED
    BY <1>1, <2>1
<1>2. CASE j # i
  <2>1. granted'[j] = granted[j] /\ voteReplies'[j] = voteReplies[j] /\ ballot'[j] = ballot[j]
    BY <1>2, Zenon DEF BeginElection, TypeOK
  <2>2. QED
    BY <2>1, Zenon DEF CountedVotes
<1>3. QED
  BY <1>1, <1>2

\* The voters counted, with the one of the reply taken, all voted for the
\* candidate in its ballot; if they are a majority, they are a quorum.
LEMMA CountedCountVote ==
  ASSUME TypeOK, CountedVotes, WonByQuorum, NEW i \in Server, NEW r \in voteReplies[i],
         CountVote(i, r), votes \subseteq votes'
  PROVE  CountedVotes' /\ WonByQuorum'
<1> DEFINE g == IF r.granted THEN granted[i] \cup {r.from} ELSE granted[i]
<1>1. g \in SUBSET Server
  <2>1. r \in VoteReply /\ granted[i] \in SUBSET Server
    BY DEF TypeOK
  <2>2. r.from \in Server
    BY <2>1, Zenon DEF VoteReply
  <2>3. QED
    BY <2>1, <2>2
<1>2. \A p \in g : [voter |-> p, term |-> ballot[i], cand |-> i] \in votes'
  BY DEF CountedVotes
<1>3. CASE StepDown(i, r.term)
  <2>1. NoBallot(i) /\ elected' = elected
    BY <1>3 DEF StepDown, histVars
  <2>2. QED
    BY <2>1, CountedFrame, QuorumFrame
<1>4. CASE WinElection(i, g)
  <2>0. PICK e : e = [term |-> ballot[i], server |-> i]
    BY Zenon
  <2>1. NoBallot(i) /\ Majority(g) /\ elected' = elected \cup {e}
    BY <1>4, <2>0 DEF WinElection
  <2>2. CountedVotes'
    BY <2>1, CountedFrame
  <2>3. HasQuorum(e)'
    <3>1. e.term = ballot[i] /\ e.server = i
      BY <2>0
    <3> HIDE DEF g
    <3>2. QED
      BY <1>1, <1>2, <2>1, <3>1 DEF HasQuorum, Majority
  <2>4. ASSUME NEW f \in elected PROVE HasQuorum(f)'
    BY DEF WonByQuorum, HasQuorum
  <2>5. WonByQuorum'
    BY <2>1, <2>3, <2>4 DEF WonByQuorum
  <2>6. QED
    BY <2>2, <2>5
<1>5. CASE /\ granted' = [granted EXCEPT ![i] = g]
           /\ voteReplies' = [voteReplies EXCEPT ![i] = @ \ {r}]
           /\ UNCHANGED <<elected, ballot>>
  <2> HIDE DEF g
  <2>1. ASSUME NEW j \in Server
        PROVE  /\ \A p \in granted'[j] : [voter |-> p, term |-> ballot'[j], cand |-> j] \in votes'
               /\ \A q \in voteReplies'[j] :
                    q.granted => [voter |-> q.from, term |-> ballot'[j], cand |-> j] \in votes'
    <3>1. voteReplies'[j] \subseteq voteReplies[j] /\ ballot'[j] = ballot[j]
      BY <1>5 DEF TypeOK
    <3>2. granted'[j] = IF j = i THEN g ELSE granted[j]
      BY <1>5 DEF TypeOK
    <3>3. QED
      BY <1>2, <3>1, <3>2, Zenon DEF CountedVotes
  <2>2. CountedVotes'
    BY <2>1 DEF CountedVotes
  <2>3. QED
    BY <1>5, <2>2, QuorumFrame
<1>6. QED
  BY <1>3, <1>4, <1>5, Zenon DEF CountVote

\* Every other step leaves the count of a candidate alone or ends it.
LEMMA CountedNext ==
  ASSUME TypeOK, CountedVotes, WonByQuorum, [Next]_vars, votes \subseteq votes'
  PROVE  CountedVotes' /\ WonByQuorum'
<1>0. ASSUME NEW i \in Server, UNCHANGED candVars \/ NoBallot(i), elected' = elected
      PROVE  CountedVotes' /\ WonByQuorum'
  BY <1>0, CountedFrame, QuorumFrame
<1>1. CASE Handler
  <2>1. CASE \E m \in voteCalls : RequestVote(m)
    <3>1. elected' = elected
      BY <2>1, Zenon DEF RequestVote
    <3>2. QED
      BY <2>1, <3>1, CountedRequestVote, QuorumFrame
  <2>2. CASE \E m \in requests : AppendEntries(m)
    <3>1. UNCHANGED <<candVars, elected>>
      BY <2>2, Zenon DEF AppendEntries, RefuseOldTerm, RefuseConflict, AcceptEntries, histVars
    <3>2. QED
      BY <1>0, <3>1, ServerAssumption
  <2>3. QED
    BY <1>1, <2>1, <2>2 DEF Handler
<1>2. CASE \E i \in Server : Routine(i)
  <2>1. PICK i \in Server : Routine(i)
    BY <1>2
  <2>2. CASE ElectionTimeout(i) \/ CandidateTimeout(i) 
           \/ (Dispatch(i) /\ status[i] = "candidate")
    <3>1. BeginElection(i)
      BY <2>2 DEF ElectionTimeout, CandidateTimeout, Dispatch
    <3>2. elected' = elected
      BY <3>1, Zenon DEF BeginElection
    <3>3. QED
      BY <3>1, <3>2, CountedBeginElection, QuorumFrame
  <2>3. CASE TakeToFollower(i)
    BY <1>0, <2>3 DEF TakeToFollower, histVars
  <2>4. CASE Dispatch(i) /\ status[i] # "candidate"
    BY <1>0, <2>4 DEF Dispatch, histVars
  <2>5. CASE \E r \in voteReplies[i] : CountVote(i, r)
    BY <2>5, CountedCountVote
  <2>6. CASE Broadcast(i)
    <3>1. UNCHANGED <<candVars, elected>>
      BY <2>6, Zenon DEF Broadcast, Panic, histVars
    <3>2. QED
      BY <1>0, <3>1
  <2>7. CASE \E r \in replies[i] : TakeReply(i, r)
    <3>1. (UNCHANGED candVars \/ NoBallot(i)) /\ elected' = elected
      BY <2>7, Zenon DEF TakeReply, StepDown, AdvanceCommit, Panic, histVars
    <3>2. QED
      BY <1>0, <3>1
  <2>8. QED
    BY <2>1, <2>2, <2>3, <2>4, <2>5, <2>6, <2>7, Zenon DEF Routine
<1>3. CASE \E i \in Server, c \in Command : Start(i, c)
  BY <1>0, <1>3 DEF Start, histVars
<1>4. CASE \E i \in Server : CrashRestart(i)
  BY <1>0, <1>4 DEF CrashRestart, histVars
<1>5. CASE UNCHANGED vars
  BY <1>0, <1>5, ServerAssumption DEF vars, histVars
<1>6. QED
  BY <1>1, <1>2, <1>3, <1>4, <1>5 DEF Next

\* No vote has been cast when the peers are made.
LEMMA ElectionInit == Init => ElectionInv /\ VoteOnce
<1> SUFFICES ASSUME Init PROVE ElectionInv /\ VoteOnce
  OBVIOUS
<1>1. SavedVote
  BY DEF Init, SavedVote, Saved
<1>2. VoteOfTerm /\ WonByQuorum /\ VoteOnce
  BY DEF Init, VoteOfTerm, WonByQuorum, VoteOnce
<1>3. CountedVotes
  BY DEF Init, CountedVotes
<1>4. QED
  BY <1>1, <1>2, <1>3 DEF ElectionInv

\* A vote on record remains the votedFor of its term.
LEMMA VoteOfTermNext ==
  ASSUME TypeOK, TypeOK', VoteOfTerm, VoteStep
  PROVE  VoteOfTerm'
<1> SUFFICES ASSUME NEW v \in votes'
             PROVE  /\ v.term <= currentTerm'[v.voter]
                    /\ v.term = currentTerm'[v.voter] => votedFor'[v.voter] = v.cand
  BY DEF VoteOfTerm
<1>1. /\ v \in Vote
      /\ v.voter \in Server /\ v.term \in Nat /\ v.cand \in Server
      /\ currentTerm[v.voter] \in Nat /\ currentTerm'[v.voter] \in Nat
  BY Zenon DEF TypeOK, Vote
<1>2. CASE v \in votes
  BY <1>1, <1>2, ServerAssumption DEF VoteOfTerm, VoteStep, TermAndVoteStep
<1>3. CASE v \notin votes
  BY <1>1, <1>3 DEF VoteStep, NewVotes
<1>4. QED
  BY <1>2, <1>3

\* Nobody votes twice: a second vote of a term would be the votedFor of it.
LEMMA VoteOnceNext ==
  ASSUME TypeOK, VoteOnce, VoteStep, VoteOfTerm'
  PROVE  VoteOnce'
<1> SUFFICES ASSUME NEW v \in votes', NEW w \in votes', v.voter = w.voter, v.term = w.term
             PROVE  v.cand = w.cand
  BY DEF VoteOnce
<1>1. CASE v \in votes /\ w \in votes
  BY <1>1 DEF VoteOnce
<1>2. CASE v \notin votes \/ w \notin votes
  BY <1>2 DEF VoteStep, NewVotes, VoteOfTerm
<1>3. QED
  BY <1>1, <1>2

\* Every step keeps ElectionInv and VoteOnce.
LEMMA ElectionNext ==
  TypeOK /\ TypeOK' /\ ElectionInv /\ VoteOnce /\ [Next]_vars => ElectionInv' /\ VoteOnce'
<1> SUFFICES ASSUME TypeOK, TypeOK', ElectionInv, VoteOnce, [Next]_vars
             PROVE  ElectionInv' /\ VoteOnce'
  OBVIOUS
<1>1. VoteStep
  BY VoteStepNext DEF ElectionInv
<1>2. VoteOfTerm'
  BY <1>1, VoteOfTermNext DEF ElectionInv
<1>3. VoteOnce'
  BY <1>1, <1>2, VoteOnceNext
<1>4. CountedVotes' /\ WonByQuorum'
  BY <1>1, CountedNext DEF ElectionInv, VoteStep
<1>5. QED
  BY <1>1, <1>2, <1>3, <1>4 DEF ElectionInv, VoteStep

\* The records of the elections agree in every reachable state.
THEOREM ElectionInvariant == Spec => [](ElectionInv /\ VoteOnce)
<1>1. QED
  BY TypeCorrect, ElectionInit, ElectionNext, PTL DEF Spec

\* A peer votes once per term (RequestVote and candidateRoutine), however
\* messages, timeouts and restarts interleave.
THEOREM VotesOnce == Spec => []VoteOnce
<1>1. QED
  BY ElectionInvariant, PTL

\* The term of a peer never falls and a vote is never taken back, restarts
\* from the Persister included.
THEOREM TermAndVote == Spec => TermAndVoteStable
<1>1. TypeOK /\ ElectionInv /\ [Next]_vars => [TermAndVoteStep]_vars
  BY VoteStepNext DEF ElectionInv, VoteStep
<1>2. QED
  BY <1>1, TypeCorrect, ElectionInvariant, PTL DEF Spec, TermAndVoteStable

-----------------------------------------------------------------------------
(* 3. Sorted logs *)

\* The empty logs that Make starts from are sorted.
LEMMA LogInit == Init => LogInv
<1> SUFFICES ASSUME Init PROVE LogInv
  OBVIOUS
<1>1. Len(<<>>) = 0
  OBVIOUS
<1>2. \A t : SortedUpTo(<<>>, t)
  BY <1>1 DEF SortedUpTo
<1>3. QED
  BY <1>2, Zenon DEF Init, LogInv, LogTermsSorted, Saved

\* A bound on the terms may be raised.
LEMMA SortedRaise ==
  ASSUME NEW l \in Seq(Entry), NEW t \in Nat, NEW u \in Nat, t <= u, SortedUpTo(l, t)
  PROVE  SortedUpTo(l, u)
<1> SUFFICES ASSUME NEW k \in 1..Len(l)
             PROVE  TermAt(l, k - 1) <= TermAt(l, k) /\ TermAt(l, k) <= u
  BY DEF SortedUpTo
<1>1. TermAt(l, k - 1) <= TermAt(l, k) /\ TermAt(l, k) <= t
  BY DEF SortedUpTo
<1>2. TermAt(l, k) \in Nat
  BY EntryTerm
<1>3. QED
  BY <1>1, <1>2

\* Start appends an entry of the leader's term.
LEMMA SortedAppend ==
  ASSUME NEW l \in Seq(Entry), NEW t \in Nat, SortedUpTo(l, t), NEW e \in Entry, e.term = t
  PROVE  SortedUpTo(Append(l, e), t)
<1> DEFINE a == Append(l, e)
<1>1. /\ a \in Seq(Entry) /\ Len(a) = Len(l) + 1 /\ Len(l) \in Nat
      /\ \A k \in 1..Len(l) : a[k] = l[k]
      /\ a[Len(l) + 1] = e
  BY AppendFacts
<1> HIDE DEF a
<1> SUFFICES ASSUME NEW k \in 1..Len(a)
             PROVE  TermAt(a, k - 1) <= TermAt(a, k) /\ TermAt(a, k) <= t
  BY DEF SortedUpTo, a
<1>2. \A j \in 0..Len(l) : TermAt(a, j) = TermAt(l, j)
  BY <1>1 DEF TermAt
<1>3. \A j \in 0..Len(l) : TermAt(l, j) \in Nat /\ TermAt(l, j) <= t
  <2>1. ASSUME NEW j \in 0..Len(l) PROVE TermAt(l, j) \in Nat /\ TermAt(l, j) <= t
    <3>1. CASE j = 0
      BY <3>1 DEF TermAt
    <3>2. CASE j # 0
      BY <3>2, EntryTerm DEF SortedUpTo
    <3>3. QED
      BY <3>1, <3>2
  <2>2. QED
    BY <2>1
<1>4. CASE k \in 1..Len(l)
  <2>1. TermAt(a, k - 1) = TermAt(l, k - 1) /\ TermAt(a, k) = TermAt(l, k)
    BY <1>1, <1>2, <1>4
  <2>2. QED
    BY <1>4, <2>1 DEF SortedUpTo
<1>5. CASE k = Len(l) + 1
  <2>1. TermAt(a, k) = t
    BY <1>1, <1>5 DEF TermAt
  <2>2. k - 1 \in 0..Len(l)
    BY <1>1, <1>5
  <2>3. QED
    BY <1>2, <1>3, <2>1, <2>2
<1>6. QED
  BY <1>1, <1>4, <1>5

\* leaderRoutine sends a suffix of the log; it follows the entry at PrevLogIndex.
LEMMA SortedSuffix ==
  ASSUME NEW l \in Seq(Entry), NEW t \in Nat, SortedUpTo(l, t), NEW k \in 0..Len(l)
  PROVE  LET s == SubSeq(l, k + 1, Len(l)) IN
         SortedUpTo(s, t) /\ (s # <<>> => TermAt(l, k) <= s[1].term)
<1> DEFINE s == SubSeq(l, k + 1, Len(l))
<1>1. /\ s \in Seq(Entry) /\ Len(s) = Len(l) - k /\ Len(l) \in Nat /\ k \in Nat
      /\ \A j \in 1 .. Len(l) - k : s[j] = l[k + j]
  BY SuffixProperties
<1> HIDE DEF s
<1>2. ASSUME NEW j \in 1..Len(s)
      PROVE  TermAt(s, j) = TermAt(l, k + j) /\ k + j \in 1..Len(l) /\ k + j # 0
  BY <1>1 DEF TermAt
<1>3. ASSUME NEW j \in 1..Len(s)
      PROVE  TermAt(s, j - 1) <= TermAt(s, j) /\ TermAt(s, j) <= t
  <2>1. TermAt(l, k + j - 1) <= TermAt(l, k + j) /\ TermAt(l, k + j) <= t
    BY <1>2 DEF SortedUpTo
  <2>2. CASE j = 1
    <3>1. TermAt(s, j - 1) = 0
      BY <2>2 DEF TermAt
    <3>2. TermAt(s, j) \in Nat
      BY <1>1, EntryTerm
    <3>3. QED
      BY <1>2, <2>1, <3>1, <3>2
  <2>3. CASE j # 1
    <3>1. j - 1 \in 1..Len(s) /\ k + (j - 1) = k + j - 1
      BY <1>1, <2>3
    <3>2. TermAt(s, j - 1) = TermAt(l, k + (j - 1))
      BY <3>1, <1>2
    <3>3. QED
      BY <1>2, <2>1, <3>1, <3>2
  <2>4. QED
    BY <2>2, <2>3
<1>4. ASSUME s # <<>> PROVE TermAt(l, k) <= s[1].term
  <2>1. Len(s) # 0 /\ 1 \in 1..Len(s)
    BY <1>1, <1>4
  <2>2. k + 1 \in 1..Len(l) /\ k + 1 - 1 = k
    BY <1>1, <2>1
  <2>3. TermAt(l, k + 1 - 1) <= TermAt(l, k + 1)
    BY <2>2 DEF SortedUpTo
  <2>4. TermAt(l, k + 1) = s[1].term
    BY <1>1, <1>2, <2>1, EntryTerm
  <2>5. QED
    BY <2>2, <2>3, <2>4
<1>5. QED
  BY <1>3, <1>4 DEF SortedUpTo, s

\* What AppendEntries keeps of a sorted log is sorted.
LEMMA SortedTruncated ==
  ASSUME NEW l \in Seq(Entry), NEW m \in Request, HasPrev(l, m), NEW t \in Nat, SortedUpTo(l, t)
  PROVE  SortedUpTo(Truncated(l, m), t)
<1> DEFINE n == m.prev + Agreeing(l, m)
           x == Truncated(l, m)
<1>1. n \in Nat /\ n <= Len(l)
  BY AgreeingProperties DEF HasPrev, Request
<1>2. Len(x) = n /\ \A k \in 1..n : x[k] = l[k]
  BY TruncatedProperties, Zenon
<1> HIDE DEF n, x
<1>3. ASSUME NEW k \in 1..Len(x)
      PROVE  TermAt(x, k - 1) <= TermAt(x, k) /\ TermAt(x, k) <= t
  <2>1. k \in 1..Len(l)
    BY <1>1, <1>2
  <2>2. TermAt(x, k) = TermAt(l, k) /\ TermAt(x, k - 1) = TermAt(l, k - 1)
    BY <1>1, <1>2 DEF TermAt
  <2>3. QED
    BY <2>1, <2>2 DEF SortedUpTo
<1>4. QED
  BY <1>3 DEF SortedUpTo, x

\* AppendEntries keeps the log sorted: where the call's entries take over, they
\* follow an entry of the same term in the call, or the one at PrevLogIndex.
LEMMA SortedExtended ==
  ASSUME NEW l \in Seq(Entry), NEW m \in Request, HasPrev(l, m),
         NEW t \in Nat, SortedUpTo(l, t), m.term <= t,
         SortedUpTo(m.entries, m.term),
         m.entries # <<>> => m.prevTerm <= m.entries[1].term
  PROVE  SortedUpTo(Extended(l, m), t)
<1> DEFINE n == Agreeing(l, m)
           x == Extended(l, m)
           e == m.entries
           E == Len(m.entries)
           p == m.prev
<1>1. /\ e \in Seq(Entry) /\ E \in Nat /\ E = Len(e) /\ p \in Nat /\ m.term \in Nat
      /\ Len(l) \in Nat
  BY DEF Request
<1>2. /\ n \in 0..E /\ p + n <= Len(l)
      /\ \A k \in 1..n : l[p + k].term = e[k].term
  BY AgreeingProperties DEF HasPrev
<1>3. /\ Len(x) = p + E
      /\ \A k \in 1 .. p + E : x[k] = IF k <= p + n THEN l[k] ELSE e[k - p]
  BY ExtendedProperties
<1>4. TermAt(l, p) = m.prevTerm
  BY DEF HasPrev
<1>5. SortedUpTo(e, m.term) /\ (E # 0 => m.prevTerm <= e[1].term)
  BY <1>1
<1> HIDE DEF n, x, e, E, p
<1>6. ASSUME NEW k \in 1 .. p + n
      PROVE  TermAt(x, k) = TermAt(l, k) /\ k \in 1..Len(l) /\ k \in 1..Len(x)
  BY <1>1, <1>2, <1>3 DEF TermAt
<1>7. ASSUME NEW k \in p + n + 1 .. p + E
      PROVE  TermAt(x, k) = TermAt(e, k - p) /\ k - p \in 1..Len(e)
  <2>1. /\ k \in 1 .. p + E /\ ~(k <= p + n) /\ k # 0
        /\ k - p \in 1..Len(e) /\ k - p # 0
    BY <1>1, <1>2
  <2>2. x[k] = e[k - p]
    BY <2>1, <1>3
  <2>3. QED
    BY <2>1, <2>2 DEF TermAt
<1> SUFFICES ASSUME NEW k \in 1..Len(x)
             PROVE  TermAt(x, k - 1) <= TermAt(x, k) /\ TermAt(x, k) <= t
  BY DEF SortedUpTo, x
<1>8. CASE k <= p + n
  <2>1. k \in 1 .. p + n
    BY <1>1, <1>2, <1>3, <1>8
  <2>2. TermAt(l, k - 1) <= TermAt(l, k) /\ TermAt(l, k) <= t
    BY <2>1, <1>6 DEF SortedUpTo
  <2>3. TermAt(x, k - 1) = TermAt(l, k - 1)
    <3>1. CASE k = 1
      BY <3>1 DEF TermAt
    <3>2. CASE k # 1
      <4>1. k - 1 \in 1 .. p + n
        BY <2>1, <3>2, <1>1, <1>2
      <4>2. QED
        BY <4>1, <1>6
    <3>3. QED
      BY <3>1, <3>2
  <2>4. QED
    BY <2>1, <2>2, <2>3, <1>6
<1>9. CASE k > p + n
  <2> DEFINE j == k - p
  <2>1. k \in p + n + 1 .. p + E
    BY <1>1, <1>2, <1>3, <1>9
  <2>2. TermAt(x, k) = TermAt(e, j) /\ j \in 1..Len(e)
    BY <2>1, <1>7
  <2>3. TermAt(e, j) \in Nat /\ TermAt(e, j) = e[j].term
    BY <2>2, <1>1, EntryTerm
  <2>4. TermAt(e, j - 1) <= TermAt(e, j) /\ TermAt(e, j) <= m.term
    BY <2>2, <1>5 DEF SortedUpTo
  <2>5. TermAt(x, k) <= t
    BY <2>2, <2>3, <2>4, <1>1
  <2>6. TermAt(x, k - 1) <= TermAt(x, k)
    <3>1. CASE k - 1 \in p + n + 1 .. p + E /\ k - 1 - p = j - 1
      <4>1. TermAt(x, k - 1) = TermAt(e, j - 1)
        BY <3>1, <1>7
      <4>2. QED
        BY <4>1, <2>2, <2>4
    <3>2. CASE k - 1 = p + n
      <4>1. j = n + 1 /\ j - 1 = n
        BY <3>2, <2>1, <1>1, <1>2
      <4>2. TermAt(x, k - 1) = TermAt(l, p + n)
        <5>1. CASE p + n = 0
          BY <5>1, <3>2 DEF TermAt
        <5>2. CASE p + n # 0
          <6>1. p + n \in 1 .. p + n
            BY <5>2, <1>1, <1>2
          <6>2. QED
            BY <6>1, <3>2, <1>6
        <5>3. QED
          BY <5>1, <5>2
      <4>3. CASE n = 0
        <5>1. TermAt(x, k - 1) = m.prevTerm
          BY <4>2, <4>3, <1>1, <1>4
        <5>2. E # 0 /\ j = 1
          BY <4>1, <4>3, <2>2, <1>1
        <5>3. QED
          BY <5>1, <5>2, <2>2, <2>3, <1>5
      <4>4. CASE n # 0
        <5>1. n \in 1..n /\ n \in 1..Len(e) /\ p + n \in 1..Len(l)
          BY <4>4, <1>1, <1>2
        <5>2. l[p + n].term = e[n].term
          BY <5>1, <1>2
        <5>3. TermAt(l, p + n) = TermAt(e, n)
          BY <5>1, <5>2, <1>1, EntryTerm
        <5>4. QED
          BY <4>1, <4>2, <5>3, <2>2, <2>4
      <4>5. QED
        BY <4>3, <4>4
    <3>3. \/ k - 1 \in p + n + 1 .. p + E /\ k - 1 - p = j - 1
          \/ k - 1 = p + n
      BY <2>1, <1>1, <1>2
    <3>4. QED
      BY <3>1, <3>2, <3>3
  <2>7. QED
    BY <2>5, <2>6
<1>10. QED
  BY <1>1, <1>2, <1>3, <1>8, <1>9

\* A step that changes the log, the saved state or the term of peer i only, and
\* sends nothing.
LEMMA LogFrame ==
  ASSUME TypeOK, LogInv, NEW i \in Server,
         \A j \in Server \ {i} : /\ log'[j] = log[j] /\ currentTerm'[j] = currentTerm[j]
                                 /\ persisted'[j] = persisted[j],
         SortedUpTo(log'[i], currentTerm'[i]),
         SortedUpTo(persisted'[i].log, persisted'[i].currentTerm),
         requests' \subseteq requests
  PROVE  LogInv'
<1>1. \A j \in Server : SortedUpTo(log'[j], currentTerm'[j])
  BY DEF LogInv, LogTermsSorted
<1>2. \A j \in Server : SortedUpTo(persisted'[j].log, persisted'[j].currentTerm)
  BY DEF LogInv
<1>3. QED
  BY <1>1, <1>2, ZenonT(30) DEF LogInv, LogTermsSorted, SortedUpTo, TermAt

\* A step that leaves logs, terms and Persisters alone and adds no call keeps LogInv.
LEMMA LogUnchanged ==
  ASSUME LogInv, UNCHANGED <<log, currentTerm, persisted>>, requests' \subseteq requests
  PROVE  LogInv'
BY Zenon DEF LogInv, LogTermsSorted, SortedUpTo, TermAt

\* A step that moves peer i to term t and saves its log with that term, or
\* saves nothing.
LEMMA LogTermRaised ==
  ASSUME TypeOK, LogInv, NEW i \in Server, NEW t \in Nat, t >= currentTerm[i], NEW v,
         currentTerm' = [currentTerm EXCEPT ![i] = t],
         \/ persisted' = [persisted EXCEPT ![i] = Saved(t, v, log[i])]
         \/ persisted' = persisted,
         log' = log, requests' \subseteq requests
  PROVE  LogInv'
<1>1. currentTerm'[i] = t /\ \A j \in Server \ {i} : currentTerm'[j] = currentTerm[j]
  BY DEF TypeOK
<1>2. SortedUpTo(log[i], t)
  <2>1. log[i] \in Seq(Entry) /\ currentTerm[i] \in Nat /\ currentTerm[i] <= t
    BY DEF TypeOK
  <2>2. QED
    BY <2>1, SortedRaise, ZenonT(30) DEF LogInv, LogTermsSorted
<1>3. SortedUpTo(persisted'[i].log, persisted'[i].currentTerm)
  <2>1. CASE persisted' = [persisted EXCEPT ![i] = Saved(t, v, log[i])]
    <3>1. persisted'[i].log = log[i] /\ persisted'[i].currentTerm = t
      BY <2>1, Zenon DEF TypeOK, Saved
    <3>2. QED
      BY <1>2, <3>1
  <2>2. CASE persisted' = persisted
    BY <2>2, ZenonT(30) DEF LogInv
  <2>3. QED
    BY <2>1, <2>2, ZenonT(30)
<1>4. \A j \in Server \ {i} : persisted'[j] = persisted[j]
  BY DEF TypeOK
<1>5. QED
  BY <1>1, <1>2, <1>3, <1>4, LogFrame, ZenonT(30)

\* RequestVote may raise the term of the voter and saves its log as it is.
LEMMA LogRequestVote ==
  ASSUME TypeOK, LogInv, NEW m \in voteCalls, RequestVote(m)
  PROVE  LogInv'
<1> DEFINE i == m.to
           t == SeenTerm(i, m.term)
           vote == IF GrantVote(i, m) THEN m.from ELSE SeenVote(i, m.term)
<1>1. i \in Server /\ m.term \in Nat /\ currentTerm[i] \in Nat
  BY DEF TypeOK, VoteCall
<1>2. t \in Nat /\ t >= currentTerm[i]
  BY <1>1 DEF SeenTerm
<1>3. /\ currentTerm' = [currentTerm EXCEPT ![i] = t]
      /\ \/ persisted' = [persisted EXCEPT ![i] = Saved(t, vote, log[i])]
         \/ persisted' = [persisted EXCEPT ![i] = @]
      /\ log' = log /\ requests' = requests
  BY Zenon DEF RequestVote, updateTerm, appendVars
<1>4. [persisted EXCEPT ![i] = @] = persisted
  BY DEF TypeOK
<1> HIDE DEF t, vote
<1>5. QED
  BY <1>1, <1>2, <1>3, <1>4, LogTermRaised, Zenon

\* AppendEntries, accepted or refused, leaves a sorted log in memory and in the Persister.
LEMMA LogAppendEntries ==
  ASSUME TypeOK, LogInv, NEW m \in requests, AppendEntries(m)
  PROVE  LogInv'
<1> DEFINE i == m.to
           t == SeenTerm(i, m.term)
<1>1. m \in Request
  BY DEF TypeOK
<1>2. /\ i \in Server /\ m.term \in Nat /\ currentTerm[i] \in Nat
      /\ log[i] \in Seq(Entry)
  BY <1>1, ZenonT(30) DEF TypeOK, Request
<1>3. t \in Nat /\ t >= currentTerm[i] /\ t >= m.term
  BY <1>2 DEF SeenTerm
<1>4. requests' \subseteq requests
  BY Zenon DEF AppendEntries, RefuseOldTerm, RefuseConflict, AcceptEntries, Reply
<1>5. CASE RefuseOldTerm(m)
  BY <1>4, <1>5, LogUnchanged DEF RefuseOldTerm, termVars
<1>6. CASE RefuseConflict(m)
  <2>1. /\ currentTerm' = [currentTerm EXCEPT ![i] = t] /\ log' = log
        /\ persisted' = [persisted EXCEPT ![i] =
                           IF m.term > currentTerm[i] THEN Saved(m.term, NoVote, log[i]) ELSE @]
    BY <1>6, Zenon DEF RefuseConflict, updateTerm
  <2>2. \/ persisted' = [persisted EXCEPT ![i] = Saved(t, NoVote, log[i])]
        \/ persisted' = persisted
    BY <1>2, <2>1, ZenonT(30) DEF SeenTerm, TypeOK
  <2> HIDE DEF t
  <2>3. QED
    BY <1>2, <1>3, <1>4, <2>1, <2>2, LogTermRaised, Zenon
<1>7. CASE AcceptEntries(m)
  <2>1. HasPrev(log[i], m)
    BY <1>7, Zenon DEF AcceptEntries
  <2>2. SortedUpTo(log[i], t)
    BY <1>2, <1>3, SortedRaise, Zenon DEF LogInv, LogTermsSorted
  <2>3. SortedUpTo(Extended(log[i], m), t)
    BY <1>1, <1>2, <1>3, <2>1, <2>2, SortedExtended, ZenonT(30) DEF LogInv
  <2>4. SortedUpTo(Truncated(log[i], m), t)
    BY <1>1, <1>2, <1>3, <2>1, <2>2, SortedTruncated
  <2>5. /\ currentTerm' = [currentTerm EXCEPT ![i] = t]
        /\ log' = [log EXCEPT ![i] = Extended(log[i], m)]
        /\ persisted' = [persisted EXCEPT ![i] = Saved(t, SeenVote(i, m.term), Truncated(log[i], m))]
    BY <1>7, Zenon DEF AcceptEntries, updateTerm
  <2> HIDE DEF t
  <2>6. /\ currentTerm'[i] = t /\ log'[i] = Extended(log[i], m)
        /\ persisted'[i].log = Truncated(log[i], m) /\ persisted'[i].currentTerm = t
    BY <1>2, <2>5, ZenonT(30) DEF TypeOK, Saved
  <2>7. \A j \in Server \ {i} : /\ log'[j] = log[j] /\ currentTerm'[j] = currentTerm[j]
                                /\ persisted'[j] = persisted[j]
    BY <1>2, <2>5, Zenon DEF TypeOK
  <2>8. QED
    BY <1>2, <1>4, <2>3, <2>4, <2>6, <2>7, LogFrame
<1>8. QED
  BY <1>5, <1>6, <1>7 DEF AppendEntries

\* Start appends one entry of the leader's own term.
LEMMA LogStart ==
  ASSUME TypeOK, LogInv, NEW i \in Server, NEW c \in Command, Start(i, c)
  PROVE  LogInv'
<1> DEFINE l == Append(log[i], NewEntry(i, c))
<1>1. /\ NewEntry(i, c) \in Entry /\ NewEntry(i, c).term = currentTerm[i]
      /\ log[i] \in Seq(Entry) /\ currentTerm[i] \in Nat
  BY Zenon DEF NewEntry, Entry, TypeOK
<1>2. SortedUpTo(l, currentTerm[i])
  BY <1>1, SortedAppend, Zenon DEF LogInv, LogTermsSorted
<1>3. /\ log' = [log EXCEPT ![i] = l] /\ currentTerm' = currentTerm /\ requests' = requests
      /\ persisted' = [persisted EXCEPT ![i] = Saved(currentTerm[i], votedFor[i], l)]
  BY DEF Start, termVars, appendVars
<1> HIDE DEF l
<1>4. log'[i] = l /\ persisted'[i].log = l /\ persisted'[i].currentTerm = currentTerm[i]
  BY <1>3, ZenonT(30) DEF TypeOK, Saved
<1>5. \A j \in Server \ {i} : log'[j] = log[j] /\ persisted'[j] = persisted[j]
  BY <1>3 DEF TypeOK
<1>6. QED
  BY <1>2, <1>3, <1>4, <1>5, LogFrame, Zenon

\* candidateRoutine raises the term and leaves the log alone.
LEMMA LogBeginElection ==
  ASSUME TypeOK, LogInv, NEW i \in Server, BeginElection(i)
  PROVE  LogInv'
<1>1. currentTerm[i] + 1 \in Nat /\ currentTerm[i] + 1 >= currentTerm[i]
  BY DEF TypeOK
<1>2. QED
  BY <1>1, LogTermRaised, Zenon DEF BeginElection, appendVars

\* A routine that steps down adopts a larger term and leaves the log alone.
LEMMA LogStepDown ==
  ASSUME TypeOK, LogInv, NEW i \in Server, NEW t \in Nat, t > currentTerm[i], StepDown(i, t)
  PROVE  LogInv'
<1>1. t >= currentTerm[i]
  BY DEF TypeOK
<1>2. QED
  BY <1>1, LogTermRaised, Zenon DEF StepDown

\* The calls of a round carry a suffix of the log, with the leader's term.
LEMMA LogBroadcast ==
  ASSUME TypeOK, LogInv, NEW i \in Server, Broadcast(i)
  PROVE  LogInv'
<1> DEFINE prev(p) == nextIndex[i][p] - 1
           call(p) == [from |-> i, to |-> p, term |-> currentTerm[i], prev |-> prev(p),
                       prevTerm |-> TermAt(log[i], prev(p)),
                       entries |-> SubSeq(log[i], prev(p) + 1, Len(log[i])),
                       commit |-> commitIndex[i]]
           round == {call(p) : p \in Server \ {i}}
<1>1. UNCHANGED <<log, currentTerm, persisted>>
  BY Zenon DEF Broadcast, Panic, termVars
<1>2. CASE Panic(i)
  BY <1>1, <1>2, LogUnchanged DEF Panic, appendVars
<1>3. CASE ~Panic(i)
  <2>1. requests' \subseteq requests \cup round
    BY <1>3, Zenon DEF Broadcast
  <2>2. ASSUME NEW p \in Server \ {i}
        PROVE  prev(p) \in 0..Len(log[i])
    BY <1>3, Zenon DEF Broadcast
  <2>3. ASSUME NEW m \in round
        PROVE  /\ SortedUpTo(m.entries, m.term)
               /\ m.entries # <<>> => m.prevTerm <= m.entries[1].term
    <3>1. PICK p \in Server \ {i} : m = call(p)
      BY <2>3, ZenonT(30)
    <3>2. PICK k : k = prev(p)
      OBVIOUS
    <3>3. k \in 0..Len(log[i]) /\ log[i] \in Seq(Entry) /\ currentTerm[i] \in Nat
      BY <2>2, <3>2, Zenon DEF TypeOK
    <3>4. /\ m.entries = SubSeq(log[i], k + 1, Len(log[i]))
          /\ m.term = currentTerm[i] /\ m.prevTerm = TermAt(log[i], k)
      BY <3>1, <3>2, Zenon
    <3>5. SortedUpTo(log[i], currentTerm[i])
      BY Zenon DEF LogInv, LogTermsSorted
    <3>6. QED
      BY <3>3, <3>4, <3>5, SortedSuffix, Zenon
  <2> HIDE DEF round
  <2>4. ASSUME NEW m \in requests'
        PROVE  /\ SortedUpTo(m.entries, m.term)
               /\ m.entries # <<>> => m.prevTerm <= m.entries[1].term
    BY <2>1, <2>3 DEF LogInv
  <2>5. QED
    BY <1>1, <2>4, Zenon DEF LogInv, LogTermsSorted, SortedUpTo, TermAt
<1>4. QED
  BY <1>2, <1>3

\* A restarted peer reads back a log that was sorted when it was saved.
LEMMA LogCrashRestart ==
  ASSUME TypeOK, LogInv, NEW i \in Server, CrashRestart(i)
  PROVE  LogInv'
<1>1. /\ log'[i] = persisted[i].log /\ currentTerm'[i] = persisted[i].currentTerm
      /\ persisted' = persisted /\ requests' = requests
  BY DEF CrashRestart, TypeOK
<1>2. \A j \in Server \ {i} : log'[j] = log[j] /\ currentTerm'[j] = currentTerm[j]
  BY DEF CrashRestart, TypeOK
<1>3. SortedUpTo(persisted[i].log, persisted[i].currentTerm)
  BY DEF LogInv
<1>4. QED
  BY <1>1, <1>2, <1>3, LogFrame

\* Every step keeps LogInv, action by action.
LEMMA LogNext == TypeOK /\ LogInv /\ [Next]_vars => LogInv'
<1> SUFFICES ASSUME TypeOK, LogInv, [Next]_vars PROVE LogInv'
  OBVIOUS
<1>1. CASE Handler
  BY <1>1, LogRequestVote, LogAppendEntries DEF Handler
<1>2. CASE \E i \in Server : Routine(i)
  <2>1. PICK i \in Server : Routine(i)
    BY <1>2
  <2>2. CASE BeginElection(i)
    BY <2>2, LogBeginElection
  <2>3. CASE UNCHANGED <<log, currentTerm, persisted, requests>>
    BY <2>3, LogUnchanged
  <2>4. CASE \E r \in voteReplies[i] : CountVote(i, r)
    <3>1. PICK r \in voteReplies[i] : CountVote(i, r)
      BY <2>4
    <3>2. r.term \in Nat
      BY DEF TypeOK, VoteReply
    <3>3. CASE r.term > currentTerm[i] /\ StepDown(i, r.term)
      BY <3>2, <3>3, LogStepDown, ZenonT(30)
    <3>4. QED
      BY <2>3, <3>1, <3>3, Zenon DEF CountVote, termVars
  <2>5. CASE \E r \in replies[i] : TakeReply(i, r)
    <3>1. PICK r \in replies[i] : TakeReply(i, r)
      BY <2>5
    <3>2. r.term \in Nat
      <4>1. r \in AppendReply
        BY DEF TypeOK
      <4>2. QED
        BY <4>1 DEF AppendReply
    <3>3. CASE r.term > currentTerm[i] /\ StepDown(i, r.term)
      BY <3>2, <3>3, LogStepDown
    <3>4. CASE AdvanceCommit(i, r)
      <4>1. UNCHANGED <<log, currentTerm, persisted, requests>>
        BY <3>4, Zenon DEF AdvanceCommit, Panic, termVars, appendVars
      <4>2. QED
        BY <2>3, <4>1
    <3>5. QED
      BY <2>3, <3>1, <3>3, <3>4 DEF TakeReply, termVars
  <2>6. CASE Broadcast(i)
    BY <2>6, LogBroadcast
  <2>7. CASE Dispatch(i)
    BY <2>2, <2>3, <2>7 DEF Dispatch, termVars, appendVars
  <2>8. QED
    BY <2>1, <2>2, <2>3, <2>4, <2>5, <2>6, <2>7, ZenonT(30)
       DEF Routine, ElectionTimeout, CandidateTimeout, TakeToFollower, termVars
<1>3. CASE \E i \in Server, c \in Command : Start(i, c)
  BY <1>3, LogStart
<1>4. CASE \E i \in Server : CrashRestart(i)
  BY <1>4, LogCrashRestart
<1>5. CASE UNCHANGED vars
  BY <1>5, LogUnchanged DEF vars, termVars, appendVars
<1>6. QED
  BY <1>1, <1>2, <1>3, <1>4, <1>5 DEF Next

\* The strengthened invariant holds in every reachable state.
THEOREM LogInvariant == Spec => []LogInv
<1>1. QED
  BY TypeCorrect, LogInit, LogNext, PTL DEF Spec

\* Terms never decrease along a log and never exceed the peer's term: the
\* comparison of last terms in logNewer is a comparison of the largest terms.
THEOREM LogsSorted == Spec => []LogTermsSorted
<1>1. LogInv => LogTermsSorted
  BY DEF LogInv
<1>2. QED
  BY <1>1, LogInvariant, PTL
=============================================================================
