---------------------------- MODULE RaftSafety ------------------------------
(***************************************************************************)
(* The theorems about Raft that need majorities: who wins and leads, which *)
(* logs match, which indices a leader keeps, and what is committed.  The   *)
(* steps they rest on are in RaftBasics, RaftLeaders and RaftCommit.       *)
(***************************************************************************)
EXTENDS RaftBasics, RaftLeaders, RaftCommit, FiniteSetTheorems

-----------------------------------------------------------------------------
(* 1. Elections and leaders *)

\* Two majorities of one term share a voter, which voted once.
LEMMA QuorumsAgree ==
  ASSUME TypeOK, WonByQuorum, VoteOnce
  PROVE  OneWinnerPerTerm
<1> SUFFICES ASSUME NEW e \in elected, NEW f \in elected, e.term = f.term
             PROVE  e.server = f.server
  BY DEF OneWinnerPerTerm
<1>1. PICK P \in SUBSET Server :
        Majority(P) /\ \A p \in P : [voter |-> p, term |-> e.term, cand |-> e.server] \in votes
  BY DEF WonByQuorum, HasQuorum
<1>2. PICK Q \in SUBSET Server :
        Majority(Q) /\ \A p \in Q : [voter |-> p, term |-> f.term, cand |-> f.server] \in votes
  BY DEF WonByQuorum, HasQuorum
<1>3. Cardinality(P) + Cardinality(Q) > Cardinality(Server)
  <2>1. IsFiniteSet(Server) /\ IsFiniteSet(P) /\ IsFiniteSet(Q)
    BY ServerAssumption, FS_Subset
  <2>2. Cardinality(P) \in Nat /\ Cardinality(Q) \in Nat /\ Cardinality(Server) \in Nat
    BY <2>1, FS_CardinalityType
  <2>3. QED
    BY <1>1, <1>2, <2>2 DEF Majority
<1>4. PICK p : p \in P /\ p \in Q
  <2>1. P \cap Q # {}
    BY <1>3, ServerAssumption, FS_MajoritiesIntersect
  <2>2. QED
    BY <2>1
<1>5. QED
  <2> DEFINE v == [voter |-> p, term |-> e.term, cand |-> e.server]
             w == [voter |-> p, term |-> f.term, cand |-> f.server]
  <2>1. v \in votes /\ w \in votes
    BY <1>1, <1>2, <1>4
  <2>2. v.voter = w.voter /\ v.term = w.term
    OBVIOUS
  <2>3. v.cand = w.cand
    BY <2>1, <2>2 DEF VoteOnce
  <2>4. QED
    BY <2>3

\* No two candidates collect a majority (line 518) in the same term.
THEOREM OneWinner == Spec => []OneWinnerPerTerm
<1>1. TypeOK /\ ElectionInv /\ VoteOnce => OneWinnerPerTerm
  BY QuorumsAgree DEF ElectionInv
<1>2. QED
  BY <1>1, TypeCorrect, ElectionInvariant, PTL

\* Roles, tokens and elections agree in every reachable state of a schedule in
\* which a deposed peer steps down first.
THEOREM RoleInvariant == ASSUME StepDownFirst PROVE Spec => []RoleInv
<1>1. TypeOK /\ ElectionInv /\ RoleInv /\ [Next]_vars => RoleInv'
  BY RoleNext DEF ElectionInv
<1>2. QED
  BY <1>1, TypeCorrect, ElectionInvariant, RoleInit, PTL DEF Spec

\* A term has one leader (config.go line 319): a leader has won the election of
\* its term, and an election has one winner.
THEOREM OneLeader == ASSUME StepDownFirst PROVE Spec => []ElectionSafety
<1>1. RoleInv /\ OneWinnerPerTerm => ElectionSafety
  <2> SUFFICES ASSUME RoleInv, OneWinnerPerTerm, NEW i \in Server, NEW j \in Server,
                      status[i] = "leader", status[j] = "leader", currentTerm[i] = currentTerm[j]
               PROVE  i = j
    BY DEF ElectionSafety
  <2> DEFINE e == [term |-> currentTerm[i], server |-> i]
             f == [term |-> currentTerm[j], server |-> j]
  <2>1. e \in elected /\ f \in elected
    BY DEF RoleInv, RoleOK
  <2>2. e.server = f.server
    BY <2>1 DEF OneWinnerPerTerm
  <2>3. QED
    BY <2>2
<1>2. QED
  BY <1>1, RoleInvariant, OneWinner, PTL

\* A leader only appends to its log while it leads a term (Start, line 226):
\* AppendEntries never truncates it.
THEOREM LeaderAppends == ASSUME StepDownFirst PROVE Spec => LeaderAppendOnly
<1>1. TypeOK /\ RoleInv /\ OneWinnerPerTerm /\ [Next]_vars => [LeaderAppendStep]_vars
  BY LeaderAppendNext
<1>2. QED
  BY <1>1, TypeCorrect, RoleInvariant, OneWinner, PTL DEF Spec, LeaderAppendOnly, LeaderAppendStep

-----------------------------------------------------------------------------
(* 2. Matching logs *)

\* Pieces of logs match in every reachable state of a schedule in which a
\* deposed peer steps down first.
THEOREM MatchInvariant == ASSUME StepDownFirst PROVE Spec => []MatchInv
<1>1. /\ TypeOK /\ RoleInv /\ OneWinnerPerTerm /\ MatchInv /\ [Next]_vars
      /\ TypeOK' /\ OneWinnerPerTerm'
      => MatchInv'
  BY LeaderStepNext, MatchNext
<1>2. QED
  BY <1>1, MatchInit, TypeCorrect, RoleInvariant, OneWinner, PTL DEF Spec

\* The log matching property: AppendEntries compares terms only (lines 260, 278),
\* which is enough, with crashes, saved logs and late calls as well.
THEOREM LogsMatch == ASSUME StepDownFirst PROVE Spec => []LogMatching
<1>1. TypeOK /\ MatchInv => LogMatching
  <2> SUFFICES ASSUME TypeOK, MatchInv, NEW i \in Server, NEW j \in Server,
                      NEW k \in 1 .. MinOf(Len(log[i]), Len(log[j])),
                      log[i][k].term = log[j][k].term
               PROVE  SubSeq(log[i], 1, k) = SubSeq(log[j], 1, k)
    BY DEF LogMatching
  <2> DEFINE a == log[i]
             b == log[j]
  <2>1. /\ a \in Seq(Entry) /\ b \in Seq(Entry) /\ Len(a) \in Nat /\ Len(b) \in Nat
        /\ k \in 1..Len(a) /\ k \in 1..Len(b) /\ a[k].term = b[k].term
    <3>1. a \in Seq(Entry) /\ b \in Seq(Entry)
      BY SMTT(30) DEF TypeOK
    <3>2. k \in 1 .. MinOf(Len(a), Len(b)) /\ a[k].term = b[k].term
      OBVIOUS
    <3> HIDE DEF a, b
    <3>3. Len(a) \in Nat /\ Len(b) \in Nat
      BY <3>1, LenFacts
    <3>4. k \in 1..Len(a) /\ k \in 1..Len(b)
      BY <3>2, <3>3 DEF MinOf
    <3>5. QED
      BY <3>1, <3>2, <3>3, <3>4, SMTT(30)
  <2>2. Match(Whole(a), Whole(b))
    BY DEF MatchInv, Pieces
  <2> HIDE DEF a, b
  <2>3. TermOf(Whole(a), k) = TermOf(Whole(b), k)
    BY <2>1, WholeFacts DEF TermAt
  <2>4. ASSUME NEW n \in 1..k PROVE a[n] = b[n] /\ a[n] \in Entry /\ b[n] \in Entry
    <3>1. n \in 1..Len(a) /\ n \in 1..Len(b) /\ n <= k
      BY <2>1
    <3>2. /\ n \in Covered(Whole(a)) \cap Covered(Whole(b)) /\ n \in Held(Whole(a))
          /\ k \in Covered(Whole(a)) \cap Covered(Whole(b)) /\ n \in Held(Whole(b))
      BY <2>1, <3>1, WholeFacts, SMTT(30)
    <3>3. Same(Whole(a), Whole(b), n)
      BY <2>2, <2>3, <3>1, <3>2, SMTT(30) DEF Match
    <3>4. EntryOf(Whole(a), n) = a[n] /\ EntryOf(Whole(b), n) = b[n]
      BY <2>1, <3>1, WholeFacts, SMTT(30)
    <3>5. QED
      BY <2>1, <3>1, <3>2, <3>3, <3>4, LenFacts, SMTT(30) DEF Same
  <2>5. /\ SubSeq(a, 1, k) \in Seq(Entry) /\ Len(SubSeq(a, 1, k)) = k
        /\ \A n \in 1..k : SubSeq(a, 1, k)[n] = a[n]
    BY <2>1, <2>4, SubSeqFacts
  <2>6. /\ SubSeq(b, 1, k) \in Seq(Entry) /\ Len(SubSeq(b, 1, k)) = k
        /\ \A n \in 1..k : SubSeq(b, 1, k)[n] = b[n]
    BY <2>1, <2>4, SubSeqFacts
  <2>7. SubSeq(a, 1, k) = SubSeq(b, 1, k)
    BY <2>4, <2>5, <2>6, EqualFacts
  <2>8. QED
    BY <2>7 DEF a, b
<1>2. QED
  BY <1>1, TypeCorrect, MatchInvariant, PTL

-----------------------------------------------------------------------------
(* 3. The indices of a leader *)

\* The sorted middle of indices within the log is one of them, and at most half
\* of them lie below it, whatever the number of peers is (lines 436-439).
LEMMA SortedMiddleProperties ==
  ASSUME NEW n \in Nat, NEW match \in [Server -> 0..n]
  PROVE  /\ SortedMiddle(match) \in 0..n
         /\ Cardinality({p \in Server : match[p] < SortedMiddle(match)}) <= Cardinality(Server) \div 2
<1> DEFINE upTo(v) == {p \in Server : match[p] <= v}
           below(v) == {p \in Server : match[p] < v}
           half == Cardinality(Server) \div 2
           Good == {v \in 0..n : Majority(upTo(v))}
<1>1. /\ Cardinality(Server) \in Nat /\ half \in Nat /\ Cardinality(Server) > half
  <2>1. Cardinality(Server) \in Nat /\ Cardinality(Server) # 0
    BY ServerAssumption, FS_CardinalityType, FS_EmptySet
  <2>2. QED
    BY <2>1
<1>2. \A v : Cardinality(upTo(v)) \in Nat
  BY ServerAssumption, FS_Subset, FS_CardinalityType
<1>3. n \in Good
  <2>1. upTo(n) = Server
    OBVIOUS
  <2>2. QED
    BY <1>1, <2>1 DEF Majority
<1>4. PICK v \in Good : \A u \in Good : v <= u
  <2>1. Good \in SUBSET Nat /\ Good # {}
    <3>1. \A u \in Good : u \in Nat
      OBVIOUS
    <3> HIDE DEF Good
    <3>2. QED
      BY <1>3, <3>1
  <2> HIDE DEF Good
  <2>2. QED
    BY <2>1, LeastElement
<1>5. /\ v \in 0..n /\ Majority(upTo(v))
      /\ \A u \in 0..n : Majority(upTo(u)) => v <= u
  BY <1>4
<1>6. Cardinality(below(v)) <= half
  <2>1. CASE v = 0
    <3>1. below(v) = {}
      BY <2>1
    <3>2. QED
      BY <1>1, <3>1, FS_EmptySet
  <2>2. CASE v # 0
    <3>1. v - 1 \in 0..n /\ ~(v <= v - 1)
      BY <1>5, <2>2
    <3>2. below(v) = upTo(v - 1)
      BY <1>5
    <3>3. ~Majority(upTo(v - 1))
      BY <1>5, <3>1
    <3>4. ~(Cardinality(upTo(v - 1)) > half) /\ Cardinality(upTo(v - 1)) \in Nat
      BY <1>2, <3>3 DEF Majority
    <3> HIDE DEF upTo, below, half
    <3>5. QED
      BY <1>1, <3>2, <3>4
  <2>3. QED
    BY <2>1, <2>2
<1>7. \E p \in Server : match[p] = v
  <2> SUFFICES ASSUME \A p \in Server : match[p] # v PROVE FALSE
    OBVIOUS
  <2>1. upTo(v) = below(v)
    BY <1>5
  <2> HIDE DEF upTo, below
  <2>2. QED
    BY <1>1, <1>2, <1>5, <1>6, <2>1 DEF Majority
<1>8. \E u \in {match[p] : p \in Server} : /\ Cardinality(below(u)) <= half
                                          /\ Majority(upTo(u))
  BY <1>5, <1>6, <1>7
<1>9. /\ SortedMiddle(match) \in {match[p] : p \in Server}
      /\ Cardinality({p \in Server : match[p] < SortedMiddle(match)}) <= Cardinality(Server) \div 2
  BY <1>8, Zenon DEF SortedMiddle
<1>10. QED
  BY <1>9

\* The indices a leader keeps of its peers, and those that replies bring, stay
\* within its log, where a deposed peer steps down first.
THEOREM IndexInvariant == ASSUME StepDownFirst PROVE Spec => []IndexInv
<1>1. Init => IndexInv
  BY IndexInit
<1>2. /\ TypeOK /\ TypeOK' /\ RoleInv /\ RoleInv' /\ OneWinnerPerTerm /\ OneWinnerPerTerm'
      /\ MatchInv /\ IndexInv /\ [Next]_vars
      => IndexInv'
  BY LeaderStepNext, RefusalsAskInside, SortedMiddleProperties, IndexNext DEF MiddleInRange
<1>3. QED
  BY <1>1, <1>2, TypeCorrect, RoleInvariant, OneWinner, MatchInvariant, PTL DEF Spec

\* NoPanic: leaderRoutine never indexes or slices the log out of range (lines
\* 397, 398 and 441), for every number of peers, late calls and crashes
\* included, where a deposed peer steps down first.
THEOREM NeverPanics == ASSUME StepDownFirst PROVE Spec => []NoPanic
<1>1. IndexInv => NoPanic
  BY DEF IndexInv, NoPanic
<1>2. QED
  BY <1>1, IndexInvariant, PTL

-----------------------------------------------------------------------------
(* 4. Commitment *)

\* All peers together are a majority.
LEMMA AllAreMajority == Majority(Server)
<1>1. Cardinality(Server) \in Nat /\ Cardinality(Server) # 0
  BY ServerAssumption, FS_CardinalityType, FS_EmptySet
<1>2. QED
  BY <1>1 DEF Majority

\* A majority has a peer whose matchIndex is not below the sorted middle: the
\* index of len(rf.peers)/2 in the sorted copy is right for every number of
\* peers, odd or even (line 439).
LEMMA MiddleIsBlocking == MiddleBlocks
<1> SUFFICES ASSUME NEW n \in Nat, NEW match \in [Server -> 0..n],
                    NEW V \in SUBSET Server, Majority(V),
                    \A q \in V : ~(match[q] >= SortedMiddle(match))
             PROVE  FALSE
  BY Zenon DEF MiddleBlocks, Blocking
<1> DEFINE mid == SortedMiddle(match)
           below == {p \in Server : match[p] < mid}
<1>1. mid \in 0..n /\ Cardinality(below) <= Cardinality(Server) \div 2
  BY SortedMiddleProperties
<1>2. V \subseteq below
  <2>1. ASSUME NEW q \in V PROVE q \in Server /\ match[q] < mid
    <3>1. match[q] \in 0..n /\ ~(match[q] >= mid)
      BY Zenon
    <3> HIDE DEF mid
    <3>2. QED
      BY <1>1, <3>1
  <2>2. QED
    BY <2>1, Zenon
<1> HIDE DEF mid
<1>3. IsFiniteSet(Server) /\ below \subseteq Server
  BY ServerAssumption
<1> HIDE DEF below
<1>4. IsFiniteSet(below)
  BY <1>3, FS_Subset
<1>5. /\ Cardinality(V) <= Cardinality(below) /\ Cardinality(V) \in Nat
      /\ Cardinality(below) \in Nat /\ Cardinality(Server) \in Nat
  BY <1>2, <1>3, <1>4, FS_Subset, FS_CardinalityType
<1>6. QED
  BY <1>1, <1>5 DEF Majority

\* What is committed stays in every reachable state: without crashes and
\* overlapping copies of a call, and where a deposed peer steps down first.
THEOREM CommitInvariant ==
  ASSUME StepDownFirst, ~Delays, MaxCrash = 0
  PROVE  Spec => [](RoundInv /\ BallotInv /\ CommitInv)
<1> DEFINE Facts == TypeOK /\ ElectionInv /\ LogInv /\ RoleInv /\ OneWinnerPerTerm /\ MatchInv /\ IndexInv
           C == RoundInv /\ BallotInv /\ CommitInv
<1>1. ASSUME Facts, Facts', C, [Next]_vars, [TermAndVoteStep]_vars PROVE C'
  <2>1. Moves
    BY <1>1, MovesNext, MiddleIsBlocking, ZenonT(30)
  <2>2. TermAndVoteStep
    <3>1. CASE UNCHANGED vars
      <4>1. UNCHANGED <<currentTerm, votedFor>>
        BY <3>1, ZenonT(30) DEF vars, termVars
      <4>2. \A i \in Server : currentTerm[i] \in Nat
        BY <1>1, ZenonT(30) DEF TypeOK
      <4>3. QED
        BY <4>1, <4>2 DEF TermAndVoteStep
    <3>2. QED
      BY <1>1, <3>1, ZenonT(30)
  <2>3. LeaderStep /\ LeaderAppendStep
    BY <1>1, LeaderStepNext, LeaderAppendNext, ZenonT(30)
  <2>4. VoteOfTerm /\ VoteOfTerm' /\ WonByQuorum /\ WonByQuorum'
    BY <1>1, Zenon DEF ElectionInv
  <2>5. RoundInv'
    BY <1>1, <2>1, <2>3, RoundStep, ZenonT(30)
  <2>6. BallotInv'
    BY <1>1, <2>1, <2>2, BallotStep, ZenonT(30)
  <2>7. CommitInv'
    BY <1>1, <2>1, <2>2, <2>3, <2>4, AllAreMajority, CommitStep, Zenon
  <2>8. QED
    BY <2>5, <2>6, <2>7, Zenon
<1>2. Init => C
  BY CommitInit, Zenon
<1>3. Spec => []Facts
  BY TypeCorrect, ElectionInvariant, LogInvariant, RoleInvariant, OneWinner, MatchInvariant,
     IndexInvariant, PTL
<1>4. Spec => [][TermAndVoteStep]_vars
  BY TermAndVote DEF TermAndVoteStable
<1> HIDE DEF Facts, C
<1>5. Facts /\ Facts' /\ C /\ [Next]_vars /\ [TermAndVoteStep]_vars => C'
  BY <1>1
<1>6. Spec => []C
  BY <1>2, <1>3, <1>4, <1>5, PTL DEF Spec
<1>7. QED
  BY <1>6 DEF C

\* No two peers apply different commands at an index (config.go line 181).
THEOREM AppliesAgree ==
  ASSUME StepDownFirst, ~Delays, MaxCrash = 0
  PROVE  Spec => []StateMachineSafety
<1>1. TypeOK /\ MatchInv /\ RoundInv /\ BallotInv /\ CommitInv => StateMachineSafety
  BY AllAreMajority, AppliedAgree
<1>2. QED
  BY <1>1, TypeCorrect, MatchInvariant, CommitInvariant, PTL

\* The leader of the latest term has every command that any peer has applied:
\* logNewer (line 157) keeps the others from winning.
THEOREM LeadersComplete ==
  ASSUME StepDownFirst, ~Delays, MaxCrash = 0
  PROVE  Spec => []LeaderCompleteness
<1>1. TypeOK /\ MatchInv /\ RoundInv /\ BallotInv /\ CommitInv => LeaderCompleteness
  BY AllAreMajority, AppliedAtLeader
<1>2. QED
  BY <1>1, TypeCorrect, MatchInvariant, CommitInvariant, PTL
=============================================================================
