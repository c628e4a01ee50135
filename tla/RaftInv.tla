------------------------------ MODULE RaftInv -------------------------------
(***************************************************************************)
(* The inductive invariants of Raft that hold in schedules in which a      *)
(* deposed peer steps down first, and what a step does to leaders.  The    *)
(* proofs that steps keep them are in RaftPieces (indices), RaftLeaders,   *)
(* RaftCommit and RaftSafety; those of every schedule (ElectionInv, LogInv) *)
(* are defined in Raft and proved in RaftBasics.                           *)
(***************************************************************************)
EXTENDS Raft

-----------------------------------------------------------------------------
(* Votes *)

Vote == [voter : Server, term : Nat, cand : Server]

NewVotes == \A w \in votes' \ votes : w.term = currentTerm'[w.voter] /\ votedFor'[w.voter] = w.cand

VoteStep == SavedVote' /\ TermAndVoteStep /\ votes \subseteq votes' /\ NewVotes
-----------------------------------------------------------------------------
(* Pieces of logs: entries that follow index prev, whose own entry has     *)
(* term prevTerm.  Logs and AppendEntries calls are pieces.                *)

Whole(l) == [prev |-> 0, prevTerm |-> 0, entries |-> l]

IsPiece(x) == x.prev \in Nat /\ x.prevTerm \in Nat /\ x.entries \in Seq(Entry)

\* The indices at which a piece holds an entry, and those at which it knows the term.
Held(x) == x.prev + 1 .. x.prev + Len(x.entries)

Covered(x) == x.prev .. x.prev + Len(x.entries)

EntryOf(x, k) == x.entries[k - x.prev]

TermOf(x, k) == IF k = x.prev THEN x.prevTerm ELSE EntryOf(x, k).term

\* x and y agree at index n.
Same(x, y, n) ==
  /\ TermOf(x, n) = TermOf(y, n)
  /\ n \in Held(x) /\ n \in Held(y) => EntryOf(x, n) = EntryOf(y, n)

\* Where x and y have the same term they agree, and at every index before.
Match(x, y) ==
  \A k \in Covered(x) \cap Covered(y) :
    TermOf(x, k) = TermOf(y, k) => \A n \in Covered(x) \cap Covered(y) : n <= k => Same(x, y, n)

\* z is a part of x.
Part(z, x) ==
  /\ Covered(z) \subseteq Covered(x) /\ Held(z) \subseteq Held(x)
  /\ \A k \in Covered(z) : TermOf(z, k) = TermOf(x, k)
  /\ \A k \in Held(z) : EntryOf(z, k) = EntryOf(x, k)
-----------------------------------------------------------------------------
(* Leaders *)

\* The routine, the status and the token of a peer go together: a routine that
\* has been deposed has a token waiting for it.  A leader has won the election
\* of its term, and a candidate has not.
RoleOK(i) ==
  /\ routine[i] \in {"follower", "return"} => status[i] = "follower" /\ ~toFollower[i]
  /\ routine[i] = "candidate" =>
       \/ status[i] = "candidate" /\ ~toFollower[i] /\ ballot[i] = currentTerm[i] /\ 1 <= ballot[i]
       \/ status[i] = "follower" /\ toFollower[i]
  /\ routine[i] \in {"enter", "wait", "panic"} =>
       \/ status[i] = "leader" /\ ~toFollower[i]
       \/ status[i] = "follower" /\ toFollower[i]
  /\ status[i] = "leader" => [term |-> currentTerm[i], server |-> i] \in elected
  /\ \A e \in elected :
       e.server = i => /\ 1 <= e.term /\ e.term <= currentTerm[i]
                       /\ status[i] = "candidate" => e.term < currentTerm[i]

\* An AppendEntries call comes from the winner of the election of its term.
CallOK(m) == m.from # m.to /\ [term |-> m.term, server |-> m.from] \in elected

RoleInv ==
  /\ \A i \in Server : RoleOK(i)
  /\ \A m \in requests : CallOK(m)

LeaderAppendStep ==
  \A i \in Server :
    status[i] = "leader" /\ status'[i] = "leader" /\ currentTerm'[i] = currentTerm[i]
      => /\ Len(log'[i]) >= Len(log[i])
         /\ SubSeq(log'[i], 1, Len(log[i])) = log[i]

\* Who leads after a step led the same term before it, or has just won a term
\* that nobody had won.
LeaderStep ==
  \A i \in Server :
    status'[i] = "leader" =>
      \/ /\ status[i] = "leader" /\ currentTerm'[i] = currentTerm[i]
         /\ Len(log'[i]) >= Len(log[i])
      \/ 1 <= currentTerm'[i] /\ \A e \in elected : e.term # currentTerm'[i]
-----------------------------------------------------------------------------
(* Matching logs *)

Pieces == {Whole(log[i]) : i \in Server} \cup {Whole(persisted[i].log) : i \in Server} \cup requests

\* Every term in a piece has been won by somebody; only the dummy entry has term 0.
TermsWon(x) ==
  \A k \in Covered(x) : IF k = 0 THEN TermOf(x, k) = 0
                                 ELSE \E e \in elected : e.term = TermOf(x, k)

\* The entries of a leader's term are in its log.
LeaderHolds(x) ==
  \A i \in Server, k \in Covered(x) :
    status[i] = "leader" /\ TermOf(x, k) = currentTerm[i] => k <= Len(log[i])

MatchInv ==
  /\ \A x, y \in Pieces : Match(x, y)
  /\ \A x \in Pieces : TermsWon(x) /\ LeaderHolds(x)
-----------------------------------------------------------------------------
(* The indices of a leader *)

\* The sorted middle of indices within the log is one of them (lines 436-439).
MiddleInRange ==
  \A n \in Nat : \A match \in [Server -> 0..n] : SortedMiddle(match) \in 0..n

\* What a leader knows of its peers, and what the replies to its calls can
\* tell it, lies within its log.
IndexOK(i) ==
  status[i] = "leader" =>
    /\ \A p \in Server : /\ nextIndex[i][p] \in 1 .. Len(log[i]) + 1
                         /\ matchIndex[i][p] \in 0 .. Len(log[i])
    /\ \A m \in awaiting[i] : m.prev + Len(m.entries) <= Len(log[i])
    /\ \A r \in replies[i] :
         /\ r.prev + r.sent <= Len(log[i])
         /\ ~r.success /\ r.next # -1 => r.next \in 1 .. Len(log[i]) + 1

IndexInv == \A i \in Server : IndexOK(i) /\ Alive(i)

\* What AppendEntries asks for when it refuses a call (lines 260-272).
NextAsked(m) ==
  IF Len(log[m.to]) < m.prev THEN Len(log[m.to]) + 1 ELSE ConflictStart(log[m.to], m.prev)

\* It is an index that the call has passed over, and not 0.
AsksInside == \A m \in requests : ~HasPrev(log[m.to], m) => NextAsked(m) \in 1..m.prev
-----------------------------------------------------------------------------
(* What is committed stays *)

\* The index of the last entry of a piece.
LastOf(x) == x.prev + Len(x.entries)

\* A leader has one call at most under way to a peer, and what is under way or
\* awaited is of its term and a part of its log.
RoundInv ==
  /\ \A m, n \in requests : m.from = n.from /\ m.to = n.to => m = n
  /\ \A i \in Server :
       status[i] = "leader" =>
         /\ \A m \in awaiting[i] : m.from = i /\ m.term = currentTerm[i]
         /\ \A m \in requests : m.term = currentTerm[i] => Part(m, Whole(log[i]))

\* Nobody has won term t.
Open(t) == \A e \in elected : e.term # t

\* A candidate's log does not change before its term is decided: its calls
\* describe the log it will lead with.
BallotInv ==
  /\ \A v \in votes : v.term <= currentTerm[v.cand]
  /\ \A m \in voteCalls :
       /\ m.term <= currentTerm[m.from]
       /\ m.term = currentTerm[m.from] /\ Open(m.term)
            => m.lastIndex = Len(log[m.from]) /\ m.lastTerm = LastTerm(log[m.from])

\* Log l has an entry of term t at index k.
Has(l, k, t) == k \in 1..Len(l) /\ l[k].term = t

\* A call of a leader that has the entry.
Carries(m, k, t) == k <= LastOf(m) /\ (k \in Covered(m) => TermOf(m, k) = t)

\* Later terms come after the entry only, and whatever is not older follows it.
Keeps(x, k, t) ==
  \A j \in Covered(x) :
    /\ TermOf(x, j) > t => j > k
    /\ TermOf(x, j) >= t /\ j >= k /\ k \in Covered(x) => TermOf(x, k) = t

CallKeeps(m, S, k, t) ==
  /\ Keeps(m, k, t)
  /\ m.term >= t /\ m.prev >= k => m.prevTerm >= t
  /\ m.term > t \/ (m.term = t /\ m.to \in S) => Carries(m, k, t)

LeaderHas(i, k, t) == status[i] = "leader" /\ currentTerm[i] >= t => Has(log[i], k, t)

VoteKeeps(v, S, k, t) ==
  v.voter \in S /\ v.term > t /\ Open(v.term) /\ currentTerm[v.cand] = v.term
    => Has(log[v.cand], k, t)

\* The peers of S pin the entry of term t at index k.
Pinned(S, k, t) ==
  /\ \A i \in Server : Keeps(Whole(log[i]), k, t)
  /\ \A m \in requests : CallKeeps(m, S, k, t)
  /\ \A q \in S : Has(log[q], k, t) /\ currentTerm[q] >= t
  /\ \A i \in Server : LeaderHas(i, k, t)
  /\ \A v \in votes : VoteKeeps(v, S, k, t)

\* The peers that leader i knows, or is about to know, to have its log up to k.
Acked(i, k) ==
  {p \in Server : \/ p = i
                  \/ matchIndex[i][p] >= k
                  \/ \E r \in replies[i] : r.from = p /\ r.success /\ r.prev + r.sent >= k}

\* A majority has left the term of leader i without acknowledging index k.
Outvoted(i, k) ==
  \E V \in SUBSET Server :
    Majority(V) /\ \A q \in V : currentTerm[q] > currentTerm[i] /\ q \notin Acked(i, k)

LeaderEntries(i) ==
  status[i] = "leader" =>
    \A k \in 1..Len(log[i]) :
      log[i][k].term = currentTerm[i] => Outvoted(i, k) \/ Pinned(Acked(i, k), k, currentTerm[i])

\* S takes part in every election that is won.
Blocking(S) == \A V \in SUBSET Server : Majority(V) => \E q \in V : q \in S

Chosen(S, k, t) == Blocking(S) /\ Pinned(S, k, t)

\* The entries up to index n that a peer of term t commits are chosen.
Settled(n, t) ==
  n = 0 \/ \E S \in SUBSET Server, k \in Nat, u \in Nat : Chosen(S, k, u) /\ n <= k /\ u <= t

CallSettled(m) ==
  m.commit = 0 \/ \E S \in SUBSET Server, k \in Nat, u \in Nat :
                    Chosen(S, k, u) /\ m.commit <= k /\ u <= m.term /\ Carries(m, k, u)

AppliedSettled(a) ==
  \E S \in SUBSET Server, k \in Nat, u \in Nat :
    Chosen(S, k, u) /\ a[1] \in 1..k /\ \A q \in S : log[q][a[1]].cmd = a[2]

CommitInv ==
  /\ \A i \in Server : LeaderEntries(i)
  /\ \A i \in Server : Settled(commitIndex[i], currentTerm[i])
  /\ \A m \in requests : CallSettled(m)
  /\ \A a \in applied : AppliedSettled(a)
-----------------------------------------------------------------------------
(* What a step may do to the logs, the calls, the votes and what leaders   *)
(* know.  CommitInv is kept by whatever does no more than this.            *)

\* The call that leaderRoutine makes to peer p (lines 388-401).
CallTo(i, p) ==
  [from |-> i, to |-> p, term |-> currentTerm[i], prev |-> nextIndex[i][p] - 1,
   prevTerm |-> TermAt(log[i], nextIndex[i][p] - 1),
   entries |-> SubSeq(log[i], nextIndex[i][p] - 1 + 1, Len(log[i])),
   commit |-> commitIndex[i]]

Sends(i) ==
  /\ status[i] = "leader"
  /\ UNCHANGED <<log, currentTerm, status, votes, elected>>
  /\ \A p \in Server \ {i} : nextIndex[i][p] - 1 \in 0..Len(log[i])
  /\ requests' = {m \in requests : m.from # i} \cup {CallTo(i, p) : p \in Server \ {i}}

\* AppendEntries takes the entries of call m.
Takes(m) ==
  /\ ~OldTerm(m) /\ HasPrev(log[m.to], m)
  /\ log' = [log EXCEPT ![m.to] = Extended(log[m.to], m)]
  /\ currentTerm' = [currentTerm EXCEPT ![m.to] = m.term]
  /\ requests' = requests \ {m}
  /\ UNCHANGED <<votes, elected, voteCalls>>

Appends(i) ==
  /\ status[i] = "leader"
  /\ UNCHANGED <<currentTerm, status, requests, votes, elected, voteCalls, awaiting>>
  /\ \E e \in Entry : e.term = currentTerm[i] /\ log' = [log EXCEPT ![i] = Append(log[i], e)]

LogMove == log' = log \/ (\E i \in Server : Appends(i)) \/ \E m \in requests : Takes(m)

\* What the log of peer i becomes.
Grows(i) ==
  /\ status[i] = "leader" /\ currentTerm'[i] = currentTerm[i]
  /\ \E e \in Entry : e.term = currentTerm[i] /\ log'[i] = Append(log[i], e)

TakenBy(i, m) ==
  /\ m.to = i /\ currentTerm[i] <= m.term /\ currentTerm'[i] = m.term
  /\ HasPrev(log[i], m) /\ log'[i] = Extended(log[i], m)

CallMove == requests' \subseteq requests \/ \E i \in Server : Sends(i)

\* A vote for a candidate whose log is recent enough, or for oneself.
VoteMove ==
  \A v \in votes' :
    \/ v \in votes
    \/ /\ log' = log /\ v.term = currentTerm'[v.voter]
       /\ \/ v.voter = v.cand
          \/ \E m \in voteCalls :
               m.to = v.voter /\ m.from = v.cand /\ m.term = v.term /\ logNewer(m, log[m.to])

BallotMove ==
  \A m \in voteCalls' :
    \/ m \in voteCalls
    \/ /\ log' = log /\ m.term = currentTerm'[m.from]
       /\ m.lastIndex = Len(log[m.from]) /\ m.lastTerm = LastTerm(log[m.from])

ElectMove == elected' = elected \/ (UNCHANGED <<log, currentTerm, votes, requests>> /\ elected \subseteq elected')

LeadMove ==
  \A i \in Server :
    status'[i] = "leader" =>
      /\ currentTerm'[i] = currentTerm[i]
      /\ status[i] # "leader" => log' = log /\ awaiting'[i] = {} /\ requests' = requests

\* A peer is added to those that have acknowledged, when it takes an awaited call.
AckMove(i) ==
  status[i] = "leader" /\ status'[i] = "leader" =>
    \/ \A k \in Nat : Acked(i, k)' \subseteq Acked(i, k)
    \/ \E m \in requests \cap awaiting[i] :
         Takes(m) /\ \A k \in Nat : \A q \in Acked(i, k)' : q \in Acked(i, k) \/ (q = m.to /\ k <= LastOf(m))

AwaitMove ==
  \A i \in Server :
    status'[i] = "leader" =>
      \A m \in awaiting'[i] : \/ status[i] = "leader" /\ m \in awaiting[i]
                              \/ m.from = i /\ m.term = currentTerm'[i]

\* Peer i commits what a call or the middle of matchIndex tells it.
Commits(i) ==
  \/ \E m \in requests : m.to = i /\ Takes(m) /\ m.commit # 0 /\ commitIndex'[i] <= m.commit
  \/ /\ status[i] = "leader" /\ UNCHANGED <<log, currentTerm>>
     /\ commitIndex'[i] \in 0..Len(log[i])
     /\ TermAt(log[i], commitIndex'[i]) >= currentTerm[i]
     /\ Blocking(Acked(i, commitIndex'[i]))

CommitMove ==
  /\ \A i \in Server : commitIndex'[i] = commitIndex[i] \/ Commits(i)
  /\ \A a \in applied' :
       \/ a \in applied
       \/ \E i \in Server : Commits(i) /\ a[1] \in 1..commitIndex'[i] /\ a[2] = log'[i][a[1]].cmd

Moves ==
  /\ LogMove /\ CallMove /\ VoteMove /\ BallotMove /\ ElectMove /\ LeadMove
  /\ \A i \in Server : AckMove(i)
  /\ AwaitMove /\ CommitMove

\* Leaders go on leading, and learn nothing new of their peers.
StillLeads ==
  \A i \in Server :
    status'[i] = "leader" =>
      /\ status[i] = "leader" /\ currentTerm'[i] = currentTerm[i]
      /\ awaiting'[i] \subseteq awaiting[i] /\ matchIndex'[i] = matchIndex[i]
      /\ \A r \in replies'[i] : r \in replies[i] \/ ~r.success

\* Every majority has a peer at or above the sorted middle (lines 436-439).
MiddleBlocks ==
  \A n \in Nat : \A match \in [Server -> 0..n] :
    Blocking({p \in Server : match[p] >= SortedMiddle(match)})
=============================================================================
