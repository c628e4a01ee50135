------------------------------- MODULE Raft -------------------------------
(***************************************************************************)
(* The Raft peer of src/mit6.824/src/raft/raft.go: its RPC handlers, its   *)
(* routine goroutine (follower, candidate, leader), Start, crash and       *)
(* restart, over the labrpc network.                                       *)
(*                                                                         *)
(* Grain of atomicity: one step per critical section of rf.mu.  The RPC    *)
(* handlers are one critical section each.  The routine goroutine gives    *)
(* the lock up while it waits in a select, between lines 364 and 381       *)
(* (routine = "enter") and after it has taken a token (routine =           *)
(* "return"); an RPC handler can run in each of those gaps.  A handler     *)
(* that runs between another choice of the select and the Lock after it    *)
(* could as well have run before the choice.                               *)
(*                                                                         *)
(* Log index k of the code is index k of the sequence log[i]; the dummy    *)
(* entry rf.log[0] (term 0) is not stored, so len(rf.log) = Len(log[i])+1. *)
(*                                                                         *)
(* Network.  labrpc loses, delays and reorders calls and never repeats     *)
(* one.  A lost message is one that is never delivered, and a call is      *)
(* removed when it is handled.  Without Delays, the AppendEntries calls of *)
(* a round that are not delivered before the next round are lost.  With    *)
(* Delays they stay in `requests' for good: the heartbeat ticker sends an  *)
(* identical call every period for as long as the leader's state does not  *)
(* change, so a second delivery of a record is the delivery of a copy.     *)
(***************************************************************************)
EXTENDS Integers, FiniteSets, Sequences

CONSTANTS
  Server,         \* the peers
  Command,        \* commands a client may submit
  NoVote,         \* votedFor = -1
  Candidates,     \* bound: the peers whose election timer may fire
  MaxTerm,        \* bound: no election is started in a later term
  MaxLog,         \* bound: Start is not called on a log of this length, or on
                  \* a leader whose matchIndex[me] is beyond it
  MaxCrash,       \* bound: crashes in a behaviour
  MaxCalls,       \* bound: distinct AppendEntries calls in the network
  Delays,         \* TRUE: an AppendEntries call may arrive after later ones
  StepDownFirst   \* TRUE: only schedules in which a routine that holds a
                  \* toFollower token takes it before it does anything else

ASSUME ServerAssumption == IsFiniteSet(Server) /\ Server # {} /\ NoVote \notin Server
ASSUME BoundAssumption == Candidates \subseteq Server /\ MaxTerm \in Nat /\ MaxLog \in Nat /\ MaxCrash \in Nat
                          /\ MaxCalls \in Nat
ASSUME ScheduleAssumption == Delays \in BOOLEAN /\ StepDownFirst \in BOOLEAN

VARIABLES
  currentTerm, votedFor, log,          \* persistent state
  persisted,                           \* what the Persister holds
  commitIndex, lastApplied,
  nextIndex, matchIndex,
  status,                              \* rf.status
  toFollower,                          \* is there a token in rf.toFollower?
  routine,                             \* where the routine goroutine is
  ballot, granted,                     \* args.Term and the voters counted in grantN
  voteCalls, voteReplies,              \* RequestVote calls; voteChan
  requests, awaiting, replies,         \* AppendEntries calls; those of this round; appendChan
  votes, elected, applied,             \* history: votes given, elections won, entries applied
  crashes

termVars   == <<currentTerm, votedFor>>
leaderVars == <<nextIndex, matchIndex>>
applyVars  == <<commitIndex, lastApplied, applied>>
roleVars   == <<status, toFollower, routine>>
candVars   == <<ballot, granted, voteReplies>>
appendVars == <<requests, awaiting, replies>>
histVars   == <<votes, elected>>
vars == <<termVars, log, persisted, applyVars, leaderVars, roleVars, candVars,
          voteCalls, appendVars, histVars, crashes>>

-----------------------------------------------------------------------------
(* Data *)

Entry == [term : Nat, cmd : Command]

\* rf.log[k].TermIdx
TermAt(l, k) == IF k = 0 THEN 0 ELSE l[k].term

LastTerm(l) == TermAt(l, Len(l))

MinOf(a, b) == IF a < b THEN a ELSE b

Majority(S) == Cardinality(S) > Cardinality(Server) \div 2

\* Faulty variant of SortedMiddle: the largest index is committed.
LargestMatch(match) ==
  CHOOSE v \in {match[p] : p \in Server} : \A p \in Server : match[p] <= v

\* sortMatchIdx[len(rf.peers)/2] of a leader's matchIndex
SortedMiddle(match) ==
  CHOOSE v \in {match[p] : p \in Server} :
    /\ Cardinality({p \in Server : match[p] < v}) <= Cardinality(Server) \div 2
    /\ Majority({p \in Server : match[p] <= v})

\* The candidate's log is at least as recent as l.
logNewer(m, l) ==
  \/ m.lastTerm > LastTerm(l)
  \/ m.lastTerm = LastTerm(l) /\ m.lastIndex >= Len(l)

\* The first index of the run of entries of log[prev]'s term that ends at prev.
ConflictStart(l, prev) ==
  CHOOSE k \in 0..prev :
    /\ \A n \in k..prev : TermAt(l, n) = TermAt(l, prev)
    /\ k = 0 \/ TermAt(l, k - 1) # TermAt(l, prev)

\* Faulty variant of Agreeing: any entry at the same index agrees.
AgreeingByIndex(l, m) == MinOf(Len(m.entries), Len(l) - m.prev)

\* How many of the call's entries the log already holds (terms compared).
Agreeing(l, m) ==
  CHOOSE n \in 0..Len(m.entries) :
    /\ m.prev + n <= Len(l)
    /\ \A k \in 1..n : l[m.prev + k].term = m.entries[k].term
    /\ \/ n = Len(m.entries)
       \/ m.prev + n = Len(l)
       \/ l[m.prev + n + 1].term # m.entries[n + 1].term

Saved(t, v, l) == [currentTerm |-> t, votedFor |-> v, log |-> l]

-----------------------------------------------------------------------------
(* Initial state: Make with an empty persister *)

Init ==
  /\ currentTerm = [i \in Server |-> 0]
  /\ votedFor = [i \in Server |-> NoVote]
  /\ log = [i \in Server |-> <<>>]
  /\ persisted = [i \in Server |-> Saved(0, NoVote, <<>>)]
  /\ commitIndex = [i \in Server |-> 0]
  /\ lastApplied = [i \in Server |-> 0]
  /\ nextIndex = [i \in Server |-> [p \in Server |-> 0]]
  /\ matchIndex = [i \in Server |-> [p \in Server |-> 0]]
  /\ status = [i \in Server |-> "follower"]
  /\ toFollower = [i \in Server |-> FALSE]
  /\ routine = [i \in Server |-> "follower"]
  /\ ballot = [i \in Server |-> 0]
  /\ granted = [i \in Server |-> {}]
  /\ voteCalls = {}
  /\ voteReplies = [i \in Server |-> {}]
  /\ requests = {}
  /\ awaiting = [i \in Server |-> {}]
  /\ replies = [i \in Server |-> {}]
  /\ votes = {}
  /\ elected = {}
  /\ applied = {}
  /\ crashes = 0

-----------------------------------------------------------------------------
(* updateTerm: the term, the status and the token a peer is left with      *)
(* after it has seen term t.  The vote is reset with the term.             *)

SeenTerm(i, t) == IF t > currentTerm[i] THEN t ELSE currentTerm[i]

SeenVote(i, t) == IF t > currentTerm[i] THEN NoVote ELSE votedFor[i]

\* Faulty variant of Deposed: only a candidate gives way to a later term.
DeposedCandidate(i, t) == t > currentTerm[i] /\ status[i] = "candidate" /\ ~toFollower[i]

\* The status changes, and a token is left, only if no token is pending.
Deposed(i, t) == t > currentTerm[i] /\ status[i] # "follower" /\ ~toFollower[i]

updateTerm(i, t) ==
  /\ currentTerm' = [currentTerm EXCEPT ![i] = SeenTerm(i, t)]
  /\ status' = [status EXCEPT ![i] = IF Deposed(i, t) THEN "follower" ELSE @]
  /\ toFollower' = [toFollower EXCEPT ![i] = @ \/ Deposed(i, t)]

-----------------------------------------------------------------------------
(* RPC handlers *)

Alive(i) == routine[i] # "panic"

\* Faulty variant of GrantVote: an earlier vote is not looked at.
GrantAnyVote(i, m) == m.term = SeenTerm(i, m.term) /\ logNewer(m, log[i])

\* The vote is given: the call is of the peer's term, which has given no other
\* vote in it, and the candidate's log is recent enough.
GrantVote(i, m) ==
  /\ m.term = SeenTerm(i, m.term)
  /\ SeenVote(i, m.term) \in {NoVote, m.from}
  /\ logNewer(m, log[i])

\* Faulty variant of SaveVote: only a new term is saved.
SaveTermOnly(i, m) == m.term > currentTerm[i]

\* persist() runs when the term changes and when the vote is given.
SaveVote(i, m) == m.term > currentTerm[i] \/ GrantVote(i, m)

\* Faulty variant of ReplyIsRead: voteChan outlives the iteration.
ReplyOfAnyBallot(m) == routine[m.from] = "candidate"

\* The caller is still in the candidate iteration that made the call.
ReplyIsRead(m) == routine[m.from] = "candidate" /\ ballot[m.from] = m.term

\* RequestVote.  The reply carries the term the peer had before the call,
\* and is of use only while the caller is in the same candidate iteration.
RequestVote(m) ==
  LET i == m.to
      t == SeenTerm(i, m.term)
      grant == GrantVote(i, m)
      vote == IF grant THEN m.from ELSE SeenVote(i, m.term)
  IN
  /\ Alive(i)
  /\ updateTerm(i, m.term)
  /\ votedFor' = [votedFor EXCEPT ![i] = vote]
  /\ persisted' = [persisted EXCEPT ![i] =
                     IF SaveVote(i, m) THEN Saved(t, vote, log[i]) ELSE @]
  /\ votes' = IF grant THEN votes \cup {[voter |-> i, term |-> t, cand |-> m.from]} ELSE votes
  /\ voteCalls' = voteCalls \ {m}
  /\ voteReplies' = [voteReplies EXCEPT ![m.from] =
       IF ReplyIsRead(m)
       THEN @ \cup {[from |-> i, term |-> currentTerm[i], granted |-> grant]}
       ELSE @]
  /\ UNCHANGED <<log, applyVars, leaderVars, routine, ballot, granted, appendVars,
                 elected, crashes>>

\* Faulty variant of applyLog: entries are numbered within their batch.
applyLogByBatch(i, l, c) ==
  /\ commitIndex' = [commitIndex EXCEPT ![i] = c]
  /\ lastApplied' = [lastApplied EXCEPT ![i] = IF c > @ THEN c ELSE @]
  /\ applied' = applied \cup {<<k - lastApplied[i], l[k].cmd>> : k \in lastApplied[i] + 1 .. c}

\* Hand the entries up to commit index c of log l, that were not handed out
\* before, to the service.
applyLog(i, l, c) ==
  /\ commitIndex' = [commitIndex EXCEPT ![i] = c]
  /\ lastApplied' = [lastApplied EXCEPT ![i] = IF c > @ THEN c ELSE @]
  /\ applied' = applied \cup {<<k, l[k].cmd>> : k \in lastApplied[i] + 1 .. c}

\* The reply reaches appendChan only if the call is of the leader's current
\* round.  A reply that is lost is one the leader does not take.  With Delays
\* the call handled may also be an earlier copy, whose reply nobody reads.
Reply(m, success, next) ==
  /\ requests' = IF Delays THEN requests ELSE requests \ {m}
  /\ \/ /\ m \in awaiting[m.from]
        /\ awaiting' = [awaiting EXCEPT ![m.from] = @ \ {m}]
        /\ replies' = [replies EXCEPT ![m.from] = @ \cup
             {[from |-> m.to, term |-> currentTerm[m.to], success |-> success,
               next |-> next, prev |-> m.prev, sent |-> Len(m.entries)]}]
     \/ /\ Delays \/ m \notin awaiting[m.from]
        /\ UNCHANGED <<awaiting, replies>>

\* Faulty variant of OldTerm: calls of older terms are taken.
NeverOld(m) == FALSE

OldTerm(m) == m.term < currentTerm[m.to]

\* AppendEntries from a leader of an older term: refused, NextIndex = -1.
RefuseOldTerm(m) ==
  /\ Alive(m.to)
  /\ OldTerm(m)
  /\ Reply(m, FALSE, -1)
  /\ UNCHANGED <<termVars, log, persisted, applyVars, leaderVars, roleVars, candVars,
                 voteCalls, histVars, crashes>>

HasPrev(l, m) == m.prev <= Len(l) /\ TermAt(l, m.prev) = m.prevTerm

\* AppendEntries whose previous entry is not in the log.
RefuseConflict(m) ==
  LET i == m.to IN
  /\ Alive(i)
  /\ ~OldTerm(m)
  /\ ~HasPrev(log[i], m)
  /\ updateTerm(i, m.term)
  /\ votedFor' = [votedFor EXCEPT ![i] = SeenVote(i, m.term)]
  /\ persisted' = [persisted EXCEPT ![i] =
                     IF m.term > currentTerm[i] THEN Saved(m.term, NoVote, log[i]) ELSE @]
  /\ Reply(m, FALSE, IF Len(log[i]) < m.prev THEN Len(log[i]) + 1
                                             ELSE ConflictStart(log[i], m.prev))
  /\ UNCHANGED <<log, applyVars, leaderVars, routine, candVars, voteCalls,
                 histVars, crashes>>

\* What AppendEntries leaves of the log before it appends (line 282), and what
\* it appends.  Entries after the agreeing ones are always dropped.
Truncated(l, m) == SubSeq(l, 1, m.prev + Agreeing(l, m))

Extended(l, m) == Truncated(l, m) \o SubSeq(m.entries, Agreeing(l, m) + 1, Len(m.entries))

\* AppendEntries that succeeds.  persist() runs before the entries are
\* appended, so it is the truncated log that is saved.
AcceptEntries(m) ==
  LET i == m.to
      l == Extended(log[i], m)
  IN
  /\ Alive(i)
  /\ ~OldTerm(m)
  /\ HasPrev(log[i], m)
  /\ updateTerm(i, m.term)
  /\ votedFor' = [votedFor EXCEPT ![i] = SeenVote(i, m.term)]
  /\ log' = [log EXCEPT ![i] = l]
  /\ persisted' = [persisted EXCEPT ![i] =
                     Saved(SeenTerm(i, m.term), SeenVote(i, m.term), Truncated(log[i], m))]
  /\ IF m.commit > commitIndex[i]
     THEN applyLog(i, l, MinOf(Len(l), m.commit))
     ELSE UNCHANGED applyVars
  /\ Reply(m, TRUE, 0)
  /\ UNCHANGED <<leaderVars, routine, candVars, voteCalls, histVars, crashes>>

AppendEntries(m) == RefuseOldTerm(m) \/ RefuseConflict(m) \/ AcceptEntries(m)

\* Faulty variant of NewEntry: the entry gets the term of the next election.
NewEntryNextTerm(i, c) == [term |-> currentTerm[i] + 1, cmd |-> c]

NewEntry(i, c) == [term |-> currentTerm[i], cmd |-> c]

\* A client hands a command to a peer that believes it is the leader.
Start(i, c) ==
  LET l == Append(log[i], NewEntry(i, c)) IN
  /\ Alive(i)
  /\ status[i] = "leader"
  /\ Len(log[i]) < MaxLog /\ matchIndex[i][i] <= MaxLog
  /\ log' = [log EXCEPT ![i] = l]
  /\ persisted' = [persisted EXCEPT ![i] = Saved(currentTerm[i], votedFor[i], l)]
  /\ matchIndex' = [matchIndex EXCEPT ![i][i] = @ + 1]
  /\ UNCHANGED <<termVars, applyVars, nextIndex, roleVars, candVars, voteCalls,
                 appendVars, histVars, crashes>>

-----------------------------------------------------------------------------
(* The routine goroutine *)

\* With StepDownFirst, a pending token is taken before any other step.
MayProceed(i) == StepDownFirst => ~toFollower[i]

NoRound(i) ==
  /\ awaiting' = [awaiting EXCEPT ![i] = {}]
  /\ replies' = [replies EXCEPT ![i] = {}]

NoBallot(i) ==
  /\ ballot' = [ballot EXCEPT ![i] = 0]
  /\ granted' = [granted EXCEPT ![i] = {}]
  /\ voteReplies' = [voteReplies EXCEPT ![i] = {}]

\* One iteration of candidateRoutine up to its select.
BeginElection(i) ==
  LET t == currentTerm[i] + 1 IN
  /\ currentTerm[i] < MaxTerm
  /\ currentTerm' = [currentTerm EXCEPT ![i] = t]
  /\ votedFor' = [votedFor EXCEPT ![i] = i]
  /\ persisted' = [persisted EXCEPT ![i] = Saved(t, i, log[i])]
  /\ voteCalls' = voteCalls \cup
       {[from |-> i, to |-> p, term |-> t, lastIndex |-> Len(log[i]),
         lastTerm |-> LastTerm(log[i])] : p \in Server \ {i}}
  /\ ballot' = [ballot EXCEPT ![i] = t]
  /\ granted' = [granted EXCEPT ![i] = {i}]
  /\ voteReplies' = [voteReplies EXCEPT ![i] = {}]
  /\ votes' = votes \cup {[voter |-> i, term |-> t, cand |-> i]}
  /\ routine' = [routine EXCEPT ![i] = "candidate"]
  /\ UNCHANGED <<log, applyVars, leaderVars, appendVars, elected, crashes>>

\* Faulty variant of BeginLeader: matchIndex[me] starts one too low.
BeginLeaderOffByOne(i) ==
  /\ nextIndex' = [nextIndex EXCEPT ![i] = [p \in Server |-> Len(log[i]) + 1]]
  /\ matchIndex' = [matchIndex EXCEPT ![i] =
                      [p \in Server |-> IF p = i THEN Len(log[i]) - 1 ELSE 0]]
  /\ routine' = [routine EXCEPT ![i] = "enter"]
  /\ NoRound(i)

\* leaderRoutine up to the first Unlock (line 364).
BeginLeader(i) ==
  /\ nextIndex' = [nextIndex EXCEPT ![i] = [p \in Server |-> Len(log[i]) + 1]]
  /\ matchIndex' = [matchIndex EXCEPT ![i] =
                      [p \in Server |-> IF p = i THEN Len(log[i]) ELSE 0]]
  /\ routine' = [routine EXCEPT ![i] = "enter"]
  /\ NoRound(i)

\* The follower's election timer fires.
ElectionTimeout(i) ==
  /\ i \in Candidates
  /\ routine[i] = "follower"
  /\ status' = [status EXCEPT ![i] = "candidate"]
  /\ BeginElection(i)
  /\ UNCHANGED toFollower

\* The candidate's timer fires: another iteration, whatever the status is now.
CandidateTimeout(i) ==
  /\ routine[i] = "candidate"
  /\ MayProceed(i)
  /\ BeginElection(i)
  /\ UNCHANGED <<status, toFollower>>

\* The token is taken, and the routine waits for the lock (lines 414-416 and
\* 496-497).  A handler that runs now finds toFollower empty.
TakeToFollower(i) ==
  /\ routine[i] \in {"candidate", "wait"}
  /\ toFollower[i]
  /\ toFollower' = [toFollower EXCEPT ![i] = FALSE]
  /\ routine' = [routine EXCEPT ![i] = "return"]
  /\ NoBallot(i) /\ NoRound(i)
  /\ UNCHANGED <<termVars, log, persisted, applyVars, leaderVars, status, voteCalls,
                 requests, histVars, crashes>>

\* Make's loop dispatches on the status it finds once it has the lock.
Dispatch(i) ==
  /\ routine[i] = "return"
  /\ UNCHANGED <<status, toFollower>>
  /\ \/ /\ status[i] = "follower"
        /\ routine' = [routine EXCEPT ![i] = "follower"]
        /\ UNCHANGED <<termVars, log, persisted, applyVars, leaderVars, candVars, voteCalls,
                       appendVars, histVars, crashes>>
     \/ /\ status[i] = "candidate"
        /\ BeginElection(i)
     \/ /\ status[i] = "leader"
        /\ BeginLeader(i)
        /\ UNCHANGED <<termVars, log, persisted, applyVars, candVars, voteCalls, requests,
                       histVars, crashes>>

\* A reply with a later term: become a follower.  A pending token stays.
StepDown(i, t) ==
  /\ currentTerm' = [currentTerm EXCEPT ![i] = t]
  /\ votedFor' = [votedFor EXCEPT ![i] = NoVote]
  /\ persisted' = [persisted EXCEPT ![i] = Saved(t, NoVote, log[i])]
  /\ status' = [status EXCEPT ![i] = "follower"]
  /\ routine' = [routine EXCEPT ![i] = "follower"]
  /\ NoBallot(i) /\ NoRound(i)
  /\ UNCHANGED <<toFollower, log, applyVars, leaderVars, voteCalls, requests, histVars, crashes>>

\* The candidate takes a reply from voteChan.  With a majority it is leader,
\* whatever its term and status have become.
WinElection(i, g) ==
  /\ Majority(g)
  /\ status' = [status EXCEPT ![i] = "leader"]
  /\ elected' = elected \cup {[term |-> ballot[i], server |-> i]}
  /\ NoBallot(i)
  /\ BeginLeader(i)

CountVote(i, r) ==
  /\ routine[i] = "candidate"
  /\ MayProceed(i)
  /\ \/ /\ r.term > currentTerm[i]
        /\ StepDown(i, r.term)
     \/ LET g == IF r.granted THEN granted[i] \cup {r.from} ELSE granted[i] IN
        /\ r.term <= currentTerm[i]
        /\ \/ r.granted /\ WinElection(i, g)
           \/ /\ ~(r.granted /\ Majority(g))
              /\ granted' = [granted EXCEPT ![i] = g]
              /\ voteReplies' = [voteReplies EXCEPT ![i] = @ \ {r}]
              /\ UNCHANGED <<status, elected, ballot, leaderVars, routine, awaiting, replies>>
        /\ UNCHANGED <<termVars, log, persisted, applyVars, toFollower, voteCalls, requests,
                       votes, crashes>>

\* A slice or index out of range kills the process.
Panic(i) ==
  /\ routine' = [routine EXCEPT ![i] = "panic"]
  /\ UNCHANGED <<termVars, log, persisted, applyVars, leaderVars, status, toFollower,
                 candVars, voteCalls, appendVars, histVars, crashes>>

\* One round of leaderRoutine up to its select: after leaderRoutine is
\* entered, or on a heartbeat tick.  The term sent is the current one.
Broadcast(i) ==
  LET prev(p) == nextIndex[i][p] - 1
      round == {[from |-> i, to |-> p, term |-> currentTerm[i], prev |-> prev(p),
                 prevTerm |-> TermAt(log[i], prev(p)),
                 entries |-> SubSeq(log[i], prev(p) + 1, Len(log[i])),
                 commit |-> commitIndex[i]] : p \in Server \ {i}}
  IN
  /\ routine[i] \in {"enter", "wait"}
  /\ MayProceed(i)
  /\ IF \E p \in Server \ {i} : prev(p) \notin 0..Len(log[i])
     THEN Panic(i)
     ELSE /\ Cardinality(requests \cup round) <= MaxCalls
          /\ requests' = (IF Delays THEN requests ELSE {m \in requests : m.from # i}) \cup round
          /\ awaiting' = [awaiting EXCEPT ![i] = round]
          /\ replies' = [replies EXCEPT ![i] = {}]
          /\ routine' = [routine EXCEPT ![i] = "wait"]
          /\ UNCHANGED <<termVars, log, persisted, applyVars, leaderVars, status, toFollower,
                         candVars, voteCalls, histVars, crashes>>

\* Faulty variant of NextAfter: one entry is skipped.
NextSkipsOne(r) == r.prev + r.sent + 2

\* rf.nextIndex[peer] after a successful reply.
NextAfter(r) == r.prev + r.sent + 1

\* The leader takes the reply of a call that carried entries: advance the
\* peer's indices, and commit what the middle of matchIndex allows.
AdvanceCommit(i, r) ==
  LET match == [matchIndex[i] EXCEPT ![r.from] = r.prev + r.sent]
      newCommit == SortedMiddle(match)
  IN
  IF newCommit \notin 0..Len(log[i])
  THEN Panic(i)
  ELSE /\ matchIndex' = [matchIndex EXCEPT ![i] = match]
       /\ nextIndex' = [nextIndex EXCEPT ![i][r.from] = NextAfter(r)]
       /\ replies' = [replies EXCEPT ![i] = @ \ {r}]
       /\ IF TermAt(log[i], newCommit) >= currentTerm[i]
          THEN applyLog(i, log[i], newCommit)
          ELSE UNCHANGED applyVars
       /\ UNCHANGED <<termVars, log, persisted, roleVars, candVars, voteCalls, requests,
                      awaiting, histVars, crashes>>

\* The leader takes a reply from appendChan.  Neither the term of the call
\* nor the status is looked at again.
TakeReply(i, r) ==
  /\ routine[i] = "wait"
  /\ MayProceed(i)
  /\ \/ /\ r.term > currentTerm[i]
        /\ StepDown(i, r.term)
     \/ /\ r.term <= currentTerm[i]
        /\ r.success /\ r.sent # 0
        /\ AdvanceCommit(i, r)
     \/ /\ r.term <= currentTerm[i]
        /\ ~(r.success /\ r.sent # 0)
        /\ nextIndex' = IF ~r.success /\ r.next # -1
                        THEN [nextIndex EXCEPT ![i][r.from] = r.next]
                        ELSE nextIndex
        /\ replies' = [replies EXCEPT ![i] = @ \ {r}]
        /\ UNCHANGED <<termVars, log, persisted, applyVars, matchIndex, roleVars, candVars,
                       voteCalls, requests, awaiting, histVars, crashes>>

-----------------------------------------------------------------------------
(* crash1 and start1: the old instance is cut off; Make reads the Persister *)

CrashRestart(i) ==
  /\ crashes < MaxCrash
  /\ crashes' = crashes + 1
  /\ currentTerm' = [currentTerm EXCEPT ![i] = persisted[i].currentTerm]
  /\ votedFor' = [votedFor EXCEPT ![i] = persisted[i].votedFor]
  /\ log' = [log EXCEPT ![i] = persisted[i].log]
  /\ commitIndex' = [commitIndex EXCEPT ![i] = 0]
  /\ lastApplied' = [lastApplied EXCEPT ![i] = 0]
  /\ nextIndex' = [nextIndex EXCEPT ![i] = [p \in Server |-> 0]]
  /\ matchIndex' = [matchIndex EXCEPT ![i] = [p \in Server |-> 0]]
  /\ status' = [status EXCEPT ![i] = "follower"]
  /\ toFollower' = [toFollower EXCEPT ![i] = FALSE]
  /\ routine' = [routine EXCEPT ![i] = "follower"]
  /\ NoBallot(i) /\ NoRound(i)
  /\ UNCHANGED <<persisted, applied, voteCalls, requests, histVars>>

-----------------------------------------------------------------------------

Handler ==
  \/ \E m \in voteCalls : RequestVote(m)
  \/ \E m \in requests : AppendEntries(m)

Routine(i) ==
  \/ ElectionTimeout(i)
  \/ CandidateTimeout(i)
  \/ TakeToFollower(i)
  \/ Dispatch(i)
  \/ \E r \in voteReplies[i] : CountVote(i, r)
  \/ Broadcast(i)
  \/ \E r \in replies[i] : TakeReply(i, r)

Next ==
  \/ Handler
  \/ \E i \in Server : Routine(i)
  \/ \E i \in Server, c \in Command : Start(i, c)
  \/ \E i \in Server : CrashRestart(i)

Spec == Init /\ [][Next]_vars

-----------------------------------------------------------------------------
(* Types *)

RoutineState == {"follower", "candidate", "enter", "wait", "return", "panic"}

VoteCall == [from : Server, to : Server, term : Nat, lastIndex : Nat, lastTerm : Nat]
VoteReply == [from : Server, term : Nat, granted : BOOLEAN]
Request == [from : Server, to : Server, term : Nat, prev : Nat, prevTerm : Nat,
            entries : Seq(Entry), commit : Nat]
AppendReply == [from : Server, term : Nat, success : BOOLEAN, next : Int, prev : Nat,
                sent : Nat]

\* Every variable keeps the shape the Go types give it.
TypeOK ==
  /\ currentTerm \in [Server -> Nat]
  /\ votedFor \in [Server -> Server \cup {NoVote}]
  /\ log \in [Server -> Seq(Entry)]
  /\ persisted \in [Server -> [currentTerm : Nat, votedFor : Server \cup {NoVote},
                               log : Seq(Entry)]]
  /\ commitIndex \in [Server -> Nat]
  /\ lastApplied \in [Server -> Nat]
  /\ nextIndex \in [Server -> [Server -> Int]]
  /\ matchIndex \in [Server -> [Server -> Nat]]
  /\ status \in [Server -> {"leader", "candidate", "follower"}]
  /\ toFollower \in [Server -> BOOLEAN]
  /\ routine \in [Server -> RoutineState]
  /\ ballot \in [Server -> Nat]
  /\ granted \in [Server -> SUBSET Server]
  /\ voteCalls \subseteq VoteCall
  /\ voteReplies \in [Server -> SUBSET VoteReply]
  /\ requests \subseteq Request
  /\ awaiting \in [Server -> SUBSET Request]
  /\ replies \in [Server -> SUBSET AppendReply]
  /\ votes \subseteq [voter : Server, term : Nat, cand : Server]
  /\ elected \subseteq [term : Nat, server : Server]
  /\ applied \subseteq (Nat \X Command)
  /\ crashes \in Nat

-----------------------------------------------------------------------------
(* Properties of every schedule *)

\* A peer gives at most one vote in a term, across crashes and restarts
\* (votedFor is saved with every vote: lines 170-175, 214-215, 462-464).
VoteOnce ==
  \A v, w \in votes : v.voter = w.voter /\ v.term = w.term => v.cand = w.cand

\* At most one candidate collects a majority (line 518) in the term its calls
\* carried, however replies, timeouts, newer terms and crashes interleave.
OneWinnerPerTerm ==
  \A e, f \in elected : e.term = f.term => e.server = f.server

TermAndVoteStep ==
  \A i \in Server :
    /\ currentTerm'[i] >= currentTerm[i]
    /\ currentTerm'[i] = currentTerm[i] /\ votedFor[i] # NoVote => votedFor'[i] = votedFor[i]

\* The term of a peer never decreases, and while it stays the same a vote
\* given is not taken back; a restart (readPersist, line 126) is no exception.
TermAndVoteStable == [][TermAndVoteStep]_vars

\* Terms do not decrease along l, and stay within t.
SortedUpTo(l, t) ==
  \A k \in 1..Len(l) : TermAt(l, k - 1) <= TermAt(l, k) /\ TermAt(l, k) <= t

\* Terms never decrease along a log and never exceed the peer's own term:
\* logNewer (line 157) compares last terms only and relies on it.
LogTermsSorted == \A i \in Server : SortedUpTo(log[i], currentTerm[i])

(* Inductive strengthenings of the properties above *)

\* A majority of the peers voted for e.server in term e.term.
HasQuorum(e) ==
  \E Q \in SUBSET Server :
    Majority(Q) /\ \A p \in Q : [voter |-> p, term |-> e.term, cand |-> e.server] \in votes

\* Term and vote are saved before the lock is released (lines 174-176, 218-219,
\* 424-426, 462-464, 508-510).
SavedVote ==
  \A i \in Server : persisted[i].currentTerm = currentTerm[i] /\ persisted[i].votedFor = votedFor[i]

\* The votedFor field is the peer's vote of its term.
VoteOfTerm ==
  \A v \in votes : /\ v.term <= currentTerm[v.voter]
                   /\ v.term = currentTerm[v.voter] => votedFor[v.voter] = v.cand

\* A candidate counts votes given to it in the term of its calls only.
CountedVotes ==
  \A i \in Server :
    /\ \A p \in granted[i] : [voter |-> p, term |-> ballot[i], cand |-> i] \in votes
    /\ \A r \in voteReplies[i] :
         r.granted => [voter |-> r.from, term |-> ballot[i], cand |-> i] \in votes

WonByQuorum == \A e \in elected : HasQuorum(e)

\* The votes on record, the votedFor fields, what is saved, what candidates count
\* and who has won agree: the reason why OneWinnerPerTerm holds in spite of late
\* replies (line 503), newer terms (line 167) and restarts (line 126).
ElectionInv == SavedVote /\ VoteOfTerm /\ CountedVotes /\ WonByQuorum

\* A log, a saved log and the entries of an AppendEntries call are sorted, and a
\* call's entries continue the entry it names as their predecessor (lines 395-398).
LogInv ==
  /\ LogTermsSorted
  /\ \A i \in Server : SortedUpTo(persisted[i].log, persisted[i].currentTerm)
  /\ \A m \in requests : /\ SortedUpTo(m.entries, m.term)
                         /\ m.entries # <<>> => m.prevTerm <= m.entries[1].term

(* Properties of schedules in which a deposed peer steps down first *)

\* config.go line 319: no term has two leaders (GetState).
ElectionSafety ==
  \A i, j \in Server :
    status[i] = "leader" /\ status[j] = "leader" /\ currentTerm[i] = currentTerm[j] => i = j

\* Two logs with the same term at an index hold the same entries up to it;
\* the agreement test of AppendEntries (lines 278, 260) compares terms only.
LogMatching ==
  \A i, j \in Server :
    \A k \in 1 .. MinOf(Len(log[i]), Len(log[j])) :
      log[i][k].term = log[j][k].term => SubSeq(log[i], 1, k) = SubSeq(log[j], 1, k)

\* While it stays leader of a term, a peer only appends to its log.
LeaderAppendOnly ==
  [][\A i \in Server :
       status[i] = "leader" /\ status'[i] = "leader" /\ currentTerm'[i] = currentTerm[i]
         => /\ Len(log'[i]) >= Len(log[i])
            /\ SubSeq(log'[i], 1, Len(log[i])) = log[i]]_vars

\* No peer indexes its log out of range (lines 397, 398, 441).
NoPanic == \A i \in Server : Alive(i)

\* A leader whose term no other peer exceeds has every applied command in its
\* log: logNewer (line 157) keeps the others from winning an election.
LeaderCompleteness ==
  \A i \in Server :
    status[i] = "leader" /\ (\A j \in Server : currentTerm[j] <= currentTerm[i])
      => \A a \in applied : a[1] <= Len(log[i]) /\ log[i][a[1]].cmd = a[2]

\* config.go line 181: no two peers apply different commands at an index.
StateMachineSafety == \A a, b \in applied : a[1] = b[1] => a[2] = b[2]
=============================================================================
