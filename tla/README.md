# TLA+ models of distribute_system_lab

The repository holds several small distributed systems: the MIT 6.824 labs in Go
(Raft, a simulated RPC network, MapReduce, a linearizability checker), a
selective-repeat transport in C++ (`mini_rdt`), a peer-to-peer file distribution
(`mini_P2P`) and two DPDK programs. This directory specifies those that have
state worth checking, model-checks them with TLC on small instances, and proves
safety of Raft, labrpc, MapReduce and the transport with TLAPS for all instances.

`PROJECT.json` lists components, runs, hazards, theorems and, for every
definition, the source lines it stands for. To repeat a result, in this directory:

    tlc -workers 2 -config raft_log.cfg MCRaft
    tlapm RaftSafety.tla

## 1. The system

### Raft peer: `mit6.824/src/raft`

*State.* Persistent `currentTerm`, `votedFor`, `log`; volatile `commitIndex`,
`lastApplied`, `nextIndex`, `matchIndex`, `status`; the one-slot channel
`toFollower`; per-iteration channels `voteChan` and `appendChan`.
*Operations.* The handlers `RequestVote` and `AppendEntries`, `Start`,
`GetState`, `persist`/`readPersist`, and one goroutine that runs
`followerRoutine`, `candidateRoutine` and `leaderRoutine` in turn.
*What is hard.* Handlers and the routine goroutine share `rf.mu`, and the routine
gives it up while it waits in a `select` with several ready channels; a handler
that sees a newer term can only leave a token in `toFollower`. Calls are lost,
delayed and reordered; peers crash between any two critical sections.
*What should hold.* One vote per peer and term, one winner and one leader per
term, matching logs, no applied entry lost or replaced, no index out of range.

### labrpc: `mit6.824/src/labrpc`, with `raft/config.go` and `raft/persister.go`

*State.* The maps `enabled`, `connections`, `servers`, the switches `reliable`
and `longReordering`, `done`; per call a client goroutine, a `ProcessReq`
goroutine and a handler goroutine.
*Operations.* `Call`, the request loop, `ProcessReq`, `Connect`, `Enable`,
`AddServer`, `DeleteServer`, `Cleanup`; `crash1` and `start1` of the harness.
*What is hard.* `ProcessReq` works with what it read before it slept; a server is
replaced while its handler runs; the poll, the handler and `Cleanup` race.
*What should hold.* At most one execution of a call, an answer "ok" only after an
execution whose effect survives, every call and every handler comes to an end.

### MapReduce: `mit6.824/src/mapreduce`, `main/wc.go`, `main/ii.go`

*State.* The master's `workers`, `stats`; `doneMap`, `taskQu`, `idleWorkers` of
`schedule()`; a worker's `nRPC`, `nTasks`, `concurrent`; the intermediate and
output files.
*Operations.* `Register`, `forwardRegistrations`, `schedule`, `DoTask`,
`Shutdown`, the accept loop, `killWorkers`, `stopRPCServer`, `doMap`, `doReduce`,
`merge`.
*What is hard.* Workers join late, crash within a task or run out of RPCs; a call
can fail although its task was done; the next phase reads files of the last one.
*What should hold.* No task is lost, none starts on incomplete input, the job ends
while a worker serves, and the output is that of the plain definition.

### Linearizability checker: `mit6.824/src/linearizability`

*State.* The doubly linked list of entries, the bitset, cache and call stack of
`checkSingle`; `kill`, the result channel and the timeout of the callers.
*What is hard.* `lift` and `unlift` must be exact inverses over a long
backtracking search; the cache prunes; a timeout races the results.
*What should hold.* The verdict is the definition's; a search that was cut short
never yields "not linearizable".

### mini_rdt: `rdt_sender.cc`, `rdt_receiver.cc`, `rdt_util.cc`, `rdt_sim.cc`

*State.* Two sliding windows over rings with sequence numbers that wrap around,
a ring buffer for bytes the window has no room for, a sorted list of virtual
timers over one physical timer.
*Operations.* `Sender_FromUpperLayer`, `Sender_FromLowerLayer`,
`Sender_Timeout`, `Receiver_FromLowerLayer`; `push`, `copy`, `pop`, `enlarge`;
`start`, `end`, `timeout`.
*What is hard.* Loss, corruption, overtaking; numbers used again; off-by-one
positions in three rings; a timer that is ended by a late ack.
*What should hold.* In-order delivery without loss or repetition, no failing
`ASSERT`, a timer for all that is unacknowledged, delivery in the end.

### mini_P2P: `work/P2P`

*State.* The server's backlog and threads, `tracer.txt`; each peer's part, file,
listener and sending threads.
*What is hard.* A peer is in the tracer before it listens, the tracer is read
while it is written, threads share a buffer that `main` frees, every peer both
serves and waits for every other.
*What should hold.* Every copy is whole, the buffer outlives its users, all finish.

### Parts without a model

| Part | Reason |
|------|--------|
| `kvraft`, `shardmaster`, `shardkv` and their harnesses | skeletons: handlers and clerks are empty |
| `labgob` | reflection and warnings around `encoding/gob` |
| `main/*d.go`, `main/*c.go` | start-up code of packages that are not in the repository |
| `DPDK/miniUDP` | sequential: one fixed datagram is cut up and handed to the DPDK library |
| `DPDK/QoS` | thin calls of `rte_meter` and `rte_red`, which are not in the repository: a model would check definitions made up for the library |
| `mini_P2P/work/C&S`, `mini_P2P/example`, scripts | no shared state |

## 2. Modules

| Module | Models |
|--------|--------|
| `Raft` | the peer, its network and its Persister |
| `MCRaft` | symmetry and views for TLC |
| `RaftApply` | adds to `Raft` the goroutines of `applyLog` and the harness that reads `applyCh` |
| `RaftInv` | the inductive invariants of `Raft` that only proofs use |
| `RaftPieces` | lemmas about logs and pieces of logs; every step keeps the invariant on a leader's indices |
| `RaftBasics` | proofs about `Raft` in all schedules: types, votes, sorted logs |
| `RaftLeaders` | every step keeps the invariants on leaders and matching logs |
| `RaftCommit` | every step keeps the invariant on what is committed |
| `RaftSafety` | the theorems about `Raft` that need majorities |
| `LabRpc` | the simulated network and the crash/restart of the harness |
| `RpcPromise` | abstract specification: what a call promises; `LabRpc` implements it |
| `LabRpcProofs` | the proofs about `LabRpc`, the refinement included |
| `MapReduce`, `MCMapReduce` | a distributed job: master, scheduler, workers, files |
| `MapReduceProofs` | the proofs about `MapReduce` |
| `MapReduceData` | what the tasks compute, against a reference definition |
| `Linearizability` | one search (`checkSingle`), against the definition |
| `LinearizabilityCheck` | the callers: one search per partition, `kill`, timeout |
| `Rdt` | the transport protocol: windows, buffer, timers, link |
| `RdtProofs` | the proofs about `Rdt` |
| `CircleQueue`, `VirtualTimer` | the two data structures that `Rdt` takes as a sequence and a set |
| `RdtSender` | composes the two, in every order in which the sender uses them |
| `P2P` | server, tracer file and peers |

An operator whose comment begins "Faulty variant of" is not part of a
specification. It stands beside the definition it alters and serves to show that
a property depends on that definition (`mutants` in `PROJECT.json`).

## 3. How the modules correspond to the code

**Raft.** One step per critical section of `rf.mu`. `RequestVote(m)` and
`AppendEntries(m)` (three ways out: `RefuseOldTerm`, `RefuseConflict`,
`AcceptEntries`) are whole handlers. `routine[i]` says where the routine goroutine
is: in the select of a role, between line 364 and the loop of `leaderRoutine`
("enter"), or after it has taken a token ("return"); "panic" stands for an index
out of range. `BeginElection`, `CountVote`, `TakeToFollower`, `Dispatch`,
`Broadcast`, `TakeReply` are its pieces. The reply of a call is delivered with the
call; a reply that is lost is one that nobody takes. Election timers may fire at
any time. `persisted` is the Persister, written exactly where `persist()` is
called; `AcceptEntries` therefore saves the truncated log. `votes`, `elected` and
`applied` are history variables.

**RaftApply.** Every step of a peer that raises `lastApplied` also starts a goroutine
with the entries it applied (`AppMsgs`, `StartSending`). `applyCh` is unbuffered:
`ReadApplyCh(i, b)` is the hand-over of one message of goroutine *b* to the reader of
`config.go`, which notes it in `logs`. The goroutines of a crashed instance go on.

**LabRpc.** `pc[c]` follows a call through `Call`, the request loop and
`ProcessReq`; `handler[c]` is its third goroutine, and `Drain` the one that takes
a result nobody waits for. A server instance is a number, so that a restarted
server of the same name can be told from the old one. `hung` is the set of calls
whose handler never returns. Sleeps have no length. The refinement mapping to
`RpcPromise` is the view of the caller: idle, pending, ok or failed, and whether the
handler ran.

**MapReduce.** `phase` is where `run()` is. Each call is a record with its phase,
task, worker and progress; a worker's `loop` is its accept loop. A file is "none",
"partial", "full", or "bad" if it was computed from input that was not full. The
contents are in `MapReduceData`, which runs the tasks in order for every hash
function, every order in which Go enumerates a map and every order in which
`sort.Slice` may leave equal keys.

**Linearizability.** `next` and `prev` are the list, keyed by time; each turn of the
loop of `checkSingle` is a step. The reference, `Linearizable(history)`, quantifies
over the permutations of the history.

**Rdt.** Payload *n* of the byte stream is the number *n*; its sequence number is
*n* mod `MaxSeqN`. A corrupted packet fails the checksum and is thus a lost one;
the checksum is taken to detect every corruption. The simulator delivers a packet
within a bounded time, during which the window moves on by at most `Lag` packets.

**CircleQueue, VirtualTimer, RdtSender.** Byte-level ring with its two `memcpy`
cases, and the list of timers with `tail_` and the time left of each. `enlarge`
uses one byte more than it asks for (`rdt_util.cc:115, 126`). For the sizes that
arise from `kInitBufferSize` the allocator's rounding covers it, so the model
treats it as memory of the ring.

**P2P.** Every thread of `server.cc` and `peer.cc` is a process. `Part(offset)` is
what `fread` finds; writing beyond the end of the file leaves a hole.

## 4. Runs

| Run | Bounds | Distinct states | Shows |
|-----|--------|-----------------|-------|
| `raft_election` | 3 peers, all may stand, 2 terms, 1 crash, heartbeats that arrive in any order, every schedule | 35 K | votes once, one winner per term, terms and votes never go back |
| `raft_log` | 3 peers (2 stand), 2 terms, 2 entries, no crash, calls of a round lost or delivered in it, a deposed peer steps down first | 921 K | applied entries agree and are in later leaders' logs; one leader per term, matching logs, leaders append only, no panic; the inductive invariant on logs |
| `raft_two_leaders` | as `raft_election` without crash | violation | a deposed candidate can lead a term it did not win |
| `raft_crash_loses_entry` | 3 peers, 2 terms, 1 entry, 1 crash | violation | an acknowledged entry is lost in a crash |
| `raft_apply_order` | 3 peers (1 stands), 1 term, 2 entries | violation | two batches of a peer reach the reader of `applyCh` in the wrong order |
| `labrpc` | 1 call, 1 end, 1 name, 3 instances | 62 K | refinement of `RpcPromise`; acknowledged means persisted; calls and handlers end |
| `mapreduce` | 3 workers (2 mortal, 1 with 3 RPCs), 2 map and 2 reduce tasks | 954 K | no task lost, no straggler, complete inputs, the job ends |
| `mapreduce_data` | 2 files of up to 2 of 3 words, 2 reduce tasks | 23 K | the output is the reference output, once per key |
| `linearizability` | up to 3 operations, 2 letters, one other partition | 1.8 M | right verdicts, intact list, termination |
| `rdt` | window 2, 5 sequence numbers, lag 1, 7 payloads | 18 K | in-order delivery, no ASSERT fails, everything arrives |
| `rdt_sender` | ring grows 1, 3, 7; 3 timers of 3 ticks | 954 K | first-in first-out, exact content, well-linked timers that fire on time |
| `p2p` | 3 peers, files of 0 to 5 bytes | 151 K | whole copies, no use after free, all complete |

*Why these bounds.* Two terms suffice for a leader and its successor, and for a
deposed candidate; three peers for two overlapping majorities. `rdt` goes once and a
half around the sequence numbers and twice around the rings; its five numbers are
the least for which the properties hold: `MaxSeqN >= 2 * WindowSize + Lag`, which
the code's 30 numbers for a window of 10 satisfy with a lag of 10. `rdt_sender` has
two enlargements, one of them of a ring that is wrapped. A file of 0 to 5 bytes for
3 peers has every case of the rounding in `CEIL_DIV`, a last part that is short,
and parts that are empty. Three instances in `labrpc` let a server be replaced
while a call is on its way and again while its handler runs.

*Views.* `MCRaft` leaves out of the state what can no longer matter (dead calls,
indices of a peer that leads no more). Conjuncts of `LogInv` about such dead calls
are covered by the proof in `RaftBasics`, not by the run.

*Crashes and late calls.* `StateMachineSafety` and `LeaderCompleteness` do not survive
them (below), so `raft_log` has neither. Its other properties do: that one term has
one leader, that logs match, that leaders only append and that no index is out of
range is proved in section 5 for any number of crashes and for calls that arrive in
any order.

*Deadlock* checking is off where the program or the bounded model may stop: jobs,
transfers and searches end, and Raft instances run out of terms and calls.

### What the violation runs say

- `raft_two_leaders`: `candidateRoutine` (`raft.go:515-522`) does not look at its
  term and status again after it has taken a vote from `voteChan`. If a newer term
  has deposed it, and the `select` prefers the vote to the token, it becomes leader
  of that newer term. `ElectionSafety` holds where the token is taken first
  (`StepDownFirst = TRUE`), which is why the runs about logs make that assumption.
- `raft_crash_loses_entry`: `AppendEntries` calls `persist()` at line 283, before it
  appends the entries. `raft_log` therefore has no crash.
- `raft_apply_order`: `applyLog` starts a goroutine per batch (`raft.go:194-198`). Two
  of them wait on the same channel, and the runtime may serve the later batch first;
  the harness then stops with "apply out of order" (`config.go:194`). What is applied
  at an index is not affected: `StateMachineSafety` is about the entries handed out.

Other limits of what holds, met while modelling: a late `AppendEntries` call cuts
off entries that later calls brought (`raft.go:282`), hence no late calls in
`raft_log`; a reduce partition without keys leaves no file and `merge` stops
(`common_reduce.go:76-78`, `master_splitmerge.go:20-23`), hence
`Filled = {0, 1}` in `mapreduce`, while `mapreduce_data` has status "fatal" for it;
a worker restarted at its old address registers again, hence no restarts in
`mapreduce`.

### Fairness

- `labrpc`: every runnable goroutine and every timer runs (weak fairness per call);
  nothing is asked of the harness, so servers need never be restarted.
- `mapreduce`: the master, each living worker and the failure of a call whose
  worker is gone (the operating system closes its socket) are weakly fair. Crashes and
  late registrations are not fair; w3 does not crash.
- `linearizability`: the goroutines are weakly fair, the timeout is not.
- `rdt`: the upper layer and the timers are weakly fair; delivery is strongly fair
  per sequence number, since the simulator loses each packet independently with a
  probability below one.
- `p2p`: every thread is scheduled; connections are retried (`peer.cc:36`).

## 5. Proofs

### Raft

The theorems are about `Raft!Spec`, for every finite, non-empty `Server`
(`ServerAssumption`), every `Command`, all values of the bounds and of `Delays`
(`BoundAssumption`, `ScheduleAssumption`): any number of peers, terms, entries and
crashes, calls in any order. From `RoleInvariant` on they assume `StepDownFirst`:
without it `raft_two_leaders` refutes `ElectionSafety`, on which the others rest. The
last three also assume `~Delays` and `MaxCrash = 0`, because what is committed can be
lost otherwise: in a crash (`raft_crash_loses_entry`) or to a late call (section 4).

| Theorem | Statement |
|---------|-----------|
| `RaftBasics!TypeCorrect` | `Spec => []TypeOK` |
| `RaftBasics!ElectionInvariant` | `Spec => [](ElectionInv /\ VoteOnce)` |
| `RaftBasics!VotesOnce` | `Spec => []VoteOnce` |
| `RaftBasics!TermAndVote` | `Spec => TermAndVoteStable` |
| `RaftBasics!LogInvariant` | `Spec => []LogInv` |
| `RaftBasics!LogsSorted` | `Spec => []LogTermsSorted` |
| `RaftSafety!OneWinner` | `Spec => []OneWinnerPerTerm` |
| `RaftSafety!RoleInvariant` | `StepDownFirst`: `Spec => []RoleInv` |
| `RaftSafety!OneLeader` | `StepDownFirst`: `Spec => []ElectionSafety` |
| `RaftSafety!LeaderAppends` | `StepDownFirst`: `Spec => LeaderAppendOnly` |
| `RaftSafety!MatchInvariant` | `StepDownFirst`: `Spec => []MatchInv` |
| `RaftSafety!LogsMatch` | `StepDownFirst`: `Spec => []LogMatching` |
| `RaftSafety!IndexInvariant` | `StepDownFirst`: `Spec => []IndexInv` |
| `RaftSafety!NeverPanics` | `StepDownFirst`: `Spec => []NoPanic` |
| `RaftSafety!CommitInvariant` | `StepDownFirst`, `~Delays`, no crash: `Spec => [](RoundInv /\ BallotInv /\ CommitInv)` |
| `RaftSafety!AppliesAgree` | `StepDownFirst`, `~Delays`, no crash: `Spec => []StateMachineSafety` |
| `RaftSafety!LeadersComplete` | `StepDownFirst`, `~Delays`, no crash: `Spec => []LeaderCompleteness` |

*Votes.* `VoteOnce` is not inductive: nothing in it ties the votes on record to
`votedFor`, or `votedFor` to what a restart reads back. `ElectionInv` adds that
(a) the Persister has the term and vote in memory, (b) a vote on record in the
peer's current term is its `votedFor`, and none is of a later term, (c) votes
counted or on their way to the candidate are votes on record for its ballot, (d)
every winner has a quorum on record. `VoteStepNext` shows for every action that it
only raises terms, only sets an empty vote, and saves both; the rest follows from
it. `OneWinner` then needs that two majorities share a voter (`QuorumsAgree`, from
cardinalities of finite sets).

*Logs.* `LogTermsSorted` is needed because `logNewer` looks at last terms only.
It is not inductive either: a log is rebuilt from calls and from the Persister.
`LogInv` adds that saved logs are sorted, and that the entries of a call are sorted,
bounded by its term, and continue the entry named as their predecessor. The main
lemma is `SortedExtended`, about the log that `AppendEntries` leaves.

*Leaders.* A peer's status alone does not say whether it has won: the routine goroutine
and the handlers change it independently. `RoleInv` says how routine, status and token
go together (a routine that was deposed has a token waiting), that a leader has won
the election of its term while a candidate has not yet, and that AppendEntries
calls come from winners. With `OneWinner` this is `ElectionSafety`. A leader that
receives an AppendEntries call of its own term would have to receive it from another
winner of the term, so it never truncates (`LeaderAppends`).

*Matching logs.* `LogMatching` compares logs only, but entries also live in the
Persisters and in calls under way, and come back from there. `MatchInv` treats all
three as *pieces*: entries that follow an index whose own entry has a known term. Any
two pieces that have an entry of the same term at an index agree up to it; every term
in a piece has been won; the entries of a leader's term are within its log. Only
`Start` and `AppendEntries` make a piece that is not part of an earlier one. `Start`
uses an index of the leader's term that no other piece has; `AppendEntries` joins
two pieces that agree where they meet. That `persist()` saves the truncated log does
not matter here: a saved log is a part of a log.

*Indices.* `IndexInv` keeps `nextIndex` in 1 .. Len + 1 and `matchIndex` in 0 .. Len of
a leader's log, together with what its calls and the replies to them can set these
to. That the sorted middle of `matchIndex` is in range is `SortedMiddleProperties`. A
refusal must not ask for index 0 (`RefusalsAskInside`), which uses `MatchInv`: a
conflict at index 0 would be one of the dummy entries that all logs share.

*What is committed.* `StateMachineSafety` compares what was handed to `applyCh` in
different terms, so the invariant must say what keeps an entry in place between them.
`Pinned(S, k, t)` says that the peers of `S` pin the entry of term `t` at index `k`:
each has it and has reached term `t`; no log and no call has a later term before `k`
or another entry in its place; every leader of term `t` or later has it; and a
candidate of a later, undecided term for which a peer of `S` has voted has it. The
last conjunct is where `logNewer` is used. `CommitInv` says of a leader's entry of its
own term that the peers which acknowledged it pin it, unless a majority has left the
term without acknowledging it (`Outvoted`), in which case it can never be committed;
and that every commit index, in memory or in a call, and every applied command is
covered by an entry pinned by a set that meets every majority (`Blocking`). A leader
commits only entries of its term (`raft.go:441`), and the sorted middle of `matchIndex`
is reached by such a set (`SortedMiddleProperties`); this turns the first part into the
second. Two further invariants are needed: `RoundInv`, by which an unanswered call of
a leader is a part of its log, and `BallotInv`, by which the log of a candidate is the
one its calls describe. The proof splits the actions off once: `MovesNext` shows that
every action only does what `Moves` allows to logs, calls, votes and acknowledgements,
and the rest of `RaftCommit` argues from `Moves`. `AppliesAgree` and `LeadersComplete`
follow because two pinned entries are on one log.

### labrpc

For any number of calls, client ends, server names and instances
(`InstancesAssumption`, `NamesAssumption`), with servers deleted, restarted and connected at any time:

| Theorem | Statement |
|---------|-----------|
| `LabRpcInvariant` | `Spec => []CallInv` |
| `LabRpcPersists` | `Spec => []AckedIsPersisted` |
| `LabRpcKeepsPromise` | `Spec => KeepsPromise`, that is, `LabRpc` implements `RpcPromise` |

`CallInv` ties the three goroutines of a call together: how far the handler can be at
each place of `Call` and `ProcessReq`, and that an update is in the Persister that is
current for its server wherever a positive answer is still possible. It holds because
`ProcessReq` looks at the server once more after the handler has returned, and the
harness deletes a server before it copies its Persister; a copy before the deletion
breaks it (the variant `CopyBeforeDelete`). The refinement is shown action by action.

### MapReduce

For any set of workers, numbers of tasks, limits of RPCs and crashes
(`JobAssumption`, `SetsAssumption`, `RPCsAssumption`):

| Theorem | Statement |
|---------|-----------|
| `JobInvariant`, `JobTypes` | `Spec => []JobInv`, `Spec => []TypeOK` |
| `OneTaskEach` | `Spec => []OneTaskPerWorker` |
| `NoTaskLost` | `Spec => []TasksAccounted` |
| `ReadsCompleteInputs` | `Spec => []InputsComplete` |
| `NoneIdleInVain` | `Spec => []NoIdleWorkerWhileTaskWaits` |

The properties are not inductive by themselves: that a worker has one call rests on `schedule()`
having it in one place only. `JobInv` says so for workers (ahead in `registerChan`,
idle, or in one call) and for tasks (queued, in one call, or done), that
`Worker.concurrent` counts the call in service, and that the files of a call that
succeeded and of a task that is done are full. When the count of done tasks reaches the
number of tasks, cardinalities of finite sets give that all of them are done and
so no call is out (`AllDoneMeans`): the next phase reads files nobody writes.

### mini_rdt

For every window size, every number of sequence numbers, payloads and payloads per
message, and every lag of the link, with `2 * WindowSize + Lag <= MaxSeqN`
(`WindowAssumption`, `LagAssumption`, `RdtBounds`). The code's window of 10 and its 30
numbers satisfy it for a lag of up to 10. The bound is tight: with one number less, TLC
finds payloads out of order in the instance of `rdt`.

| Theorem | Statement |
|---------|-----------|
| `RdtInvariant` | `Spec => []RdtInv` |
| `DeliversInOrder` | `Spec => []InOrder` |
| `AssertsHold` | `Spec => []NoAssertFails` |
| `WindowsStayClose` | `Spec => []WindowsOverlap` |
| `TimersAreRight` | `Spec => []TimerWhileUnacknowledged` |

`InOrder` says nothing about the windows, whose cells and sequence numbers are two rings
of different sizes, addressed with remainders. `RdtInv` counts payloads instead:
each window starts with a payload whose remainders are its `base` and its first
number (`StartsAt`); the sender keeps in its cells what it has sent, and its timers
are those of the packets not acknowledged; the buffer continues where the window ends,
and is empty unless the window is full; the receiver is not behind the sender and not
ahead of what was sent; what it keeps is what was sent; a packet on the link was sent
and is at most `Lag` behind the sender's window, and an ack is of a payload the
receiver has. Two numbers on the link or in the windows are then less than `MaxSeqN`
apart, and a number names one payload: the receiver cannot take an old packet for a
new one, nor the sender an old ack. Section 1 of the module derives what it needs of
sums and differences of remainders from the division of integers.

### Only model-checked

- All liveness properties (`AllDelivered`, `JobEnds` and the like), which need fairness.
- What recursive or folding definitions compute (`MapReduceData`, `Linearizability`,
  `LinearizabilityCheck`): the prover has no induction over data.
- `CircleQueue`, `VirtualTimer` and their composition `RdtSender`, and the file
  distribution `P2P`: no theorem yet.

## 6. Not modelled

- The sharing of an array between `rf.log` and the `Entries` of a call that is being
  encoded (`raft.go:398`): the call carries the entries as they were under the
  lock. The encoder of labgob and the memory of the slice would have to be state.
- `Kill` and `terminateCh` of a peer: after it nothing is asked of the peer.
- The lengths of sleeps and timeouts. A timer may fire at any time, so `resetElectionTimer`
  has no effect, and nothing is said about how soon a leader is elected.
- A worker that is restarted at its old address while it is still in `workers`.
- The checksum of `mini_rdt`, which is taken to detect every corruption.
- `Raft` over `LabRpc`: `Raft` has its own network, in which a call is lost, late or
  delivered, and its reply lost; `RpcPromise` is what it relies on beyond that, namely
  that a call is executed at most once.
- The parts listed at the end of section 1.
