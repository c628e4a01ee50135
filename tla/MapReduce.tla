----------------------------- MODULE MapReduce -----------------------------
(***************************************************************************)
(* A distributed job of src/mit6.824/src/mapreduce: the master's phases    *)
(* (master.go), schedule() with one goroutine per call (schedule.go), the  *)
(* workers' accept loops and RPC handlers (worker.go) and the files they   *)
(* share.  A worker is its address.                                        *)
(*                                                                         *)
(* A file is "none", "partial" while it is being written, "full", or "bad" *)
(* when it was computed from input that was not full.                      *)
(***************************************************************************)
EXTENDS Integers, Sequences, FiniteSets

CONSTANTS
  Workers,
  NMap, NReduce,  \* len(mapFiles), nReduce
  Filled,         \* the reduce tasks that some map task gives a key to
  RPCs,           \* nRPC each worker is started with, -1 for no limit
  Mortal          \* workers that may crash

ASSUME JobAssumption == NMap \in Nat \ {0} /\ NReduce \in Nat \ {0}
ASSUME SetsAssumption == Filled \subseteq 0 .. NReduce - 1 /\ Mortal \subseteq Workers
ASSUME RPCsAssumption == RPCs \in [Workers -> Int]

mapPhase == "mapPhase"
reducePhase == "reducePhase"
Shutdown_ == -1     \* the "task" of a Worker.Shutdown call

MapTasks == 0 .. NMap - 1
ReduceTasks == 0 .. NReduce - 1

VARIABLES
  phase,        \* what run() is doing: a phase, "kill", "stop", "merge", "done" or "fatal"
  workers,      \* mr.workers
  forwarded,    \* i of forwardRegistrations for this phase
  registerChan, \* indices of mr.workers that goroutines wait to send to schedule
  doneMap, taskQu, idleWorkers,   \* schedule(): taskQu and idleWorkers from their heads on
  calls,        \* calls under way: their phase, task, worker and state
  killed,       \* workers killWorkers has gone through
  stats,        \* mr.stats
  loop,         \* where RunWorker is: "down", "check", "accept", "closed"
  nRPC, nTasks, concurrent,       \* the fields of Worker
  started,      \* the workers that were started
  inter, out    \* the files of reduceName and mergeName

schedVars == <<doneMap, taskQu, idleWorkers>>
masterVars == <<phase, workers, forwarded, registerChan, doneMap, taskQu, idleWorkers, killed, stats>>
workerVars == <<loop, nRPC, nTasks, concurrent, started>>
files == <<inter, out>>
vars == <<phase, workers, forwarded, registerChan, doneMap, taskQu, idleWorkers, calls, killed,
          stats, loop, nRPC, nTasks, concurrent, started, inter, out>>

Tasks(p) == IF p = mapPhase THEN NMap ELSE NReduce
TaskQueue(p) == [i \in 1..Tasks(p) |-> i - 1]

Init ==
  /\ phase = mapPhase
  /\ workers = <<>>
  /\ forwarded = 0
  /\ registerChan = {}
  /\ doneMap = {}
  /\ taskQu = TaskQueue(mapPhase)
  /\ idleWorkers = <<>>
  /\ calls = {}
  /\ killed = 0
  /\ stats = <<>>
  /\ loop = [w \in Workers |-> "down"]
  /\ nRPC = RPCs
  /\ nTasks = [w \in Workers |-> 0]
  /\ concurrent = [w \in Workers |-> 0]
  /\ started = {}
  /\ inter = [m \in MapTasks |-> [r \in ReduceTasks |-> "none"]]
  /\ out = [r \in ReduceTasks |-> "none"]

Scheduling == phase \in {mapPhase, reducePhase}

-----------------------------------------------------------------------------
(* The master *)

\* A goroutine per worker offers it to the schedule() of this phase.
forwardRegistrations ==
  /\ Scheduling
  /\ forwarded < Len(workers)
  /\ forwarded' = forwarded + 1
  /\ registerChan' = registerChan \cup {forwarded + 1}
  /\ UNCHANGED <<phase, workers, schedVars, calls, killed, stats, workerVars, files>>

Call(t, w) == [phase |-> phase, task |-> t, worker |-> w, state |-> "sent"]

\* The end of the inner loop: worker w gets the next task of qu, or is idle.
Assign(w, qu, idle, rest) ==
  \/ /\ qu # <<>>
     /\ calls' = rest \cup {Call(Head(qu), w)}
     /\ taskQu' = Tail(qu)
     /\ idleWorkers' = idle
  \/ /\ qu = <<>>
     /\ calls' = rest
     /\ taskQu' = qu
     /\ idleWorkers' = Append(idle, w)

\* case worker = <-registerChan
ScheduleRegistered ==
  /\ Scheduling
  /\ \E i \in registerChan :
       /\ registerChan' = registerChan \ {i}
       /\ Assign(workers[i], taskQu, idleWorkers, calls)
  /\ UNCHANGED <<phase, workers, forwarded, doneMap, killed, stats, workerVars, files>>

\* Faulty variant of AllDone: schedule returns one task too early.
AllButOneDone(done) == Cardinality(done) >= Tasks(phase) - 1

AllDone(done) == Cardinality(done) = Tasks(phase)

\* Faulty variant of NextPhase: both phases share a registerChan.
NextPhaseSameChan ==
  /\ phase' = IF phase = mapPhase THEN reducePhase ELSE "kill"
  /\ doneMap' = {}
  /\ taskQu' = IF phase = mapPhase THEN TaskQueue(reducePhase) ELSE <<>>
  /\ idleWorkers' = <<>>
  /\ UNCHANGED registerChan
  /\ forwarded' = 0

\* schedule returns, and run() goes on: with the reduce phase and a new
\* registerChan, or with killWorkers.
NextPhase ==
  /\ phase' = IF phase = mapPhase THEN reducePhase ELSE "kill"
  /\ doneMap' = {}
  /\ taskQu' = IF phase = mapPhase THEN TaskQueue(reducePhase) ELSE <<>>
  /\ idleWorkers' = <<>>
  /\ registerChan' = {}
  /\ forwarded' = 0

Succeeded(c) == c.state = "ok"

\* case result := <-doneChan, result.Ok
ScheduleOk ==
  /\ Scheduling
  /\ \E c \in calls :
       /\ c.phase = phase /\ Succeeded(c)
       /\ \/ /\ AllDone(doneMap \cup {c.task}) /\ c.task \notin doneMap
             /\ calls' = calls \ {c}
             /\ NextPhase
          \/ /\ ~(AllDone(doneMap \cup {c.task}) /\ c.task \notin doneMap)
             /\ doneMap' = doneMap \cup {c.task}
             /\ Assign(c.worker, taskQu, idleWorkers, calls \ {c})
             /\ UNCHANGED <<phase, registerChan, forwarded>>
  /\ UNCHANGED <<workers, killed, stats, workerVars, files>>

\* Faulty variant of AfterFailure: idleHead is not moved on.
AfterFailureStillIdle(c, qu) ==
  \/ /\ idleWorkers # <<>>
     /\ Assign(Head(idleWorkers), qu, idleWorkers, calls \ {c})
  \/ /\ idleWorkers = <<>>
     /\ calls' = calls \ {c}
     /\ taskQu' = qu
     /\ UNCHANGED idleWorkers

\* Faulty variant of AfterFailure: an idle worker is not given the failed task.
AfterFailureWait(c, qu) ==
  /\ calls' = calls \ {c}
  /\ taskQu' = qu
  /\ UNCHANGED idleWorkers

\* The failed worker is dropped; the first idle worker, if any, takes a task.
AfterFailure(c, qu) ==
  \/ /\ idleWorkers # <<>>
     /\ Assign(Head(idleWorkers), qu, Tail(idleWorkers), calls \ {c})
  \/ /\ idleWorkers = <<>>
     /\ calls' = calls \ {c}
     /\ taskQu' = qu
     /\ UNCHANGED idleWorkers

\* Faulty variant of Requeued: a task whose call failed is forgotten.
NotRequeued(t) == taskQu

Requeued(t) == Append(taskQu, t)

\* case result := <-doneChan, ~result.Ok
ScheduleFailed ==
  /\ Scheduling
  /\ \E c \in calls :
       /\ c.phase = phase /\ c.state = "failed"
       /\ AfterFailure(c, Requeued(c.task))
  /\ UNCHANGED <<phase, workers, forwarded, registerChan, doneMap, killed, stats, workerVars, files>>

\* killWorkers calls each worker in turn ...
KillCall ==
  /\ phase = "kill"
  /\ killed < Len(workers)
  /\ ~\E c \in calls : c.task = Shutdown_
  /\ calls' = calls \cup {Call(Shutdown_, workers[killed + 1])}
  /\ UNCHANGED <<masterVars, workerVars, files>>

\* ... and takes its count of tasks, unless the call failed.
KillReply ==
  /\ \E c \in calls :
       /\ c.task = Shutdown_
       /\ c.state \in {"ok", "failed"}
       /\ calls' = calls \ {c}
       /\ stats' = IF c.state = "ok" THEN Append(stats, nTasks[c.worker]) ELSE stats
  /\ killed' = killed + 1
  /\ UNCHANGED <<phase, workers, forwarded, registerChan, schedVars, workerVars, files>>

\* killWorkers returns, and releases the lock Register waits for.
KillDone ==
  /\ phase = "kill" /\ killed = Len(workers) /\ ~\E c \in calls : c.task = Shutdown_
  /\ phase' = "stop"
  /\ UNCHANGED <<workers, forwarded, registerChan, schedVars, calls, killed, stats, workerVars, files>>

\* Master.Shutdown: no worker can register any more.
stopRPCServer ==
  /\ phase = "stop"
  /\ phase' = "merge"
  /\ UNCHANGED <<workers, forwarded, registerChan, schedVars, calls, killed, stats, workerVars, files>>

\* merge opens the output of every reduce task, or is fatal.
merge ==
  /\ phase = "merge"
  /\ phase' = IF \E r \in ReduceTasks : out[r] = "none" THEN "fatal" ELSE "done"
  /\ UNCHANGED <<workers, forwarded, registerChan, schedVars, calls, killed, stats, workerVars, files>>

-----------------------------------------------------------------------------
(* The workers *)

MayRegister == phase \in {mapPhase, reducePhase, "stop"}

\* RunWorker up to its loop.  Register waits while killWorkers holds the lock; when
\* the server of the master is gone, the worker goes on without it.
RunWorker(w) ==
  /\ w \notin started
  /\ phase # "kill"
  /\ started' = started \cup {w}
  /\ loop' = [loop EXCEPT ![w] = "check"]
  /\ workers' = IF MayRegister THEN Append(workers, w) ELSE workers
  /\ UNCHANGED <<phase, forwarded, registerChan, schedVars, calls, killed, stats,
                 nRPC, nTasks, concurrent, files>>

\* The top of the loop: a worker that has served its RPCs closes its listener.
CheckRPCs(w) ==
  /\ loop[w] = "check"
  /\ loop' = [loop EXCEPT ![w] = IF nRPC[w] = 0 THEN "closed" ELSE "accept"]
  /\ UNCHANGED <<masterVars, calls, nRPC, nTasks, concurrent, started, files>>

Becomes(c, s) == (calls \ {c}) \cup {[c EXCEPT !.state = s]}

Accept(w) ==
  /\ loop[w] = "accept"
  /\ \E c \in calls :
       /\ c.worker = w /\ c.state = "sent"
       /\ calls' = Becomes(c, "accepted")
  /\ nRPC' = [nRPC EXCEPT ![w] = @ - 1]
  /\ loop' = [loop EXCEPT ![w] = "check"]
  /\ UNCHANGED <<masterVars, nTasks, concurrent, started, files>>

\* Faulty variant of CallFails: a call to a worker that is gone is waited for.
CallFailsIfClosed ==
  /\ \E c \in calls :
       /\ c.state = "sent" /\ loop[c.worker] = "closed"
       /\ calls' = Becomes(c, "failed")
  /\ UNCHANGED <<masterVars, workerVars, files>>

\* call() finds no listener.
CallFails ==
  /\ \E c \in calls :
       /\ c.state = "sent" /\ loop[c.worker] \in {"closed", "down"}
       /\ calls' = Becomes(c, "failed")
  /\ UNCHANGED <<masterVars, workerVars, files>>

\* DoTask up to the writing of files: doMap creates its files, doReduce reads all of
\* its input and creates its output, unless there is no key in it.
DoTask(c) ==
  LET w == c.worker
      complete == \A m \in MapTasks : inter[m][c.task] = "full"
  IN
  /\ c.state = "accepted" /\ c.task # Shutdown_
  /\ nTasks' = [nTasks EXCEPT ![w] = @ + 1]
  /\ concurrent' = [concurrent EXCEPT ![w] = @ + 1]
  /\ \/ /\ c.phase = mapPhase
        /\ calls' = Becomes(c, "working")
        /\ inter' = [inter EXCEPT ![c.task] = [r \in ReduceTasks |-> "partial"]]
        /\ UNCHANGED out
     \/ /\ c.phase = reducePhase
        /\ calls' = Becomes(c, IF complete THEN "working" ELSE "misled")
        /\ out' = IF c.task \in Filled THEN [out EXCEPT ![c.task] = "partial"] ELSE out
        /\ UNCHANGED inter
  /\ UNCHANGED <<masterVars, loop, nRPC, started>>

\* The rest of DoTask, and the reply.
DoTaskReply(c) ==
  /\ c.state \in {"working", "misled"}
  /\ concurrent' = [concurrent EXCEPT ![c.worker] = @ - 1]
  /\ calls' = Becomes(c, "ok")
  /\ \/ /\ c.phase = mapPhase
        /\ inter' = [inter EXCEPT ![c.task] = [r \in ReduceTasks |-> "full"]]
        /\ UNCHANGED out
     \/ /\ c.phase = reducePhase
        /\ out' = IF c.task \notin Filled THEN out
                  ELSE [out EXCEPT ![c.task] = IF c.state = "working" THEN "full" ELSE "bad"]
        /\ UNCHANGED inter
  /\ UNCHANGED <<masterVars, loop, nRPC, nTasks, started>>

Shutdown(c) ==
  /\ c.state = "accepted" /\ c.task = Shutdown_
  /\ nRPC' = [nRPC EXCEPT ![c.worker] = 1]
  /\ calls' = Becomes(c, "ok")
  /\ UNCHANGED <<masterVars, loop, nTasks, concurrent, started, files>>

\* A worker process dies: the calls it was serving, or was to accept, fail.
Crash(w) ==
  /\ w \in Mortal
  /\ loop[w] # "down"
  /\ loop' = [loop EXCEPT ![w] = "down"]
  /\ concurrent' = [concurrent EXCEPT ![w] = 0]
  /\ calls' = {IF c.worker = w /\ c.state \notin {"ok", "failed"}
               THEN [c EXCEPT !.state = "failed"] ELSE c : c \in calls}
  /\ UNCHANGED <<masterVars, nRPC, nTasks, started, files>>

-----------------------------------------------------------------------------

MasterStep ==
  \/ forwardRegistrations \/ ScheduleRegistered \/ ScheduleOk \/ ScheduleFailed
  \/ KillCall \/ KillReply \/ KillDone \/ stopRPCServer \/ merge

WorkerStep(w) ==
  \/ RunWorker(w) \/ CheckRPCs(w) \/ Accept(w)
  \/ \E c \in calls : c.worker = w /\ (DoTask(c) \/ DoTaskReply(c) \/ Shutdown(c))

Next == MasterStep \/ CallFails \/ \E w \in Workers : WorkerStep(w) \/ Crash(w)

Spec == Init /\ [][Next]_vars

\* Goroutines and processes that can go on do so; nothing says that a worker dies.
FairSpec == Spec /\ WF_vars(MasterStep) /\ WF_vars(CallFails) /\ \A w \in Workers : WF_vars(WorkerStep(w))

-----------------------------------------------------------------------------
(* Properties *)

CallStates == {"sent", "accepted", "working", "misled", "ok", "failed"}
CallRecords ==
  [phase : {mapPhase, reducePhase, "kill"}, task : Nat \cup {Shutdown_}, worker : Workers,
   state : CallStates]
FileState == {"none", "partial", "full", "bad"}

\* The state has its type.
TypeOK ==
  /\ phase \in {mapPhase, reducePhase, "kill", "stop", "merge", "done", "fatal"}
  /\ workers \in Seq(Workers) /\ idleWorkers \in Seq(Workers)
  /\ forwarded \in 0..Len(workers) /\ registerChan \subseteq 1..forwarded
  /\ doneMap \subseteq Nat /\ taskQu \in Seq(Nat)
  /\ calls \subseteq CallRecords
  /\ loop \in [Workers -> {"down", "check", "accept", "closed"}]
  /\ nRPC \in [Workers -> Int] /\ nTasks \in [Workers -> Nat] /\ concurrent \in [Workers -> Nat]
  /\ inter \in [MapTasks -> [ReduceTasks -> FileState]]
  /\ out \in [ReduceTasks -> FileState]

\* "schedule() should never issue more than one RPC at a time to a given worker"
\* (worker.go:51).
OneTaskPerWorker == \A w \in Workers : concurrent[w] <= 1

\* While schedule runs, each task is in exactly one place: waiting, out in one call,
\* or done.  So none is lost when a call fails, and none is done by two workers at once.
TasksAccounted ==
  Scheduling =>
    \A t \in 0 .. Tasks(phase) - 1 :
      Cardinality({p \in DOMAIN taskQu : taskQu[p] = t})
        + Cardinality({c \in calls : c.phase = phase /\ c.task = t})
        + (IF t \in doneMap THEN 1 ELSE 0) = 1

\* schedule never leaves a worker idle while a task waits.
NoIdleWorkerWhileTaskWaits == taskQu # <<>> => idleWorkers = <<>>

\* A reduce task reads what all map tasks have written in full, and merge what all
\* reduce tasks have; when schedule returns, none of its calls is still out that
\* could write these files again.
InputsComplete ==
  /\ \A c \in calls : c.task # Shutdown_ => c.phase = phase
  /\ \A c \in calls : c.state # "misled"
  /\ phase \in {"merge", "done"} => \A r \in Filled : out[r] = "full"

\* "Once all tasks have completed successfully, schedule() should return"
\* (schedule.go:36): as long as one worker serves, the job ends.
JobEnds == <>(phase = "done")
=============================================================================
