-------------------------- MODULE MapReduceProofs --------------------------
(***************************************************************************)
(* Proofs about MapReduce, for any number of workers and tasks, any limits *)
(* of RPCs and any crashes: where schedule() keeps a worker and a task,    *)
(* and what the files hold when they are read.                             *)
(***************************************************************************)
EXTENDS MapReduce, FiniteSetTheorems, TLAPS

-----------------------------------------------------------------------------
(* The inductive invariant: where schedule() has its workers and tasks, and what the files hold *)

Distinct(s) == \A i, j \in DOMAIN s : s[i] = s[j] => i = j

Serving == {"working", "misled"}

\* The workers schedule() has not received yet from registerChan.
Ahead == {workers[i] : i \in registerChan \cup (forwarded + 1 .. Len(workers))}

\* A worker is in one place: idle, in one call, or ahead.
WorkerPlaces(idle, cs, ahead) ==
  /\ Distinct(idle)
  /\ \A c, d \in cs : c.worker = d.worker => c = d
  /\ \A i \in DOMAIN idle : idle[i] \notin ahead /\ \A c \in cs : c.worker # idle[i]
  /\ \A c \in cs : c.worker \notin ahead

\* A task is in one place: waiting, in one call, or done; and in at least one.
TaskPlaces(qu, cs, done, n) ==
  /\ Distinct(qu)
  /\ \A c, d \in cs : c.task = d.task => c = d
  /\ \A i \in DOMAIN qu : qu[i] \in 0 .. n - 1 /\ qu[i] \notin done /\ \A c \in cs : c.task # qu[i]
  /\ \A c \in cs : c.task \in 0 .. n - 1 /\ c.task \notin done
  /\ done \subseteq 0 .. n - 1
  /\ \A t \in 0 .. n - 1 : t \in done \/ (\E i \in DOMAIN qu : qu[i] = t) \/ \E c \in cs : c.task = t

\* Registration, and the calls that are out: a phase has only calls of its own.
CallsInv ==
  /\ started \subseteq Workers /\ killed \in Nat
  /\ Distinct(workers)
  /\ \A i \in DOMAIN workers : workers[i] \in started
  /\ \A i \in DOMAIN idleWorkers : idleWorkers[i] \in started
  /\ \A c \in calls : c.worker \in started /\ c.phase = phase /\ (c.task = Shutdown_ <=> phase = "kill")
  /\ ~Scheduling => /\ idleWorkers = <<>> /\ taskQu = <<>>
                    /\ \A c, d \in calls : c = d

\* What schedule() holds.
PlacesInv ==
  Scheduling => /\ WorkerPlaces(idleWorkers, calls, Ahead)
                /\ TaskPlaces(taskQu, calls, doneMap, Tasks(phase))

\* Worker.concurrent counts the one call the worker serves.
ServingInv ==
  /\ \A w \in Workers : concurrent[w] = IF \E c \in calls : c.worker = w /\ c.state \in Serving THEN 1 ELSE 0
  /\ \A c \in calls : c.state \in Serving => c.task # Shutdown_

MapDone(t) == \A r \in ReduceTasks : inter[t][r] = "full"
ReduceDone(t) == t \in Filled => out[t] = "full"

\* What the files hold: the results of the calls that replied and of the tasks that are done.
FilesInv ==
  /\ \A c \in calls : c.state # "misled"
  /\ phase = mapPhase => /\ \A c \in calls : c.state = "ok" => MapDone(c.task)
                         /\ \A t \in doneMap : MapDone(t)
  /\ phase = reducePhase => /\ \A m \in MapTasks : MapDone(m)
                            /\ \A c \in calls : c.state = "ok" => ReduceDone(c.task)
                            /\ \A t \in doneMap : ReduceDone(t)
  /\ ~Scheduling => \A r \in ReduceTasks : ReduceDone(r)

\* The inductive invariant: a worker and a task are in one place, Worker.concurrent counts
\* the call in service, and files are complete when their phase is over.
JobInv == TypeOK /\ CallsInv /\ PlacesInv /\ ServingInv /\ FilesInv /\ NoIdleWorkerWhileTaskWaits

-----------------------------------------------------------------------------
(* Calls whose state changes *)

SameButState(c, d) == d.worker = c.worker /\ d.task = c.task /\ d.phase = c.phase

Restated(cs, f) == {[c EXCEPT !.state = f[c]] : c \in cs}

\* A change of state leaves a call its worker and its task.
LEMMA RestatedCall ==
  ASSUME NEW cs \in SUBSET CallRecords, NEW f \in [cs -> CallStates]
  PROVE  /\ Restated(cs, f) \subseteq CallRecords
         /\ \A d \in Restated(cs, f) : \E c \in cs : d = [c EXCEPT !.state = f[c]] /\ SameButState(c, d) /\ d.state = f[c]
         /\ \A c \in cs : \E d \in Restated(cs, f) : SameButState(c, d) /\ d.state = f[c]
<1>1. ASSUME NEW c \in cs
      PROVE  LET d == [c EXCEPT !.state = f[c]]
             IN d \in CallRecords /\ SameButState(c, d) /\ d.state = f[c]
  BY DEF CallRecords, SameButState
<1>2. QED BY <1>1, Zenon DEF Restated

\* The same without the form of the new call.
LEMMA RestatedStates ==
  ASSUME NEW cs \in SUBSET CallRecords, NEW f \in [cs -> CallStates]
  PROVE  /\ \A d \in Restated(cs, f) : \E c \in cs : SameButState(c, d) /\ d.state = f[c]
         /\ \A c \in cs : \E d \in Restated(cs, f) : SameButState(c, d) /\ d.state = f[c]
<1>1. ASSUME NEW c \in cs
      PROVE  LET d == [c EXCEPT !.state = f[c]] IN SameButState(c, d) /\ d.state = f[c]
  BY DEF CallRecords, SameButState
<1>2. QED BY <1>1, Zenon DEF Restated

\* So it leaves every worker and every task in its place.
LEMMA RestatedPlaces ==
  ASSUME NEW cs \in SUBSET CallRecords, NEW f \in [cs -> CallStates],
         NEW idle, NEW ahead, NEW qu, NEW done, NEW n
  PROVE  /\ WorkerPlaces(idle, cs, ahead) => WorkerPlaces(idle, Restated(cs, f), ahead)
         /\ TaskPlaces(qu, cs, done, n) => TaskPlaces(qu, Restated(cs, f), done, n)
<1> DEFINE ds == Restated(cs, f)
           g == [c \in cs |-> [c EXCEPT !.state = f[c]]]
<1>1. /\ \A d \in ds : \E c \in cs : d = g[c] /\ SameButState(c, d)
      /\ \A c \in cs : \E d \in ds : SameButState(c, d)
  BY RestatedCall, Zenon
<1> HIDE DEF ds, g
<1>2. ASSUME WorkerPlaces(idle, cs, ahead) PROVE WorkerPlaces(idle, ds, ahead)
  BY <1>1, <1>2, SMT DEF WorkerPlaces, SameButState
<1>3. ASSUME TaskPlaces(qu, cs, done, n) PROVE TaskPlaces(qu, ds, done, n)
  <2>1. \A d, e \in ds : d.task = e.task => d = e
    BY <1>1, <1>3, SMT DEF TaskPlaces, SameButState
  <2>2. \A t \in 0 .. n - 1 : (\E c \in cs : c.task = t) => \E d \in ds : d.task = t
    BY <1>1, SMT DEF SameButState
  <2>3. \A d \in ds : /\ d.task \in 0 .. n - 1 /\ d.task \notin done
                      /\ \A i \in DOMAIN qu : d.task # qu[i]
    BY <1>1, <1>3, SMT DEF TaskPlaces, SameButState
  <2>4. QED BY <1>3, <2>1, <2>2, <2>3, Zenon DEF TaskPlaces
<1>4. QED BY <1>2, <1>3 DEF ds

\* Becomes and Crash are such changes.
LEMMA BecomesIsRestated ==
  ASSUME NEW c \in calls, NEW s \in CallStates, calls \subseteq CallRecords
  PROVE  Becomes(c, s) = Restated(calls, [d \in calls |-> IF d = c THEN s ELSE d.state])
<1> DEFINE f == [d \in calls |-> IF d = c THEN s ELSE d.state]
<1>1. \A d \in calls : d # c => [d EXCEPT !.state = f[d]] = d
  BY DEF CallRecords
<1>2. [c EXCEPT !.state = f[c]] = [c EXCEPT !.state = s]
  OBVIOUS
<1> HIDE DEF f
<1>3. Becomes(c, s) \subseteq Restated(calls, f)
  BY <1>1, <1>2, Zenon DEF Becomes, Restated
<1>4. Restated(calls, f) \subseteq Becomes(c, s)
  <2> SUFFICES ASSUME NEW d \in calls PROVE [d EXCEPT !.state = f[d]] \in Becomes(c, s)
    BY Zenon DEF Restated
  <2>1. CASE d = c
    BY <1>2, <2>1, Zenon DEF Becomes
  <2>2. CASE d # c
    BY <1>1, <2>2, Zenon DEF Becomes
  <2>3. QED BY <2>1, <2>2
<1>5. Becomes(c, s) = Restated(calls, f)
  BY <1>3, <1>4, Zenon
<1>6. QED BY <1>5 DEF f

\* A crash fails the calls of its worker that have not ended.
LEMMA CrashIsRestated ==
  ASSUME NEW w, Crash(w), calls \subseteq CallRecords
  PROVE  calls' = Restated(calls, [d \in calls |-> IF d.worker = w /\ d.state \notin {"ok", "failed"}
                                                   THEN "failed" ELSE d.state])
<1> DEFINE lost(d) == d.worker = w /\ d.state \notin {"ok", "failed"}
           f == [d \in calls |-> IF lost(d) THEN "failed" ELSE d.state]
<1>1. \A d \in calls : [d EXCEPT !.state = f[d]] = IF lost(d) THEN [d EXCEPT !.state = "failed"] ELSE d
  <2> TAKE d \in calls
  <2>1. CASE lost(d)
    BY <2>1
  <2>2. CASE ~lost(d)
    <3>1. f[d] = d.state
      BY <2>2
    <3>2. [d EXCEPT !.state = d.state] = d
      BY DEF CallRecords
    <3>3. QED BY <2>2, <3>1, <3>2
  <2>3. QED BY <2>1, <2>2
<1>2. calls' = {IF lost(d) THEN [d EXCEPT !.state = "failed"] ELSE d : d \in calls}
  BY DEF Crash
<1> HIDE DEF f, lost
<1>3. calls' = Restated(calls, f)
  BY <1>1, <1>2, Zenon DEF Restated
<1>4. QED BY <1>3 DEF f, lost

-----------------------------------------------------------------------------
(* The steps of the workers, which change the states of calls *)

\* The worker side changes states of calls only, and keeps what schedule() relies on.
LEMMA RestatedKeeps ==
  ASSUME calls \subseteq CallRecords, CallsInv, PlacesInv,
         NEW f \in [calls -> CallStates], calls' = Restated(calls, f),
         UNCHANGED masterVars, started' = started
  PROVE  CallsInv' /\ PlacesInv' /\ calls' \subseteq CallRecords
<1>1. UNCHANGED <<phase, workers, forwarded, registerChan, doneMap, taskQu, idleWorkers, killed>>
  BY Zenon DEF masterVars
<1>2. /\ calls' \subseteq CallRecords
      /\ \A d \in calls' : \E c \in calls : SameButState(c, d)
  BY RestatedCall, Zenon
<1>3. (\A c, d \in calls : c = d) => \A c, d \in calls' : c = d
  BY Zenon DEF Restated
<1>4. CallsInv'
  <2>1. \A d \in calls' : d.worker \in started /\ d.phase = phase /\ (d.task = Shutdown_ <=> phase = "kill")
    BY <1>2, SMT DEF CallsInv, SameButState
  <2>2. QED BY <1>1, <1>3, <2>1 DEF CallsInv, Scheduling, Distinct
<1>5. PlacesInv'
  <2> SUFFICES ASSUME Scheduling
               PROVE  /\ WorkerPlaces(idleWorkers, calls', Ahead)
                      /\ TaskPlaces(taskQu, calls', doneMap, Tasks(phase))
    <3>1. Ahead' = Ahead /\ Scheduling' = Scheduling /\ Tasks(phase)' = Tasks(phase)
      BY <1>1 DEF Ahead, Scheduling, Tasks
    <3>2. (\A x : WorkerPlaces(idleWorkers, calls', x) => WorkerPlaces(idleWorkers', calls', x))
          /\ (\A n : TaskPlaces(taskQu, calls', doneMap, n) => TaskPlaces(taskQu', calls', doneMap', n))
      BY <1>1, Zenon
    <3>3. QED BY <3>1, <3>2, Zenon DEF PlacesInv
  <2>1. WorkerPlaces(idleWorkers, calls, Ahead) /\ TaskPlaces(taskQu, calls, doneMap, Tasks(phase))
    BY Zenon DEF PlacesInv
  <2>2. QED BY <2>1, RestatedPlaces, Zenon
<1>6. QED BY <1>2, <1>4, <1>5

\* A step of a worker on a call: Accept, the RPC handlers, or the failure of call().
LEMMA BecomesKeeps ==
  ASSUME calls \subseteq CallRecords, CallsInv, PlacesInv,
         NEW c \in calls, NEW s \in CallStates, calls' = Becomes(c, s),
         UNCHANGED masterVars, started' = started
  PROVE  CallsInv' /\ PlacesInv' /\ calls' \subseteq CallRecords
<1> DEFINE f == [d \in calls |-> IF d = c THEN s ELSE d.state]
<1>1. f \in [calls -> CallStates]
  BY DEF CallRecords
<1>2. calls' = Restated(calls, f)
  BY BecomesIsRestated
<1> HIDE DEF f
<1>3. QED BY <1>1, <1>2, RestatedKeeps

\* So does the crash of a worker.
LEMMA CrashKeeps ==
  ASSUME calls \subseteq CallRecords, CallsInv, PlacesInv, NEW w, Crash(w)
  PROVE  CallsInv' /\ PlacesInv' /\ calls' \subseteq CallRecords
<1> DEFINE f == [d \in calls |-> IF d.worker = w /\ d.state \notin {"ok", "failed"}
                                 THEN "failed" ELSE d.state]
<1>1. f \in [calls -> CallStates]
  BY DEF CallRecords, CallStates
<1>2. calls' = Restated(calls, f)
  BY CrashIsRestated
<1>3. UNCHANGED masterVars /\ started' = started
  BY DEF Crash
<1> HIDE DEF f
<1>4. QED BY <1>1, <1>2, <1>3, RestatedKeeps

\* In every phase a worker has at most one call.
LEMMA OneCallPerWorker ==
  ASSUME CallsInv, PlacesInv
  PROVE  \A c, d \in calls : c.worker = d.worker => c = d
BY Zenon DEF CallsInv, PlacesInv, WorkerPlaces

-----------------------------------------------------------------------------
(* schedule() gives a worker a task, or lets it wait *)

\* schedule() ends a round with worker w in one place, in a call or idle.
LEMMA AssignWorkers ==
  ASSUME NEW w \in Workers, NEW qu \in Seq(Nat), NEW idle \in Seq(Workers),
         NEW rest \in SUBSET CallRecords, NEW ahead,
         Scheduling, Assign(w, qu, idle, rest), WorkerPlaces(idle, rest, ahead),
         w \notin ahead, \A i \in DOMAIN idle : idle[i] # w, \A c \in rest : c.worker # w
  PROVE  /\ WorkerPlaces(idleWorkers', calls', ahead)
         /\ idleWorkers' \in Seq(Workers) /\ taskQu' \in Seq(Nat) /\ calls' \subseteq CallRecords
         /\ \A i \in DOMAIN idleWorkers' : idleWorkers'[i] = w \/ \E j \in DOMAIN idle : idleWorkers'[i] = idle[j]
<1>1. CASE qu # <<>>
  <2>1. /\ calls' = rest \cup {Call(Head(qu), w)}
        /\ taskQu' = Tail(qu) /\ idleWorkers' = idle
    BY <1>1, Zenon DEF Assign
  <2>2. Head(qu) \in Nat /\ Tail(qu) \in Seq(Nat)
    BY <1>1
  <2>3. Call(Head(qu), w) \in CallRecords /\ Call(Head(qu), w).worker = w
    BY <2>2 DEF Call, CallRecords, CallStates, Scheduling
  <2> HIDE DEF Call
  <2>4. PICK n : n = Call(Head(qu), w)
    OBVIOUS
  <2>5. WorkerPlaces(idle, rest \cup {n}, ahead)
    BY <2>3, <2>4, Zenon DEF WorkerPlaces
  <2>6. QED BY <2>1, <2>2, <2>3, <2>4, <2>5
<1>2. CASE qu = <<>>
  <2>1. calls' = rest /\ taskQu' = qu /\ idleWorkers' = Append(idle, w)
    BY <1>2, Zenon DEF Assign
  <2>2. PICK next : next \in Seq(Workers) /\ next = Append(idle, w)
    <3>1. Append(idle, w) \in Seq(Workers)
      OBVIOUS
    <3>2. QED BY <3>1, Zenon
  <2>3. /\ DOMAIN next = 1 .. Len(idle) + 1 /\ DOMAIN idle = 1 .. Len(idle)
        /\ next[Len(idle) + 1] = w
        /\ \A i \in 1 .. Len(idle) : next[i] = idle[i]
    BY <2>2
  <2>4. \A i \in DOMAIN next : i = Len(idle) + 1 \/ i \in DOMAIN idle
    BY <2>3
  <2>5. Distinct(next)
    BY <2>3, <2>4, Zenon DEF WorkerPlaces, Distinct
  <2>6. \A i \in DOMAIN next : next[i] = w \/ \E j \in DOMAIN idle : next[i] = idle[j]
    BY <2>3, <2>4, Zenon
  <2>7. WorkerPlaces(next, rest, ahead)
    BY <2>5, <2>6, SMT DEF WorkerPlaces
  <2>8. QED BY <2>1, <2>2, <2>6, <2>7, Zenon
<1>3. QED BY <1>1, <1>2

\* The task it gives out leaves the queue for one call.
LEMMA AssignTasks ==
  ASSUME NEW w \in Workers, NEW qu \in Seq(Nat), NEW idle,
         NEW rest \in SUBSET CallRecords, NEW done, NEW n \in Nat,
         Assign(w, qu, idle, rest), TaskPlaces(qu, rest, done, n)
  PROVE  TaskPlaces(taskQu', calls', done, n)
<1>1. CASE qu # <<>>
  <2>1. calls' = rest \cup {Call(Head(qu), w)} /\ taskQu' = Tail(qu)
    BY <1>1, Zenon DEF Assign
  <2>2. PICK x, t, tl : x = Call(Head(qu), w) /\ t = Head(qu) /\ tl = Tail(qu)
    OBVIOUS
  <2>3. x.task = t
    BY <2>2 DEF Call
  <2>4. /\ DOMAIN tl = 1 .. Len(qu) - 1 /\ DOMAIN qu = 1 .. Len(qu) /\ 1 \in DOMAIN qu
        /\ qu[1] = t
        /\ \A i \in DOMAIN tl : i + 1 \in DOMAIN qu /\ tl[i] = qu[i + 1]
        /\ \A i \in DOMAIN qu : i = 1 \/ (i - 1 \in DOMAIN tl /\ tl[i - 1] = qu[i])
    BY <1>1, <2>2
  <2>5. \A i \in DOMAIN tl : tl[i] # t /\ \E j \in DOMAIN qu : tl[i] = qu[j]
    <3>1. \A i \in DOMAIN tl : i \in Nat /\ i + 1 # 1
      BY <2>4
    <3>2. \A i \in DOMAIN tl : tl[i] # t
      BY <2>4, <3>1 DEF TaskPlaces, Distinct
    <3>3. QED BY <2>4, <3>2, Zenon
  <2>6. Distinct(tl)
    <3>1. \A i, j \in DOMAIN tl : i + 1 = j + 1 => i = j
      BY <2>4
    <3>2. QED BY <2>4, <3>1, SMT DEF TaskPlaces, Distinct
  <2>7. \A u : (\E i \in DOMAIN qu : qu[i] = u) => u = t \/ \E i \in DOMAIN tl : tl[i] = u
    BY <2>4, Zenon
  <2>8. \A c, d \in rest \cup {x} : c.task = d.task => c = d
    <3>1. \A c \in rest : c.task # x.task
      BY <2>3, <2>4, SMT DEF TaskPlaces
    <3>2. QED BY <3>1, Zenon DEF TaskPlaces
  <2>9. \A i \in DOMAIN tl : /\ tl[i] \in 0 .. n - 1 /\ tl[i] \notin done
                             /\ \A c \in rest \cup {x} : c.task # tl[i]
    BY <2>3, <2>5, SMT DEF TaskPlaces
  <2>10. \A c \in rest \cup {x} : c.task \in 0 .. n - 1 /\ c.task \notin done
    BY <2>3, <2>4, Zenon DEF TaskPlaces
  <2>11. \A u \in 0 .. n - 1 : u \in done \/ (\E i \in DOMAIN tl : tl[i] = u) \/ \E c \in rest \cup {x} : c.task = u
    BY <2>3, <2>7, Zenon DEF TaskPlaces
  <2>12. TaskPlaces(tl, rest \cup {x}, done, n)
    BY <2>6, <2>8, <2>9, <2>10, <2>11, Zenon DEF TaskPlaces
  <2>13. QED BY <2>1, <2>2, <2>12, Zenon
<1>2. CASE qu = <<>>
  BY <1>2, Zenon DEF Assign
<1>3. QED BY <1>1, <1>2

\* The only call it adds is one that was just sent.
LEMMA AssignCalls ==
  ASSUME NEW w, NEW qu \in Seq(Nat), NEW idle, NEW rest, Assign(w, qu, idle, rest)
  PROVE  /\ rest \subseteq calls'
         /\ \A d \in calls' : d \in rest \/ /\ d.state = "sent" /\ d.worker = w
                                            /\ d.phase = phase /\ d.task # Shutdown_
<1>1. CASE qu # <<>>
  <2>1. PICK x : x = Call(Head(qu), w)
    OBVIOUS
  <2>2. x.state = "sent" /\ x.worker = w /\ x.phase = phase /\ x.task = Head(qu)
    BY <2>1 DEF Call
  <2>3. Head(qu) # Shutdown_
    BY <1>1 DEF Shutdown_
  <2>4. calls' = rest \cup {x}
    BY <1>1, <2>1, Zenon DEF Assign
  <2>5. QED BY <2>2, <2>3, <2>4, Zenon
<1>2. CASE qu = <<>>
  BY <1>2, Zenon DEF Assign
<1>3. QED BY <1>1, <1>2

SchedTypes == idleWorkers \in Seq(Workers) /\ taskQu \in Seq(Nat) /\ calls \subseteq CallRecords

\* What schedule() keeps when it ends a round of its loop: w is the worker it has in
\* hand, qu, idle and rest what it holds beside it.
LEMMA ScheduleKeeps ==
  ASSUME NEW w \in started, NEW qu \in Seq(Nat), NEW idle \in Seq(Workers),
         NEW rest \in SUBSET calls, NEW ahead, NEW done, NEW n \in Nat,
         calls \subseteq CallRecords, CallsInv, ServingInv, Scheduling,
         UNCHANGED <<phase, workers, killed, started, concurrent>>,
         Assign(w, qu, idle, rest), WorkerPlaces(idle, rest, ahead), TaskPlaces(qu, rest, done, n),
         w \notin ahead, \A i \in DOMAIN idle : idle[i] # w /\ idle[i] \in started,
         \A c \in rest : c.worker # w, \A c \in calls \ rest : c.state \notin Serving,
         Ahead' = ahead, doneMap' = done, Tasks(phase) = n,
         qu # <<>> /\ Tail(qu) # <<>> => idle = <<>>
  PROVE  CallsInv' /\ PlacesInv' /\ SchedTypes' /\ ServingInv' /\ NoIdleWorkerWhileTaskWaits'
<1>1. w \in Workers /\ rest \in SUBSET CallRecords /\ phase # "kill"
  BY DEF CallsInv, Scheduling, mapPhase, reducePhase
<1>2. /\ WorkerPlaces(idleWorkers', calls', ahead)
      /\ idleWorkers' \in Seq(Workers) /\ taskQu' \in Seq(Nat) /\ calls' \subseteq CallRecords
      /\ \A i \in DOMAIN idleWorkers' : idleWorkers'[i] = w \/ \E j \in DOMAIN idle : idleWorkers'[i] = idle[j]
  <2>1. \A i \in DOMAIN idle : idle[i] # w
    OBVIOUS
  <2>2. QED BY <1>1, <2>1, AssignWorkers
<1>3. TaskPlaces(taskQu', calls', done, n)
  BY <1>1, AssignTasks, Zenon
<1>4. /\ rest \subseteq calls'
      /\ \A d \in calls' : d \in rest \/ /\ d.state = "sent" /\ d.worker = w
                                         /\ d.phase = phase /\ d.task # Shutdown_
  BY AssignCalls
<1>5. Scheduling' /\ Tasks(phase)' = n
  BY DEF Scheduling, Tasks
<1>6. CallsInv'
  <2>1. \A d \in calls' : d.worker \in started /\ d.phase = phase /\ (d.task = Shutdown_ <=> phase = "kill")
    BY <1>1, <1>4, Zenon DEF CallsInv
  <2>2. \A i \in DOMAIN idleWorkers' : idleWorkers'[i] \in started
    BY <1>2, Zenon
  <2>3. QED BY <1>5, <2>1, <2>2, Zenon DEF CallsInv, Distinct
<1>7. PlacesInv'
  BY <1>2, <1>3, <1>5, Zenon DEF PlacesInv
<1>8. ServingInv'
  <2>1. \A v : (\E c \in calls' : c.worker = v /\ c.state \in Serving)
               <=> \E c \in calls : c.worker = v /\ c.state \in Serving
    <3>1. \A d \in calls' : d.state \in Serving => d \in calls
      BY <1>4, SMT DEF Serving
    <3>2. \A d \in calls : d.state \in Serving => d \in calls'
      BY <1>4, Zenon
    <3>3. QED BY <3>1, <3>2, Zenon
  <2>2. \A d \in calls' : d.state \in Serving => d.task # Shutdown_
    BY <1>4, Zenon DEF ServingInv
  <2>3. QED BY <2>1, <2>2, Zenon DEF ServingInv
<1>9. NoIdleWorkerWhileTaskWaits'
  BY Zenon DEF NoIdleWorkerWhileTaskWaits, Assign
<1>10. QED BY <1>2, <1>6, <1>7, <1>8, <1>9, Zenon DEF SchedTypes

-----------------------------------------------------------------------------
(* What schedule() takes in hand *)

\* The worker of a call that ended.
LEMMA WorkerOfCall ==
  ASSUME NEW idle, NEW cs, NEW ahead, NEW c \in cs, WorkerPlaces(idle, cs, ahead)
  PROVE  /\ WorkerPlaces(idle, cs \ {c}, ahead)
         /\ c.worker \notin ahead
         /\ \A i \in DOMAIN idle : idle[i] # c.worker
         /\ \A d \in cs \ {c} : d.worker # c.worker
BY Zenon DEF WorkerPlaces

\* The first idle worker.
LEMMA FirstIdle ==
  ASSUME NEW idle \in Seq(Workers), NEW cs, NEW ahead, WorkerPlaces(idle, cs, ahead), idle # <<>>
  PROVE  /\ WorkerPlaces(Tail(idle), cs, ahead)
         /\ Tail(idle) \in Seq(Workers)
         /\ Head(idle) \notin ahead /\ \E j \in DOMAIN idle : Head(idle) = idle[j]
         /\ \A i \in DOMAIN Tail(idle) : Tail(idle)[i] # Head(idle) /\ \E j \in DOMAIN idle : Tail(idle)[i] = idle[j]
         /\ \A d \in cs : d.worker # Head(idle)
<1>1. PICK h, tl : h = Head(idle) /\ tl = Tail(idle)
  OBVIOUS
<1>2. /\ 1 \in DOMAIN idle /\ idle[1] = h
      /\ tl \in Seq(Workers)
      /\ \A i \in DOMAIN tl : i \in Nat /\ i # 0 /\ i + 1 \in DOMAIN idle /\ tl[i] = idle[i + 1]
  BY <1>1
<1>3. Distinct(tl) /\ \A i \in DOMAIN tl : tl[i] # h
  <2>1. \A i, j \in DOMAIN tl : i + 1 # 1 /\ (i + 1 = j + 1 => i = j)
    BY <1>2
  <2>2. QED BY <1>2, <2>1, SMT DEF WorkerPlaces, Distinct
<1>4. \A i \in DOMAIN tl : \E j \in DOMAIN idle : tl[i] = idle[j]
  BY <1>2, Zenon
<1>5. h \notin ahead /\ \A d \in cs : d.worker # h
  BY <1>2, SMT DEF WorkerPlaces
<1>6. WorkerPlaces(tl, cs, ahead)
  BY <1>3, <1>4, SMT DEF WorkerPlaces
<1>7. QED BY <1>1, <1>2, <1>3, <1>4, <1>5, <1>6, Zenon

\* The task of a call that succeeded.
LEMMA TaskDone ==
  ASSUME NEW qu, NEW cs, NEW done, NEW n, NEW c \in cs, TaskPlaces(qu, cs, done, n)
  PROVE  TaskPlaces(qu, cs \ {c}, done \cup {c.task}, n)
<1>1. \A i \in DOMAIN qu : qu[i] \in 0 .. n - 1 /\ qu[i] \notin done \cup {c.task} /\ \A d \in cs \ {c} : d.task # qu[i]
  BY Zenon DEF TaskPlaces
<1>2. \A d \in cs \ {c} : d.task \in 0 .. n - 1 /\ d.task \notin done \cup {c.task}
  BY Zenon DEF TaskPlaces
<1>3. \A t \in 0 .. n - 1 : t \in done \cup {c.task} \/ (\E i \in DOMAIN qu : qu[i] = t) \/ \E d \in cs \ {c} : d.task = t
  BY Zenon DEF TaskPlaces
<1>4. done \cup {c.task} \subseteq 0 .. n - 1
  BY Zenon DEF TaskPlaces
<1>5. QED BY <1>1, <1>2, <1>3, <1>4, Zenon DEF TaskPlaces

\* The task of a call that failed.
LEMMA TaskBack ==
  ASSUME NEW qu \in Seq(Nat), NEW cs, NEW done, NEW n, NEW c \in cs, c.task \in Nat, TaskPlaces(qu, cs, done, n)
  PROVE  TaskPlaces(Append(qu, c.task), cs \ {c}, done, n)
<1>1. PICK t, next : t = c.task /\ next = Append(qu, c.task)
  OBVIOUS
<1>2. /\ \A i \in DOMAIN next : i = Len(qu) + 1 \/ i \in DOMAIN qu
      /\ Len(qu) + 1 \in DOMAIN next /\ next[Len(qu) + 1] = t
      /\ \A i \in DOMAIN qu : i \in DOMAIN next /\ next[i] = qu[i]
  BY <1>1
<1>3. Distinct(next)
  <2>1. \A i \in DOMAIN qu : qu[i] # t
    BY <1>1, Zenon DEF TaskPlaces
  <2>2. QED BY <1>2, <2>1, SMT DEF TaskPlaces, Distinct
<1>4. \A d \in cs \ {c} : d.task # t /\ d.task \in 0 .. n - 1 /\ d.task \notin done
  BY <1>1, Zenon DEF TaskPlaces
<1>5. t \in 0 .. n - 1 /\ t \notin done
  BY <1>1, Zenon DEF TaskPlaces
<1>6. \A i \in DOMAIN next : next[i] \in 0 .. n - 1 /\ next[i] \notin done /\ \A d \in cs \ {c} : d.task # next[i]
  <2>1. \A i \in DOMAIN next : next[i] = t \/ \E j \in DOMAIN qu : next[i] = qu[j]
    BY <1>2, SMT
  <2>2. QED BY <1>4, <1>5, <2>1, SMT DEF TaskPlaces
<1>7. \A u \in 0 .. n - 1 : u \in done \/ (\E i \in DOMAIN next : next[i] = u) \/ \E d \in cs \ {c} : d.task = u
  <2>1. \A u : (\E i \in DOMAIN qu : qu[i] = u) \/ u = t => \E i \in DOMAIN next : next[i] = u
    BY <1>2, Zenon
  <2>2. QED BY <1>1, <2>1, Zenon DEF TaskPlaces
<1>8. TaskPlaces(next, cs \ {c}, done, n)
  BY <1>3, <1>4, <1>6, <1>7, Zenon DEF TaskPlaces
<1>9. QED BY <1>1, <1>8, Zenon

-----------------------------------------------------------------------------
(* The steps of schedule() *)

ScheduleInv == TypeOK /\ CallsInv /\ PlacesInv /\ ServingInv /\ NoIdleWorkerWhileTaskWaits
ScheduleInvNext == CallsInv' /\ PlacesInv' /\ SchedTypes' /\ ServingInv' /\ NoIdleWorkerWhileTaskWaits'

\* What the steps of schedule() use of the invariants.
LEMMA ScheduleFacts ==
  ASSUME ScheduleInv, Scheduling
  PROVE  /\ calls \subseteq CallRecords /\ idleWorkers \in Seq(Workers) /\ taskQu \in Seq(Nat)
         /\ forwarded \in Nat /\ registerChan \subseteq 1 .. forwarded /\ forwarded <= Len(workers)
         /\ workers \in Seq(Workers)
         /\ WorkerPlaces(idleWorkers, calls, Ahead) /\ TaskPlaces(taskQu, calls, doneMap, Tasks(phase))
         /\ Tasks(phase) \in Nat
         /\ \A c \in calls : c.task \in Nat /\ c.worker \in started
         /\ \A i \in DOMAIN idleWorkers : idleWorkers[i] \in started
<1>1. /\ calls \subseteq CallRecords /\ idleWorkers \in Seq(Workers) /\ taskQu \in Seq(Nat)
      /\ forwarded \in Nat /\ registerChan \subseteq 1 .. forwarded /\ forwarded <= Len(workers)
      /\ workers \in Seq(Workers)
  BY DEF ScheduleInv, TypeOK, CallRecords, CallStates
<1>2. WorkerPlaces(idleWorkers, calls, Ahead) /\ TaskPlaces(taskQu, calls, doneMap, Tasks(phase))
  BY Zenon DEF ScheduleInv, PlacesInv
<1>3. Tasks(phase) \in Nat
  BY JobAssumption DEF Tasks
<1>4. \A c \in calls : c.task \in Nat
  <2>1. \A c \in calls : c.task \in 0 .. Tasks(phase) - 1
    BY <1>2, Zenon DEF TaskPlaces
  <2>2. QED BY <1>3, <2>1
<1>5. QED BY <1>1, <1>2, <1>3, <1>4, Zenon DEF ScheduleInv, CallsInv

\* schedule() receives a worker from registerChan.
LEMMA RegisteredStep ==
  ASSUME ScheduleInv, ScheduleRegistered
  PROVE  ScheduleInvNext
<1>1. PICK i \in registerChan : registerChan' = registerChan \ {i} /\ Assign(workers[i], taskQu, idleWorkers, calls)
  BY Zenon DEF ScheduleRegistered
<1>2. Scheduling /\ UNCHANGED <<phase, workers, forwarded, doneMap, killed, started, concurrent>>
  BY DEF ScheduleRegistered, workerVars
<1>3. PICK w : w = workers[i]
  OBVIOUS
<1>4. PICK ahead : ahead = Ahead'
  OBVIOUS
<1>5. i \in DOMAIN workers /\ i \in 1 .. forwarded
  BY <1>2, ScheduleFacts
<1>6. w \in started /\ w \in Ahead
  BY <1>3, <1>5, Zenon DEF ScheduleInv, CallsInv, Ahead
<1>7. ahead \subseteq Ahead /\ w \notin ahead
  <2>1. ahead = {workers[j] : j \in (registerChan \ {i}) \cup (forwarded + 1 .. Len(workers))}
    BY <1>1, <1>2, <1>4 DEF Ahead
  <2>2. \A j \in (registerChan \ {i}) \cup (forwarded + 1 .. Len(workers)) : j \in DOMAIN workers /\ j # i
    BY <1>2, <1>5, ScheduleFacts
  <2>3. w \notin ahead
    BY <1>3, <1>5, <2>1, <2>2, Zenon DEF ScheduleInv, CallsInv, Distinct
  <2>4. ahead \subseteq Ahead
    BY <2>1, Zenon DEF Ahead
  <2>5. QED BY <2>3, <2>4
<1>8. WorkerPlaces(idleWorkers, calls, ahead)
  BY <1>2, <1>7, ScheduleFacts, Zenon DEF WorkerPlaces
<1>9. /\ \A j \in DOMAIN idleWorkers : idleWorkers[j] # w /\ idleWorkers[j] \in started
      /\ \A c \in calls : c.worker # w
  BY <1>2, <1>6, ScheduleFacts, Zenon DEF WorkerPlaces
<1>10. taskQu # <<>> => idleWorkers = <<>>
  BY DEF ScheduleInv, NoIdleWorkerWhileTaskWaits
<1>11. CallsInv /\ ServingInv
  BY DEF ScheduleInv
<1>12. PICK qu, idle, rest, done, n : qu = taskQu /\ idle = idleWorkers /\ rest = calls /\ done = doneMap /\ n = Tasks(phase)
  OBVIOUS
<1>13. QED BY <1>1, <1>2, <1>3, <1>4, <1>6, <1>7, <1>8, <1>9, <1>10, <1>11, <1>12, ScheduleFacts, ScheduleKeeps DEF ScheduleInvNext

\* The call succeeded, and the phase goes on.
LEMMA OkStep ==
  ASSUME ScheduleInv, Scheduling, NEW c \in calls, Succeeded(c),
         doneMap' = doneMap \cup {c.task}, Assign(c.worker, taskQu, idleWorkers, calls \ {c}),
         UNCHANGED <<phase, workers, forwarded, registerChan, killed, started, concurrent>>
  PROVE  ScheduleInvNext
<1>1. PICK w, qu, idle, rest, done, n, ahead :
        /\ w = c.worker /\ qu = taskQu /\ idle = idleWorkers /\ rest = calls \ {c}
        /\ done = doneMap \cup {c.task} /\ n = Tasks(phase) /\ ahead = Ahead
  OBVIOUS
<1>2. Ahead' = ahead
  BY <1>1 DEF Ahead
<1>3. /\ WorkerPlaces(idle, rest, ahead) /\ w \notin ahead /\ w \in started
      /\ \A i \in DOMAIN idle : idle[i] # w /\ idle[i] \in started
      /\ \A d \in rest : d.worker # w
  BY <1>1, ScheduleFacts, WorkerOfCall, Zenon
<1>4. TaskPlaces(qu, rest, done, n)
  BY <1>1, ScheduleFacts, TaskDone, Zenon
<1>5. \A d \in calls \ rest : d.state \notin Serving
  BY <1>1 DEF Succeeded, Serving
<1>6. qu # <<>> => idle = <<>>
  BY <1>1 DEF ScheduleInv, NoIdleWorkerWhileTaskWaits
<1>7. CallsInv /\ ServingInv
  BY DEF ScheduleInv
<1>8. rest \in SUBSET calls /\ doneMap' = done /\ Tasks(phase) = n /\ n \in Nat
  BY <1>1, ScheduleFacts, Zenon
<1>9. Assign(w, qu, idle, rest) /\ qu \in Seq(Nat) /\ idle \in Seq(Workers) /\ calls \subseteq CallRecords
  BY <1>1, ScheduleFacts, Zenon
<1>10. QED BY <1>2, <1>3, <1>4, <1>5, <1>6, <1>7, <1>8, <1>9, ScheduleKeeps DEF ScheduleInvNext

\* A call failed: its task is queued again, its worker dropped, and an idle one used.
LEMMA FailedStep ==
  ASSUME ScheduleInv, ScheduleFailed
  PROVE  ScheduleInvNext
<1>1. PICK c \in calls : c.state = "failed" /\ AfterFailure(c, Requeued(c.task))
  BY Zenon DEF ScheduleFailed
<1>2. Scheduling /\ UNCHANGED <<phase, workers, forwarded, registerChan, doneMap, killed, started, concurrent>>
  BY DEF ScheduleFailed, workerVars
<1>3. PICK qu, rest, done, n, ahead :
        /\ qu = Append(taskQu, c.task) /\ rest = calls \ {c}
        /\ done = doneMap /\ n = Tasks(phase) /\ ahead = Ahead
  OBVIOUS
<1>4. /\ Ahead' = ahead /\ Scheduling' /\ Tasks(phase)' = n
      /\ doneMap' = done /\ Tasks(phase) = n
  BY <1>2, <1>3 DEF Ahead, Scheduling, Tasks
<1>5. calls \subseteq CallRecords /\ n \in Nat /\ qu \in Seq(Nat) /\ rest \in SUBSET calls
  BY <1>2, <1>3, ScheduleFacts
<1>6. WorkerPlaces(idleWorkers, rest, ahead)
  BY <1>2, <1>3, ScheduleFacts, WorkerOfCall, Zenon
<1>7. TaskPlaces(qu, rest, done, n)
  BY <1>2, <1>3, ScheduleFacts, TaskBack, Zenon
<1>8. \A d \in calls \ rest : d.state \notin Serving
  BY <1>1, <1>3 DEF Serving
<1>9. CallsInv /\ ServingInv
  BY DEF ScheduleInv
<1>10. CASE idleWorkers # <<>>
  <2>1. PICK w, idle : w = Head(idleWorkers) /\ idle = Tail(idleWorkers)
    OBVIOUS
  <2>2. Assign(w, qu, idle, rest)
    BY <1>1, <1>3, <1>10, <2>1, Zenon DEF AfterFailure, Requeued
  <2>3. /\ WorkerPlaces(idle, rest, ahead) /\ idle \in Seq(Workers) /\ w \notin ahead
        /\ \E j \in DOMAIN idleWorkers : w = idleWorkers[j]
        /\ \A i \in DOMAIN idle : idle[i] # w /\ \E j \in DOMAIN idleWorkers : idle[i] = idleWorkers[j]
        /\ \A d \in rest : d.worker # w
    BY <1>2, <1>6, <1>10, <2>1, ScheduleFacts, FirstIdle
  <2>4. w \in started /\ \A i \in DOMAIN idle : idle[i] # w /\ idle[i] \in started
    BY <1>2, <2>3, ScheduleFacts, Zenon
  <2>5. Tail(qu) = <<>>
    <3>1. taskQu = <<>>
      BY <1>10, Zenon DEF ScheduleInv, NoIdleWorkerWhileTaskWaits
    <3>2. c.task \in Nat
      BY <1>2, ScheduleFacts
    <3>3. QED BY <1>3, <3>1, <3>2
  <2>6. UNCHANGED <<phase, workers, killed, started, concurrent>> /\ Scheduling
    BY <1>2
  <2>7. QED BY <1>4, <1>5, <1>7, <1>8, <1>9, <2>2, <2>3, <2>4, <2>5, <2>6, ScheduleKeeps DEF ScheduleInvNext
<1>11. CASE idleWorkers = <<>>
  <2>1. calls' = rest /\ taskQu' = qu /\ idleWorkers' = idleWorkers
    BY <1>1, <1>3, <1>11, Zenon DEF AfterFailure, Requeued
  <2>2. PlacesInv'
    BY <1>4, <1>6, <1>7, <2>1, Zenon DEF PlacesInv
  <2>3. CallsInv'
    BY <1>2, <1>4, <1>5, <1>9, <2>1, Zenon DEF CallsInv, Distinct
  <2>4. SchedTypes'
    BY <1>2, <1>5, <2>1, ScheduleFacts DEF SchedTypes
  <2>5. ServingInv'
    <3>1. \A v : (\E d \in calls' : d.worker = v /\ d.state \in Serving)
                 <=> \E d \in calls : d.worker = v /\ d.state \in Serving
      BY <1>5, <1>8, <2>1, Zenon
    <3>2. \A d \in calls' : d.state \in Serving => d.task # Shutdown_
      BY <1>5, <1>9, <2>1, Zenon DEF ServingInv
    <3>3. QED BY <1>2, <1>9, <3>1, <3>2, Zenon DEF ServingInv
  <2>6. NoIdleWorkerWhileTaskWaits'
    BY <1>11, <2>1 DEF NoIdleWorkerWhileTaskWaits
  <2>7. QED BY <2>2, <2>3, <2>4, <2>5, <2>6, Zenon DEF ScheduleInvNext
<1>12. QED BY <1>10, <1>11

\* When schedule() returns, all tasks are done and no call of the phase is out.
LEMMA AllDoneMeans ==
  ASSUME ScheduleInv, Scheduling, NEW c \in calls, AllDone(doneMap \cup {c.task})
  PROVE  /\ doneMap \cup {c.task} = 0 .. Tasks(phase) - 1
         /\ calls \ {c} = {}
<1>1. PICK n, done : n = Tasks(phase) /\ done = doneMap \cup {c.task}
  OBVIOUS
<1>2. TaskPlaces(taskQu, calls \ {c}, done, n) /\ n \in Nat
  BY <1>1, ScheduleFacts, TaskDone, Zenon
<1>3. IsFiniteSet(0 .. n - 1) /\ Cardinality(0 .. n - 1) = n
  BY <1>2, FS_Interval
<1>4. done \subseteq 0 .. n - 1 /\ Cardinality(done) = n
  BY <1>1, <1>2, Zenon DEF TaskPlaces, AllDone
<1>5. done = 0 .. n - 1
  BY <1>3, <1>4, FS_Subset
<1>6. \A d \in calls \ {c} : FALSE
  BY <1>2, <1>5, Zenon DEF TaskPlaces
<1>7. QED BY <1>1, <1>5, <1>6, Zenon

\* The queue of a new phase.
LEMMA NewQueue ==
  ASSUME NEW p
  PROVE  /\ TaskPlaces(TaskQueue(p), {}, {}, Tasks(p))
         /\ TaskQueue(p) \in Seq(Nat)
<1>1. PICK n \in Nat : n = Tasks(p)
  BY JobAssumption DEF Tasks
<1>2. PICK qu : qu = TaskQueue(p)
  OBVIOUS
<1>3. qu \in Seq(Nat) /\ DOMAIN qu = 1 .. n /\ \A i \in 1 .. n : qu[i] = i - 1
  BY <1>1, <1>2 DEF TaskQueue
<1>4. \A t \in 0 .. n - 1 : t + 1 \in 1 .. n /\ qu[t + 1] = t
  BY <1>3
<1>5. Distinct(qu) /\ \A i \in DOMAIN qu : qu[i] \in 0 .. n - 1
  BY <1>3 DEF Distinct
<1>6. \A t \in 0 .. n - 1 : \E i \in DOMAIN qu : qu[i] = t
  BY <1>3, <1>4, Zenon
<1>7. TaskPlaces(qu, {}, {}, n)
  BY <1>5, <1>6, Zenon DEF TaskPlaces
<1>8. QED BY <1>1, <1>2, <1>3, <1>7, Zenon

\* The last task succeeded: schedule() returns, and run() begins the next phase.
LEMMA LastStep ==
  ASSUME ScheduleInv, Scheduling, NEW c \in calls, Succeeded(c), AllDone(doneMap \cup {c.task}),
         calls' = calls \ {c}, NextPhase, UNCHANGED <<workers, killed, started, concurrent>>
  PROVE  ScheduleInvNext
<1>1. calls' = {}
  BY AllDoneMeans, Zenon
<1>2. idleWorkers' = <<>> /\ doneMap' = {} /\ phase' \in {reducePhase, "kill"}
  BY DEF NextPhase
<1>3. /\ phase' = reducePhase => taskQu' = TaskQueue(reducePhase)
      /\ phase' = "kill" => taskQu' = <<>>
  BY DEF NextPhase, mapPhase, reducePhase
<1>4. Scheduling' <=> phase' = reducePhase
  BY <1>2 DEF Scheduling, mapPhase, reducePhase
<1>5. CallsInv'
  BY <1>1, <1>2, <1>3, <1>4 DEF ScheduleInv, CallsInv, Distinct
<1>6. PlacesInv'
  <2> SUFFICES ASSUME Scheduling'
               PROVE  WorkerPlaces(idleWorkers', calls', Ahead') /\ TaskPlaces(taskQu', calls', doneMap', Tasks(phase'))
    BY Zenon DEF PlacesInv
  <2>1. TaskPlaces(taskQu', calls', doneMap', Tasks(phase'))
    BY <1>1, <1>2, <1>3, <1>4, NewQueue, Zenon
  <2>2. DOMAIN idleWorkers' = {}
    BY <1>2
  <2>3. QED BY <1>1, <2>1, <2>2, Zenon DEF WorkerPlaces, Distinct
<1>7. SchedTypes'
  <2>1. taskQu' \in Seq(Nat)
    <3>1. <<>> \in Seq(Nat)
      OBVIOUS
    <3>2. QED BY <1>2, <1>3, <3>1, NewQueue, Zenon
  <2>2. idleWorkers' \in Seq(Workers)
    BY <1>2
  <2>3. QED BY <1>1, <2>1, <2>2, Zenon DEF SchedTypes
<1>8. ServingInv'
  <2>1. \A d \in calls : d.state \notin Serving
    BY <1>1 DEF Succeeded, Serving
  <2>2. \A w \in Workers : concurrent[w] = 0
    BY <2>1, Zenon DEF ScheduleInv, ServingInv
  <2>3. QED BY <1>1, <2>2, Zenon DEF ServingInv
<1>9. NoIdleWorkerWhileTaskWaits'
  BY <1>2 DEF NoIdleWorkerWhileTaskWaits
<1>10. QED BY <1>5, <1>6, <1>7, <1>8, <1>9, Zenon DEF ScheduleInvNext

\* schedule() receives the result of a call that succeeded.
LEMMA OkOrLastStep ==
  ASSUME ScheduleInv, ScheduleOk
  PROVE  ScheduleInvNext
<1>1. Scheduling /\ UNCHANGED <<workers, killed, started, concurrent>>
  BY DEF ScheduleOk, workerVars
<1>2. PICK c \in calls :
        /\ Succeeded(c)
        /\ \/ AllDone(doneMap \cup {c.task}) /\ calls' = calls \ {c} /\ NextPhase
           \/ /\ doneMap' = doneMap \cup {c.task}
              /\ Assign(c.worker, taskQu, idleWorkers, calls \ {c})
              /\ UNCHANGED <<phase, registerChan, forwarded>>
  BY Zenon DEF ScheduleOk
<1>3. CASE AllDone(doneMap \cup {c.task}) /\ calls' = calls \ {c} /\ NextPhase
  BY <1>1, <1>2, <1>3, LastStep, Zenon
<1>4. CASE /\ doneMap' = doneMap \cup {c.task}
           /\ Assign(c.worker, taskQu, idleWorkers, calls \ {c})
           /\ UNCHANGED <<phase, registerChan, forwarded>>
  BY <1>1, <1>2, <1>4, OkStep, Zenon
<1>5. QED BY <1>2, <1>3, <1>4

-----------------------------------------------------------------------------
(* The calls a worker serves *)

\* The calls of Becomes(c, s): c in its new state, and the others.
LEMMA BecomesCalls ==
  ASSUME calls \subseteq CallRecords, NEW c \in calls, NEW s \in CallStates, calls' = Becomes(c, s)
  PROVE  \E d \in calls' : /\ SameButState(c, d) /\ d.state = s
                           /\ \A e \in calls' : e = d \/ (e \in calls /\ e # c)
                           /\ \A e \in calls : e = c \/ e \in calls'
<1>1. PICK d : d = [c EXCEPT !.state = s]
  OBVIOUS
<1>2. SameButState(c, d) /\ d.state = s
  BY <1>1 DEF CallRecords, SameButState
<1>3. calls' = (calls \ {c}) \cup {d}
  BY <1>1, Zenon DEF Becomes
<1>4. QED BY <1>2, <1>3, Zenon

\* A change outside the handler of DoTask.
LEMMA QuietBecomes ==
  ASSUME calls \subseteq CallRecords, ServingInv, NEW c \in calls, NEW s \in CallStates,
         c.state \notin Serving, s \notin Serving, calls' = Becomes(c, s), concurrent' = concurrent
  PROVE  ServingInv'
<1>1. \A d \in calls' : d.state \in Serving => d \in calls
  BY BecomesCalls, Zenon
<1>2. \A d \in calls : d.state \in Serving => d \in calls'
  BY BecomesCalls, Zenon
<1>3. \A v : (\E d \in calls' : d.worker = v /\ d.state \in Serving)
             <=> \E d \in calls : d.worker = v /\ d.state \in Serving
  BY <1>1, <1>2, Zenon
<1>4. QED BY <1>1, <1>3, Zenon DEF ServingInv

\* DoTask begins.
LEMMA ServingBegins ==
  ASSUME calls \subseteq CallRecords, CallsInv, PlacesInv, ServingInv, concurrent \in [Workers -> Nat],
         NEW c \in calls, NEW s \in Serving, c.state \notin Serving, c.task # Shutdown_,
         calls' = Becomes(c, s), concurrent' = [concurrent EXCEPT ![c.worker] = @ + 1]
  PROVE  ServingInv' /\ concurrent' \in [Workers -> Nat]
<1>1. s \in CallStates /\ c.worker \in Workers
  BY DEF Serving, CallStates, CallRecords
<1>2. PICK d \in calls' : /\ SameButState(c, d) /\ d.state = s
                          /\ \A e \in calls' : e = d \/ (e \in calls /\ e # c)
                          /\ \A e \in calls : e = c \/ e \in calls'
  BY <1>1, BecomesCalls
<1>3. \A e \in calls : e.worker = c.worker => e = c
  BY OneCallPerWorker, Zenon
<1>4. concurrent[c.worker] = 0
  BY <1>1, <1>3, Zenon DEF ServingInv
<1>5. concurrent' \in [Workers -> Nat] /\ concurrent'[c.worker] = 1
      /\ \A v \in Workers : v # c.worker => concurrent'[v] = concurrent[v]
  BY <1>1, <1>4
<1>6. \A v \in Workers : v # c.worker =>
         ((\E e \in calls' : e.worker = v /\ e.state \in Serving) <=> \E e \in calls : e.worker = v /\ e.state \in Serving)
  BY <1>2, Zenon DEF SameButState
<1>7. \E e \in calls' : e.worker = c.worker /\ e.state \in Serving
  BY <1>2, Zenon DEF SameButState
<1>8. \A v \in Workers : concurrent'[v] = IF \E e \in calls' : e.worker = v /\ e.state \in Serving THEN 1 ELSE 0
  BY <1>5, <1>6, <1>7, Zenon DEF ServingInv
<1>9. \A e \in calls' : e.state \in Serving => e.task # Shutdown_
  BY <1>2, Zenon DEF ServingInv, SameButState
<1>10. QED BY <1>5, <1>8, <1>9, Zenon DEF ServingInv

\* DoTask ends.
LEMMA ServingEnds ==
  ASSUME calls \subseteq CallRecords, CallsInv, PlacesInv, ServingInv, concurrent \in [Workers -> Nat],
         NEW c \in calls, c.state \in Serving,
         calls' = Becomes(c, "ok"), concurrent' = [concurrent EXCEPT ![c.worker] = @ - 1]
  PROVE  ServingInv' /\ concurrent' \in [Workers -> Nat]
<1>1. "ok" \in CallStates /\ "ok" \notin Serving /\ c.worker \in Workers
  BY DEF Serving, CallStates, CallRecords
<1>2. PICK d \in calls' : /\ SameButState(c, d) /\ d.state = "ok"
                          /\ \A e \in calls' : e = d \/ (e \in calls /\ e # c)
                          /\ \A e \in calls : e = c \/ e \in calls'
  BY <1>1, BecomesCalls
<1>3. \A e \in calls : e.worker = c.worker => e = c
  BY OneCallPerWorker, Zenon
<1>4. concurrent[c.worker] = 1
  BY <1>1, Zenon DEF ServingInv
<1>5. concurrent' \in [Workers -> Nat] /\ concurrent'[c.worker] = 0
      /\ \A v \in Workers : v # c.worker => concurrent'[v] = concurrent[v]
  BY <1>1, <1>4
<1>6. \A v \in Workers : v # c.worker =>
         ((\E e \in calls' : e.worker = v /\ e.state \in Serving) <=> \E e \in calls : e.worker = v /\ e.state \in Serving)
  BY <1>1, <1>2, Zenon DEF SameButState
<1>7. ~\E e \in calls' : e.worker = c.worker /\ e.state \in Serving
  BY <1>1, <1>2, <1>3, Zenon DEF SameButState
<1>8. \A v \in Workers : concurrent'[v] = IF \E e \in calls' : e.worker = v /\ e.state \in Serving THEN 1 ELSE 0
  BY <1>5, <1>6, <1>7, Zenon DEF ServingInv
<1>9. \A e \in calls' : e.state \in Serving => e.task # Shutdown_
  BY <1>1, <1>2, Zenon DEF ServingInv, SameButState
<1>10. QED BY <1>5, <1>8, <1>9, Zenon DEF ServingInv

\* A crash ends all calls of the worker.
LEMMA ServingCrash ==
  ASSUME calls \subseteq CallRecords, ServingInv, concurrent \in [Workers -> Nat], NEW w \in Workers, Crash(w)
  PROVE  ServingInv' /\ concurrent' \in [Workers -> Nat]
<1> DEFINE f == [d \in calls |-> IF d.worker = w /\ d.state \notin {"ok", "failed"} THEN "failed" ELSE d.state]
<1>1. f \in [calls -> CallStates]
  BY DEF CallRecords, CallStates
<1>2. calls' = Restated(calls, f)
  BY CrashIsRestated
<1>3. \A c \in calls : /\ c.worker = w => f[c] \notin Serving
                       /\ c.worker # w => f[c] = c.state
                       /\ f[c] \in Serving => c.state \in Serving
  BY DEF Serving
<1> HIDE DEF f
<1>4. /\ \A d \in calls' : \E c \in calls : SameButState(c, d) /\ d.state = f[c]
      /\ \A c \in calls : \E d \in calls' : SameButState(c, d) /\ d.state = f[c]
  <2>1. PICK cs \in SUBSET CallRecords : cs = calls
    BY Zenon
  <2>2. f \in [cs -> CallStates] /\ calls' = Restated(cs, f)
    BY <1>1, <1>2, <2>1, Zenon
  <2>3. /\ \A d \in Restated(cs, f) : \E c \in cs : SameButState(c, d) /\ d.state = f[c]
        /\ \A c \in cs : \E d \in Restated(cs, f) : SameButState(c, d) /\ d.state = f[c]
    BY <2>2, RestatedStates
  <2>4. QED BY <2>1, <2>2, <2>3, Zenon
<1>5. /\ concurrent' \in [Workers -> Nat] /\ concurrent'[w] = 0
      /\ \A v \in Workers : v # w => concurrent'[v] = concurrent[v]
  BY DEF Crash
<1>6. \A v \in Workers : v # w =>
         ((\E e \in calls' : e.worker = v /\ e.state \in Serving) <=> \E e \in calls : e.worker = v /\ e.state \in Serving)
  BY <1>3, <1>4, SMT DEF SameButState
<1>7. ~\E e \in calls' : e.worker = w /\ e.state \in Serving
  BY <1>3, <1>4, SMT DEF SameButState
<1>8. \A v \in Workers : concurrent'[v] = IF \E e \in calls' : e.worker = v /\ e.state \in Serving THEN 1 ELSE 0
  BY <1>5, <1>6, <1>7, Zenon DEF ServingInv
<1>9. \A e \in calls' : e.state \in Serving => e.task # Shutdown_
  BY <1>3, <1>4, SMT DEF ServingInv, SameButState
<1>10. QED BY <1>5, <1>8, <1>9, Zenon DEF ServingInv

-----------------------------------------------------------------------------
(* The other steps *)

\* A step that schedule() does not see.
LEMMA Frame ==
  ASSUME ScheduleInv, UNCHANGED <<masterVars, calls, started, concurrent>>
  PROVE  ScheduleInvNext
<1>1. UNCHANGED <<phase, workers, forwarded, registerChan, doneMap, taskQu, idleWorkers, killed, calls, started, concurrent>>
  BY Zenon DEF masterVars
<1>2. Ahead' = Ahead /\ Scheduling' = Scheduling /\ Tasks(phase)' = Tasks(phase)
  BY <1>1 DEF Ahead, Scheduling, Tasks
<1>3. PlacesInv'
  BY <1>1, <1>2, Zenon DEF ScheduleInv, PlacesInv
<1>4. CallsInv'
  BY <1>1, <1>2, Zenon DEF ScheduleInv, CallsInv, Distinct
<1>5. ServingInv' /\ NoIdleWorkerWhileTaskWaits'
  BY <1>1, Zenon DEF ScheduleInv, ServingInv, NoIdleWorkerWhileTaskWaits
<1>6. SchedTypes'
  BY <1>1 DEF ScheduleInv, TypeOK, SchedTypes, CallRecords, CallStates
<1>7. QED BY <1>3, <1>4, <1>5, <1>6, Zenon DEF ScheduleInvNext

\* The parts of the invariant, one by one.
LEMMA CallTypes ==
  ASSUME ScheduleInv
  PROVE  /\ calls \subseteq CallRecords /\ SchedTypes /\ concurrent \in [Workers -> Nat]
         /\ CallsInv /\ PlacesInv /\ ServingInv
BY DEF ScheduleInv, TypeOK, SchedTypes, CallRecords, CallStates

\* A worker accepts a call, or call() finds no listener.
LEMMA AcceptStep ==
  ASSUME ScheduleInv, NEW w \in Workers, Accept(w) \/ CallFails
  PROVE  ScheduleInvNext
<1>1. UNCHANGED <<masterVars, started, concurrent>>
  BY DEF Accept, CallFails, workerVars
<1>2. PICK c \in calls, s \in {"accepted", "failed"} : c.state = "sent" /\ calls' = Becomes(c, s)
  BY Zenon DEF Accept, CallFails
<1>3. c.state \notin Serving /\ s \notin Serving /\ s \in CallStates
  BY <1>2 DEF Serving, CallStates
<1>4. CallsInv' /\ PlacesInv' /\ calls' \subseteq CallRecords
  BY <1>1, <1>2, <1>3, CallTypes, BecomesKeeps
<1>5. ServingInv'
  BY <1>1, <1>2, <1>3, CallTypes, QuietBecomes
<1>6. UNCHANGED <<idleWorkers, taskQu>>
  BY <1>1 DEF masterVars
<1>7. NoIdleWorkerWhileTaskWaits'
  BY <1>6, Zenon DEF NoIdleWorkerWhileTaskWaits, ScheduleInv
<1>8. QED BY <1>4, <1>5, <1>6, <1>7, CallTypes, Zenon DEF ScheduleInvNext, SchedTypes

\* A step of an RPC handler of a worker.
LEMMA HandlerStep ==
  ASSUME ScheduleInv, NEW c \in calls, DoTask(c) \/ DoTaskReply(c) \/ Shutdown(c)
  PROVE  ScheduleInvNext /\ concurrent' \in [Workers -> Nat]
<1>1. UNCHANGED <<masterVars, started>>
  BY DEF DoTask, DoTaskReply, Shutdown
<1>2. CASE DoTask(c)
  <2>1. PICK s \in Serving : calls' = Becomes(c, s)
    BY <1>2 DEF DoTask, Serving
  <2>2. /\ c.state \notin Serving /\ c.task # Shutdown_ /\ s \in CallStates
        /\ concurrent' = [concurrent EXCEPT ![c.worker] = @ + 1]
    BY <1>2, <2>1 DEF DoTask, Serving, CallStates
  <2>3. CallsInv' /\ PlacesInv' /\ calls' \subseteq CallRecords
    BY <1>1, <2>1, <2>2, CallTypes, BecomesKeeps
  <2>4. ServingInv' /\ concurrent' \in [Workers -> Nat]
    BY <2>1, <2>2, CallTypes, ServingBegins
  <2>5. QED BY <1>1, <2>3, <2>4, CallTypes DEF ScheduleInvNext, ScheduleInv, SchedTypes, masterVars, NoIdleWorkerWhileTaskWaits
<1>3. CASE DoTaskReply(c)
  <2>1. calls' = Becomes(c, "ok") /\ concurrent' = [concurrent EXCEPT ![c.worker] = @ - 1]
    BY <1>3, Zenon DEF DoTaskReply
  <2>2. c.state \in Serving /\ "ok" \in CallStates
    BY <1>3 DEF DoTaskReply, Serving, CallStates
  <2>3. CallsInv' /\ PlacesInv' /\ calls' \subseteq CallRecords
    BY <1>1, <2>1, <2>2, CallTypes, BecomesKeeps
  <2>4. ServingInv' /\ concurrent' \in [Workers -> Nat]
    BY <2>1, <2>2, CallTypes, ServingEnds
  <2>5. QED BY <1>1, <2>3, <2>4, CallTypes DEF ScheduleInvNext, ScheduleInv, SchedTypes, masterVars, NoIdleWorkerWhileTaskWaits
<1>4. CASE Shutdown(c)
  <2>1. calls' = Becomes(c, "ok") /\ concurrent' = concurrent
    BY <1>4, Zenon DEF Shutdown
  <2>2. c.state \notin Serving /\ "ok" \notin Serving /\ "ok" \in CallStates
    BY <1>4 DEF Shutdown, Serving, CallStates
  <2>3. CallsInv' /\ PlacesInv' /\ calls' \subseteq CallRecords
    BY <1>1, <2>1, <2>2, CallTypes, BecomesKeeps
  <2>4. ServingInv'
    BY <2>1, <2>2, CallTypes, QuietBecomes
  <2>5. QED BY <1>1, <2>1, <2>3, <2>4, CallTypes DEF ScheduleInvNext, ScheduleInv, SchedTypes, masterVars, NoIdleWorkerWhileTaskWaits
<1>5. QED BY <1>2, <1>3, <1>4

\* A worker crashes.
LEMMA CrashStep ==
  ASSUME ScheduleInv, NEW w \in Workers, Crash(w)
  PROVE  ScheduleInvNext
<1>1. CallsInv' /\ PlacesInv' /\ calls' \subseteq CallRecords /\ ServingInv'
  BY CallTypes, CrashKeeps, ServingCrash
<1>2. UNCHANGED <<idleWorkers, taskQu>>
  BY DEF Crash, masterVars
<1>3. NoIdleWorkerWhileTaskWaits'
  BY <1>2, Zenon DEF NoIdleWorkerWhileTaskWaits, ScheduleInv
<1>4. QED BY <1>1, <1>2, <1>3, CallTypes, Zenon DEF ScheduleInvNext, SchedTypes

\* forwardRegistrations offers a worker that was still ahead.
LEMMA ForwardStep ==
  ASSUME ScheduleInv, forwardRegistrations
  PROVE  ScheduleInvNext
<1>1. /\ Scheduling /\ forwarded < Len(workers) /\ forwarded' = forwarded + 1
      /\ registerChan' = registerChan \cup {forwarded + 1}
      /\ UNCHANGED <<phase, workers, doneMap, taskQu, idleWorkers, calls, killed, started, concurrent>>
  BY DEF forwardRegistrations, schedVars, workerVars
<1>2. Ahead' = Ahead
  <2>1. forwarded \in Nat /\ Len(workers) \in Nat
    BY <1>1, ScheduleFacts
  <2>2. registerChan' \cup (forwarded' + 1 .. Len(workers)) = registerChan \cup (forwarded + 1 .. Len(workers))
    BY <1>1, <2>1
  <2>3. QED BY <1>1, <2>2, Zenon DEF Ahead
<1>3. Scheduling' = Scheduling /\ Tasks(phase)' = Tasks(phase)
  BY <1>1 DEF Scheduling, Tasks
<1>4. PlacesInv'
  BY <1>1, <1>2, <1>3, Zenon DEF ScheduleInv, PlacesInv
<1>5. CallsInv'
  BY <1>1, <1>3, Zenon DEF ScheduleInv, CallsInv, Distinct
<1>6. ServingInv' /\ NoIdleWorkerWhileTaskWaits'
  BY <1>1, Zenon DEF ScheduleInv, ServingInv, NoIdleWorkerWhileTaskWaits
<1>7. SchedTypes'
  BY <1>1, CallTypes, Zenon DEF SchedTypes
<1>8. QED BY <1>4, <1>5, <1>6, <1>7, Zenon DEF ScheduleInvNext

\* A new worker registers; it is ahead of schedule() and nowhere else.
LEMMA RunWorkerStep ==
  ASSUME ScheduleInv, NEW w \in Workers, RunWorker(w)
  PROVE  ScheduleInvNext
<1>1. /\ w \notin started /\ started' = started \cup {w}
      /\ UNCHANGED <<phase, forwarded, registerChan, doneMap, taskQu, idleWorkers, calls, killed, concurrent>>
  BY DEF RunWorker, schedVars
<1>2. /\ workers' = workers \/ workers' = Append(workers, w)
      /\ Scheduling => workers' = Append(workers, w)
  BY DEF RunWorker, MayRegister, Scheduling
<1>3. /\ workers \in Seq(Workers) /\ forwarded \in Nat /\ forwarded <= Len(workers) /\ registerChan \subseteq 1 .. forwarded
      /\ CallsInv /\ PlacesInv
  BY DEF ScheduleInv, TypeOK
<1>4. /\ \A i \in DOMAIN workers' : i \in DOMAIN workers \/ (i = Len(workers) + 1 /\ workers'[i] = w)
      /\ \A i \in DOMAIN workers : workers'[i] = workers[i]
  BY <1>2, <1>3
<1>5. Distinct(workers') /\ \A i \in DOMAIN workers' : workers'[i] \in started'
  <2>1. \A i \in DOMAIN workers : workers[i] \in started
    BY <1>3, Zenon DEF CallsInv
  <2>2. Distinct(workers')
    BY <1>1, <1>3, <1>4, <2>1, SMT DEF CallsInv, Distinct
  <2>3. QED BY <1>1, <1>4, <2>1, <2>2, Zenon
<1>6. Scheduling' = Scheduling /\ Tasks(phase)' = Tasks(phase)
  BY <1>1 DEF Scheduling, Tasks
<1>7. CallsInv'
  BY <1>1, <1>3, <1>5, <1>6 DEF CallsInv
<1>8. ASSUME Scheduling PROVE WorkerPlaces(idleWorkers, calls, Ahead')
  <2>1. \A i \in registerChan \cup (forwarded + 1 .. Len(workers')) :
           i = Len(workers) + 1 \/ i \in registerChan \cup (forwarded + 1 .. Len(workers))
    BY <1>2, <1>3, <1>8
  <2>2. \A i \in registerChan \cup (forwarded + 1 .. Len(workers)) : i \in DOMAIN workers
    BY <1>3
  <2>3. workers'[Len(workers) + 1] = w
    BY <1>2, <1>3, <1>8
  <2>4. \A x \in Ahead' : x = w \/ x \in Ahead
    <3>1. Ahead' = {workers'[i] : i \in registerChan \cup (forwarded + 1 .. Len(workers'))}
      BY <1>1 DEF Ahead
    <3>2. SUFFICES ASSUME NEW x \in Ahead' PROVE x = w \/ x \in Ahead
      BY Zenon
    <3>3. PICK i \in registerChan \cup (forwarded + 1 .. Len(workers')) : x = workers'[i]
      BY <3>1, Zenon
    <3>4. CASE i = Len(workers) + 1
      BY <2>3, <3>3, <3>4, Zenon
    <3>5. CASE i \in registerChan \cup (forwarded + 1 .. Len(workers))
      BY <1>4, <2>2, <3>3, <3>5, Zenon DEF Ahead
    <3>6. QED BY <2>1, <3>4, <3>5, Zenon
  <2>5. /\ \A i \in DOMAIN idleWorkers : idleWorkers[i] # w
        /\ \A c \in calls : c.worker # w
    BY <1>1, <1>3, Zenon DEF CallsInv
  <2>6. WorkerPlaces(idleWorkers, calls, Ahead)
    BY <1>3, <1>8, Zenon DEF PlacesInv
  <2>7. QED BY <2>4, <2>5, <2>6, Zenon DEF WorkerPlaces
<1>9. PlacesInv'
  <2>1. Scheduling => TaskPlaces(taskQu, calls, doneMap, Tasks(phase))
    BY <1>3, Zenon DEF PlacesInv
  <2>2. QED BY <1>1, <1>6, <1>8, <2>1, Zenon DEF PlacesInv
<1>10. ServingInv' /\ NoIdleWorkerWhileTaskWaits'
  BY <1>1, Zenon DEF ScheduleInv, ServingInv, NoIdleWorkerWhileTaskWaits
<1>11. SchedTypes'
  BY <1>1, CallTypes, Zenon DEF SchedTypes
<1>12. QED BY <1>7, <1>9, <1>10, <1>11, Zenon DEF ScheduleInvNext

\* killWorkers, stopRPCServer and merge: at most one call is out, to Worker.Shutdown.
LEMMA KillStep ==
  ASSUME ScheduleInv, KillCall \/ KillReply \/ KillDone \/ stopRPCServer \/ merge
  PROVE  ScheduleInvNext
<1>1. CallsInv /\ ServingInv /\ calls \subseteq CallRecords
  BY CallTypes
<1>2. \A c \in calls : c.phase = phase /\ c.phase \in {mapPhase, reducePhase, "kill"} /\ (c.task = Shutdown_ <=> phase = "kill")
  BY <1>1 DEF CallsInv, CallRecords
<1>3. UNCHANGED <<workers, forwarded, registerChan, doneMap, taskQu, idleWorkers, started, concurrent>>
  BY DEF KillCall, KillReply, KillDone, stopRPCServer, merge, masterVars, schedVars, workerVars
<1>4. ~Scheduling /\ ~Scheduling' /\ killed' \in Nat
  <2>1. killed \in Nat
    BY <1>1 DEF CallsInv
  <2>2. CASE KillCall
    BY <2>1, <2>2 DEF KillCall, Scheduling, masterVars, mapPhase, reducePhase
  <2>3. CASE KillReply
    <3>1. phase = "kill"
      BY <1>2, <2>3, Zenon DEF KillReply
    <3>2. QED BY <2>1, <2>3, <3>1 DEF KillReply, Scheduling, mapPhase, reducePhase
  <2>4. CASE KillDone \/ stopRPCServer \/ merge
    BY <2>1, <2>4 DEF KillDone, stopRPCServer, merge, Scheduling, mapPhase, reducePhase
  <2>5. QED BY <2>2, <2>3, <2>4
<1>5. idleWorkers = <<>> /\ taskQu = <<>> /\ \A c, d \in calls : c = d
  BY <1>1, <1>4, Zenon DEF CallsInv
<1>6. /\ calls' \subseteq CallRecords
      /\ \A c, d \in calls' : c = d
      /\ \A c \in calls' : /\ c.worker \in started /\ c.phase = phase'
                           /\ (c.task = Shutdown_ <=> phase' = "kill") /\ (c \in calls \/ c.state = "sent")
      /\ \A c \in calls : c \in calls' \/ c.state \notin Serving
  <2>1. CASE KillCall
    <3>1. phase = "kill" /\ phase' = phase /\ killed < Len(workers)
      BY <2>1 DEF KillCall, masterVars
    <3>2. calls = {}
      BY <1>2, <2>1, <3>1, Zenon DEF KillCall
    <3>3. workers[killed + 1] \in started /\ workers[killed + 1] \in Workers
      <4>1. killed + 1 \in DOMAIN workers
        BY <1>1, <3>1 DEF CallsInv, ScheduleInv, TypeOK
      <4>2. QED BY <1>1, <4>1, Zenon DEF CallsInv
    <3>4. PICK w \in started : w = workers[killed + 1]
      BY <3>3, Zenon
    <3>5. PICK x : x = Call(Shutdown_, w)
      OBVIOUS
    <3>6. calls' = {x}
      BY <2>1, <3>2, <3>4, <3>5, Zenon DEF KillCall
    <3>7. /\ x \in CallRecords /\ x.worker \in started /\ x.phase = phase
          /\ x.task = Shutdown_ /\ x.state = "sent"
      BY <3>1, <3>3, <3>4, <3>5 DEF Call, CallRecords, CallStates
    <3>8. QED BY <3>1, <3>2, <3>6, <3>7, Zenon
  <2>2. CASE KillReply
    <3>1. PICK c \in calls : c.state \in {"ok", "failed"} /\ calls' = calls \ {c}
      BY <2>2, Zenon DEF KillReply
    <3>2. phase' = phase /\ c.state \notin Serving
      BY <2>2, <3>1 DEF KillReply, Serving
    <3>3. QED BY <1>1, <1>2, <1>5, <3>1, <3>2, Zenon DEF CallsInv
  <2>3. CASE KillDone \/ stopRPCServer \/ merge
    <3>1. calls = {} /\ calls' = calls
      BY <1>2, <2>3 DEF KillDone, stopRPCServer, merge, mapPhase, reducePhase
    <3>2. QED BY <3>1
  <2>4. QED BY <2>1, <2>2, <2>3
<1>7. CallsInv'
  BY <1>1, <1>3, <1>4, <1>5, <1>6, Zenon DEF CallsInv, Distinct
<1>8. PlacesInv'
  BY <1>4, Zenon DEF PlacesInv
<1>9. ServingInv'
  <2>1. "sent" \notin Serving
    BY DEF Serving
  <2>2. \A v : (\E d \in calls' : d.worker = v /\ d.state \in Serving)
               <=> \E d \in calls : d.worker = v /\ d.state \in Serving
    BY <1>6, <2>1, SMT
  <2>3. \A d \in calls' : d.state \in Serving => d.task # Shutdown_
    BY <1>1, <1>6, <2>1, SMT DEF ServingInv
  <2>4. QED BY <1>1, <1>3, <2>2, <2>3, Zenon DEF ServingInv
<1>10. SchedTypes' /\ NoIdleWorkerWhileTaskWaits'
  BY <1>3, <1>5, <1>6, CallTypes, Zenon DEF SchedTypes, NoIdleWorkerWhileTaskWaits
<1>11. QED BY <1>7, <1>8, <1>9, <1>10, Zenon DEF ScheduleInvNext

-----------------------------------------------------------------------------
(* The files *)

\* What calls and schedule() hold of a phase; FilesInv speaks of it.
LEMMA TaskOfCall ==
  ASSUME ScheduleInv, NEW c \in calls, c.task # Shutdown_
  PROVE  /\ Scheduling /\ c.phase = phase /\ c.task \in 0 .. Tasks(phase) - 1
         /\ phase = mapPhase => c.task \in MapTasks
         /\ phase = reducePhase => c.task \in ReduceTasks
<1>1. c.phase = phase /\ phase # "kill" /\ c.phase \in {mapPhase, reducePhase, "kill"}
  <2>1. c \in CallRecords
    BY CallTypes, Zenon
  <2>2. c.phase = phase /\ (c.task = Shutdown_ <=> phase = "kill")
    BY Zenon DEF ScheduleInv, CallsInv
  <2>3. QED BY <2>1, <2>2 DEF CallRecords
<1>2. Scheduling
  BY <1>1 DEF Scheduling
<1>3. c.task \in 0 .. Tasks(phase) - 1
  BY <1>2, Zenon DEF ScheduleInv, PlacesInv, TaskPlaces
<1>4. QED BY <1>1, <1>2, <1>3 DEF Tasks, MapTasks, ReduceTasks, mapPhase, reducePhase

\* A step that leaves the files, the phase and what is done, and brings no result.
LEMMA FilesFrame ==
  ASSUME FilesInv, UNCHANGED <<phase, doneMap, inter, out>>,
         \A d \in calls' : /\ d.state # "misled"
                           /\ d.state = "ok" /\ Scheduling => \E c \in calls : c.state = "ok" /\ c.task = d.task
  PROVE  FilesInv'
<1>1. Scheduling' = Scheduling /\ \A t : MapDone(t)' = MapDone(t) /\ ReduceDone(t)' = ReduceDone(t)
  BY DEF Scheduling, MapDone, ReduceDone
<1>2. (phase = mapPhase \/ phase = reducePhase) => Scheduling
  BY DEF Scheduling
<1>3. QED BY <1>1, <1>2, SMT DEF FilesInv

\* The step ends a phase: the results of all its tasks are there.
LEMMA FilesLast ==
  ASSUME ScheduleInv, FilesInv, Scheduling, NEW c \in calls, Succeeded(c), AllDone(doneMap \cup {c.task}),
         calls' = calls \ {c}, NextPhase, UNCHANGED files
  PROVE  FilesInv'
<1>1. doneMap \cup {c.task} = 0 .. Tasks(phase) - 1 /\ calls' = {}
  BY AllDoneMeans, Zenon
<1>2. UNCHANGED <<inter, out>> /\ doneMap' = {}
  BY DEF files, NextPhase
<1>3. CASE phase = mapPhase
  <2>1. \A m \in MapTasks : MapDone(m)
    <3>1. \A t \in doneMap \cup {c.task} : MapDone(t)
      BY <1>3, Zenon DEF FilesInv, Succeeded
    <3>2. doneMap \cup {c.task} = MapTasks
      BY <1>1, <1>3 DEF Tasks, MapTasks
    <3>3. QED BY <3>1, <3>2
  <2>2. phase' = reducePhase /\ phase' # mapPhase /\ Scheduling'
    BY <1>3 DEF NextPhase, mapPhase, reducePhase, Scheduling
  <2>3. QED BY <1>1, <1>2, <2>1, <2>2, Zenon DEF FilesInv, MapDone
<1>4. CASE phase = reducePhase
  <2>1. \A r \in ReduceTasks : ReduceDone(r)
    <3>1. \A t \in doneMap \cup {c.task} : ReduceDone(t)
      BY <1>4, Zenon DEF FilesInv, Succeeded
    <3>2. doneMap \cup {c.task} = ReduceTasks
      BY <1>1, <1>4 DEF Tasks, ReduceTasks, mapPhase, reducePhase
    <3>3. QED BY <3>1, <3>2
  <2>2. phase' # mapPhase /\ phase' # reducePhase
    BY <1>4 DEF NextPhase, mapPhase, reducePhase
  <2>3. QED BY <1>1, <1>2, <2>1, <2>2, Zenon DEF FilesInv, ReduceDone
<1>5. QED BY <1>3, <1>4 DEF Scheduling

\* A call succeeded and the phase goes on.
LEMMA FilesOk ==
  ASSUME ScheduleInv, FilesInv, Scheduling, NEW c \in calls, Succeeded(c), doneMap' = doneMap \cup {c.task},
         Assign(c.worker, taskQu, idleWorkers, calls \ {c}), UNCHANGED <<phase, inter, out>>
  PROVE  FilesInv'
<1>1. \A d \in calls' : d \in calls \/ d.state = "sent"
  <2>1. PICK w, idle, rest, qu : w = c.worker /\ idle = idleWorkers /\ rest = calls \ {c} /\ qu = taskQu /\ qu \in Seq(Nat)
    BY ScheduleFacts, Zenon
  <2>2. \A d \in calls' : d \in rest \/ d.state = "sent"
    <3>1. Assign(w, qu, idle, rest)
      BY <2>1, Zenon
    <3>2. qu \in Seq(Nat)
      BY <2>1
    <3>3. \A d \in calls' : d \in rest \/ /\ d.state = "sent" /\ d.worker = w
                                          /\ d.phase = phase /\ d.task # Shutdown_
      BY <3>1, <3>2, AssignCalls
    <3>4. QED BY <3>3, Zenon
  <2>3. QED BY <2>1, <2>2, Zenon
<1>2. Scheduling' = Scheduling /\ \A t : MapDone(t)' = MapDone(t) /\ ReduceDone(t)' = ReduceDone(t)
  BY DEF Scheduling, MapDone, ReduceDone
<1>3. \A d \in calls' : d.state # "misled" /\ (d.state = "ok" => d \in calls)
  BY <1>1, SMT DEF FilesInv
<1>4. /\ phase = mapPhase => \A t \in doneMap' : MapDone(t)
      /\ phase = reducePhase => \A t \in doneMap' : ReduceDone(t)
  BY Zenon DEF FilesInv, Succeeded
<1>5. QED BY <1>2, <1>3, <1>4, SMT DEF FilesInv

\* The calls after a handler's step on c: c, and others with tasks of their own that are not done.
LEMMA OtherTasks ==
  ASSUME ScheduleInv, NEW c \in calls, c.task # Shutdown_, NEW s \in CallStates, calls' = Becomes(c, s)
  PROVE  /\ c.task \notin doneMap
         /\ \A d \in calls' : \/ d.state = s /\ d.task = c.task
                              \/ d \in calls /\ d.task # c.task
<1>1. TaskPlaces(taskQu, calls, doneMap, Tasks(phase)) /\ calls \subseteq CallRecords
  BY TaskOfCall, ScheduleFacts, Zenon
<1>2. c.task \notin doneMap /\ \A d \in calls : d.task = c.task => d = c
  BY <1>1, Zenon DEF TaskPlaces
<1>3. PICK d \in calls' : /\ SameButState(c, d) /\ d.state = s
                          /\ \A e \in calls' : e = d \/ (e \in calls /\ e # c)
  BY <1>1, BecomesCalls
<1>4. QED BY <1>2, <1>3, Zenon DEF SameButState

\* DoTask: a map task spoils only its own files, a reduce task only its own output.
LEMMA FilesDoTask ==
  ASSUME ScheduleInv, FilesInv, NEW c \in calls, DoTask(c)
  PROVE  FilesInv'
<1>1. c.task # Shutdown_ /\ UNCHANGED <<phase, doneMap>>
  BY DEF DoTask, masterVars
<1>2. Scheduling' = Scheduling /\ Scheduling
  BY <1>1, TaskOfCall DEF Scheduling
<1>3. inter \in [MapTasks -> [ReduceTasks -> FileState]] /\ out \in [ReduceTasks -> FileState]
  BY DEF ScheduleInv, TypeOK
<1>4. CASE c.phase = mapPhase
  <2>1. phase = mapPhase /\ c.task \in MapTasks /\ mapPhase # reducePhase
    BY <1>1, <1>4, TaskOfCall DEF mapPhase, reducePhase
  <2>2. /\ calls' = Becomes(c, "working") /\ out' = out
        /\ inter' = [inter EXCEPT ![c.task] = [r \in ReduceTasks |-> "partial"]]
    BY <1>4, <2>1 DEF DoTask
  <2>3. \A t : t # c.task /\ t \in MapTasks /\ MapDone(t) => MapDone(t)'
    BY <1>3, <2>1, <2>2 DEF MapDone
  <2>4. /\ c.task \notin doneMap
        /\ \A d \in calls' : \/ d.state = "working" /\ d.task = c.task
                             \/ d \in calls /\ d.task # c.task
    BY <1>1, <2>2, OtherTasks DEF CallStates
  <2>5. \A d \in calls : d.state = "ok" => d.task \in MapTasks
    <3>1. \A d \in calls : d.task # Shutdown_
      BY <2>1 DEF ScheduleInv, CallsInv, mapPhase
    <3>2. QED BY <2>1, <3>1, TaskOfCall
  <2>6. doneMap \subseteq MapTasks
    BY <1>2, <2>1, ScheduleFacts DEF TaskPlaces, Tasks, MapTasks
  <2>7. \A d \in calls' : d.state # "misled" /\ (d.state = "ok" => MapDone(d.task)')
    BY <2>1, <2>3, <2>4, <2>5, SMT DEF FilesInv
  <2>8. \A t \in doneMap : MapDone(t)'
    BY <2>1, <2>3, <2>4, <2>6, Zenon DEF FilesInv
  <2>9. QED BY <1>1, <1>2, <2>1, <2>7, <2>8, Zenon DEF FilesInv
<1>5. CASE c.phase = reducePhase
  <2>1. phase = reducePhase /\ c.task \in ReduceTasks /\ mapPhase # reducePhase
    BY <1>1, <1>5, TaskOfCall DEF mapPhase, reducePhase
  <2>2. \A m \in MapTasks : inter[m][c.task] = "full"
    BY <2>1, Zenon DEF FilesInv, MapDone
  <2>3. /\ calls' = Becomes(c, "working") /\ inter' = inter
        /\ out' = IF c.task \in Filled THEN [out EXCEPT ![c.task] = "partial"] ELSE out
    BY <1>5, <2>1, <2>2, Zenon DEF DoTask
  <2>4. \A t : t # c.task /\ t \in ReduceTasks /\ ReduceDone(t) => ReduceDone(t)'
    BY <1>3, <2>1, <2>3 DEF ReduceDone
  <2>5. /\ c.task \notin doneMap
        /\ \A d \in calls' : \/ d.state = "working" /\ d.task = c.task
                             \/ d \in calls /\ d.task # c.task
    BY <1>1, <2>3, OtherTasks DEF CallStates
  <2>6. \A d \in calls : d.state = "ok" => d.task \in ReduceTasks
    <3>1. \A d \in calls : d.task # Shutdown_
      BY <2>1 DEF ScheduleInv, CallsInv, reducePhase
    <3>2. QED BY <2>1, <3>1, TaskOfCall
  <2>7. doneMap \subseteq ReduceTasks
    BY <1>2, <2>1, ScheduleFacts DEF TaskPlaces, Tasks, ReduceTasks
  <2>8. \A d \in calls' : d.state # "misled" /\ (d.state = "ok" => ReduceDone(d.task)')
    BY <2>1, <2>4, <2>5, <2>6, SMT DEF FilesInv
  <2>9. \A t \in doneMap : ReduceDone(t)'
    BY <2>1, <2>4, <2>5, <2>7, Zenon DEF FilesInv
  <2>10. \A m \in MapTasks : MapDone(m)'
    BY <2>1, <2>3, Zenon DEF FilesInv, MapDone
  <2>11. QED BY <1>1, <1>2, <2>1, <2>8, <2>9, <2>10, Zenon DEF FilesInv
<1>6. QED BY <1>4, <1>5 DEF DoTask

\* DoTaskReply: the files of the task are written in full.
LEMMA FilesReply ==
  ASSUME ScheduleInv, FilesInv, NEW c \in calls, DoTaskReply(c)
  PROVE  FilesInv'
<1>1. c.task # Shutdown_ /\ c.state = "working" /\ UNCHANGED <<phase, doneMap>>
  BY DEF DoTaskReply, masterVars, ScheduleInv, ServingInv, Serving, FilesInv
<1>2. Scheduling' = Scheduling /\ Scheduling
  BY <1>1, TaskOfCall DEF Scheduling
<1>3. inter \in [MapTasks -> [ReduceTasks -> FileState]] /\ out \in [ReduceTasks -> FileState]
  BY DEF ScheduleInv, TypeOK
<1>4. calls' = Becomes(c, "ok")
  BY Zenon DEF DoTaskReply
<1>5. \A d \in calls' : \/ d.state = "ok" /\ d.task = c.task
                        \/ d \in calls /\ d.task # c.task
  BY <1>1, <1>4, OtherTasks DEF CallStates
<1>6. \A d \in calls' : d.state # "misled"
  BY <1>5 DEF FilesInv
<1>7. CASE c.phase = mapPhase
  <2>1. phase = mapPhase /\ c.task \in MapTasks /\ mapPhase # reducePhase
    BY <1>1, <1>7, TaskOfCall DEF mapPhase, reducePhase
  <2>2. inter' = [inter EXCEPT ![c.task] = [r \in ReduceTasks |-> "full"]]
    BY <1>7, <2>1, Zenon DEF DoTaskReply
  <2>3. \A t \in MapTasks : t = c.task \/ MapDone(t) => MapDone(t)'
    BY <1>3, <2>1, <2>2 DEF MapDone
  <2>4. \A d \in calls : d.state = "ok" => d.task \in MapTasks
    <3>1. \A d \in calls : d.task # Shutdown_
      BY <2>1 DEF ScheduleInv, CallsInv, mapPhase
    <3>2. QED BY <2>1, <3>1, TaskOfCall
  <2>5. doneMap \subseteq MapTasks
    BY <1>2, <2>1, ScheduleFacts DEF TaskPlaces, Tasks, MapTasks
  <2>6. \A d \in calls' : d.state = "ok" => MapDone(d.task)'
    BY <1>5, <2>1, <2>3, <2>4, SMT DEF FilesInv
  <2>7. \A t \in doneMap : MapDone(t)'
    BY <2>1, <2>3, <2>5, Zenon DEF FilesInv
  <2>8. QED BY <1>1, <1>2, <1>6, <2>1, <2>6, <2>7, Zenon DEF FilesInv
<1>8. CASE c.phase = reducePhase
  <2>1. phase = reducePhase /\ c.task \in ReduceTasks /\ mapPhase # reducePhase
    BY <1>1, <1>8, TaskOfCall DEF mapPhase, reducePhase
  <2>2. inter' = inter /\ out' = IF c.task \notin Filled THEN out ELSE [out EXCEPT ![c.task] = "full"]
    BY <1>1, <1>8, <2>1, Zenon DEF DoTaskReply
  <2>3. \A t \in ReduceTasks : t = c.task \/ ReduceDone(t) => ReduceDone(t)'
    BY <1>3, <2>1, <2>2 DEF ReduceDone
  <2>4. \A d \in calls : d.state = "ok" => d.task \in ReduceTasks
    <3>1. \A d \in calls : d.task # Shutdown_
      BY <2>1 DEF ScheduleInv, CallsInv, reducePhase
    <3>2. QED BY <2>1, <3>1, TaskOfCall
  <2>5. doneMap \subseteq ReduceTasks
    BY <1>2, <2>1, ScheduleFacts DEF TaskPlaces, Tasks, ReduceTasks
  <2>6. \A d \in calls' : d.state = "ok" => ReduceDone(d.task)'
    BY <1>5, <2>1, <2>3, <2>4, SMT DEF FilesInv
  <2>7. \A t \in doneMap : ReduceDone(t)'
    BY <2>1, <2>3, <2>5, Zenon DEF FilesInv
  <2>8. \A m \in MapTasks : MapDone(m)'
    BY <2>1, <2>2, Zenon DEF FilesInv, MapDone
  <2>9. QED BY <1>1, <1>2, <1>6, <2>1, <2>6, <2>7, <2>8, Zenon DEF FilesInv
<1>9. QED BY <1>7, <1>8 DEF DoTaskReply

-----------------------------------------------------------------------------
(* The invariant *)

\* Every step keeps what is known of the files.
LEMMA FilesStep ==
  ASSUME JobInv, Next, ScheduleInvNext
  PROVE  FilesInv'
<1>1. ScheduleInv /\ FilesInv
  BY Zenon DEF JobInv, ScheduleInv
<1>2. CASE forwardRegistrations \/ (\E w \in Workers : RunWorker(w) \/ CheckRPCs(w))
  <2>1. UNCHANGED <<phase, doneMap, inter, out, calls>>
    BY <1>2 DEF forwardRegistrations, RunWorker, CheckRPCs, schedVars, masterVars, files
  <2>2. \A d \in calls : d.state # "misled"
    BY <1>1, Zenon DEF FilesInv
  <2>3. QED BY <1>1, <2>1, <2>2, FilesFrame, Zenon
<1>3. CASE ScheduleRegistered
  <2>1. UNCHANGED <<phase, doneMap, inter, out>> /\ Scheduling
    BY <1>3 DEF ScheduleRegistered, files
  <2>2. PICK i \in registerChan : Assign(workers[i], taskQu, idleWorkers, calls)
    BY <1>3, Zenon DEF ScheduleRegistered
  <2>3. PICK w, idle, rest, qu : /\ w = workers[i] /\ idle = idleWorkers /\ rest = calls /\ qu = taskQu
                                 /\ qu \in Seq(Nat)
    BY <1>1, <2>1, ScheduleFacts, Zenon
  <2>4. Assign(w, qu, idle, rest)
    BY <2>2, <2>3, Zenon
  <2>5. \A d \in calls' : d \in rest \/ /\ d.state = "sent" /\ d.worker = w
                                        /\ d.phase = phase /\ d.task # Shutdown_
    BY <2>3, <2>4, AssignCalls
  <2>6. \A d \in calls' : d \in calls \/ d.state = "sent"
    BY <2>3, <2>5, Zenon
  <2>7. QED BY <1>1, <2>1, <2>6, FilesFrame DEF FilesInv
<1>4. CASE ScheduleOk
  <2>1. Scheduling /\ UNCHANGED <<inter, out>> /\ UNCHANGED files
    BY <1>4 DEF ScheduleOk, files
  <2>2. PICK c \in calls :
          /\ Succeeded(c)
          /\ \/ AllDone(doneMap \cup {c.task}) /\ calls' = calls \ {c} /\ NextPhase
             \/ /\ doneMap' = doneMap \cup {c.task}
                /\ Assign(c.worker, taskQu, idleWorkers, calls \ {c})
                /\ UNCHANGED <<phase, registerChan, forwarded>>
    BY <1>4, Zenon DEF ScheduleOk
  <2>3. CASE AllDone(doneMap \cup {c.task}) /\ calls' = calls \ {c} /\ NextPhase
    BY <1>1, <2>1, <2>2, <2>3, FilesLast, Zenon
  <2>4. CASE /\ doneMap' = doneMap \cup {c.task}
             /\ Assign(c.worker, taskQu, idleWorkers, calls \ {c})
             /\ UNCHANGED <<phase, registerChan, forwarded>>
    BY <1>1, <2>1, <2>2, <2>4, FilesOk, Zenon
  <2>5. QED BY <2>2, <2>3, <2>4
<1>5. CASE ScheduleFailed
  <2>1. UNCHANGED <<phase, doneMap, inter, out>> /\ Scheduling
    BY <1>5 DEF ScheduleFailed, files
  <2>2. PICK c \in calls : AfterFailure(c, Append(taskQu, c.task))
    BY <1>5, Zenon DEF ScheduleFailed, Requeued
  <2>3. PICK rest, qu : rest = calls \ {c} /\ qu = Append(taskQu, c.task) /\ qu \in Seq(Nat)
    <3>1. taskQu \in Seq(Nat) /\ c.task \in Nat
      BY <1>1, <2>1, ScheduleFacts, Zenon
    <3>2. Append(taskQu, c.task) \in Seq(Nat)
      BY <3>1
    <3>3. QED BY <3>2, Zenon
  <2>4. CASE idleWorkers # <<>>
    <3>1. PICK w, idle : w = Head(idleWorkers) /\ idle = Tail(idleWorkers)
      OBVIOUS
    <3>2. Assign(w, qu, idle, rest)
      BY <2>2, <2>3, <2>4, <3>1, Zenon DEF AfterFailure
    <3>3. qu \in Seq(Nat)
      BY <2>3
    <3>4. \A d \in calls' : d \in rest \/ /\ d.state = "sent" /\ d.worker = w
                                          /\ d.phase = phase /\ d.task # Shutdown_
      BY <3>2, <3>3, AssignCalls
    <3>5. \A d \in calls' : d \in calls \/ d.state = "sent"
      BY <2>3, <3>4, Zenon
    <3>6. QED BY <1>1, <2>1, <3>5, FilesFrame DEF FilesInv
  <2>5. CASE idleWorkers = <<>>
    <3>1. calls' \subseteq calls
      BY <2>2, <2>5, Zenon DEF AfterFailure
    <3>2. QED BY <1>1, <2>1, <3>1, FilesFrame DEF FilesInv
  <2>6. QED BY <2>4, <2>5
<1>6. CASE KillCall \/ KillReply \/ KillDone \/ stopRPCServer \/ merge
  <2>1. /\ UNCHANGED <<inter, out>> /\ \A d \in calls' : d \in calls \/ d.state = "sent"
    <3>1. ASSUME NEW t, NEW w PROVE Call(t, w).state = "sent"
      BY DEF Call
    <3>2. QED BY <1>6, <3>1 DEF KillCall, KillReply, KillDone, stopRPCServer, merge, files
  <2>2. ~Scheduling /\ ~Scheduling'
    <3>1. CASE KillReply
      <4>1. phase = "kill" /\ phase' = phase
        BY <1>1, <3>1, Zenon DEF KillReply, ScheduleInv, CallsInv
      <4>2. QED BY <4>1 DEF Scheduling, mapPhase, reducePhase
    <3>2. CASE KillCall \/ KillDone \/ stopRPCServer \/ merge
      BY <3>2 DEF KillCall, KillDone, stopRPCServer, merge, masterVars, Scheduling, mapPhase, reducePhase
    <3>3. QED BY <1>6, <3>1, <3>2
  <2>3. phase' # mapPhase /\ phase' # reducePhase
    BY <2>2 DEF Scheduling
  <2>4. \A r \in ReduceTasks : ReduceDone(r)'
    BY <1>1, <2>1, <2>2, Zenon DEF FilesInv, ReduceDone
  <2>5. \A d \in calls' : d.state # "misled"
    BY <1>1, <2>1, SMT DEF FilesInv
  <2>6. QED BY <2>3, <2>4, <2>5, Zenon DEF FilesInv
<1>7. CASE CallFails \/ \E w \in Workers : Accept(w)
  <2>1. UNCHANGED <<phase, doneMap, inter, out>>
    BY <1>7 DEF CallFails, Accept, masterVars, files
  <2>2. PICK c \in calls, s \in {"accepted", "failed"} : calls' = Becomes(c, s)
    BY <1>7, Zenon DEF CallFails, Accept
  <2>3. s \in CallStates /\ s # "ok" /\ s # "misled" /\ calls \subseteq CallRecords
    BY <1>1, CallTypes DEF CallStates
  <2>4. \A d \in calls' : d \in calls \/ d.state = s
    BY <2>2, <2>3, BecomesCalls
  <2>5. QED BY <1>1, <2>1, <2>3, <2>4, FilesFrame DEF FilesInv
<1>8. CASE \E c \in calls : DoTask(c) \/ DoTaskReply(c)
  BY <1>1, <1>8, FilesDoTask, FilesReply, Zenon
<1>9. CASE \E c \in calls : Shutdown(c)
  <2>1. PICK c \in calls : Shutdown(c)
    BY <1>9
  <2>2. UNCHANGED <<phase, doneMap, inter, out>> /\ calls' = Becomes(c, "ok")
    BY <2>1 DEF Shutdown, masterVars, files
  <2>3. ~Scheduling
    BY <1>1, <2>1 DEF Shutdown, ScheduleInv, CallsInv, Scheduling, mapPhase, reducePhase
  <2>4. "ok" \in CallStates /\ calls \subseteq CallRecords
    BY <1>1, CallTypes DEF CallStates
  <2>5. \A d \in calls' : d \in calls \/ d.state = "ok"
    BY <2>2, <2>4, BecomesCalls
  <2>6. \A d \in calls' : d.state # "misled"
    BY <1>1, <2>5, SMT DEF FilesInv
  <2>7. QED BY <1>1, <2>2, <2>3, <2>6, FilesFrame, Zenon
<1>10. CASE \E w \in Workers : Crash(w)
  <2>1. PICK w \in Workers : Crash(w)
    BY <1>10
  <2>2. UNCHANGED <<phase, doneMap, inter, out>>
    BY <2>1 DEF Crash, masterVars, files
  <2>3. ASSUME NEW d \in calls'
        PROVE  /\ d.state # "misled"
               /\ d.state = "ok" => \E c \in calls : c.state = "ok" /\ c.task = d.task
    <3>1. PICK c \in calls : d = IF c.worker = w /\ c.state \notin {"ok", "failed"}
                                 THEN [c EXCEPT !.state = "failed"] ELSE c
      BY <2>1, <2>3 DEF Crash
    <3>2. c \in CallRecords /\ c.state # "misled"
      BY <1>1, CallTypes, Zenon DEF FilesInv
    <3>3. QED BY <3>1, <3>2 DEF CallRecords
  <2>4. QED BY <1>1, <2>2, <2>3, FilesFrame, Zenon
<1>11. QED BY <1>2, <1>3, <1>4, <1>5, <1>6, <1>7, <1>8, <1>9, <1>10, Zenon DEF Next, MasterStep, WorkerStep

\* The types of what SchedTypes leaves out.
LEMMA TypeStep ==
  ASSUME JobInv, Next, ScheduleInvNext
  PROVE  TypeOK'
<1>1. ScheduleInv
  BY Zenon DEF JobInv, ScheduleInv
<1>2. /\ idleWorkers' \in Seq(Workers) /\ taskQu' \in Seq(Nat)
      /\ calls' \subseteq CallRecords
  BY DEF ScheduleInvNext, SchedTypes
<1>3. /\ phase \in {mapPhase, reducePhase, "kill", "stop", "merge", "done", "fatal"}
      /\ workers \in Seq(Workers) /\ forwarded \in 0..Len(workers) /\ registerChan \subseteq 1..forwarded
      /\ doneMap \subseteq Nat /\ calls \subseteq CallRecords
      /\ loop \in [Workers -> {"down", "check", "accept", "closed"}]
      /\ nRPC \in [Workers -> Int] /\ nTasks \in [Workers -> Nat] /\ concurrent \in [Workers -> Nat]
      /\ inter \in [MapTasks -> [ReduceTasks -> FileState]]
      /\ out \in [ReduceTasks -> FileState]
  BY <1>1, CallTypes DEF ScheduleInv, TypeOK
<1>4. CASE forwardRegistrations
  BY <1>2, <1>3, <1>4 DEF forwardRegistrations, schedVars, workerVars, files, TypeOK
<1>5. CASE ScheduleRegistered \/ ScheduleFailed
  <2>1. registerChan' \subseteq registerChan
        /\ UNCHANGED <<phase, workers, forwarded, doneMap, loop, nRPC, nTasks, concurrent, inter, out>>
    BY <1>5 DEF ScheduleRegistered, ScheduleFailed, workerVars, files
  <2>2. QED BY <1>2, <1>3, <2>1 DEF TypeOK
<1>6. CASE ScheduleOk
  <2>1. UNCHANGED <<workers, loop, nRPC, nTasks, concurrent, inter, out>> /\ Scheduling
    BY <1>6 DEF ScheduleOk, workerVars, files
  <2>2. \/ phase' \in {reducePhase, "kill"} /\ forwarded' = 0 /\ registerChan' = {} /\ doneMap' = {}
        \/ UNCHANGED <<phase, forwarded, registerChan>> /\ \E c \in calls : doneMap' = doneMap \cup {c.task}
    BY <1>6 DEF ScheduleOk, NextPhase
  <2>3. \A c \in calls : c.task \in Nat
    BY <1>1, <2>1, ScheduleFacts, Zenon
  <2>4. /\ phase' \in {mapPhase, reducePhase, "kill", "stop", "merge", "done", "fatal"}
        /\ forwarded' \in 0..Len(workers) /\ registerChan' \subseteq 1..forwarded'
        /\ doneMap' \subseteq Nat
    <3>1. CASE phase' \in {reducePhase, "kill"} /\ forwarded' = 0 /\ registerChan' = {} /\ doneMap' = {}
      BY <1>3, <3>1
    <3>2. CASE UNCHANGED <<phase, forwarded, registerChan>> /\ \E c \in calls : doneMap' = doneMap \cup {c.task}
      BY <1>3, <2>3, <3>2, Zenon
    <3>3. QED BY <2>2, <3>1, <3>2, Zenon
  <2>5. QED BY <1>2, <1>3, <2>1, <2>4 DEF TypeOK
<1>7. CASE KillCall \/ KillReply \/ KillDone \/ stopRPCServer \/ merge
  <2>1. UNCHANGED <<workers, forwarded, registerChan, doneMap, loop, nRPC, nTasks, concurrent, inter, out>>
    BY <1>7 DEF KillCall, KillReply, KillDone, stopRPCServer, merge, masterVars, schedVars, workerVars, files
  <2>2. phase' \in {phase, "stop", "merge", "done", "fatal"}
    BY <1>7 DEF KillCall, KillReply, KillDone, stopRPCServer, merge, masterVars
  <2>3. QED BY <1>2, <1>3, <2>1, <2>2 DEF TypeOK
<1>8. CASE CallFails
  BY <1>2, <1>3, <1>8 DEF CallFails, masterVars, workerVars, files, TypeOK
<1>9. ASSUME NEW w \in Workers, RunWorker(w) PROVE TypeOK'
  <2>1. /\ loop' \in [Workers -> {"down", "check", "accept", "closed"}]
        /\ workers' \in Seq(Workers) /\ Len(workers') \in Nat /\ Len(workers') >= Len(workers)
        /\ UNCHANGED <<phase, forwarded, registerChan, doneMap, nRPC, nTasks, concurrent, inter, out>>
    BY <1>3, <1>9 DEF RunWorker, schedVars, files
  <2>2. forwarded' \in 0..Len(workers')
    BY <1>3, <2>1
  <2>3. QED BY <1>2, <1>3, <2>1, <2>2, Zenon DEF TypeOK
<1>10. ASSUME NEW w \in Workers, CheckRPCs(w) \/ Accept(w) \/ Crash(w) PROVE TypeOK'
  <2>1. /\ loop' \in [Workers -> {"down", "check", "accept", "closed"}]
        /\ nRPC' \in [Workers -> Int] /\ concurrent' \in [Workers -> Nat]
        /\ UNCHANGED <<phase, workers, forwarded, registerChan, doneMap, nTasks, inter, out>>
    <3>1. UNCHANGED <<phase, workers, forwarded, registerChan, doneMap, nTasks, inter, out>>
      BY <1>10 DEF CheckRPCs, Accept, Crash, masterVars, files
    <3>2. PICK x \in {"down", "check", "accept", "closed"} : loop' = [loop EXCEPT ![w] = x]
      BY <1>10 DEF CheckRPCs, Accept, Crash
    <3>3. nRPC' = nRPC \/ nRPC' = [nRPC EXCEPT ![w] = @ - 1]
      BY <1>10, Zenon DEF CheckRPCs, Accept, Crash
    <3>4. concurrent' = concurrent \/ concurrent' = [concurrent EXCEPT ![w] = 0]
      BY <1>10, Zenon DEF CheckRPCs, Accept, Crash
    <3>5. nRPC' \in [Workers -> Int]
      BY <1>3, <3>3
    <3>6. concurrent' \in [Workers -> Nat]
      <4>1. [concurrent EXCEPT ![w] = 0] \in [Workers -> Nat]
        BY <1>3
      <4>2. QED BY <1>3, <3>4, <4>1, Zenon
    <3>7. loop' \in [Workers -> {"down", "check", "accept", "closed"}]
      BY <1>3, <3>2
    <3>8. QED BY <3>1, <3>5, <3>6, <3>7, Zenon
  <2>2. QED BY <1>2, <1>3, <2>1 DEF TypeOK
<1>11. ASSUME NEW c \in calls, DoTask(c) \/ DoTaskReply(c) \/ Shutdown(c) PROVE TypeOK'
  <2>1. UNCHANGED <<phase, workers, forwarded, registerChan, doneMap, loop>>
    BY <1>11 DEF DoTask, DoTaskReply, Shutdown, masterVars
  <2>2. concurrent' \in [Workers -> Nat]
    BY <1>1, <1>11, HandlerStep
  <2>3. nTasks' \in [Workers -> Nat] /\ nRPC' \in [Workers -> Int]
    BY <1>3, <1>11 DEF DoTask, DoTaskReply, Shutdown, CallRecords
  <2>4. inter' \in [MapTasks -> [ReduceTasks -> FileState]] /\ out' \in [ReduceTasks -> FileState]
    <3>1. PICK f \in FileState, g \in FileState :
            /\ inter' = inter \/ inter' = [inter EXCEPT ![c.task] = [r \in ReduceTasks |-> f]]
            /\ out' = out \/ out' = [out EXCEPT ![c.task] = g]
      BY <1>11 DEF DoTask, DoTaskReply, Shutdown, files, FileState
    <3>2. [r \in ReduceTasks |-> f] \in [ReduceTasks -> FileState]
      OBVIOUS
    <3>3. inter' \in [MapTasks -> [ReduceTasks -> FileState]]
      <4>1. PICK h \in [ReduceTasks -> FileState] : inter' = inter \/ inter' = [inter EXCEPT ![c.task] = h]
        BY <3>1, <3>2, Zenon
      <4>2. QED BY <1>3, <4>1
    <3>4. out' \in [ReduceTasks -> FileState]
      BY <1>3, <3>1
    <3>5. QED BY <3>3, <3>4
  <2>5. QED BY <1>2, <1>3, <2>1, <2>2, <2>3, <2>4 DEF TypeOK
<1>12. QED BY <1>4, <1>5, <1>6, <1>7, <1>8, <1>9, <1>10, <1>11, Zenon DEF Next, MasterStep, WorkerStep

\* Every step of the master, of a worker or of a crash keeps the invariant.
LEMMA JobStep == JobInv /\ [Next]_vars => JobInv'
<1> SUFFICES ASSUME JobInv, [Next]_vars PROVE JobInv'
  OBVIOUS
<1>1. ScheduleInv
  BY Zenon DEF JobInv, ScheduleInv
<1>2. CASE Next
  <2>1. ScheduleInvNext
    <3>1. CASE \E w \in Workers : CheckRPCs(w)
      <4>1. UNCHANGED <<masterVars, calls, started, concurrent>>
        BY <3>1 DEF CheckRPCs
      <4>2. QED BY <1>1, <4>1, Frame, Zenon
    <3>2. CASE CallFails \/ \E w \in Workers : Accept(w)
      <4>1. CASE CallFails /\ Workers # {}
        BY <1>1, <4>1, AcceptStep
      <4>2. CASE \E w \in Workers : Accept(w)
        BY <1>1, <4>2, AcceptStep
      <4>3. CASE CallFails /\ Workers = {}
        <5>1. PICK c \in calls : TRUE
          BY <4>3, Zenon DEF CallFails
        <5>2. c.worker \in Workers
          BY <1>1, CallTypes DEF CallRecords
        <5>3. QED BY <4>3, <5>2
      <4>4. QED BY <3>2, <4>1, <4>2, <4>3
    <3>3. CASE \E c \in calls : DoTask(c) \/ DoTaskReply(c) \/ Shutdown(c)
      BY <1>1, <3>3, HandlerStep, Zenon
    <3>4. CASE \E w \in Workers : RunWorker(w) \/ Crash(w)
      BY <1>1, <3>4, RunWorkerStep, CrashStep, Zenon
    <3>5. CASE MasterStep
      BY <1>1, <3>5, ForwardStep, RegisteredStep, OkOrLastStep, FailedStep, KillStep, Zenon DEF MasterStep
    <3>6. QED BY <1>2, <3>1, <3>2, <3>3, <3>4, <3>5, Zenon DEF Next, WorkerStep
  <2>2. TypeOK' /\ FilesInv'
    BY <1>2, <2>1, TypeStep, FilesStep
  <2>3. QED BY <2>1, <2>2, Zenon DEF JobInv, ScheduleInvNext
<1>3. CASE UNCHANGED vars
  <2>1. UNCHANGED <<masterVars, calls, started, concurrent>>
    BY <1>3 DEF vars, masterVars
  <2>2. ScheduleInvNext
    BY <1>1, <2>1, Frame, Zenon
  <2>3. TypeOK'
    BY <1>1, <1>3 DEF vars, TypeOK, ScheduleInv
  <2>4. FilesInv'
    <3>1. UNCHANGED <<phase, doneMap, inter, out, calls>>
      BY <1>3 DEF vars
    <3>2. \A d \in calls : d.state # "misled"
      BY Zenon DEF JobInv, FilesInv
    <3>3. FilesInv
      BY Zenon DEF JobInv
    <3>4. QED BY <3>1, <3>2, <3>3, FilesFrame, Zenon
  <2>5. QED BY <2>2, <2>3, <2>4, Zenon DEF JobInv, ScheduleInvNext
<1>4. QED BY <1>2, <1>3

\* A job begins with all map tasks queued, no worker and no file.
LEMMA JobInit == Init => JobInv
<1> SUFFICES ASSUME Init PROVE JobInv
  OBVIOUS
<1>1. /\ calls = {} /\ workers = <<>> /\ idleWorkers = <<>> /\ doneMap = {} /\ started = {} /\ killed = 0
      /\ taskQu = TaskQueue(mapPhase) /\ phase = mapPhase /\ forwarded = 0 /\ registerChan = {}
      /\ Scheduling
  BY DEF Init, Scheduling
<1>2. taskQu \in Seq(Nat) /\ TaskPlaces(taskQu, {}, {}, Tasks(phase))
  BY <1>1, NewQueue, Zenon
<1>3. TypeOK
  <2>1. /\ loop \in [Workers -> {"down", "check", "accept", "closed"}]
        /\ nRPC \in [Workers -> Int] /\ nTasks \in [Workers -> Nat] /\ concurrent \in [Workers -> Nat]
    BY RPCsAssumption DEF Init
  <2>2. /\ inter \in [MapTasks -> [ReduceTasks -> FileState]]
        /\ out \in [ReduceTasks -> FileState]
    BY DEF Init, FileState
  <2>3. /\ workers \in Seq(Workers) /\ idleWorkers \in Seq(Workers)
        /\ forwarded \in 0..Len(workers) /\ registerChan \subseteq 1..forwarded
    BY <1>1
  <2>4. phase \in {mapPhase, reducePhase, "kill", "stop", "merge", "done", "fatal"} /\ doneMap \subseteq Nat
    BY <1>1
  <2>5. QED BY <1>1, <1>2, <2>1, <2>2, <2>3, <2>4, Zenon DEF TypeOK
<1>4. DOMAIN workers = {} /\ DOMAIN idleWorkers = {}
  BY <1>1
<1>5. CallsInv
  <2>1. killed \in Nat
    BY <1>1
  <2>2. QED BY <1>1, <1>4, <2>1, Zenon DEF CallsInv, Distinct
<1>6. PlacesInv
  BY <1>1, <1>2, <1>4, Zenon DEF PlacesInv, WorkerPlaces, Distinct
<1>7. ServingInv
  BY <1>1 DEF ServingInv, Init
<1>8. FilesInv
  BY <1>1 DEF FilesInv, mapPhase, reducePhase
<1>9. NoIdleWorkerWhileTaskWaits
  BY <1>1 DEF NoIdleWorkerWhileTaskWaits
<1>10. QED BY <1>3, <1>5, <1>6, <1>7, <1>8, <1>9, Zenon DEF JobInv

\* The inductive invariant holds in every behaviour of a job.
THEOREM JobInvariant == Spec => []JobInv
BY JobInit, JobStep, PTL DEF Spec

\* The types hold in every behaviour of a job.
THEOREM JobTypes == Spec => []TypeOK
<1>1. JobInv => TypeOK
  BY Zenon DEF JobInv
<1>2. QED BY <1>1, JobInvariant, PTL

\* "schedule() should never issue more than one RPC at a time to a given worker"
\* (worker.go:51): for any number of workers, tasks, failures and crashes, no worker
\* is in DoTask twice.
THEOREM OneTaskEach == Spec => []OneTaskPerWorker
<1>1. JobInv => OneTaskPerWorker
  <2> SUFFICES ASSUME JobInv, NEW w \in Workers PROVE concurrent[w] <= 1
    BY Zenon DEF OneTaskPerWorker
  <2>1. concurrent[w] = 0 \/ concurrent[w] = 1
    BY Zenon DEF JobInv, ServingInv
  <2>2. QED BY <2>1
<1>2. QED BY <1>1, JobInvariant, PTL

\* schedule() (schedule.go:58) loses no task when a call fails and gives none out twice:
\* a task is waiting, in one call, or done.
THEOREM NoTaskLost == Spec => []TasksAccounted
<1>1. JobInv => TasksAccounted
  <2> SUFFICES ASSUME JobInv, Scheduling, NEW t \in 0 .. Tasks(phase) - 1
               PROVE  Cardinality({p \in DOMAIN taskQu : taskQu[p] = t})
                        + Cardinality({c \in calls : c.phase = phase /\ c.task = t})
                        + (IF t \in doneMap THEN 1 ELSE 0) = 1
    BY Zenon DEF TasksAccounted
  <2> DEFINE waiting == {p \in DOMAIN taskQu : taskQu[p] = t}
             atWork == {c \in calls : c.phase = phase /\ c.task = t}
  <2> SUFFICES ASSUME NEW a, NEW b, a = Cardinality(waiting), b = Cardinality(atWork)
               PROVE  a + b + (IF t \in doneMap THEN 1 ELSE 0) = 1
    BY Zenon
  <2>1. TaskPlaces(taskQu, calls, doneMap, Tasks(phase)) /\ \A c \in calls : c.phase = phase
    BY Zenon DEF JobInv, PlacesInv, CallsInv
  <2>2. /\ Cardinality({}) = 0 /\ \A x : Cardinality({x}) = 1
    BY FS_EmptySet, FS_Singleton, Zenon
  <2>3. CASE t \in doneMap
    <3>1. waiting = {} /\ atWork = {}
      BY <2>1, <2>3, Zenon DEF TaskPlaces
    <3>2. a = 0 /\ b = 0
      BY <2>2, <3>1, Zenon
    <3>3. QED BY <2>3, <3>2
  <2>4. CASE t \notin doneMap /\ \E p \in DOMAIN taskQu : taskQu[p] = t
    <3>1. PICK p \in DOMAIN taskQu : taskQu[p] = t
      BY <2>4
    <3>2. waiting = {p} /\ atWork = {}
      BY <2>1, <3>1, Zenon DEF TaskPlaces, Distinct
    <3>3. a = 1 /\ b = 0
      BY <2>2, <3>2, Zenon
    <3>4. QED BY <2>4, <3>3
  <2>5. CASE t \notin doneMap /\ ~\E p \in DOMAIN taskQu : taskQu[p] = t
    <3>1. PICK c \in calls : c.task = t
      BY <2>1, <2>5, Zenon DEF TaskPlaces
    <3>2. waiting = {} /\ atWork = {c}
      BY <2>1, <2>5, <3>1, Zenon DEF TaskPlaces
    <3>3. a = 0 /\ b = 1
      BY <2>2, <3>2, Zenon
    <3>4. QED BY <2>5, <3>3
  <2>6. QED BY <2>3, <2>4, <2>5
<1>2. QED BY <1>1, JobInvariant, PTL

\* doReduce and merge read complete files, and no call of a finished phase is out that
\* could still write them (master.go:142, 145).
THEOREM ReadsCompleteInputs == Spec => []InputsComplete
<1>1. JobInv => InputsComplete
  <2> SUFFICES ASSUME JobInv PROVE InputsComplete
    OBVIOUS
  <2>1. phase \in {"merge", "done"} => ~Scheduling
    BY DEF Scheduling, mapPhase, reducePhase
  <2>2. Filled \subseteq ReduceTasks
    BY SetsAssumption DEF ReduceTasks
  <2>3. QED BY <2>1, <2>2, Zenon DEF JobInv, CallsInv, FilesInv, ReduceDone, InputsComplete
<1>2. QED BY <1>1, JobInvariant, PTL

\* schedule() (schedule.go:58) lets no worker wait beside a waiting task.
THEOREM NoneIdleInVain == Spec => []NoIdleWorkerWhileTaskWaits
<1>1. JobInv => NoIdleWorkerWhileTaskWaits
  BY Zenon DEF JobInv
<1>2. QED BY <1>1, JobInvariant, PTL
=============================================================================
