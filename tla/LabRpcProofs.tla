---------------------------- MODULE LabRpcProofs ----------------------------
(***************************************************************************)
(* Proofs about LabRpc, for any number of calls, client ends, servers and  *)
(* restarts: the types, the inductive invariant CallInv, that a call that  *)
(* returned true is persisted, and that labrpc implements RpcPromise.      *)
(***************************************************************************)
EXTENDS LabRpc, TLAPS

\* Every step keeps the types.
LEMMA TypeStep == TypeOK /\ (\A c \in Calls : CallOK(c)) /\ [Next]_vars => TypeOK'
<1> SUFFICES ASSUME TypeOK, \A c \in Calls : CallOK(c), [Next]_vars
             PROVE  TypeOK'
    OBVIOUS
<1> USE DEF TypeOK
<1>1. ASSUME NEW c \in Calls, Call(c) \/ Accept(c) PROVE TypeOK'
  BY <1>1 DEF Call, Accept, netVars, diskVars
<1>2. ASSUME NEW c \in Calls, CallDone(c) \/ Unreachable(c) \/ DropRequest(c) \/ DelayedReply(c)
      PROVE  TypeOK'
  BY <1>2 DEF CallDone, Unreachable, DropRequest, DelayedReply, Returned, netVars, diskVars
<1>3. ASSUME NEW c \in Calls, ProcessReq(c) PROVE TypeOK'
  <2>1. ReadEndnameInfo(via[c]) \in [name : Names \cup {"none"}, server : Instances \cup {Nil},
                                     reliable : BOOLEAN, longReordering : BOOLEAN]
    BY DEF ReadEndnameInfo
  <2>2. QED BY <1>3, <2>1 DEF ProcessReq, netVars, diskVars
<1>4. ASSUME NEW c \in Calls, Deliver(c) \/ TakeReply(c) \/ Poll(c) \/ Drain(c) \/ HandlerReturns(c)
      PROVE  TypeOK'
  BY <1>4 DEF Deliver, TakeReply, Poll, Drain, HandlerReturns, netVars, diskVars
<1>5. ASSUME NEW c \in Calls, Answer(c) PROVE TypeOK'
  <2>1. /\ pc' \in [Calls -> {"idle", "select", "sent", "timeout", "deliver", "waiting",
                              "check", "delayed", "returned"}]
        /\ result' \in [Calls -> {"none", "true", "false"}]
    BY <1>5 DEF Answer, Returned
  <2>2. UNCHANGED <<netVars, via, hung, read, handler, replyOK, diskVars>>
    BY <1>5 DEF Answer
  <2>3. QED BY <2>1, <2>2 DEF netVars, diskVars
<1>6. ASSUME NEW c \in Calls, Handle(c) PROVE TypeOK'
  <2>1. read[c].name \in Names /\ read[c].server \in Instances
    BY <1>6 DEF Handle, CallOK, Nil
  <2>2. disk' \in [Names -> [Instances -> SUBSET Calls]]
    BY <1>6, <2>1 DEF Handle
  <2>3. handler' \in [Calls -> {"none", "running", "persisted", "finished", "gone"}]
    BY <1>6 DEF Handle
  <2>4. UNCHANGED <<enabled, connections, servers, reliable, longReordering, pc, via, hung, read,
                    replyOK, result, saved, started>>
    BY <1>6 DEF Handle, netVars
  <2>5. QED BY <2>2, <2>3, <2>4
<1>7. ASSUME NEW n \in Names, AddServer(n) \/ DeleteServer(n) PROVE TypeOK'
  <2>1. CASE AddServer(n)
    <3>1. saved[n] \in Instances
      OBVIOUS
    <3>2. QED BY <2>1, <3>1 DEF AddServer, callVars
  <2>2. CASE DeleteServer(n)
    BY <2>2 DEF DeleteServer, callVars, diskVars
  <2>3. QED BY <1>7, <2>1, <2>2
<1>8. ASSUME NEW n \in Names, CopyPersister(n) PROVE TypeOK'
  <2>1. saved[n] + 1 \in Instances
    BY <1>8, InstancesAssumption DEF CopyPersister, Instances
  <2>2. QED BY <1>8, <2>1 DEF CopyPersister, netVars, callVars
<1>9. ASSUME NEW e \in Ends, NEW n \in Names, Connect(e, n) PROVE TypeOK'
  BY <1>9 DEF Connect, callVars, diskVars
<1>10. ASSUME NEW e \in Ends, NEW yes \in BOOLEAN, Enable(e, yes) PROVE TypeOK'
  BY <1>10 DEF Enable, callVars, diskVars
<1>11. ASSUME NEW yes \in BOOLEAN, Reliable(yes) \/ LongReordering(yes) PROVE TypeOK'
  BY <1>11 DEF Reliable, LongReordering, callVars, diskVars
<1>12. CASE Cleanup \/ LoopEnds
  BY <1>12 DEF Cleanup, LoopEnds, callVars, diskVars
<1>13. CASE UNCHANGED vars
  BY <1>13 DEF vars, netVars, callVars, diskVars
<1>14. QED
  BY <1>1, <1>2, <1>3, <1>4, <1>5, <1>6, <1>7, <1>8, <1>9, <1>10, <1>11, <1>12, <1>13
     DEF Next, Step, HandlerStep

\* Whichever step is taken, a server that is added has the current Persister.
LEMMA ServersStep ==
  ASSUME CallInv, [Next]_vars, NEW n \in Names, servers'[n] # Nil
  PROVE  servers'[n] = saved'[n] /\ started'[n] = saved'[n]
<1> USE InstancesAssumption DEF CallInv, TypeOK, Nil
<1>1. CASE \E m \in Names : AddServer(m) \/ DeleteServer(m)
  BY <1>1 DEF AddServer, DeleteServer, diskVars
<1>2. CASE \E m \in Names : CopyPersister(m)
  BY <1>2 DEF CopyPersister, netVars
<1>3. CASE UNCHANGED <<servers, saved, started>>
  BY <1>3
<1>4. QED
  BY <1>1, <1>2, <1>3
     DEF Next, Step, HandlerStep, Call, Accept, CallDone, ProcessReq, Unreachable, DropRequest,
         Deliver, TakeReply, Poll, Answer, DelayedReply, Drain, Handle, HandlerReturns, Reliable,
         LongReordering, Connect, Enable, Cleanup, LoopEnds, vars, netVars, diskVars

\* What CallOK says of a call is kept while the call does not move and no
\* Persister that matters to it loses an update.
LEMMA CallFrame ==
  ASSUME CallInv, NEW c \in Calls,
         pc'[c] = pc[c], read'[c] = read[c], handler'[c] = handler[c],
         replyOK'[c] = replyOK[c], result'[c] = result[c],
         \A n \in Names : saved[n] <= saved'[n] /\ saved'[n] \in Instances,
         \A n \in Names : \A i \in 1 .. saved[n] : disk[n][i] \subseteq disk'[n][i],
         \A n \in Names : disk[n][saved[n]] \subseteq disk'[n][saved'[n]]
  PROVE  CallOK(c)'
<1>1. CallOK(c) /\ read[c].server \in Instances \cup {Nil}
  BY DEF CallInv, TypeOK
<1>2. \A n \in Names : saved[n] \in Instances
  BY DEF CallInv, TypeOK
<1>3. QED
  BY <1>1, <1>2, InstancesAssumption DEF CallOK, Instances, Nil

\* A step of one call and its ProcessReq leaves the other calls in order, and a
\* step of the harness all of them.
LEMMA StillCalls ==
  ASSUME CallInv, NEW c \in Calls, CallOK(c)', NEW d \in Calls, UNCHANGED diskVars,
         \A e \in Calls \ {c} : pc'[e] = pc[e] /\ read'[e] = read[e] /\ handler'[e] = handler[e]
                                 /\ replyOK'[e] = replyOK[e] /\ result'[e] = result[e]
  PROVE  CallOK(d)'
<1>1. CASE d = c
  BY <1>1
<1>2. CASE d # c
  BY <1>2, CallFrame DEF diskVars, CallInv, TypeOK, Instances
<1>3. QED BY <1>1, <1>2

\* The steps of a call and its ProcessReq.
LEMMA CallSteps ==
  ASSUME CallInv, NEW c \in Calls,
         Call(c) \/ Step(c) \/ HandlerReturns(c) \/ Drain(c), NEW d \in Calls
  PROVE  CallOK(d)'
<1> USE InstancesAssumption, NamesAssumption
<1>0. CallOK(c) /\ TypeOK
  BY DEF CallInv
<1>1. CASE Call(c) \/ Accept(c) \/ CallDone(c) \/ Unreachable(c) \/ DropRequest(c)
  <2>1. CallOK(c)'
    BY <1>0, <1>1 DEF Call, Accept, CallDone, Unreachable, DropRequest, Returned, CallOK, TypeOK,
                      diskVars
  <2>2. QED
    BY <1>0, <1>1, <2>1, StillCalls
       DEF Call, Accept, CallDone, Unreachable, DropRequest, Returned, TypeOK
<1>2. CASE ProcessReq(c)
  <2>1. read'[c] = ReadEndnameInfo(via[c])
    BY <1>0, <1>2 DEF ProcessReq, TypeOK
  <2>2. CASE Reachable(via[c])
    <3>1. connections[via[c]] \in Names /\ servers[connections[via[c]]] # Nil
      BY <1>0, <2>2 DEF Reachable, ReadEndnameInfo, TypeOK
    <3>2. servers[connections[via[c]]] <= saved[connections[via[c]]]
      BY <1>0, <3>1 DEF CallInv, TypeOK, Instances
    <3>3. CallOK(c)'
      BY <1>0, <1>2, <2>1, <2>2, <3>1, <3>2
         DEF ProcessReq, ReadEndnameInfo, CallOK, TypeOK, diskVars
    <3>4. QED
      BY <1>0, <1>2, <3>3, StillCalls DEF ProcessReq, TypeOK
  <2>3. CASE ~Reachable(via[c])
    <3>1. CallOK(c)'
      BY <1>0, <1>2, <2>3 DEF ProcessReq, CallOK, TypeOK, diskVars
    <3>2. QED
      BY <1>0, <1>2, <3>1, StillCalls DEF ProcessReq, TypeOK
  <2>4. QED BY <2>2, <2>3
<1>3. CASE Deliver(c) \/ TakeReply(c) \/ Poll(c) \/ Drain(c) \/ HandlerReturns(c)
  <2>1. CallOK(c)'
    <3>1. CASE Deliver(c) \/ Poll(c)
      BY <1>0, <3>1 DEF Deliver, Poll, CallOK, TypeOK, diskVars
    <3>2. CASE TakeReply(c)
      BY <1>0, <3>2 DEF TakeReply, CallOK, TypeOK, diskVars
    <3>3. CASE Drain(c) \/ HandlerReturns(c)
      BY <1>0, <3>3 DEF Drain, HandlerReturns, CallOK, TypeOK, diskVars
    <3>4. QED BY <1>3, <3>1, <3>2, <3>3
  <2>2. QED
    BY <1>0, <1>3, <2>1, StillCalls DEF Deliver, TakeReply, Poll, Drain, HandlerReturns, TypeOK
<1>4. CASE Answer(c)
  <2>1. ASSUME ~Refuse(c) PROVE handler[c] = "gone" /\ c \in disk[read[c].name][saved[read[c].name]]
    <3>1. replyOK[c] /\ servers[read[c].name] = read[c].server
      BY <2>1 DEF Refuse, IsServerDead
    <3>2. handler[c] = "gone" /\ read[c].name \in Names /\ read[c].server # Nil
      BY <1>0, <3>1 DEF CallOK
    <3>3. read[c].server = saved[read[c].name]
      BY <3>1, <3>2 DEF CallInv
    <3>4. QED BY <1>0, <3>2, <3>3 DEF CallOK
  <2>2. CallOK(c)'
    BY <1>0, <1>4, <2>1 DEF Answer, Returned, CallOK, TypeOK, diskVars
  <2>3. QED
    BY <1>0, <1>4, <2>2, StillCalls DEF Answer, Returned, TypeOK
<1>5. CASE DelayedReply(c)
  <2>1. CallOK(c)'
    BY <1>0, <1>5 DEF DelayedReply, Returned, CallOK, TypeOK, diskVars
  <2>2. QED
    BY <1>0, <1>5, <2>1, StillCalls DEF DelayedReply, Returned, TypeOK
<1>6. QED
  BY <1>1, <1>2, <1>3, <1>4, <1>5 DEF Step

\* The handler's write to the Persister of its own instance.
LEMMA HandleStep ==
  ASSUME CallInv, NEW c \in Calls, Handle(c), NEW d \in Calls
  PROVE  CallOK(d)'
<1> DEFINE n == read[c].name
           i == read[c].server
<1>1. CallOK(c) /\ TypeOK /\ handler[c] = "running"
  BY DEF CallInv, Handle
<1>2. n \in Names /\ i \in Instances /\ i <= saved[n]
  BY <1>1 DEF CallOK, TypeOK
<1>3. disk'[n][i] = disk[n][i] \cup {c}
  BY <1>1, <1>2 DEF Handle, TypeOK
<1>4. \A m \in Names, j \in Instances : disk[m][j] \subseteq disk'[m][j]
  BY <1>1, <1>2 DEF Handle, TypeOK
<1>5. CASE d = c
  <2>1. /\ pc'[c] = pc[c] /\ read'[c] = read[c] /\ replyOK'[c] = replyOK[c]
        /\ result'[c] = result[c] /\ handler'[c] = "persisted" /\ saved' = saved
    BY <1>1 DEF Handle, TypeOK
  <2>2. ~replyOK[c] /\ pc[c] # "delayed" /\ result[c] # "true"
    BY <1>1 DEF CallOK
  <2>3. QED BY <1>1, <1>2, <1>3, <1>5, <2>1, <2>2 DEF CallOK
<1>6. CASE d # c
  <2>1. /\ pc'[d] = pc[d] /\ read'[d] = read[d] /\ replyOK'[d] = replyOK[d]
        /\ result'[d] = result[d] /\ handler'[d] = handler[d] /\ saved' = saved
    BY <1>1, <1>6 DEF Handle, TypeOK
  <2>2. \A m \in Names : saved[m] \in Instances /\ \A j \in 1 .. saved[m] : j \in Instances
    BY <1>1, InstancesAssumption DEF TypeOK, Instances
  <2>3. QED BY <1>4, <2>1, <2>2, CallFrame DEF Instances
<1>7. QED BY <1>5, <1>6

\* crash1 writes a Persister that no server has had yet, with the content of
\* the one that was current.
LEMMA CopyStep ==
  ASSUME CallInv, NEW n \in Names, CopyPersister(n), NEW d \in Calls
  PROVE  CallOK(d)'
<1>1. TypeOK /\ \A m \in Names : saved[m] \in Instances
  BY DEF CallInv, TypeOK
<1>2. saved[n] + 1 \in Instances /\ saved'[n] = saved[n] + 1
      /\ \A m \in Names \ {n} : saved'[m] = saved[m]
  BY <1>1, InstancesAssumption DEF CopyPersister, TypeOK, Instances
<1>3. disk'[n][saved[n] + 1] = disk[n][saved[n]]
  BY <1>1, <1>2 DEF CopyPersister, TypeOK
<1>4. \A m \in Names, j \in Instances : m # n \/ j # saved[n] + 1 => disk'[m][j] = disk[m][j]
  BY <1>1, <1>2 DEF CopyPersister, TypeOK
<1>5. UNCHANGED <<pc, read, handler, replyOK, result>>
  BY DEF CopyPersister, callVars
<1>6. \A m \in Names : saved[m] <= saved'[m] /\ saved'[m] \in Instances
  BY <1>1, <1>2, InstancesAssumption DEF Instances
<1>7. \A m \in Names : \A j \in 1 .. saved[m] : disk[m][j] \subseteq disk'[m][j]
  BY <1>1, <1>4, InstancesAssumption DEF Instances
<1>8. \A m \in Names : disk[m][saved[m]] \subseteq disk'[m][saved'[m]]
  BY <1>1, <1>2, <1>3, <1>4, InstancesAssumption DEF Instances
<1>9. QED BY <1>5, <1>6, <1>7, <1>8, CallFrame

\* CallInv is inductive: the initial states satisfy it and every step keeps it.
LEMMA CallInit == Init => CallInv
<1> SUFFICES ASSUME Init PROVE CallInv
    OBVIOUS
<1>1. NotRead \in [name : Names \cup {"none"}, server : Instances \cup {Nil},
                   reliable : BOOLEAN, longReordering : BOOLEAN]
  BY DEF NotRead
<1>2. TypeOK
  <2>1. 1 \in Instances
    BY InstancesAssumption DEF Instances
  <2>2. /\ read \in [Calls -> [name : Names \cup {"none"}, server : Instances \cup {Nil},
                              reliable : BOOLEAN, longReordering : BOOLEAN]]
        /\ disk \in [Names -> [Instances -> SUBSET Calls]]
    BY <1>1 DEF Init
  <2>3. QED BY <2>1, <2>2 DEF Init, TypeOK
<1>3. \A n \in Names : servers[n] = Nil
  BY DEF Init
<1>4. \A c \in Calls : CallOK(c)
  BY DEF Init, CallOK
<1>5. QED BY <1>2, <1>3, <1>4 DEF CallInv

LEMMA CallStep == CallInv /\ [Next]_vars => CallInv'
<1> SUFFICES ASSUME CallInv, [Next]_vars PROVE CallInv'
    OBVIOUS
<1>1. TypeOK'
  BY TypeStep DEF CallInv
<1>2. (\A n \in Names : servers[n] # Nil => servers[n] = saved[n] /\ started[n] = saved[n])'
  BY ServersStep DEF Nil
<1>3. ASSUME NEW d \in Calls PROVE CallOK(d)'
  <2>1. CASE \E c \in Calls : Call(c) \/ Step(c) \/ HandlerReturns(c) \/ Drain(c)
    BY <2>1, CallSteps
  <2>2. CASE \E c \in Calls : Handle(c)
    BY <2>2, HandleStep
  <2>3. CASE \E n \in Names : CopyPersister(n)
    BY <2>3, CopyStep
  <2>4. CASE UNCHANGED <<callVars, saved, disk>>
    BY <2>4, CallFrame, InstancesAssumption DEF callVars, CallInv, TypeOK, Instances
  <2>5. QED
    BY <2>1, <2>2, <2>3, <2>4
       DEF Next, HandlerStep, Reliable, LongReordering, Connect, Enable, AddServer, DeleteServer,
           Cleanup, LoopEnds, vars, diskVars
<1>4. QED BY <1>1, <1>2, <1>3 DEF CallInv

\* In every reachable state the calls, their handlers and the Persisters go
\* together, whatever the network and the harness did.
THEOREM LabRpcInvariant == Spec => []CallInv
<1>1. QED BY CallInit, CallStep, PTL DEF Spec

\* A call that returned true has its update in the Persister that is current
\* for its server, however often ProcessReq raced with crash1 and start1.
THEOREM LabRpcPersists == Spec => []AckedIsPersisted
<1>1. CallInv => AckedIsPersisted
  BY DEF CallInv, CallOK, AckedIsPersisted
<1>2. QED BY <1>1, LabRpcInvariant, PTL

\* What the caller sees of a call, and whether its handler has run: the
\* refinement mapping of Promise, call by call.
Status(c) ==
  IF pc[c] = "idle" THEN "idle"
  ELSE IF pc[c] # "returned" THEN "pending"
  ELSE IF result[c] = "true" THEN "ok" ELSE "failed"

Ran(c) == handler[c] \notin {"none", "running"}

\* Only call c moves.
Others(c) ==
  \A d \in Calls \ {c} : pc'[d] = pc[d] /\ result'[d] = result[d] /\ handler'[d] = handler[d]

\* Each kind of change of one call is a step of the promise.
LEMMA PromiseMoves ==
  ASSUME NEW c \in Calls, Others(c)
  PROVE  /\ Status(c) = "idle" /\ Status(c)' = "pending" /\ Ran(c)' = Ran(c) => Promise!Issue(c)
         /\ Status(c) = "pending" /\ Status(c)' = "failed" /\ Ran(c)' = Ran(c) => Promise!Fail(c)
         /\ Status(c) = "pending" /\ Status(c)' = "ok" /\ Ran(c) /\ Ran(c)' => Promise!Succeed(c)
         /\ Status(c) \in {"pending", "failed"} /\ Status(c)' = Status(c) /\ ~Ran(c) /\ Ran(c)'
              => Promise!Execute(c)
         /\ Status(c)' = Status(c) /\ Ran(c)' = Ran(c) => UNCHANGED Promise!vars
<1> DEFINE status == [d \in Calls |-> Status(d)]
           ran == [d \in Calls |-> Ran(d)]
<1>1. \A d \in Calls \ {c} : Status(d)' = Status(d) /\ Ran(d)' = Ran(d)
  BY DEF Others, Status, Ran
<1>2. /\ status' = [status EXCEPT ![c] = Status(c)']
      /\ ran' = [ran EXCEPT ![c] = Ran(c)']
  BY <1>1
<1>3. /\ status[c] = Status(c) /\ (ran[c] <=> Ran(c)) /\ Ran(c) \in BOOLEAN /\ Ran(c)' \in BOOLEAN
  BY DEF Ran
<1>4. status \in [Calls -> {"idle", "pending", "ok", "failed"}] /\ ran \in [Calls -> BOOLEAN]
  BY <1>3 DEF Status, Ran
<1>5. /\ Promise!Issue(c) <=> /\ status[c] = "idle"
                              /\ status' = [status EXCEPT ![c] = "pending"]
                              /\ UNCHANGED ran
      /\ Promise!Fail(c) <=> /\ status[c] = "pending"
                             /\ status' = [status EXCEPT ![c] = "failed"]
                             /\ UNCHANGED ran
      /\ Promise!Succeed(c) <=> /\ status[c] = "pending" /\ ran[c]
                                /\ status' = [status EXCEPT ![c] = "ok"]
                                /\ UNCHANGED ran
      /\ Promise!Execute(c) <=> /\ status[c] \in {"pending", "failed"} /\ ~ran[c]
                                /\ ran' = [ran EXCEPT ![c] = TRUE]
                                /\ UNCHANGED status
      /\ UNCHANGED Promise!vars <=> UNCHANGED <<status, ran>>
  BY DEF Promise!Issue, Promise!Fail, Promise!Succeed, Promise!Execute, Promise!vars, Status, Ran
<1> HIDE DEF status, ran
<1>6. /\ Status(c)' = Status(c) => status' = status
      /\ Ran(c)' = Ran(c) => ran' = ran
  BY <1>2, <1>3, <1>4
<1>7. QED BY <1>2, <1>3, <1>5, <1>6

\* A step of labrpc is a step of the promise, or one that the promise does not
\* see.
LEMMA PromiseStep == CallInv /\ [Next]_vars => [Promise!Next]_(Promise!vars)
<1> SUFFICES ASSUME CallInv, [Next]_vars PROVE [Promise!Next]_(Promise!vars)
    OBVIOUS
<1>0. TypeOK /\ \A c \in Calls : CallOK(c)
  BY DEF CallInv
<1>1. ASSUME NEW c \in Calls, Call(c) PROVE Promise!Issue(c)
  <2>1. Others(c) /\ Status(c) = "idle" /\ Status(c)' = "pending" /\ Ran(c)' = Ran(c)
    BY <1>0, <1>1 DEF Call, TypeOK, Others, Status, Ran
  <2>2. QED BY <2>1, PromiseMoves
<1>2. ASSUME NEW c \in Calls, CallDone(c) \/ Unreachable(c) \/ DropRequest(c)
      PROVE  Promise!Fail(c)
  <2>1. Others(c) /\ Status(c) = "pending" /\ Status(c)' = "failed" /\ Ran(c)' = Ran(c)
    BY <1>0, <1>2 DEF CallDone, Unreachable, DropRequest, Returned, TypeOK, Others, Status, Ran
  <2>2. QED BY <2>1, PromiseMoves
<1>3. ASSUME NEW c \in Calls, Accept(c) \/ ProcessReq(c) \/ Poll(c)
      PROVE  UNCHANGED Promise!vars
  <2>1. Others(c) /\ Status(c)' = Status(c) /\ Ran(c)' = Ran(c)
    BY <1>0, <1>3 DEF Accept, ProcessReq, Poll, TypeOK, Others, Status, Ran
  <2>2. QED BY <2>1, PromiseMoves
<1>4. ASSUME NEW c \in Calls, Deliver(c) \/ TakeReply(c) \/ Drain(c) \/ HandlerReturns(c)
      PROVE  UNCHANGED Promise!vars
  <2>1. handler[c] = "none" \/ ~Deliver(c)
    BY <1>0 DEF Deliver, CallOK
  <2>2. Others(c) /\ Status(c)' = Status(c) /\ Ran(c)' = Ran(c)
    BY <1>0, <1>4, <2>1
       DEF Deliver, TakeReply, Drain, HandlerReturns, TypeOK, Others, Status, Ran
  <2>3. QED BY <2>2, PromiseMoves
<1>5. ASSUME NEW c \in Calls, Handle(c) PROVE Promise!Execute(c)
  <2>1. pc[c] # "idle" /\ ~(pc[c] = "returned" /\ result[c] = "true")
    BY <1>0, <1>5 DEF Handle, CallOK
  <2>2. Others(c) /\ Status(c)' = Status(c) /\ ~Ran(c) /\ Ran(c)'
    BY <1>0, <1>5 DEF Handle, TypeOK, Others, Status, Ran
  <2>3. Status(c) \in {"pending", "failed"}
    BY <2>1 DEF Status
  <2>4. QED BY <2>2, <2>3, PromiseMoves
<1>6. ASSUME NEW c \in Calls, Answer(c) \/ DelayedReply(c)
      PROVE  Promise!Fail(c) \/ Promise!Succeed(c) \/ UNCHANGED Promise!vars
  <2>1. Others(c) /\ Status(c) = "pending" /\ Ran(c)' = Ran(c)
    BY <1>0, <1>6 DEF Answer, DelayedReply, Returned, TypeOK, Others, Status, Ran
  <2>2. Status(c)' \in {"failed", "pending"} \/ (Status(c)' = "ok" /\ Ran(c))
    BY <1>0, <1>6 DEF Answer, Refuse, DelayedReply, Returned, TypeOK, CallOK, Status, Ran
  <2>3. QED BY <2>1, <2>2, PromiseMoves
<1>7. ASSUME UNCHANGED callVars PROVE UNCHANGED Promise!vars
  BY <1>7 DEF callVars, Promise!vars
<1>8. QED
  BY <1>1, <1>2, <1>3, <1>4, <1>5, <1>6, <1>7
     DEF Next, Step, HandlerStep, Reliable, LongReordering, Connect, Enable, AddServer,
         DeleteServer, CopyPersister, Cleanup, LoopEnds, vars, Promise!Next

\* labrpc implements RpcPromise for any number of concurrent calls: a call
\* returns once, its handler runs at most once, and a call that returned true
\* has been handled.
THEOREM LabRpcKeepsPromise == Spec => KeepsPromise
<1>1. ASSUME Init PROVE Promise!Init
  <2>1. \A c \in Calls : pc[c] = "idle" /\ handler[c] = "none"
    BY <1>1 DEF Init
  <2>2. QED BY <2>1 DEF Promise!Init
<1>2. QED
  BY <1>1, LabRpcInvariant, PromiseStep, PTL DEF Spec, KeepsPromise, Promise!Spec
=============================================================================
