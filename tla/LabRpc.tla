------------------------------- MODULE LabRpc -------------------------------
(***************************************************************************)
(* The simulated network of mit6.824/src/labrpc, with the part of the      *)
(* harness (raft/config.go, crash1 and start1) that replaces a server and  *)
(* its Persister.  Every Call is one goroutine of the client and one of    *)
(* ProcessReq; the handler is a third.  Delays have no length here: a      *)
(* sleep or a timer is a step that is taken some time later.               *)
(***************************************************************************)
EXTENDS Naturals

CONSTANTS Calls,        \* the calls that clients make
          Ends,         \* the names of the client ends
          Names,        \* the names of the servers
          MaxInstances  \* bound: how often a server is started

ASSUME InstancesAssumption == MaxInstances \in Nat \ {0}

\* "none" is the connection of an end that is not connected
ASSUME NamesAssumption == "none" \notin Names

Nil == 0
Instances == 1 .. MaxInstances

VARIABLES
  enabled, connections, servers, \* the maps of Network; an instance or Nil
  reliable, longReordering,      \* the switches of Network
  done, looping,                 \* done is closed; the MakeNetwork loop runs
  pc,        \* where the call is
  via,       \* the ClientEnd of the call
  hung,      \* the calls whose handler never returns
  read,      \* what ReadEndnameInfo returned to its ProcessReq
  handler,   \* its handler goroutine
  replyOK,   \* ProcessReq has received the handler's reply
  result,    \* what Call() returned, "none" before that
  saved,     \* config.go: the Persister that is current for each server
  started,   \* the latest instance that start1 has added
  disk       \* what each instance has written to its own Persister

netVars == <<enabled, connections, servers, reliable, longReordering, done, looping>>
callVars == <<pc, via, hung, read, handler, replyOK, result>>
diskVars == <<saved, started, disk>>
vars == <<netVars, callVars, diskVars>>

NotRead == [name |-> "none", server |-> Nil, reliable |-> TRUE, longReordering |-> FALSE]

\* MakeNetwork, MakeEnd for every end, and no server started yet
Init ==
  /\ enabled = [e \in Ends |-> FALSE]
  /\ connections = [e \in Ends |-> "none"]
  /\ servers = [n \in Names |-> Nil]
  /\ reliable = TRUE
  /\ longReordering = FALSE
  /\ done = FALSE
  /\ looping = TRUE
  /\ pc = [c \in Calls |-> "idle"]
  /\ via \in [Calls -> Ends]
  /\ hung \in SUBSET Calls
  /\ read = [c \in Calls |-> NotRead]
  /\ handler = [c \in Calls |-> "none"]
  /\ replyOK = [c \in Calls |-> FALSE]
  /\ result = [c \in Calls |-> "none"]
  /\ saved = [n \in Names |-> 1]
  /\ started = [n \in Names |-> 0]
  /\ disk = [n \in Names |-> [i \in Instances |-> {}]]

-----------------------------------------------------------------------------
\* The client

\* Call() reaches its select
Call(c) ==
  /\ pc[c] = "idle"
  /\ pc' = [pc EXCEPT ![c] = "select"]
  /\ UNCHANGED <<netVars, via, hung, read, handler, replyOK, result, diskVars>>

\* the loop of MakeNetwork takes the request and starts ProcessReq
Accept(c) ==
  /\ pc[c] = "select"
  /\ looping
  /\ pc' = [pc EXCEPT ![c] = "sent"]
  /\ UNCHANGED <<netVars, via, hung, read, handler, replyOK, result, diskVars>>

\* ProcessReq writes to the replyCh, which is what Call() is waiting for
Returned(c, ok) ==
  /\ pc' = [pc EXCEPT ![c] = "returned"]
  /\ result' = [result EXCEPT ![c] = ok]

\* the network has been cleaned up
CallDone(c) ==
  /\ pc[c] = "select"
  /\ done
  /\ Returned(c, "false")
  /\ UNCHANGED <<netVars, via, hung, read, handler, replyOK, diskVars>>

-----------------------------------------------------------------------------
\* ProcessReq

\* under mu: the map entries are read together
ReadEndnameInfo(e) ==
  [name |-> connections[e],
   server |-> IF connections[e] = "none" THEN Nil ELSE servers[connections[e]],
   reliable |-> reliable,
   longReordering |-> longReordering]

Reachable(e) == enabled[e] /\ ReadEndnameInfo(e).server # Nil

ProcessReq(c) ==
  /\ pc[c] = "sent"
  /\ read' = [read EXCEPT ![c] = ReadEndnameInfo(via[c])]
  /\ pc' = [pc EXCEPT ![c] = IF Reachable(via[c]) THEN "deliver" ELSE "timeout"]
  /\ UNCHANGED <<netVars, via, hung, handler, replyOK, result, diskVars>>

\* the end is disabled or has no server: a timer sends the failure
Unreachable(c) ==
  /\ pc[c] = "timeout"
  /\ Returned(c, "false")
  /\ UNCHANGED <<netVars, via, hung, read, handler, replyOK, diskVars>>

DropRequest(c) ==
  /\ pc[c] = "deliver"
  /\ ~read[c].reliable
  /\ Returned(c, "false")
  /\ UNCHANGED <<netVars, via, hung, read, handler, replyOK, diskVars>>

Deliver(c) ==
  /\ pc[c] = "deliver"
  /\ pc' = [pc EXCEPT ![c] = "waiting"]
  /\ handler' = [handler EXCEPT ![c] = "running"]
  /\ UNCHANGED <<netVars, via, hung, read, replyOK, result, diskVars>>

IsServerDead(c) ==
  \/ ~enabled[via[c]]
  \/ servers[read[c].name] # read[c].server

\* the handler's reply comes first
TakeReply(c) ==
  /\ pc[c] = "waiting"
  /\ handler[c] = "finished"
  /\ handler' = [handler EXCEPT ![c] = "gone"]
  /\ replyOK' = [replyOK EXCEPT ![c] = TRUE]
  /\ pc' = [pc EXCEPT ![c] = "check"]
  /\ UNCHANGED <<netVars, via, hung, read, result, diskVars>>

\* Faulty variant: any server of that name is taken for the one called.
PollByName(c) ==
  /\ pc[c] = "waiting"
  /\ ~enabled[via[c]] \/ servers[read[c].name] = Nil
  /\ pc' = [pc EXCEPT ![c] = "check"]
  /\ UNCHANGED <<netVars, via, hung, read, handler, replyOK, result, diskVars>>

\* 100 ms have passed and the server is found dead; a goroutine is left to
\* drain ech
Poll(c) ==
  /\ pc[c] = "waiting"
  /\ IsServerDead(c)
  /\ pc' = [pc EXCEPT ![c] = "check"]
  /\ UNCHANGED <<netVars, via, hung, read, handler, replyOK, result, diskVars>>

\* Faulty variant: the drain ends with ProcessReq.
DrainUntilAnswer(c) == pc[c] = "check" /\ ~replyOK[c]

\* ProcessReq has given up waiting on ech
DrainRuns(c) == pc[c] \in {"check", "returned"} /\ ~replyOK[c]

Drain(c) ==
  /\ DrainRuns(c)
  /\ handler[c] = "finished"
  /\ handler' = [handler EXCEPT ![c] = "gone"]
  /\ UNCHANGED <<netVars, pc, via, hung, read, replyOK, result, diskVars>>

\* Faulty variant: no last look.
RefuseWithoutReply(c) == ~replyOK[c]

\* the last look at the server before the answer is given
Refuse(c) == ~replyOK[c] \/ IsServerDead(c)

Answer(c) ==
  /\ pc[c] = "check"
  /\ \/ /\ Refuse(c)
        /\ Returned(c, "false")
     \/ /\ ~Refuse(c)
        /\ ~read[c].reliable
        /\ Returned(c, "false")
     \/ /\ ~Refuse(c)
        /\ read[c].longReordering
        /\ pc' = [pc EXCEPT ![c] = "delayed"]
        /\ UNCHANGED result
     \/ /\ ~Refuse(c)
        /\ Returned(c, "true")
  /\ UNCHANGED <<netVars, via, hung, read, handler, replyOK, diskVars>>

DelayedReply(c) ==
  /\ pc[c] = "delayed"
  /\ Returned(c, "true")
  /\ UNCHANGED <<netVars, via, hung, read, handler, replyOK, diskVars>>

-----------------------------------------------------------------------------
\* The handler goroutine: it writes to the Persister of its own instance,
\* whether or not that instance is still the server, and then returns

Handle(c) ==
  /\ handler[c] = "running"
  /\ disk' = [disk EXCEPT ![read[c].name][read[c].server] = @ \cup {c}]
  /\ handler' = [handler EXCEPT ![c] = "persisted"]
  /\ UNCHANGED <<netVars, pc, via, hung, read, replyOK, result, saved, started>>

\* Faulty variant: the handler of a dead server is run again.
HandlerRunsAgain(c) ==
  /\ handler[c] = "persisted"
  /\ handler' = [handler EXCEPT ![c] = IF IsServerDead(c) THEN "running" ELSE "finished"]
  /\ UNCHANGED <<netVars, pc, via, hung, read, replyOK, result, diskVars>>

HandlerReturns(c) ==
  /\ handler[c] = "persisted"
  /\ c \notin hung
  /\ handler' = [handler EXCEPT ![c] = "finished"]
  /\ UNCHANGED <<netVars, pc, via, hung, read, replyOK, result, diskVars>>

-----------------------------------------------------------------------------
\* The harness

Reliable(yes) ==
  /\ reliable # yes
  /\ reliable' = yes
  /\ UNCHANGED <<enabled, connections, servers, longReordering, done, looping, callVars, diskVars>>

LongReordering(yes) ==
  /\ longReordering # yes
  /\ longReordering' = yes
  /\ UNCHANGED <<enabled, connections, servers, reliable, done, looping, callVars, diskVars>>

\* a ClientEnd is connected once in its lifetime
Connect(e, n) ==
  /\ connections[e] = "none"
  /\ connections' = [connections EXCEPT ![e] = n]
  /\ UNCHANGED <<enabled, servers, reliable, longReordering, done, looping, callVars, diskVars>>

Enable(e, yes) ==
  /\ enabled[e] # yes
  /\ enabled' = [enabled EXCEPT ![e] = yes]
  /\ UNCHANGED <<connections, servers, reliable, longReordering, done, looping, callVars, diskVars>>

\* start1, once the Persister is fresh
AddServer(n) ==
  /\ servers[n] = Nil
  /\ started[n] < saved[n]
  /\ servers' = [servers EXCEPT ![n] = saved[n]]
  /\ started' = [started EXCEPT ![n] = saved[n]]
  /\ UNCHANGED <<enabled, connections, reliable, longReordering, done, looping, callVars, saved, disk>>

\* crash1
DeleteServer(n) ==
  /\ servers[n] # Nil
  /\ servers' = [servers EXCEPT ![n] = Nil]
  /\ UNCHANGED <<enabled, connections, reliable, longReordering, done, looping, callVars, diskVars>>

\* Faulty variant: the copy is taken while the server still runs.
CopyBeforeDelete(n) ==
  /\ saved[n] = started[n]
  /\ saved[n] < MaxInstances
  /\ saved' = [saved EXCEPT ![n] = @ + 1]
  /\ disk' = [disk EXCEPT ![n][saved[n] + 1] = disk[n][saved[n]]]
  /\ UNCHANGED <<netVars, callVars, started>>

\* crash1, after DeleteServer: a fresh Persister with the old one's content
CopyPersister(n) ==
  /\ servers[n] = Nil
  /\ saved[n] = started[n]
  /\ saved[n] < MaxInstances
  /\ saved' = [saved EXCEPT ![n] = @ + 1]
  /\ disk' = [disk EXCEPT ![n][saved[n] + 1] = disk[n][saved[n]]]
  /\ UNCHANGED <<netVars, callVars, started>>

Cleanup ==
  /\ ~done
  /\ done' = TRUE
  /\ UNCHANGED <<enabled, connections, servers, reliable, longReordering, looping, callVars, diskVars>>

LoopEnds ==
  /\ done
  /\ looping
  /\ looping' = FALSE
  /\ UNCHANGED <<enabled, connections, servers, reliable, longReordering, done, callVars, diskVars>>

-----------------------------------------------------------------------------
Step(c) ==
  \/ Accept(c) \/ CallDone(c) \/ ProcessReq(c) \/ Unreachable(c)
  \/ DropRequest(c) \/ Deliver(c) \/ TakeReply(c) \/ Poll(c) \/ Answer(c)
  \/ DelayedReply(c)

HandlerStep(c) == Handle(c) \/ HandlerReturns(c)

Next ==
  \/ \E c \in Calls : Call(c) \/ Step(c) \/ HandlerStep(c) \/ Drain(c)
  \/ \E yes \in BOOLEAN : Reliable(yes) \/ LongReordering(yes)
  \/ \E e \in Ends, n \in Names : Connect(e, n)
  \/ \E e \in Ends, yes \in BOOLEAN : Enable(e, yes)
  \/ \E n \in Names : AddServer(n) \/ DeleteServer(n) \/ CopyPersister(n)
  \/ Cleanup
  \/ LoopEnds

Spec == Init /\ [][Next]_vars

\* Every goroutine that can run is run, and every timer fires.  The harness
\* and the clients owe nothing.
FairSpec ==
  /\ Spec
  /\ WF_vars(LoopEnds)
  /\ \A c \in Calls : WF_vars(Step(c)) /\ WF_vars(HandlerStep(c)) /\ WF_vars(Drain(c))

-----------------------------------------------------------------------------
\* The types of the network's maps, of the calls and of the Persisters.
TypeOK ==
  /\ enabled \in [Ends -> BOOLEAN]
  /\ connections \in [Ends -> Names \cup {"none"}]
  /\ servers \in [Names -> Instances \cup {Nil}]
  /\ reliable \in BOOLEAN /\ longReordering \in BOOLEAN
  /\ read \in [Calls -> [name : Names \cup {"none"}, server : Instances \cup {Nil},
                         reliable : BOOLEAN, longReordering : BOOLEAN]]
  /\ via \in [Calls -> Ends] /\ hung \subseteq Calls
  /\ pc \in [Calls -> {"idle", "select", "sent", "timeout", "deliver", "waiting",
                       "check", "delayed", "returned"}]
  /\ handler \in [Calls -> {"none", "running", "persisted", "finished", "gone"}]
  /\ result \in [Calls -> {"none", "true", "false"}]
  /\ replyOK \in [Calls -> BOOLEAN]
  /\ saved \in [Names -> Instances]
  /\ started \in [Names -> Instances \cup {0}]
  /\ disk \in [Names -> [Instances -> SUBSET Calls]]

\* How a call, its handler and the Persisters go together.  A request is
\* delivered to a server that was there when ProcessReq looked, and its
\* Persister is not written by a later crash1.  A handler that is past its
\* write has left the update in the Persister of its own instance, a reply
\* comes from a handler that has returned, and a call that is answered or is
\* about to be answered with true has its update in the current Persister.
CallOK(c) ==
  LET n == read[c].name
      i == read[c].server
  IN  /\ pc[c] \in {"deliver", "waiting", "check", "delayed"} \/ handler[c] # "none"
           => n \in Names /\ i # Nil /\ i <= saved[n]
      /\ pc[c] \in {"idle", "select", "sent", "timeout", "deliver"} => handler[c] = "none"
      /\ handler[c] \in {"persisted", "finished", "gone"} => c \in disk[n][i]
      /\ replyOK[c] => handler[c] = "gone"
      /\ pc[c] = "delayed" \/ result[c] = "true"
           => handler[c] = "gone" /\ c \in disk[n][saved[n]]

\* A server that is added has the current Persister, and every call is in order
\* with its handler and the Persisters.
CallInv ==
  /\ TypeOK
  /\ \A n \in Names : servers[n] # Nil => servers[n] = saved[n] /\ started[n] = saved[n]
  /\ \A c \in Calls : CallOK(c)

\* The comment of ProcessReq on its last look at the server: a client never
\* gets a positive reply to an update that went only into the old Persister.
\* Whatever crashes and restarts came in between, the update of a call that
\* returned true is in the Persister that is current for its server.
AckedIsPersisted ==
  \A c \in Calls : result[c] = "true" => c \in disk[read[c].name][saved[read[c].name]]

Promise == INSTANCE RpcPromise WITH
  status <- [c \in Calls |->
               IF pc[c] = "idle" THEN "idle"
               ELSE IF pc[c] # "returned" THEN "pending"
               ELSE IF result[c] = "true" THEN "ok" ELSE "failed"],
  ran <- [c \in Calls |-> handler[c] \notin {"none", "running"}]

\* labrpc keeps its promise: it implements RpcPromise, so a call returns once,
\* its handler runs at most once, and true means that the handler has run.
KeepsPromise == Promise!Spec

\* Call() is guaranteed to return unless the handler does not.  It returns even
\* then once the server instance that it was sent to has been deleted: the poll
\* of ProcessReq finds it dead, also if a new instance has taken the name.
CallReturns ==
  \A c \in Calls :
    /\ (pc[c] = "select" /\ c \notin hung) ~> (pc[c] = "returned")
    /\ (pc[c] = "waiting" /\ servers[read[c].name] # read[c].server) ~> (pc[c] = "returned")

\* The handler goroutine of a call ends although ProcessReq has given up
\* waiting for it: the drain goroutine takes what it sends on ech.
HandlersEnd ==
  \A c \in Calls : (handler[c] = "running" /\ c \notin hung) ~> (handler[c] = "gone")
=============================================================================
