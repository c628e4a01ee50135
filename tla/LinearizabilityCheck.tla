------------------------ MODULE LinearizabilityCheck ------------------------
(***************************************************************************)
(* CheckOperationsTimeout and CheckEventsTimeout of linearizability.go:    *)
(* one goroutine runs checkSingle for each partition of the history, the   *)
(* caller gathers the results, and may stop waiting.  The search of one    *)
(* partition is that of module Linearizability; of the others only their   *)
(* verdicts are kept.  All of them read kill at the top of their loop.     *)
(***************************************************************************)
EXTENDS Linearizability

CONSTANTS
  Others,      \* the other partitions
  HasTimeout   \* timeout > 0

ASSUME CheckAssumption == IsFiniteSet(Others) /\ HasTimeout \in BOOLEAN

VARIABLES
  linearizable,  \* whether each of the others is
  single,        \* their goroutines: "running", "true" or "false" to send, "sent"
  sent,          \* the goroutine of the search has sent its result
  kill, ok, count,
  returned,      \* the caller has left the loop
  timedOut       \* it left by timeoutChan

callerVars == <<kill, ok, count, returned, timedOut>>
checkVars == <<vars, linearizable, single, sent, callerVars>>

CheckInit ==
  /\ Init
  /\ linearizable \in [Others -> BOOLEAN]
  /\ single = [p \in Others |-> "running"]
  /\ sent = FALSE
  /\ kill = FALSE
  /\ ok = TRUE
  /\ count = 0
  /\ returned = FALSE
  /\ timedOut = FALSE

\* kill is set when the loop comes to its top.
Killed ==
  /\ Running
  /\ result' = "killed"
  /\ UNCHANGED <<history, next, prev, entry, state, linearized, cache, calls>>

\* The goroutine of the search.
Search ==
  /\ \/ ~kill /\ Turn
     \/ kill /\ Killed
     \/ ReturnTrue
  /\ UNCHANGED <<linearizable, single, sent, callerVars>>

\* The goroutine of another partition: it comes to its verdict or is stopped.
SearchOther(p) ==
  /\ single[p] = "running"
  /\ \/ single' = [single EXCEPT ![p] = IF linearizable[p] THEN "true" ELSE "false"]
     \/ kill /\ single' = [single EXCEPT ![p] = "false"]
  /\ UNCHANGED <<vars, linearizable, sent, callerVars>>

\* len(partitions) results have come.
AllIn(n) == n >= Cardinality(Others) + 1

\* What the caller does with a result.
Gathered(res) ==
  /\ ~returned
  /\ ok' = (ok /\ res)
  /\ \/ /\ ~ok'
        /\ kill' = TRUE
        /\ returned' = TRUE
        /\ UNCHANGED count
     \/ /\ ok'
        /\ count' = count + 1
        /\ returned' = AllIn(count + 1)
        /\ UNCHANGED kill
  /\ UNCHANGED <<vars, linearizable, timedOut>>

\* case result := <-results
Gather ==
  \/ /\ result # "running" /\ ~sent
     /\ sent' = TRUE
     /\ Gathered(result = "true")
     /\ UNCHANGED single
  \/ \E p \in Others :
       /\ single[p] \in {"true", "false"}
       /\ single' = [single EXCEPT ![p] = "sent"]
       /\ Gathered(single[p] = "true")
       /\ UNCHANGED sent

\* Faulty variant of AtTimeout: the search is killed, and its results still gathered.
AtTimeoutKill == kill' = TRUE /\ UNCHANGED returned

AtTimeout == returned' = TRUE /\ UNCHANGED kill

\* case <-timeoutChan
TimeOut ==
  /\ HasTimeout /\ ~returned /\ ~timedOut
  /\ timedOut' = TRUE
  /\ AtTimeout
  /\ UNCHANGED <<vars, linearizable, single, sent, ok, count>>

CheckNext == Search \/ (\E p \in Others : SearchOther(p)) \/ Gather \/ TimeOut

\* The goroutines are scheduled, and the caller takes a result that is there.
CheckSpec ==
  /\ CheckInit /\ [][CheckNext]_checkVars
  /\ WF_checkVars(Search) /\ WF_checkVars(Gather)
  /\ \A p \in Others : WF_checkVars(SearchOther(p))

-----------------------------------------------------------------------------
(* Properties *)

\* "if this operation times out, then a false positive is possible"
\* (linearizability.go:234), and nothing else goes wrong: "false" is never a false
\* alarm, whatever is killed or times out, and "true" without a timeout is right.
VerdictIsRight ==
  LET right == Linearizable(history) /\ \A p \in Others : linearizable[p] IN
  /\ returned /\ ~ok => ~right
  /\ returned /\ ok /\ ~timedOut => right

\* The caller does not wait for ever, and every search comes to an end, also
\* when nobody waits for its result any more.
Returns == <>(returned /\ result # "running" /\ \A p \in Others : single[p] # "running")
=============================================================================
