----------------------------- MODULE RpcPromise -----------------------------
(***************************************************************************)
(* What labrpc promises its callers: a call that is made returns once; its *)
(* handler runs at most once, possibly after the caller has already been   *)
(* told that the call failed; and the caller is told that the call         *)
(* succeeded only after the handler has run.                               *)
(***************************************************************************)
CONSTANT Calls

VARIABLES status, \* "idle", "pending", "ok" or "failed", as the caller sees it
          ran     \* the handler of the call has run

vars == <<status, ran>>

Init ==
  /\ status = [c \in Calls |-> "idle"]
  /\ ran = [c \in Calls |-> FALSE]

Issue(c) ==
  /\ status[c] = "idle"
  /\ status' = [status EXCEPT ![c] = "pending"]
  /\ UNCHANGED ran

Execute(c) ==
  /\ status[c] \in {"pending", "failed"}
  /\ ~ran[c]
  /\ ran' = [ran EXCEPT ![c] = TRUE]
  /\ UNCHANGED status

Succeed(c) ==
  /\ status[c] = "pending"
  /\ ran[c]
  /\ status' = [status EXCEPT ![c] = "ok"]
  /\ UNCHANGED ran

Fail(c) ==
  /\ status[c] = "pending"
  /\ status' = [status EXCEPT ![c] = "failed"]
  /\ UNCHANGED ran

Next == \E c \in Calls : Issue(c) \/ Execute(c) \/ Succeed(c) \/ Fail(c)

Spec == Init /\ [][Next]_vars
=============================================================================
