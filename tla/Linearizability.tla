-------------------------- MODULE Linearizability --------------------------
(***************************************************************************)
(* checkSingle of src/mit6.824/src/linearizability, step by step, on the   *)
(* histories of one key of the key-value model (models.go), against the    *)
(* definition of linearizability.  Strings are sequences of letters.       *)
(***************************************************************************)
EXTENDS Integers, Sequences, FiniteSets, SequencesExt

CONSTANTS
  Letters,   \* what put and append write
  MaxOps,    \* bound: operations of a history
  MaxOutput  \* bound: length of what a get returns

ASSUME HistoryAssumption == MaxOps \in Nat \ {0} /\ MaxOutput \in Nat

VARIABLES
  history,     \* []Operation: input, output, call and return times
  next, prev,  \* the list of nodes: 0 is headEntry, t the entry with time t
  entry,       \* the node the loop looks at
  state,       \* the state of the model
  linearized,  \* the bitset: operations taken so far
  cache,       \* what was tried before
  calls,       \* the stack: nodes taken and the states before them
  result       \* "running", or "true", "false" or, for a false because of kill, "killed"

vars == <<history, next, prev, entry, state, linearized, cache, calls, result>>

Nil == -1

\* KvModel.Step
StepOk(s, op) == op.op = "get" => op.output = s
StepState(s, op) ==
  CASE op.op = "get" -> s
    [] op.op = "put" -> op.value
    [] op.op = "append" -> s \o op.value

KvInit == <<>>

KvOps ==
  [op : {"get"}, value : {<<>>}, output : BoundedSeq(Letters, MaxOutput)]
    \cup [op : {"put", "append"}, value : {<<l>> : l \in Letters}, output : {<<>>}]

Nodes == 1 .. 2 * Len(history)

\* makeEntries: the entry with time t is the call or the return of its operation.
IsCall(t) == \E i \in DOMAIN history : history[i].call = t
IdOf(t) == CHOOSE i \in DOMAIN history : history[i].call = t \/ history[i].return = t
\* makeLinkedEntries: match of a call, nil for a return and for headEntry.
MatchOf(t) == IF t # 0 /\ IsCall(t) THEN history[IdOf(t)].return ELSE Nil

\* The calls and returns of n operations, at distinct times, in order of their calls.
Times(n) ==
  {f \in [1..n -> {<<c, r>> \in (1 .. 2 * n) \X (1 .. 2 * n) : c < r}] :
     /\ \A i, j \in 1..n : i < j => f[i][1] < f[j][1]
     /\ Cardinality(UNION {{f[i][1], f[i][2]} : i \in 1..n}) = 2 * n}

Init ==
  /\ \E n \in 1..MaxOps : \E ops \in [1..n -> KvOps] : \E f \in Times(n) :
       history = [i \in 1..n |-> [op |-> ops[i].op, value |-> ops[i].value, output |-> ops[i].output,
                                  call |-> f[i][1], return |-> f[i][2]]]
  /\ next = [t \in 0 .. 2 * Len(history) |-> IF t = 2 * Len(history) THEN Nil ELSE t + 1]
  /\ prev = [t \in 0 .. 2 * Len(history) |-> t - 1]
  /\ entry = 1
  /\ state = KvInit
  /\ linearized = {}
  /\ cache = {}
  /\ calls = <<>>
  /\ result = "running"

\* lift: the call e and its return are taken out of the list, one after the other.
Lifted(e) ==
  LET n1 == [next EXCEPT ![prev[e]] = next[e]]
      p1 == [prev EXCEPT ![next[e]] = prev[e]]
      m == MatchOf(e)
  IN [next |-> [n1 EXCEPT ![p1[m]] = n1[m]],
      prev |-> IF n1[m] = Nil THEN p1 ELSE [p1 EXCEPT ![n1[m]] = p1[m]]]

\* Faulty variant of Unlifted: the return is not put back.
UnliftedCall(e) == [next |-> [next EXCEPT ![prev[e]] = e], prev |-> [prev EXCEPT ![next[e]] = e]]

\* unlift: they are put back, in the opposite order.
Unlifted(e) ==
  LET m == MatchOf(e)
      n1 == [next EXCEPT ![prev[m]] = m]
      p1 == IF next[m] = Nil THEN prev ELSE [prev EXCEPT ![next[m]] = m]
  IN [next |-> [n1 EXCEPT ![p1[e]] = e],
      prev |-> [p1 EXCEPT ![n1[e]] = e]]

Running == result = "running" /\ next[0] # Nil

AtCall == Running /\ MatchOf(entry) # Nil

\* bitset.go: the set of the positions whose bit is 1.
set(b, pos) == b \cup {pos}
clear(b, pos) == b \ {pos}

\* What is cached when the call at entry is taken.
Tried == [linearized |-> set(linearized, IdOf(entry)), state |-> StepState(state, history[IdOf(entry)])]

\* The loop starts again from the head of the list nx.
AfterTake(nx) == nx[0]

\* The call at entry can be the next operation, in a way that was not tried.
Take ==
  /\ AtCall
  /\ StepOk(state, history[IdOf(entry)])
  /\ Tried \notin cache
  /\ cache' = cache \cup {Tried}
  /\ calls' = Append(calls, [entry |-> entry, state |-> state])
  /\ state' = Tried.state
  /\ linearized' = Tried.linearized
  /\ next' = Lifted(entry).next /\ prev' = Lifted(entry).prev
  /\ entry' = AfterTake(next')
  /\ UNCHANGED <<history, result>>

\* Faulty variant of AfterSkip: the loop starts again from the head of the list.
AfterSkipHead == next[0]

AfterSkip == next[entry]

\* It cannot.
Skip ==
  /\ AtCall
  /\ ~StepOk(state, history[IdOf(entry)]) \/ Tried \in cache
  /\ entry' = AfterSkip
  /\ UNCHANGED <<history, next, prev, state, linearized, cache, calls, result>>

AtReturn == Running /\ MatchOf(entry) = Nil

\* Faulty variant of Restored: the state is not put back.
NotRestored(top) == state

Restored(top) == top.state

\* An operation returns that was not taken: the last choice is undone.
Backtrack ==
  /\ AtReturn
  /\ calls # <<>>
  /\ LET top == calls[Len(calls)] IN
     /\ state' = Restored(top)
     /\ linearized' = clear(linearized, IdOf(top.entry))
     /\ next' = Unlifted(top.entry).next /\ prev' = Unlifted(top.entry).prev
     /\ entry' = next'[top.entry]
  /\ calls' = SubSeq(calls, 1, Len(calls) - 1)
  /\ UNCHANGED <<history, cache, result>>

ReturnFalse ==
  /\ AtReturn
  /\ calls = <<>>
  /\ result' = "false"
  /\ UNCHANGED <<history, next, prev, entry, state, linearized, cache, calls>>

ReturnTrue ==
  /\ result = "running" /\ next[0] = Nil
  /\ result' = "true"
  /\ UNCHANGED <<history, next, prev, entry, state, linearized, cache, calls>>

\* One turn of the loop, unless it is told to stop.
Turn == Take \/ Skip \/ Backtrack \/ ReturnFalse

-----------------------------------------------------------------------------
(* Properties *)

\* The orders of the operations of h in which each one that returned before
\* another was called comes before it.
Orders(h) ==
  {p \in [DOMAIN h -> DOMAIN h] :
     /\ \A i, j \in DOMAIN h : i # j => p[i] # p[j]
     /\ \A i, j \in DOMAIN h : i < j => ~(h[p[j]].return < h[p[i]].call)}

\* Whether the model can take the operations of h in order p.
Legal(h, p) ==
  FoldLeft(LAMBDA acc, op : [ok |-> acc.ok /\ StepOk(acc.state, op), state |-> StepState(acc.state, op)],
           [ok |-> TRUE, state |-> KvInit],
           [i \in DOMAIN h |-> h[p[i]]]).ok

Linearizable(h) == \E p \in Orders(h) : Legal(h, p)

\* checkSingle returns true exactly for the histories that are linearizable,
\* unless it is stopped: the cache and the choices undone leave nothing out.
ResultIsRight == result \in {"true", "false"} => (result = "true" <=> Linearizable(history))

\* The list that lift and unlift edit is the entries that are left, in order:
\* undoing choices puts every pointer back, and the loop reads match and next
\* only of an entry that is left.
ListIsRest ==
  LET left == {t \in Nodes : IdOf(t) \notin linearized} IN
  /\ Running => entry \in left
  /\ \A t \in {0} \cup left :
       next[t] = IF \E u \in left : u > t
                 THEN CHOOSE u \in left : u > t /\ \A v \in left : v > t => u <= v
                 ELSE Nil
=============================================================================
