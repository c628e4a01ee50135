---------------------------- MODULE VirtualTimer ----------------------------
(***************************************************************************)
(* VirtualTimer of src/mini_rdt/rdt_util.{h,cc}: many timers on the one    *)
(* timer that rdt_sim.cc provides.  Times are in ticks and are kept        *)
(* relative to the present: `left' is end_t_ - GetSimulationTime().        *)
(***************************************************************************)
EXTENDS Integers, Sequences, FiniteSets, SequencesExt

CONSTANTS
  Keys,       \* sequence numbers
  MaxTimers,  \* max_timer_n_
  WaitTime    \* kWaitTime

Head_ == -1    \* the record head_ points to, which stands for no timer
NotSet == -1

VARIABLES
  list,         \* the records after head_: key_ and time left
  tail,         \* the key of the record tail_ points to, or Head_
  timer_n,      \* timer_n_
  sender_timer  \* rdt_sim.cc: the time left until Sender_Timeout, or NotSet

timerVars == <<list, tail, timer_n, sender_timer>>

TimerInit ==
  /\ list = <<>>
  /\ tail = Head_
  /\ timer_n = 0
  /\ sender_timer = NotSet

Running == {list[p].key : p \in DOMAIN list}

KeyAt(l, p) == IF p = 0 THEN Head_ ELSE l[p].key

\* Faulty variant of Place: a new record goes to the front.
FrontPlace(l) == 1

\* Where start inserts a record: before the first that does not end earlier.
Place(l) == 1 + Cardinality({p \in DOMAIN l : l[p].left < WaitTime})

\* start(key, kWaitTime, work) on list l with tail_ e.
Started(l, key) == InsertAt(l, Place(l), [key |-> key, left |-> WaitTime])

\* Faulty variant of StartedTail: tail_ is not moved to a record put at the end.
TailKept(l, e, key) == e

StartedTail(l, e, key) == IF KeyAt(l, Place(l) - 1) = e THEN key ELSE e

\* Sender_StartTimer for the first record of l, or Sender_StopTimer.
Earliest(l) == IF l = <<>> THEN NotSet ELSE l[1].left

\* A packet is sent: it has no timer yet, and the window has room for it.
start(key) ==
  /\ key \notin Running
  /\ Len(list) < MaxTimers
  /\ timer_n' = timer_n + 1
  /\ list' = Started(list, key)
  /\ tail' = StartedTail(list, tail, key)
  /\ sender_timer' = Earliest(list')

\* end restarts the timer only when it takes the first record.
TimerAfterEnd(p) == IF p = 1 THEN Earliest(Tail(list)) ELSE sender_timer

\* An ack arrives, which may be for a packet without a timer.
end(key) ==
  \/ key \notin Running /\ UNCHANGED timerVars
  \/ \E p \in DOMAIN list :
       /\ list[p].key = key
       /\ list' = RemoveAt(list, p)
       /\ tail' = IF tail = key THEN KeyAt(list, p - 1) ELSE tail
       /\ timer_n' = timer_n - 1
       /\ sender_timer' = TimerAfterEnd(p)

\* timeout takes the first record off the list.
TailAfterHead == IF tail = list[1].key THEN Head_ ELSE tail

\* The timer expires: Sender_ReSend starts the first record again.
timeout ==
  /\ sender_timer = 0
  /\ list' = Started(Tail(list), list[1].key)
  /\ tail' = StartedTail(Tail(list), TailAfterHead, list[1].key)
  /\ UNCHANGED timer_n
  /\ sender_timer' = IF tail' = Head_ THEN NotSet ELSE Earliest(list')

\* next_event takes the earliest event: time never passes the timer.
Tick ==
  /\ sender_timer # 0
  /\ sender_timer' = IF sender_timer = NotSet THEN NotSet ELSE sender_timer - 1
  /\ list' = [p \in DOMAIN list |-> [list[p] EXCEPT !.left = @ - 1]]
  /\ UNCHANGED <<tail, timer_n>>

-----------------------------------------------------------------------------
(* Properties *)

\* timer_n_ counts the records, each for its own key, and tail_ points to the
\* last: the pointers that start, end and timeout update one by one agree.
WellLinked ==
  /\ timer_n = Len(list)
  /\ Cardinality(Running) = Len(list)
  /\ tail = KeyAt(list, Len(list))

\* One timer serves all: it is set while there are records, every record fires
\* when its time is over, and none before (rdt_util.cc:47, 64, 83).
FiresOnTime ==
  /\ (sender_timer = NotSet) <=> (list = <<>>)
  /\ \A p \in DOMAIN list : list[p].left >= 0
  /\ sender_timer = 0 => list[1].left = 0
=============================================================================
