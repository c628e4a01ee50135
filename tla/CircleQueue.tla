---------------------------- MODULE CircleQueue ----------------------------
(***************************************************************************)
(* CircleQueueBuffer of src/mini_rdt/rdt_util.{h,cc}: the ring that keeps   *)
(* the bytes the sender's window has no room for.  Bytes are numbers, given *)
(* out in turn; `queue' is the content a first-in first-out buffer has.     *)
(*                                                                         *)
(* enlarge asks for 2 * max_buf_size_ + 1 bytes (line 115) and then sets    *)
(* max_buf_size_ to that number (line 126), so the ring has one cell more.  *)
(* For every size that starts from kInitBufferSize = 16384 that cell lies   *)
(* in the bytes by which glibc rounds the block up (32769, 65539, 131079,   *)
(* 262159, ... bytes asked, at least one more given), so it behaves as      *)
(* memory of the ring and is modelled as such.                              *)
(***************************************************************************)
EXTENDS Integers, Sequences, FiniteSets

CONSTANTS
  InitSize,   \* kInitBufferSize
  MaxSize     \* bound: enlarge is not called beyond this size

VARIABLES
  max,        \* max_buf_size_
  buf,        \* buf_: the memory from buf_ on, the max_buf_size_ + 1 cells the code uses
  base, top,  \* base_, top_
  queue,      \* the bytes pushed and not popped, in order
  byte,       \* the next byte to push
  copied      \* the bytes that the last copy took, and those it should have taken

queueVars == <<max, buf, base, top, queue, byte, copied>>

r_minus(a, b, K) == (a - b + K) % K
r_add(a, b, K) == (a + b) % K

last_size == r_minus(top, base, max + 1)

\* The cell that holds the j-th byte after i in a ring of m + 1 cells.
Cell(i, j, m) == r_add(i, j, m + 1)

QueueInit ==
  /\ max = InitSize
  /\ buf = [i \in 0..InitSize |-> 0]
  /\ base = 0 /\ top = 0
  /\ queue = <<>>
  /\ byte = 0
  /\ copied = [got |-> <<>>, due |-> <<>>]

\* Faulty variant of Unrolled: the bytes keep the places they had.
NotUnrolled(m) == [i \in 0..m |-> IF i \in 0..max THEN buf[i] ELSE 0]

\* The two memcpys of enlarge: the content, from index 0 on.
Unrolled(m) == [i \in 0..m |-> IF i < last_size THEN buf[Cell(base, i, max)] ELSE 0]

\* enlarge is called until n more bytes fit: the size after it.
Enlarged(n) == CHOOSE m \in {max, 2 * max + 1, 4 * max + 3, 8 * max + 7} :
                 /\ last_size + n <= m
                 /\ \A k \in {max, 2 * max + 1, 4 * max + 3, 8 * max + 7} : last_size + n <= k => m <= k

\* memcpy of n new bytes from index t on in memory b, in a ring of m + 1 cells.
Written(b, t, n, m) ==
  [i \in 0..m |-> IF \E j \in 0 .. n - 1 : Cell(t, j, m) = i
                  THEN (byte + CHOOSE j \in 0 .. n - 1 : Cell(t, j, m) = i) % (MaxSize + 2)
                  ELSE b[i]]

push(n) ==
  LET m == Enlarged(n) IN
  /\ last_size + n <= MaxSize
  /\ m <= MaxSize
  /\ IF m = max
     THEN /\ buf' = Written(buf, top, n, max)
          /\ top' = Cell(top, n, max)
          /\ UNCHANGED <<base, max>>
     ELSE /\ buf' = Written(Unrolled(m), last_size, n, m)
          /\ top' = Cell(last_size, n, m)
          /\ base' = 0
          /\ max' = m
  /\ byte' = (byte + n) % (MaxSize + 2)
  /\ queue' = queue \o [j \in 1..n |-> (byte + j - 1) % (MaxSize + 2)]
  /\ copied' = [got |-> <<>>, due |-> <<>>]

\* Faulty variant of Copy: the second memcpy takes its bytes from where they end.
CopyShifted(n) == [j \in 1..n |-> buf[IF base + j - 1 <= max THEN base + j - 1 ELSE (base + j) % (max + 1)]]

\* copy(dst, n)
Copy(n) == [j \in 1..n |-> buf[Cell(base, j - 1, max)]]

\* Sender_PktMake: n bytes are copied and popped.
pop(n) ==
  /\ n <= last_size
  /\ copied' = [got |-> Copy(n), due |-> SubSeq(queue, 1, n)]
  /\ base' = Cell(base, n, max)
  /\ queue' = SubSeq(queue, n + 1, Len(queue))
  /\ UNCHANGED <<max, buf, top, byte>>

-----------------------------------------------------------------------------
(* Properties *)

\* The buffer is first-in first-out (README.md:54): what copy takes is the
\* oldest content, whatever pushes, pops and enlargements came before.
Fifo == copied.got = copied.due

\* The ring holds exactly what was pushed and not popped: push never runs into
\* the content, enlarge loses none of it, and the indices stay within the ring.
Holds ==
  /\ base \in 0..max /\ top \in 0..max
  /\ last_size = Len(queue)
  /\ \A j \in 1..last_size : buf[Cell(base, j - 1, max)] = queue[j]
=============================================================================
