----------------------------- MODULE RdtProofs ------------------------------
(***************************************************************************)
(* The transport delivers in order: proofs about Rdt, for every window     *)
(* size, every number of sequence numbers and every delay of the link for  *)
(* which the numbers of two windows and of what the link still holds differ *)
(* (LagAssumption).                                                        *)
(*                                                                         *)
(* The cells of a window and the sequence numbers are two rings of         *)
(* different sizes.  The invariant counts payloads instead, and says for   *)
(* each side which payload its window starts with (StartsAt): section 1    *)
(* shows that a sum or a difference of remainders is a remainder, section 2 *)
(* that Index, BackupIndex and SeqOf find the cell and the number of a     *)
(* payload.  What makes the invariant inductive is that both sides, the    *)
(* buffer and the link are tied to the same count: a packet on the link is *)
(* one the receiver waits for or has delivered, and is not too old for the *)
(* two to be told apart; an ack is of a payload the receiver has.          *)
(***************************************************************************)
EXTENDS Rdt, FiniteSetTheorems, NaturalsInduction, WellFoundedInduction, TLAPS

-----------------------------------------------------------------------------
(* 1. Remainders *)

\* A remainder lies below the divisor.
LEMMA ModRange ==
  ASSUME NEW K \in Nat \ {0}, NEW a \in Int
  PROVE  a % K \in 0 .. K - 1
OBVIOUS

\* A number is a multiple of the divisor and a remainder.
LEMMA ModParts ==
  ASSUME NEW K \in Nat \ {0}, NEW a \in Int
  PROVE  \E q \in Int, r \in 0 .. K - 1 : r = a % K /\ a = K * q + r
<1>1. PICK q \in Int, r \in 0 .. K - 1 : q = a \div K /\ r = a % K
  <2>1. a \div K \in Int /\ a % K \in 0 .. K - 1
    BY ModRange
  <2>2. QED
    BY <2>1, Zenon
<1>2. a = K * q + r
  BY <1>1
<1>3. QED
  BY <1>1, <1>2, Zenon

\* It is so in one way only.
LEMMA ModIs ==
  ASSUME NEW K \in Nat \ {0}, NEW a \in Int, NEW q \in Int, NEW r \in 0 .. K - 1, a = K * q + r
  PROVE  a % K = r
<1>1. (K * q + r) % K = r
  OBVIOUS
<1>2. QED
  BY <1>1, Zenon

\* Small numbers, and those one divisor away.
LEMMA ModNear ==
  ASSUME NEW K \in Nat \ {0}, NEW a \in 0 .. K - 1
  PROVE  a % K = a /\ (a + K) % K = a /\ (a - K) % K = a
<1>1. a = K * 0 + a /\ a + K = K * 1 + a /\ a - K = K * (-1) + a
  OBVIOUS
<1>2. a + K \in Int /\ a - K \in Int /\ a \in Int /\ 0 \in Int /\ 1 \in Int /\ -1 \in Int
  OBVIOUS
<1>3. QED
  BY <1>1, <1>2, ModIs

\* Reducing a summand changes nothing.
LEMMA ModShift ==
  ASSUME NEW K \in Nat \ {0}, NEW a \in Int, NEW d \in Int
  PROVE  ((a % K) + d) % K = (a + d) % K
<1>1. PICK q \in Int, r \in 0 .. K - 1 : r = a % K /\ a = K * q + r
  BY ModParts, Zenon
<1>2. PICK b \in Int : b = a + d
  OBVIOUS
<1>3. PICK p \in Int, s \in 0 .. K - 1 : s = b % K /\ b = K * p + s
  BY ModParts, Zenon
<1>4. PICK u \in Int, v \in Int, n \in Int : u = K * q /\ v = K * p /\ n = p - q
  OBVIOUS
<1>5. PICK e \in Int : e = r + d
  OBVIOUS
<1>6. K * n = v - u
  BY <1>4
<1>7. e = K * n + s
  <2>1. a = u + r /\ b = v + s
    BY <1>1, <1>3, <1>4, Zenon
  <2>2. e = v - u + s
    BY <1>2, <1>5, <2>1
  <2>3. QED
    BY <1>6, <2>2, Zenon
<1>8. e % K = s
  BY <1>7, ModIs, Zenon
<1>9. QED
  BY <1>1, <1>2, <1>3, <1>5, <1>8, Zenon

\* Two numbers with the same remainder are equal, or a divisor apart.
LEMMA ModClose ==
  ASSUME NEW K \in Nat \ {0}, NEW a \in Int, NEW b \in Int, a % K = b % K, a - b < K, b - a < K
  PROVE  a = b
<1>1. PICK q \in Int, r \in 0 .. K - 1 : r = a % K /\ a = K * q + r
  BY ModParts, Zenon
<1>2. PICK p \in Int, s \in 0 .. K - 1 : s = b % K /\ b = K * p + s
  BY ModParts, Zenon
<1>3. K * q \in Int /\ K * p \in Int /\ K * (q - p) = K * q - K * p /\ r = s
  BY <1>1, <1>2
<1>4. a - b = K * (q - p)
  BY <1>1, <1>2, <1>3
<1>5. q - p < 1 /\ p - q < 1
  BY <1>4
<1>6. q = p
  BY <1>5
<1>7. QED
  BY <1>1, <1>2, <1>3, <1>6, Zenon

\* r_minus of two remainders (rdt_util.h).
LEMMA ModMinus ==
  ASSUME NEW K \in Nat \ {0}, NEW a \in Int, NEW b \in Int, NEW d \in 0 .. K - 1,
         b = a + d \/ b = a + d - K
  PROVE  r_minus(b % K, a % K, K) = d
<1>1. PICK r, s : r = a % K /\ s = b % K
  BY Zenon
<1>2. r \in 0 .. K - 1 /\ s \in 0 .. K - 1
  BY <1>1, ModRange
<1>3. PICK x \in Int : x = a + d
  OBVIOUS
<1>4. PICK q \in Int, y \in 0 .. K - 1 : y = x % K /\ x = K * q + y
  BY ModParts, Zenon
<1>5. y = (r + d) % K
  <2>1. d \in Int
    OBVIOUS
  <2>2. ((a % K) + d) % K = (a + d) % K
    BY <2>1, ModShift, Zenon
  <2>3. QED
    BY <1>1, <1>3, <1>4, <2>2, Zenon
<1>6. s = y
  <2>1. CASE b = a + d
    BY <1>1, <1>3, <1>4, <2>1, Zenon
  <2>2. CASE b = a + d - K
    <3>1. K * (q - 1) = K * q - K /\ K * q \in Int /\ q - 1 \in Int
      OBVIOUS
    <3>2. b = K * (q - 1) + y
      BY <1>3, <1>4, <2>2, <3>1
    <3>3. b % K = y
      BY <3>1, <3>2, ModIs, Zenon
    <3>4. QED
      BY <1>1, <3>3, Zenon
  <2>3. QED
    BY <2>1, <2>2, Zenon
<1>7. s = r + d \/ s = r + d - K
  <2>1. CASE r + d < K
    <3>1. r + d \in 0 .. K - 1
      BY <1>2, <2>1
    <3>2. QED
      BY <1>5, <1>6, <3>1, ModNear, Zenon
  <2>2. CASE ~(r + d < K)
    <3>1. r + d - K \in 0 .. K - 1 /\ (r + d - K) + K = r + d
      BY <1>2, <2>2
    <3>2. (r + d - K + K) % K = r + d - K
      BY <3>1, ModNear, Zenon
    <3>3. QED
      BY <1>5, <1>6, <3>1, <3>2, Zenon
  <2>3. QED
    BY <2>1, <2>2, Zenon
<1>8. (s - r + K) % K = d
  <2>1. CASE s = r + d
    <3>1. s - r + K = d + K
      BY <1>2, <2>1
    <3>2. QED
      BY <3>1, ModNear
  <2>2. CASE s = r + d - K
    <3>1. s - r + K = d
      BY <1>2, <2>2
    <3>2. QED
      BY <3>1, ModNear
  <2>3. QED
    BY <1>7, <2>1, <2>2, Zenon
<1>9. QED
  BY <1>1, <1>8, Zenon DEF r_minus

-----------------------------------------------------------------------------
(* 2. Windows *)

Ring == WindowSize + 1

SenderWindow == [base : Cells, top : Cells, seq : 0 .. MaxSeqN - 1,
                 cells : [Cells -> [status : BOOLEAN, backup : Nat]]]

\* Window w, of either side, starts with payload n.
StartsAt(w, n) == w.base = n % Ring /\ w.seq = n % MaxSeqN

\* Where payload k is kept while it is in a window.
CellOf(w, k) == w.cells[k % Ring]

\* Both rings are large enough.
LEMMA Sizes ==
  /\ WindowSize \in Nat \ {0} /\ Ring \in Nat \ {0} /\ MaxSeqN \in Nat \ {0} /\ Lag \in Nat
  /\ 2 * WindowSize + Lag <= MaxSeqN /\ Ring <= MaxSeqN
  BY WindowAssumption, LagAssumption DEF Ring

\* A payload has a cell.
LEMMA CellExists == ASSUME NEW k \in Int PROVE k % Ring \in Cells
<1>1. k % Ring \in 0 .. Ring - 1
  BY Sizes, ModRange
<1>2. QED
  BY <1>1, Sizes DEF Ring, Cells

\* Index counts from base_.
LEMMA IndexIs ==
  ASSUME NEW n \in Nat, NEW d \in Nat
  PROVE  Index(n % Ring, d) = (n + d) % Ring
<1>1. ((n % Ring) + d) % Ring = (n + d) % Ring
  <2>1. n \in Int /\ d \in Int
    OBVIOUS
  <2>2. QED
    BY <2>1, Sizes, ModShift, Zenon
<1>2. QED
  BY <1>1, Zenon DEF Index, r_add, Ring

\* top_ - base_ packets are under way.
LEMMA FlightIs ==
  ASSUME NEW w \in SenderWindow, NEW n \in Nat, w.base = n % Ring
  PROVE  /\ InFlight(w) \in 0..WindowSize
         /\ w.top = (n + InFlight(w)) % Ring
         /\ w.base = w.top <=> InFlight(w) = 0
<1>1. PICK b \in Cells, t \in Cells : b = w.base /\ t = w.top
  BY DEF SenderWindow
<1>2. b \in 0 .. Ring - 1 /\ t \in 0 .. Ring - 1
  BY Sizes DEF Cells, Ring
<1>3. PICK f : f = InFlight(w)
  BY Zenon
<1>4. f = (t - b + Ring) % Ring
  BY <1>1, <1>3, Zenon DEF InFlight, r_minus, Ring
<1>5. f \in 0 .. Ring - 1
  <2>1. t - b + Ring \in Int
    BY <1>2, Sizes
  <2>2. QED
    BY <1>4, <2>1, Sizes, ModRange, Zenon
<1>6. (t >= b => f = t - b) /\ (~(t >= b) => f = t - b + Ring)
  <2>1. CASE t >= b
    <3>1. t - b \in 0 .. Ring - 1
      BY <1>2, <2>1, Sizes
    <3>2. QED
      BY <1>4, <2>1, <3>1, Sizes, ModNear, Zenon
  <2>2. CASE ~(t >= b)
    <3>1. t - b + Ring \in 0 .. Ring - 1
      BY <1>2, <2>2, Sizes
    <3>2. QED
      BY <1>4, <2>2, <3>1, Sizes, ModNear, Zenon
  <2>3. QED
    BY <2>1, <2>2, Zenon
<1>7. (b + f) % Ring = t
  <2>1. CASE t >= b
    <3>1. b + f = t
      BY <1>2, <1>6, <2>1
    <3>2. QED
      BY <1>2, <3>1, Sizes, ModNear, Zenon
  <2>2. CASE ~(t >= b)
    <3>1. b + f = t + Ring
      <4>1. f = t - b + Ring
        BY <1>6, <2>2, Zenon
      <4>2. QED
        BY <1>2, <4>1, Sizes
    <3>2. QED
      BY <1>2, <3>1, Sizes, ModNear, Zenon
  <2>3. QED
    BY <2>1, <2>2, Zenon
<1>8. (n + f) % Ring = t
  <2>1. f \in Int /\ n \in Int
    BY <1>5
  <2>2. ((n % Ring) + f) % Ring = (n + f) % Ring
    BY <2>1, Sizes, ModShift, Zenon
  <2>3. QED
    BY <1>1, <1>7, <2>2, Zenon
<1>9. b = t <=> f = 0
  BY <1>2, <1>6, Sizes
<1>10. f \in 0..WindowSize
  BY <1>5, Sizes DEF Ring
<1>11. QED
  BY <1>1, <1>3, <1>8, <1>9, <1>10, Zenon

\* The cell of a packet of the window is found from its sequence number.
LEMMA BackupIs ==
  ASSUME NEW w, NEW n \in Nat, StartsAt(w, n), NEW k \in n .. n + MaxSeqN - 1
  PROVE  BackupIndex(w, k % MaxSeqN) = k % Ring /\ r_minus(k % MaxSeqN, w.seq, MaxSeqN) = k - n
<1>1. PICK d : d = k - n
  BY Zenon
<1>2. d \in 0 .. MaxSeqN - 1 /\ k = n + d /\ d \in Nat /\ k \in Int /\ n \in Int
  BY <1>1, Sizes
<1>3. r_minus(k % MaxSeqN, n % MaxSeqN, MaxSeqN) = d
  BY <1>2, Sizes, ModMinus, Zenon
<1>4. Index(n % Ring, d) = k % Ring
  BY <1>2, IndexIs, Zenon
<1>5. QED
  BY <1>1, <1>3, <1>4, Zenon DEF BackupIndex, StartsAt

\* The sequence number of the next packets.
LEMMA SeqIs ==
  ASSUME NEW w \in SenderWindow, NEW n \in Nat, StartsAt(w, n), NEW j \in Nat
  PROVE  SeqOf(w, j) = (n + InFlight(w) + j) % MaxSeqN
<1>1. PICK d : d = InFlight(w) + j
  BY Zenon
<1>2. InFlight(w) \in 0..WindowSize
  BY FlightIs, Zenon DEF StartsAt
<1>3. d \in Int /\ n \in Int /\ n + d = n + InFlight(w) + j
  BY <1>1, <1>2
<1>4. ((n % MaxSeqN) + d) % MaxSeqN = (n + d) % MaxSeqN
  BY <1>3, Sizes, ModShift, Zenon
<1>5. SeqOf(w, j) = ((n % MaxSeqN) + d) % MaxSeqN
  BY <1>1, Zenon DEF SeqOf, r_add, StartsAt
<1>6. QED
  BY <1>3, <1>4, <1>5, Zenon

\* How many payloads of q the loop of send() sends: all, or as many as fit.
LEMMA SentIs ==
  ASSUME NEW w \in SenderWindow, NEW n \in Nat, StartsAt(w, n), NEW q \in Seq(Nat)
  PROVE  /\ Sent(w, q) \in 0..Len(q) /\ InFlight(w) + Sent(w, q) \in 0..WindowSize
         /\ Sent(w, q) = Len(q) \/ InFlight(w) + Sent(w, q) = WindowSize
<1>1. InFlight(w) \in 0..WindowSize
  BY FlightIs, Zenon DEF StartsAt
<1>2. PICK f \in 0..WindowSize, l \in Nat : f = InFlight(w) /\ l = Len(q)
  BY <1>1
<1>3. PICK s : s = Sent(w, q)
  BY Zenon
<1>4. s = IF l < WindowSize - f THEN l ELSE WindowSize - f
  BY <1>2, <1>3, Zenon DEF Sent, Room
<1>5. s \in 0..l /\ f + s \in 0..WindowSize /\ (s = l \/ f + s = WindowSize)
  BY <1>4, Sizes
<1>6. QED
  BY <1>2, <1>3, <1>5, Zenon

\* v is window w, which starts with payload n and has f packets under way, after s
\* payloads of q have been sent.
Grown(v, w, n, f, q, s) ==
  /\ v \in SenderWindow /\ StartsAt(v, n) /\ InFlight(v) = f + s
  /\ \A k \in n .. n + f - 1 : CellOf(v, k) = CellOf(w, k)
  /\ \A j \in 0 .. s - 1 : CellOf(v, n + f + j) = [status |-> TRUE, backup |-> q[j + 1]]
  /\ Packets(w, q) = {[seq |-> (n + f + j) % MaxSeqN, payload |-> q[j + 1]] : j \in 0 .. s - 1}

\* The window after the loop, and the packets the loop puts on the link.
LEMMA AfterSendIs ==
  ASSUME NEW w \in SenderWindow, NEW n \in Nat, StartsAt(w, n),
         NEW f \in 0..WindowSize, f = InFlight(w),
         NEW q, NEW s \in Nat, s = Sent(w, q), f + s \in 0..WindowSize, \A j \in 1..s : q[j] \in Nat,
         NEW v, v = AfterSend(w, q)
  PROVE  Grown(v, w, n, f, q, s)
<1>1. w.top = (n + f) % Ring
  BY FlightIs, Zenon DEF StartsAt
<1>2. f \in Nat /\ f + s <= WindowSize /\ n + f \in Nat
  BY Sizes
<1>3. ASSUME NEW j \in 0 .. s - 1
      PROVE  /\ n + f + j \in Nat /\ SeqOf(w, j) = (n + f + j) % MaxSeqN
             /\ BackupIndex(w, SeqOf(w, j)) = (n + f + j) % Ring
  <2>1. n + f + j \in n .. n + MaxSeqN - 1 /\ j \in Nat /\ n + f + j \in Nat
    BY <1>1, <1>2, Sizes DEF Ring
  <2>2. SeqOf(w, j) = (n + f + j) % MaxSeqN
    BY <2>1, SeqIs, Zenon
  <2>3. BackupIndex(w, (n + f + j) % MaxSeqN) = (n + f + j) % Ring
    BY <2>1, BackupIs, Zenon
  <2>4. QED
    BY <2>1, <2>2, <2>3, Zenon
<1>4. Packets(w, q) = {[seq |-> (n + f + j) % MaxSeqN, payload |-> q[j + 1]] : j \in 0 .. s - 1}
  BY <1>3, Zenon DEF Packets
<1>5. ASSUME NEW j \in 0 .. s - 1, NEW i \in 0 .. s - 1, (n + f + j) % Ring = (n + f + i) % Ring
      PROVE  i = j
  <2>1. /\ n + f + j \in Int /\ n + f + i \in Int
        /\ (n + f + j) - (n + f + i) < Ring /\ (n + f + i) - (n + f + j) < Ring
    BY <1>1, <1>2, Sizes DEF Ring
  <2>2. n + f + j = n + f + i
    BY <1>5, <2>1, Sizes, ModClose, Zenon
  <2>3. QED
    BY <1>1, <2>2
<1>6. w.cells \in [Cells -> [status : BOOLEAN, backup : Nat]] /\ w.top \in Cells
  BY Zenon DEF SenderWindow
<1>7. PICK g : g = [i \in Cells |->
                      IF \E j \in 0 .. s - 1 : BackupIndex(w, SeqOf(w, j)) = i
                      THEN [status |-> TRUE,
                            backup |-> q[1 + CHOOSE j \in 0 .. s - 1 : BackupIndex(w, SeqOf(w, j)) = i]]
                      ELSE w.cells[i]]
  BY Zenon
<1>8. v = [w EXCEPT !.top = Index(@, s), !.cells = g]
  BY <1>7, Zenon DEF AfterSend
<1>9. ASSUME NEW j \in 0 .. s - 1
      PROVE  g[(n + f + j) % Ring] = [status |-> TRUE, backup |-> q[j + 1]]
  <2>1. PICK i \in Cells : i = (n + f + j) % Ring
    BY <1>3, CellExists
  <2>2. BackupIndex(w, SeqOf(w, j)) = i
    BY <1>3, <2>1, Zenon
  <2>3. PICK h \in 0 .. s - 1 :
          h = (CHOOSE x \in 0 .. s - 1 : BackupIndex(w, SeqOf(w, x)) = i) /\ BackupIndex(w, SeqOf(w, h)) = i
    BY <2>2, Zenon
  <2>4. h = j
    BY <1>3, <1>5, <2>1, <2>3, Zenon
  <2>5. g[i] = [status |-> TRUE, backup |-> q[1 + h]]
    BY <1>7, <2>2, <2>3, Zenon
  <2>6. 1 + h = j + 1
    BY <2>4
  <2>7. QED
    BY <2>1, <2>5, <2>6, Zenon
<1>10. g \in [Cells -> [status : BOOLEAN, backup : Nat]]
  <2>1. ASSUME NEW i \in Cells PROVE g[i] \in [status : BOOLEAN, backup : Nat]
    <3>1. CASE \E j \in 0 .. s - 1 : (n + f + j) % Ring = i
      <4>1. PICK j \in 0 .. s - 1 : (n + f + j) % Ring = i
        BY <3>1, Zenon
      <4>2. q[j + 1] \in Nat
        BY <1>2
      <4>3. g[i] = [status |-> TRUE, backup |-> q[j + 1]]
        BY <1>9, <4>1, Zenon
      <4>4. QED
        BY <4>2, <4>3
    <3>2. CASE ~\E j \in 0 .. s - 1 : (n + f + j) % Ring = i
      BY <1>3, <1>6, <1>7, <3>2, Zenon
    <3>3. QED
      BY <3>1, <3>2, Zenon
  <2>2. g = [i \in Cells |-> g[i]]
    BY <1>7, Zenon
  <2>3. QED
    BY <2>1, <2>2, Zenon
<1>11. Index(w.top, s) = (n + f + s) % Ring /\ n + f \in Nat /\ n + (f + s) = n + f + s /\ n + f + s \in Nat
  <2>1. n + f \in Nat /\ n + (f + s) = n + f + s /\ n + f + s \in Nat
    BY <1>1, <1>2
  <2>2. QED
    BY <1>1, <1>2, <2>1, IndexIs, Zenon
<1>12. v \in SenderWindow /\ v.base = w.base /\ v.seq = w.seq /\ v.top = (n + f + s) % Ring /\ v.cells = g
  <2>1. Index(w.top, s) \in Cells
    BY <1>11, CellExists
  <2>2. v = [base |-> w.base, top |-> Index(w.top, s), seq |-> w.seq, cells |-> g]
    BY <1>8, Zenon DEF SenderWindow
  <2>3. w.base \in Cells /\ w.seq \in 0 .. MaxSeqN - 1
    BY Zenon DEF SenderWindow
  <2>4. v \in SenderWindow
    BY <1>10, <2>1, <2>2, <2>3 DEF SenderWindow
  <2>5. v.base = w.base /\ v.seq = w.seq /\ v.top = Index(w.top, s) /\ v.cells = g
    BY <2>2
  <2>6. QED
    BY <1>11, <2>4, <2>5, Zenon
<1>13. StartsAt(v, n)
  BY <1>12, Zenon DEF StartsAt
<1>14. InFlight(v) = f + s
  <2>1. InFlight(v) \in 0..WindowSize /\ v.top = (n + InFlight(v)) % Ring
    BY <1>12, <1>13, FlightIs, Zenon DEF StartsAt
  <2>2. PICK e \in 0..WindowSize : e = InFlight(v)
    BY <2>1, Zenon
  <2>3. (n + e) % Ring = (n + f + s) % Ring
    BY <1>12, <2>1, <2>2, Zenon
  <2>4. /\ n + e \in Int /\ n + f + s \in Int
        /\ (n + e) - (n + f + s) < Ring /\ (n + f + s) - (n + e) < Ring
    BY <1>1, <1>2, Sizes DEF Ring
  <2>5. n + e = n + f + s
    BY <2>3, <2>4, Sizes, ModClose, Zenon
  <2>6. e = f + s
    BY <1>1, <1>2, <2>5
  <2>7. QED
    BY <2>2, <2>6, Zenon
<1>15. ASSUME NEW k \in n .. n + f - 1 PROVE CellOf(v, k) = CellOf(w, k)
  <2>1. k \in Int /\ k % Ring \in Cells
    <3>1. k \in Int
      BY <1>1
    <3>2. QED
      BY <3>1, CellExists
  <2>2. ASSUME NEW j \in 0 .. s - 1, (n + f + j) % Ring = k % Ring PROVE FALSE
    <3>1. n + f + j \in Int /\ (n + f + j) - k < Ring /\ k - (n + f + j) < Ring /\ n + f + j # k
      BY <1>1, <1>2, Sizes DEF Ring
    <3>2. QED
      BY <2>1, <2>2, <3>1, Sizes, ModClose, Zenon
  <2>3. g[k % Ring] = w.cells[k % Ring]
    BY <1>3, <1>7, <2>1, <2>2, Zenon
  <2>4. QED
    BY <1>12, <2>3, Zenon DEF CellOf
<1>16. \A j \in 0 .. s - 1 : CellOf(v, n + f + j) = [status |-> TRUE, backup |-> q[j + 1]]
  BY <1>9, <1>12, Zenon DEF CellOf
<1>17. QED
  BY <1>4, <1>12, <1>13, <1>14, <1>15, <1>16, Zenon DEF Grown

-----------------------------------------------------------------------------
(* 3. The inductive invariant *)

ReceiverWindow == [base : Cells, seq : 0 .. MaxSeqN - 1,
                   cells : [Cells -> [status : BOOLEAN, payload : Nat]]]

Packet == [seq : 0 .. MaxSeqN - 1, payload : Nat]

TypeOK ==
  /\ sender \in SenderWindow /\ receiver \in ReceiverWindow
  /\ buffer \in Seq(Nat) /\ delivered \in Seq(Nat)
  /\ data \subseteq Packet /\ acks \subseteq Packet
  /\ produced \in Nat /\ completed \in Nat

\* The receiver has payload k, delivered or kept in its window.
Has(k) ==
  \/ k < Len(delivered)
  \/ k \in Len(delivered) .. Len(delivered) + WindowSize /\ CellOf(receiver, k).status

\* Window w, which starts with payload n, keeps what it sent; what is marked as
\* acknowledged has arrived, and the first packet is not marked.
BackupOK(w, n) ==
  \A k \in n .. n + InFlight(w) - 1 :
    CellOf(w, k).backup = k /\ (~CellOf(w, k).status => k # n /\ Has(k))

TimersOf(w, n) == {k % MaxSeqN : k \in {i \in n .. n + InFlight(w) - 1 : CellOf(w, i).status}}

\* What is on the link was sent, and not too long ago.
OnLinkOK(m, n, e) == m.seq = m.payload % MaxSeqN /\ n <= m.payload + Lag /\ m.payload < e

\* The receiver keeps, in the cells of their numbers, payloads that were sent.
KeptOK(e) ==
  \A k \in Len(delivered) .. Len(delivered) + WindowSize :
    CellOf(receiver, k).status => k # Len(delivered) /\ k < e /\ CellOf(receiver, k).payload = k

SenderInv ==
  /\ StartsAt(sender, completed)
  /\ BackupOK(sender, completed)
  /\ timers = TimersOf(sender, completed)

BufferInv ==
  /\ produced = completed + InFlight(sender) + Len(buffer)
  /\ \A j \in 1..Len(buffer) : buffer[j] = completed + InFlight(sender) + j - 1
  /\ buffer # <<>> => InFlight(sender) = WindowSize

ReceiverInv ==
  /\ StartsAt(receiver, Len(delivered))
  /\ completed <= Len(delivered) /\ Len(delivered) <= completed + InFlight(sender)
  /\ KeptOK(completed + InFlight(sender))

LinkInv ==
  /\ \A m \in data : OnLinkOK(m, completed, completed + InFlight(sender))
  /\ \A m \in acks : OnLinkOK(m, completed, completed + InFlight(sender)) /\ Has(m.payload)

RdtInv ==
  TypeOK /\ SenderInv /\ BufferInv /\ ReceiverInv /\ LinkInv /\ InOrder /\ NoAssertFails

\* A window has no more timers than packets under way.
LEMMA FewTimers ==
  ASSUME NEW n \in Nat, NEW f \in Nat, NEW t, t \subseteq {k % MaxSeqN : k \in n .. n + f - 1}
  PROVE  Cardinality(t) \in Nat /\ Cardinality(t) <= f
<1> DEFINE S == n .. n + f - 1
           T == {k % MaxSeqN : k \in S}
           g == [k \in S |-> k % MaxSeqN]
<1>1. IsFiniteSet(S) /\ Cardinality(S) = f
  <2>1. n \in Int /\ n + f - 1 \in Int
    OBVIOUS
  <2>2. IsFiniteSet(S) /\ Cardinality(S) = IF n > n + f - 1 THEN 0 ELSE n + f - 1 - n + 1
    BY <2>1, FS_Interval
  <2> HIDE DEF S
  <2>3. QED
    BY <2>2
<1> HIDE DEF S
<1>2. g \in Surjection(S, T)
  BY Zenon DEF Surjection
<1> HIDE DEF g, T
<1>3. IsFiniteSet(T) /\ Cardinality(T) <= f
  BY <1>1, <1>2, FS_Surjection
<1>4. t \subseteq T
  BY DEF T, S
<1>5. IsFiniteSet(t) /\ Cardinality(t) <= Cardinality(T)
  BY <1>3, <1>4, FS_Subset
<1>6. Cardinality(t) \in Nat /\ Cardinality(T) \in Nat
  BY <1>3, <1>5, FS_CardinalityType
<1>7. QED
  BY <1>3, <1>5, <1>6

\* What the receiver has does not change with the sender.
LEMMA HasSame ==
  ASSUME UNCHANGED <<receiver, delivered>>, NEW k
  PROVE  Has(k)' <=> Has(k)
  BY Zenon DEF Has, CellOf

\* A step after which the sender has f + s packets under way, and is right.
SendsOn(n, f, s, e) ==
  /\ sender' \in SenderWindow /\ InFlight(sender') = f + s /\ SenderInv' /\ NoAssertFails'
  /\ data' \subseteq Packet /\ \A m \in data' : OnLinkOK(m, n, e + s)

\* The sender's part of the invariant after the loop of send().
LEMMA LoopKeepsSender ==
  ASSUME NEW w \in SenderWindow, NEW n \in Nat, StartsAt(w, n),
         NEW f \in 0..WindowSize, f = InFlight(w), NEW e \in Nat, e = n + f,
         NEW q, NEW s \in Nat, s = Sent(w, q), f + s \in 0..WindowSize,
         \A j \in 1..s : q[j] = e + j - 1,
         NEW t, t = TimersOf(w, n), NEW net, net \subseteq Packet,
         \A m \in net : OnLinkOK(m, n, e),
         BackupOK(w, n), NoAssertFails, SendLoop(w, q, t, net),
         completed' = n, UNCHANGED <<receiver, delivered>>
  PROVE  SendsOn(n, f, s, e)
<1>0. PICK v : v = AfterSend(w, q)
  BY Zenon
<1>1. f \in Nat /\ f + s <= WindowSize /\ n + f \in Nat
  BY Sizes
<1>2. ASSUME NEW j \in 0 .. s - 1
      PROVE  q[j + 1] = e + j /\ e + j \in Nat /\ n + f + j = e + j /\ e + j \in n .. n + (f + s) - 1
  <2>1. j + 1 \in 1..s /\ e + (j + 1) - 1 = e + j /\ e + j \in Nat /\ n + f + j = e + j
        /\ e + j \in n .. n + (f + s) - 1
    BY <1>1
  <2>2. q[j + 1] = e + (j + 1) - 1
    BY <2>1, Zenon
  <2>3. QED
    BY <2>1, <2>2, Zenon
<1>3. /\ v \in SenderWindow /\ StartsAt(v, n) /\ InFlight(v) = f + s
      /\ \A k \in n .. n + f - 1 : CellOf(v, k) = CellOf(w, k)
      /\ \A j \in 0 .. s - 1 : CellOf(v, n + f + j) = [status |-> TRUE, backup |-> q[j + 1]]
      /\ Packets(w, q) = {[seq |-> (n + f + j) % MaxSeqN, payload |-> q[j + 1]] : j \in 0 .. s - 1}
  <2>1. \A j \in 1..s : q[j] \in Nat
    BY <1>1
  <2>2. Grown(v, w, n, f, q, s)
    BY <1>0, <2>1, AfterSendIs, Zenon
  <2>3. QED
    BY <2>2, Zenon DEF Grown
<1>4. /\ sender' = v /\ timers' = t \cup {p.seq : p \in Packets(w, q)}
      /\ data' = net \cup Packets(w, q) /\ failed' = (failed \/ Cardinality(t) + s > WindowSize)
  BY <1>0, Zenon DEF SendLoop
<1>5. ASSUME NEW j \in 0 .. s - 1
      PROVE  CellOf(v, e + j).status = TRUE /\ CellOf(v, e + j).backup = e + j
  <2>1. CellOf(v, e + j) = [status |-> TRUE, backup |-> e + j]
    BY <1>2, <1>3, Zenon
  <2>2. QED
    BY <2>1
<1>6. ASSUME NEW k \in n .. n + (f + s) - 1
      PROVE  k \in n .. n + f - 1 \/ \E j \in 0 .. s - 1 : k = e + j
  <2>1. CASE k < n + f
    BY <1>1, <2>1
  <2>2. CASE ~(k < n + f)
    <3>1. k - e \in 0 .. s - 1 /\ k = e + (k - e)
      BY <1>1, <2>2
    <3>2. QED
      BY <3>1
  <2>3. QED
    BY <2>1, <2>2, Zenon
<1>7. ASSUME NEW k \in n .. n + (f + s) - 1
      PROVE  CellOf(v, k).backup = k /\ (~CellOf(v, k).status => k # n /\ Has(k)')
  <2>1. CASE k \in n .. n + f - 1
    BY <1>3, <2>1, HasSame, Zenon DEF BackupOK
  <2>2. ASSUME NEW j \in 0 .. s - 1, k = e + j
        PROVE  CellOf(v, k).backup = k /\ (~CellOf(v, k).status => k # n /\ Has(k)')
    BY <1>5, <2>2, Zenon
  <2>3. QED
    BY <1>6, <2>1, <2>2, Zenon
<1>8. BackupOK(sender, completed)'
  BY <1>3, <1>4, <1>7, Zenon DEF BackupOK
<1>9. timers' = TimersOf(v, n)
  <2>1. ASSUME NEW x \in timers' PROVE x \in TimersOf(v, n)
    <3>1. CASE x \in t
      <4>1. PICK k \in n .. n + f - 1 : CellOf(w, k).status /\ x = k % MaxSeqN
        BY <3>1, Zenon DEF TimersOf
      <4>2. k \in n .. n + (f + s) - 1
        BY <1>1
      <4>3. CellOf(v, k).status
        BY <1>3, <4>1, Zenon
      <4>4. QED
        BY <1>3, <4>1, <4>2, <4>3, Zenon DEF TimersOf
    <3>2. CASE \E p \in Packets(w, q) : x = p.seq
      <4>1. PICK p \in Packets(w, q) : x = p.seq
        BY <3>2, Zenon
      <4>2. PICK j \in 0 .. s - 1 : p = [seq |-> (n + f + j) % MaxSeqN, payload |-> q[j + 1]]
        BY <1>3, <4>1, Zenon
      <4>3. x = (e + j) % MaxSeqN
        <5>1. p.seq = (n + f + j) % MaxSeqN
          BY <4>2, Zenon
        <5>2. QED
          BY <1>2, <4>1, <5>1, Zenon
      <4>4. e + j \in n .. n + (f + s) - 1 /\ CellOf(v, e + j).status
        BY <1>2, <1>5, Zenon
      <4>5. QED
        BY <1>3, <4>3, <4>4, Zenon DEF TimersOf
    <3>3. QED
      BY <1>4, <3>1, <3>2, Zenon
  <2>2. ASSUME NEW x \in TimersOf(v, n) PROVE x \in timers'
    <3>1. PICK k \in n .. n + (f + s) - 1 : CellOf(v, k).status /\ x = k % MaxSeqN
      BY <1>3, Zenon DEF TimersOf
    <3>2. CASE k \in n .. n + f - 1
      <4>1. CellOf(w, k).status
        BY <1>3, <3>1, <3>2, Zenon
      <4>2. x \in t
        BY <3>1, <3>2, <4>1, Zenon DEF TimersOf
      <4>3. QED
        BY <1>4, <4>2, Zenon
    <3>3. ASSUME NEW j \in 0 .. s - 1, k = e + j PROVE x \in timers'
      <4>1. PICK p : p = [seq |-> (n + f + j) % MaxSeqN, payload |-> q[j + 1]]
        BY Zenon
      <4>2. p \in Packets(w, q) /\ p.seq = (n + f + j) % MaxSeqN
        BY <1>3, <4>1, Zenon
      <4>3. x = p.seq
        BY <1>2, <3>1, <3>3, <4>2, Zenon
      <4>4. QED
        BY <1>4, <4>2, <4>3, Zenon
    <3>4. QED
      BY <1>6, <3>2, <3>3, Zenon
  <2>3. QED
    BY <2>1, <2>2, Zenon
<1>10. SenderInv'
  <2>1. StartsAt(sender', completed')
    BY <1>3, <1>4, Zenon
  <2>2. timers' = TimersOf(sender', completed')
    BY <1>4, <1>9, Zenon
  <2>3. QED
    BY <1>8, <2>1, <2>2, Zenon DEF SenderInv
<1>11. ~failed'
  <2>1. t \subseteq {k % MaxSeqN : k \in n .. n + f - 1}
    BY Zenon DEF TimersOf
  <2>2. Cardinality(t) \in Nat /\ Cardinality(t) <= f
    BY <1>1, <2>1, FewTimers, Zenon
  <2>3. ~(Cardinality(t) + s > WindowSize)
    BY <1>1, <2>2, Sizes
  <2>4. QED
    BY <1>4, <2>3, Zenon DEF NoAssertFails
<1>12. ASSUME NEW m \in data' PROVE m \in Packet /\ OnLinkOK(m, n, e + s)
  <2>1. CASE m \in net
    <3>1. m \in Packet /\ OnLinkOK(m, n, e)
      BY <2>1, Zenon
    <3>2. m.payload \in Nat
      BY <3>1 DEF Packet
    <3>3. m.payload < e + s
      BY <3>1, <3>2 DEF OnLinkOK
    <3>4. QED
      BY <3>1, <3>3, Zenon DEF OnLinkOK
  <2>2. CASE m \in Packets(w, q)
    <3>1. PICK j \in 0 .. s - 1 : m = [seq |-> (n + f + j) % MaxSeqN, payload |-> q[j + 1]]
      BY <1>3, <2>2, Zenon
    <3>2. m = [seq |-> (e + j) % MaxSeqN, payload |-> e + j] /\ e + j \in Nat
      BY <1>2, <3>1, Zenon
    <3>3. (e + j) % MaxSeqN \in 0 .. MaxSeqN - 1
      <4>1. e + j \in Int
        BY <3>2
      <4>2. QED
        BY <4>1, Sizes, ModRange, Zenon
    <3>4. m \in Packet /\ m.seq = (e + j) % MaxSeqN /\ m.payload = e + j
      BY <3>2, <3>3, Zenon DEF Packet
    <3>5. n <= e + j + Lag /\ e + j < e + s
      BY <1>1, Sizes
    <3>6. QED
      BY <3>4, <3>5, Zenon DEF OnLinkOK
  <2>3. QED
    BY <1>4, <2>1, <2>2, Zenon
<1>13. QED
  BY <1>3, <1>4, <1>10, <1>11, <1>12, Zenon DEF NoAssertFails, SendsOn

\* q holds payload e and the ones after it.
RunFrom(q, e) == q \in Seq(Nat) /\ \A j \in 1..Len(q) : q[j] = e + j - 1

\* The rest of a run of payloads.
LEMMA RestIs ==
  ASSUME NEW q, NEW e \in Nat, RunFrom(q, e), NEW s \in 0..Len(q)
  PROVE  /\ RunFrom(SubSeq(q, s + 1, Len(q)), e + s)
         /\ Len(SubSeq(q, s + 1, Len(q))) = Len(q) - s
         /\ SubSeq(q, s + 1, Len(q)) # <<>> => s # Len(q)
<1>0. q \in Seq(Nat)
  BY Zenon DEF RunFrom
<1> DEFINE r == SubSeq(q, s + 1, Len(q))
<1>1. r \in Seq(Nat) /\ Len(r) = Len(q) - s
  BY <1>0
<1> HIDE DEF r
<1>2. ASSUME NEW j \in 1..Len(r) PROVE r[j] = (e + s) + j - 1
  <2>1. r[j] = q[s + j] /\ s + j \in 1..Len(q)
    BY <1>0, <1>1 DEF r
  <2>2. q[s + j] = e + (s + j) - 1
    BY <2>1, Zenon DEF RunFrom
  <2>3. PICK l \in Nat : l = Len(q)
    BY <1>0
  <2>4. e + (s + j) - 1 = (e + s) + j - 1
    BY <1>1, <2>3
  <2>5. QED
    BY <2>1, <2>2, <2>4, Zenon
<1>3. r # <<>> => s # Len(q)
  BY <1>0, <1>1
<1>4. QED
  BY <1>1, <1>2, <1>3, Zenon DEF RunFrom, r

\* Longer stretches allow more.
LEMMA KeptMore ==
  ASSUME NEW e \in Nat, NEW d \in Nat, e <= d, KeptOK(e), delivered \in Seq(Nat)
  PROVE  KeptOK(d)
<1>1. ASSUME NEW k \in Len(delivered) .. Len(delivered) + WindowSize, k < e PROVE k < d
  <2>1. k \in Int
    BY Sizes
  <2>2. QED
    BY <1>1, <2>1
<1>2. QED
  BY <1>1, Zenon DEF KeptOK

\* A step that ends with the loop of send(), from window w, which starts with
\* payload n, timers t and link net; the payloads of q, from number e on, wait.
Loops(w, n, e, q, t, net) ==
  /\ w \in SenderWindow /\ n \in Nat /\ StartsAt(w, n) /\ BackupOK(w, n)
  /\ e \in Nat /\ e = n + InFlight(w) /\ RunFrom(q, e)
  /\ t = TimersOf(w, n)
  /\ net \subseteq Packet /\ \A m \in net : OnLinkOK(m, n, e)
  /\ acks' \subseteq Packet /\ \A m \in acks' : OnLinkOK(m, n, e) /\ Has(m.payload)
  /\ n <= Len(delivered) /\ Len(delivered) <= e /\ KeptOK(e)
  /\ SendLoop(w, q, t, net)
  /\ completed' = n /\ produced' = e + Len(q) /\ UNCHANGED <<receiver, delivered>>

\* Such a step keeps the invariant.
LEMMA LoopKeeps ==
  ASSUME RdtInv, NEW w, NEW n, NEW e, NEW q, NEW t, NEW net, Loops(w, n, e, q, t, net)
  PROVE  RdtInv'
<1>0. /\ w \in SenderWindow /\ n \in Nat /\ StartsAt(w, n) /\ BackupOK(w, n)
      /\ e \in Nat /\ e = n + InFlight(w) /\ RunFrom(q, e)
      /\ t = TimersOf(w, n)
      /\ net \subseteq Packet /\ \A m \in net : OnLinkOK(m, n, e)
      /\ acks' \subseteq Packet /\ \A m \in acks' : OnLinkOK(m, n, e) /\ Has(m.payload)
      /\ n <= Len(delivered) /\ Len(delivered) <= e /\ KeptOK(e)
      /\ SendLoop(w, q, t, net)
      /\ completed' = n /\ produced' = e + Len(q) /\ UNCHANGED <<receiver, delivered>>
  BY Zenon DEF Loops
<1> USE <1>0
<1>1. PICK f \in 0..WindowSize : f = InFlight(w)
  BY FlightIs, Zenon DEF StartsAt
<1>2. PICK s : s = Sent(w, q)
  BY Zenon
<1>3. PICK l \in Nat : l = Len(q)
  BY DEF RunFrom
<1>4. s \in 0..l /\ f + s \in 0..WindowSize /\ (s = l \/ f + s = WindowSize)
  BY <1>1, <1>2, <1>3, SentIs, Zenon DEF RunFrom
<1>5. s \in Nat /\ f \in Nat /\ e + s \in Nat /\ e = n + f /\ e + s = n + (f + s) /\ e + l = (e + s) + (l - s)
  <2>1. e = n + f
    BY <1>1, Zenon
  <2>2. QED
    BY <1>3, <1>4, <2>1
<1>6. ASSUME NEW j \in 1..s PROVE q[j] = e + j - 1
  <2>1. j \in 1..l
    BY <1>4
  <2>2. QED
    BY <1>3, <2>1, Zenon DEF RunFrom
<1>7. /\ sender' \in SenderWindow /\ InFlight(sender') = f + s /\ SenderInv' /\ NoAssertFails'
      /\ data' \subseteq Packet /\ \A m \in data' : OnLinkOK(m, n, e + s)
  <2>1. NoAssertFails
    BY Zenon DEF RdtInv
  <2>2. SendsOn(n, f, s, e)
    BY <1>1, <1>2, <1>4, <1>5, <1>6, <2>1, LoopKeepsSender, Zenon
  <2>3. QED
    BY <2>2, Zenon DEF SendsOn
<1>8. /\ buffer' \in Seq(Nat) /\ Len(buffer') = l - s /\ (buffer' # <<>> => s # l)
      /\ \A j \in 1..Len(buffer') : buffer'[j] = (e + s) + j - 1
  <2>1. buffer' = SubSeq(q, s + 1, Len(q))
    BY <1>2, Zenon DEF SendLoop
  <2>2. RunFrom(buffer', e + s) /\ Len(buffer') = l - s /\ (buffer' # <<>> => s # l)
    BY <1>3, <1>4, <2>1, RestIs, Zenon
  <2>3. QED
    BY <2>2, Zenon DEF RunFrom
<1>9. completed' + InFlight(sender') = e + s /\ completed' + InFlight(sender') = n + (f + s)
  BY <1>5, <1>7, Zenon
<1>10. TypeOK'
  <2>1. receiver' \in ReceiverWindow /\ delivered' \in Seq(Nat)
    BY Zenon DEF RdtInv, TypeOK
  <2>2. produced' \in Nat
    BY <1>3
  <2>3. QED
    BY <1>7, <1>8, <2>1, <2>2, Zenon DEF TypeOK
<1>11. BufferInv'
  <2>1. produced' = completed' + InFlight(sender') + Len(buffer')
    BY <1>3, <1>5, <1>8, <1>9, Zenon
  <2>2. buffer' # <<>> => InFlight(sender') = WindowSize
    BY <1>3, <1>4, <1>7, <1>8, Zenon
  <2>3. QED
    BY <1>8, <1>9, <2>1, <2>2, Zenon DEF BufferInv
<1>12. Len(delivered) \in Nat /\ delivered \in Seq(Nat) /\ Len(delivered) <= e + s
  <2>1. delivered \in Seq(Nat)
    BY Zenon DEF RdtInv, TypeOK
  <2>2. PICK d \in Nat : d = Len(delivered)
    BY <2>1
  <2>3. d <= e + s
    BY <1>5, <2>2
  <2>4. QED
    BY <2>1, <2>2, <2>3, Zenon
<1>13. ReceiverInv'
  <2>1. KeptOK(e + s)
    <3>1. e <= e + s
      BY <1>5
    <3>2. QED
      BY <1>5, <1>12, <3>1, KeptMore, Zenon
  <2>2. KeptOK(e + s)'
    BY <1>5, <1>9, <2>1, Zenon DEF KeptOK, CellOf
  <2>3. StartsAt(receiver', Len(delivered'))
    BY Zenon DEF RdtInv, ReceiverInv
  <2>4. QED
    BY <1>9, <1>12, <2>2, <2>3, Zenon DEF ReceiverInv
<1>14. LinkInv'
  <2>1. ASSUME NEW m \in acks' PROVE OnLinkOK(m, n, e + s) /\ Has(m.payload)'
    <3>1. OnLinkOK(m, n, e) /\ Has(m.payload)
      BY Zenon
    <3>2. PICK p \in Nat : p = m.payload
      BY DEF Packet
    <3>3. p < e
      BY <3>1, <3>2, Zenon DEF OnLinkOK
    <3>4. p < e + s
      BY <1>5, <3>3
    <3>5. QED
      BY <3>1, <3>2, <3>4, HasSame, Zenon DEF OnLinkOK
  <2>2. QED
    BY <1>7, <1>9, <2>1, Zenon DEF LinkInv, OnLinkOK
<1>15. InOrder'
  BY Zenon DEF RdtInv, InOrder
<1>16. QED
  BY <1>7, <1>10, <1>11, <1>13, <1>14, <1>15, Zenon DEF RdtInv

-----------------------------------------------------------------------------
(* 4. The sender's steps *)

\* What a step leaves right when it does not touch the windows.
LEMMA WindowsSame ==
  ASSUME RdtInv, UNCHANGED <<sender, completed, timers, receiver, delivered>>
  PROVE  SenderInv' /\ ReceiverInv' /\ InOrder'
<1>1. ASSUME NEW k PROVE Has(k)' <=> Has(k)
  BY HasSame, Zenon
<1>2. BackupOK(sender, completed)'
  BY <1>1, Zenon DEF RdtInv, SenderInv, BackupOK, CellOf, InFlight
<1>3. SenderInv'
  BY <1>2, Zenon DEF RdtInv, SenderInv, StartsAt, TimersOf, CellOf, InFlight
<1>4. ReceiverInv'
  BY Zenon DEF RdtInv, ReceiverInv, StartsAt, KeptOK, CellOf, InFlight
<1>5. InOrder'
  BY Zenon DEF RdtInv, InOrder
<1>6. QED
  BY <1>3, <1>4, <1>5, Zenon

\* The same for the link, from which a step may take packets.
LEMMA LinkSame ==
  ASSUME RdtInv, UNCHANGED <<sender, completed, receiver, delivered>>,
         data' \subseteq data, acks' \subseteq acks
  PROVE  LinkInv'
<1>1. ASSUME NEW k PROVE Has(k)' <=> Has(k)
  BY HasSame, Zenon
<1>2. QED
  BY <1>1, Zenon DEF RdtInv, LinkInv, OnLinkOK, InFlight

\* A message of n payloads.
LEMMA MessageIs ==
  ASSUME NEW n \in Nat, NEW p \in Nat
  PROVE  RunFrom([j \in 1..n |-> p + j - 1], p) /\ Len([j \in 1..n |-> p + j - 1]) = n
<1>1. \A j \in 1..n : p + j - 1 \in Nat
  OBVIOUS
<1>2. [j \in 1..n |-> p + j - 1] \in Seq(Nat) /\ Len([j \in 1..n |-> p + j - 1]) = n
  BY <1>1
<1>3. QED
  BY <1>2 DEF RunFrom

\* A run of payloads goes on with the next run.
LEMMA RunsJoin ==
  ASSUME NEW e \in Nat, NEW q, NEW r, RunFrom(q, e), RunFrom(r, e + Len(q))
  PROVE  RunFrom(q \o r, e) /\ Len(q \o r) = Len(q) + Len(r)
<1>1. q \in Seq(Nat) /\ r \in Seq(Nat)
  BY Zenon DEF RunFrom
<1>2. q \o r \in Seq(Nat) /\ Len(q \o r) = Len(q) + Len(r)
  BY <1>1
<1>3. PICK k \in Nat, l \in Nat : k = Len(q) /\ l = Len(r)
  BY <1>1
<1>4. ASSUME NEW j \in 1 .. k + l PROVE (q \o r)[j] = e + j - 1
  <2>1. CASE j <= k
    <3>1. j \in 1..k
      BY <2>1
    <3>2. (q \o r)[j] = q[j]
      BY <1>1, <1>3, <3>1
    <3>3. QED
      BY <1>3, <3>1, <3>2, Zenon DEF RunFrom
  <2>2. CASE ~(j <= k)
    <3>1. j - k \in 1..l
      BY <2>2
    <3>2. (q \o r)[j] = r[j - k]
      BY <1>1, <1>3, <2>2
    <3>3. r[j - k] = (e + k) + (j - k) - 1
      BY <1>3, <3>1, Zenon DEF RunFrom
    <3>4. (e + k) + (j - k) - 1 = e + j - 1
      OBVIOUS
    <3>5. QED
      BY <3>2, <3>3, <3>4, Zenon
  <2>3. QED
    BY <2>1, <2>2, Zenon
<1>5. QED
  BY <1>2, <1>3, <1>4, Zenon DEF RunFrom

\* What waits in the buffer follows what is under way.
LEMMA BufferRuns ==
  ASSUME RdtInv
  PROVE  /\ InFlight(sender) \in 0..WindowSize
         /\ completed + InFlight(sender) \in Nat
         /\ RunFrom(buffer, completed + InFlight(sender)) /\ Len(buffer) \in Nat
         /\ produced = completed + InFlight(sender) + Len(buffer)
<1>1. /\ sender \in SenderWindow /\ completed \in Nat /\ StartsAt(sender, completed)
      /\ buffer \in Seq(Nat)
  BY Zenon DEF RdtInv, TypeOK, SenderInv
<1>2. InFlight(sender) \in 0..WindowSize
  BY <1>1, FlightIs, Zenon DEF StartsAt
<1>3. completed + InFlight(sender) \in Nat
  BY <1>1, <1>2
<1>4. Len(buffer) \in Nat
  BY <1>1
<1>5. QED
  BY <1>1, <1>2, <1>3, <1>4, Zenon DEF RdtInv, BufferInv, RunFrom

\* A message from the upper layer.
LEMMA UpperKeeps ==
  ASSUME RdtInv, NEW n \in 1..MaxMsg, Sender_FromUpperLayer(n)
  PROVE  RdtInv'
<1>1. n \in Nat /\ produced \in Nat /\ completed \in Nat /\ sender \in SenderWindow
  <2>1. n \in Nat
    BY RdtBounds
  <2>2. QED
    BY <2>1, Zenon DEF RdtInv, TypeOK
<1>2. PICK msg : msg = [j \in 1..n |-> produced + j - 1]
  BY Zenon
<1>3. RunFrom(msg, produced) /\ Len(msg) = n
  BY <1>1, <1>2, MessageIs, Zenon
<1>4. PICK e \in Nat, l \in Nat : e = completed + InFlight(sender) /\ l = Len(buffer)
  BY BufferRuns, Zenon
<1>5. RunFrom(buffer, e) /\ produced = e + l
  BY <1>4, BufferRuns, Zenon
<1>6. UNCHANGED <<receiver, acks, completed, delivered>> /\ produced' = produced + n
  BY Zenon DEF Sender_FromUpperLayer
<1>7. CASE buffer # <<>>
  <2>1. /\ buffer' = buffer \o msg /\ failed' = (failed \/ sender.base = sender.top)
        /\ UNCHANGED <<sender, timers, data>>
    BY <1>2, <1>7, Zenon DEF Sender_FromUpperLayer
  <2>2. SenderInv' /\ ReceiverInv' /\ InOrder' /\ LinkInv'
    BY <1>6, <2>1, WindowsSame, LinkSame, Zenon
  <2>3. InFlight(sender) = WindowSize
    BY <1>7, Zenon DEF RdtInv, BufferInv
  <2>4. NoAssertFails'
    <3>1. StartsAt(sender, completed) /\ ~failed /\ WindowSize # 0
      BY Sizes, Zenon DEF RdtInv, SenderInv, NoAssertFails
    <3>2. sender.base # sender.top
      BY <1>1, <2>3, <3>1, FlightIs, Zenon DEF StartsAt
    <3>3. QED
      BY <2>1, <3>1, <3>2, Zenon DEF NoAssertFails
  <2>5. RunFrom(buffer', e) /\ Len(buffer') = l + n
    <3>1. RunFrom(msg, e + Len(buffer))
      BY <1>3, <1>4, <1>5, Zenon
    <3>2. RunFrom(buffer \o msg, e) /\ Len(buffer \o msg) = Len(buffer) + Len(msg)
      BY <1>5, <3>1, RunsJoin, Zenon
    <3>3. QED
      BY <1>3, <1>4, <2>1, <3>2, Zenon
  <2>6. produced' = e + Len(buffer')
    <3>1. e + l + n = e + (l + n)
      BY <1>1
    <3>2. QED
      BY <1>5, <1>6, <2>5, <3>1, Zenon
  <2>7. completed' + InFlight(sender') = e /\ InFlight(sender') = WindowSize
    BY <1>4, <1>6, <2>1, <2>3, Zenon
  <2>8. BufferInv'
    BY <2>5, <2>6, <2>7, Zenon DEF BufferInv, RunFrom
  <2>9. TypeOK'
    <3>1. produced' \in Nat
      BY <1>1, <1>6
    <3>2. buffer' \in Seq(Nat)
      BY <2>5, Zenon DEF RunFrom
    <3>3. QED
      BY <1>6, <2>1, <3>1, <3>2, Zenon DEF RdtInv, TypeOK
  <2>10. QED
    BY <2>2, <2>4, <2>8, <2>9, Zenon DEF RdtInv
<1>8. CASE buffer = <<>>
  <2>1. SendLoop(sender, msg, timers, data)
    BY <1>2, <1>8, Zenon DEF Sender_FromUpperLayer
  <2>2. produced = e
    <3>1. l = 0
      BY <1>4, <1>8
    <3>2. QED
      BY <1>5, <3>1
  <2>3. RunFrom(msg, e) /\ produced' = e + Len(msg)
    BY <1>3, <1>6, <2>2, Zenon
  <2>4. StartsAt(sender, completed) /\ BackupOK(sender, completed) /\ timers = TimersOf(sender, completed)
    BY Zenon DEF RdtInv, SenderInv
  <2>5. /\ data \subseteq Packet /\ (\A m \in data : OnLinkOK(m, completed, e))
        /\ acks' \subseteq Packet /\ (\A m \in acks' : OnLinkOK(m, completed, e) /\ Has(m.payload))
    BY <1>4, <1>6, Zenon DEF RdtInv, TypeOK, LinkInv
  <2>6. completed <= Len(delivered) /\ Len(delivered) <= e /\ KeptOK(e)
    BY <1>4, Zenon DEF RdtInv, ReceiverInv
  <2>7. Loops(sender, completed, e, msg, timers, data)
    <3>1. e = completed + InFlight(sender) /\ completed' = completed /\ UNCHANGED <<receiver, delivered>>
      BY <1>4, <1>6, Zenon
    <3>2. QED
      BY <1>1, <2>1, <2>3, <2>4, <2>5, <2>6, <3>1, Zenon DEF Loops
  <2>8. QED
    BY <2>7, LoopKeeps, Zenon
<1>9. QED
  BY <1>7, <1>8, Zenon

\* A timer expires.
LEMMA ReSendKeeps ==
  ASSUME RdtInv, NEW seq_n \in timers, Sender_ReSend(seq_n)
  PROVE  RdtInv'
<1>1. PICK c \in Nat : c = completed
  BY Zenon DEF RdtInv, TypeOK
<1>2. PICK f \in 0..WindowSize : f = InFlight(sender)
  BY BufferRuns, Zenon
<1>3. StartsAt(sender, c) /\ BackupOK(sender, c) /\ timers = TimersOf(sender, c)
  BY <1>1, Zenon DEF RdtInv, SenderInv
<1>4. PICK k \in c .. c + f - 1 : CellOf(sender, k).status /\ seq_n = k % MaxSeqN
  BY <1>2, <1>3, Zenon DEF TimersOf
<1>5. /\ k \in c .. c + MaxSeqN - 1 /\ k \in Nat /\ k \in Int
      /\ c <= k + Lag /\ k < c + f
  BY Sizes
<1>6. BackupIndex(sender, seq_n) = k % Ring
  BY <1>3, <1>4, <1>5, BackupIs, Zenon
<1>7. CellOf(sender, k).backup = k
  BY <1>2, <1>3, Zenon DEF BackupOK
<1>8. PICK m : m = [seq |-> seq_n, payload |-> k]
  BY Zenon
<1>9. /\ ~failed' /\ data' = data \cup {m}
      /\ UNCHANGED <<sender, buffer, timers, receiver, acks, produced, completed, delivered>>
  BY <1>4, <1>6, <1>7, <1>8, Zenon DEF Sender_ReSend, CellOf, RdtInv, NoAssertFails
<1>10. seq_n \in 0 .. MaxSeqN - 1
  BY <1>4, <1>5, Sizes, ModRange
<1>11. m \in Packet /\ OnLinkOK(m, c, c + f)
  BY <1>4, <1>5, <1>8, <1>10, Zenon DEF Packet, OnLinkOK
<1>12. SenderInv' /\ ReceiverInv' /\ InOrder'
  BY <1>9, WindowsSame, Zenon
<1>13. TypeOK'
  BY <1>9, <1>11, Zenon DEF RdtInv, TypeOK
<1>14. BufferInv' /\ NoAssertFails'
  BY <1>9, Zenon DEF RdtInv, BufferInv, NoAssertFails, InFlight
<1>15. LinkInv'
  <2>1. ASSUME NEW x PROVE Has(x)' <=> Has(x)
    BY <1>9, HasSame, Zenon
  <2>2. completed' = c /\ InFlight(sender') = f
    BY <1>1, <1>2, <1>9, Zenon
  <2>3. \A x \in data' : OnLinkOK(x, c, c + f)
    BY <1>1, <1>2, <1>9, <1>11, Zenon DEF RdtInv, LinkInv
  <2>4. \A x \in acks' : OnLinkOK(x, c, c + f) /\ Has(x.payload)'
    BY <1>1, <1>2, <1>9, <2>1, Zenon DEF RdtInv, LinkInv
  <2>5. QED
    BY <2>2, <2>3, <2>4, Zenon DEF LinkInv, OnLinkOK
<1>16. QED
  BY <1>12, <1>13, <1>14, <1>15, Zenon DEF RdtInv

\* A packet or an ack is lost.
LEMMA LoseKeeps ==
  ASSUME RdtInv, NEW m, Lose(m)
  PROVE  RdtInv'
<1>1. /\ data' \subseteq data /\ acks' \subseteq acks
      /\ UNCHANGED <<sender, buffer, timers, receiver, produced, completed, delivered, failed>>
  BY Zenon DEF Lose
<1>2. SenderInv' /\ ReceiverInv' /\ InOrder' /\ LinkInv'
  BY <1>1, WindowsSame, LinkSame, Zenon
<1>3. TypeOK'
  BY <1>1, Zenon DEF RdtInv, TypeOK
<1>4. BufferInv' /\ NoAssertFails'
  BY <1>1, Zenon DEF RdtInv, BufferInv, NoAssertFails, InFlight
<1>5. QED
  BY <1>2, <1>3, <1>4, Zenon DEF RdtInv

\* The sender tells the acks of its window from those that come late.
LEMMA AckWindow ==
  ASSUME NEW w, NEW n \in Nat, StartsAt(w, n), NEW f \in 0..WindowSize,
         NEW p \in Nat, n <= p + Lag, p < n + f
  PROVE  /\ InWindow(w, p % MaxSeqN) <=> p >= n
         /\ p >= n => (p % MaxSeqN = w.seq <=> p = n)
<1>1. CASE p >= n
  <2>1. p \in n .. n + MaxSeqN - 1 /\ p - n < WindowSize /\ p - n < MaxSeqN /\ n - p < MaxSeqN
        /\ p \in Int /\ n \in Int
    BY <1>1, Sizes
  <2>2. r_minus(p % MaxSeqN, w.seq, MaxSeqN) = p - n
    BY <2>1, BackupIs, Zenon
  <2>3. InWindow(w, p % MaxSeqN)
    BY <2>1, <2>2, Zenon DEF InWindow
  <2>4. p % MaxSeqN = w.seq <=> p = n
    BY <2>1, Sizes, ModClose, Zenon DEF StartsAt
  <2>5. QED
    BY <1>1, <2>3, <2>4, Zenon
<1>2. CASE ~(p >= n)
  <2>1. PICK d \in Int : d = p - n + MaxSeqN
    BY Sizes
  <2>2. d \in 0 .. MaxSeqN - 1 /\ p = n + d - MaxSeqN /\ ~(d < WindowSize) /\ p \in Int /\ n \in Int
    BY <1>2, <2>1, Sizes
  <2>3. r_minus(p % MaxSeqN, n % MaxSeqN, MaxSeqN) = d
    BY <2>2, Sizes, ModMinus, Zenon
  <2>4. ~InWindow(w, p % MaxSeqN)
    BY <2>2, <2>3, Zenon DEF InWindow, StartsAt
  <2>5. QED
    BY <1>2, <2>4, Zenon
<1>3. QED
  BY <1>1, <1>2, Zenon

\* v is window w, which starts with payload n and has f packets under way, after
\* packet p has been marked as acknowledged.
MarkedAt(v, w, n, f, p) ==
  /\ v \in SenderWindow /\ StartsAt(v, n) /\ InFlight(v) = f /\ v.base = w.base /\ v.top = w.top
  /\ \A k \in n .. n + f - 1 : k # p => CellOf(v, k) = CellOf(w, k)
  /\ ~CellOf(v, p).status /\ CellOf(v, p).backup = CellOf(w, p).backup

\* Marking touches one cell.
LEMMA MarkedIs ==
  ASSUME NEW w \in SenderWindow, NEW n \in Nat, StartsAt(w, n),
         NEW f \in 0..WindowSize, f = InFlight(w), NEW p \in n .. n + f - 1
  PROVE  MarkedAt(Marked(w, p % MaxSeqN), w, n, f, p)
<1>1. PICK v : v = Marked(w, p % MaxSeqN)
  BY Zenon
<1>2. p \in n .. n + MaxSeqN - 1 /\ p \in Int /\ p \in Nat
  BY Sizes
<1>3. BackupIndex(w, p % MaxSeqN) = p % Ring
  BY <1>2, BackupIs, Zenon
<1>4. PICK i \in Cells : i = p % Ring
  BY <1>2, CellExists, Zenon
<1>5. v = [w EXCEPT !.cells[i].status = FALSE]
  BY <1>1, <1>3, <1>4, Zenon DEF Marked
<1>6. /\ w.base \in Cells /\ w.top \in Cells /\ w.seq \in 0 .. MaxSeqN - 1
      /\ w.cells \in [Cells -> [status : BOOLEAN, backup : Nat]]
  BY Zenon DEF SenderWindow
<1>7. /\ v.base = w.base /\ v.top = w.top /\ v.seq = w.seq
      /\ v.cells = [w.cells EXCEPT ![i].status = FALSE]
      /\ v = [base |-> v.base, top |-> v.top, seq |-> v.seq, cells |-> v.cells]
  BY <1>5, Zenon DEF SenderWindow
<1>8. v.cells \in [Cells -> [status : BOOLEAN, backup : Nat]]
  BY <1>6, <1>7, Zenon
<1>9. v \in SenderWindow
  BY <1>6, <1>7, <1>8, Zenon DEF SenderWindow
<1>10. /\ v.cells[i].status = FALSE /\ v.cells[i].backup = w.cells[i].backup
       /\ \A j \in Cells : j # i => v.cells[j] = w.cells[j]
  BY <1>6, <1>7
<1>11. StartsAt(v, n) /\ InFlight(v) = f
  BY <1>7, Zenon DEF StartsAt, InFlight
<1>12. ASSUME NEW k \in n .. n + f - 1, k # p PROVE CellOf(v, k) = CellOf(w, k)
  <2>1. k \in Int /\ p \in Int /\ k - p < Ring /\ p - k < Ring
    BY Sizes DEF Ring
  <2>2. k % Ring # i
    BY <1>4, <1>12, <2>1, Sizes, ModClose, Zenon
  <2>3. k % Ring \in Cells
    BY <2>1, CellExists, Zenon
  <2>4. QED
    BY <1>10, <2>2, <2>3, Zenon DEF CellOf
<1>13. QED
  BY <1>1, <1>4, <1>7, <1>9, <1>10, <1>11, <1>12, Zenon DEF MarkedAt, CellOf

\* A search over a range of numbers ends at the first one it looks for.
LEMMA FirstOf ==
  ASSUME NEW S \in SUBSET Nat, S # {}
  PROVE  \E x \in S : \A y \in S : x <= y
<1> DEFINE R == OpToRel(<, Nat)
<1>1. IsWellFoundedOn(R, Nat)
  BY NatLessThanWellFounded, Zenon
<1>2. \A x, y \in Nat : x < y => <<x, y>> \in R
  BY DEF OpToRel
<1> HIDE DEF R
<1>3. PICK x \in S : \A y \in S : ~(<<y, x>> \in R)
  BY <1>1, WFMin, Zenon
<1>4. \A y \in S : ~(y < x)
  BY <1>2, <1>3, Zenon
<1>5. QED
  BY <1>4

\* ack() moves the window to the first packet that is not acknowledged, or past
\* the last one (the loop of rdt_sender.cc).
LEMMA AcknowledgedIs ==
  ASSUME NEW w \in SenderWindow, NEW c \in Nat, StartsAt(w, c),
         NEW f \in 1..WindowSize, f = InFlight(w)
  PROVE  /\ Acknowledged(w) \in 1..f
         /\ \A k \in 1 .. Acknowledged(w) - 1 : ~CellOf(w, c + k).status
         /\ Acknowledged(w) = f \/ CellOf(w, c + Acknowledged(w)).status
<1>1. w.base = c % Ring /\ w.top = (c + f) % Ring
  BY FlightIs, Zenon DEF StartsAt
<1>2. f \in Nat /\ c + f \in Int
  BY Sizes
<1>3. ASSUME NEW k \in 1..f
      PROVE  /\ Index(w.base, k) = w.top <=> k = f
             /\ w.cells[Index(w.base, k)] = CellOf(w, c + k)
  <2>1. k \in Nat /\ c + k \in Int /\ (c + k) - (c + f) < Ring /\ (c + f) - (c + k) < Ring
        /\ (c + k = c + f => k = f)
    BY <1>2, Sizes DEF Ring
  <2>2. Index(w.base, k) = (c + k) % Ring
    BY <1>1, <2>1, IndexIs, Zenon
  <2>3. (c + k) % Ring = (c + f) % Ring => k = f
    BY <1>2, <2>1, Sizes, ModClose, Zenon
  <2>4. QED
    BY <1>1, <2>2, <2>3, Zenon DEF CellOf
<1> DEFINE P(n) == /\ Index(w.base, n) = w.top \/ w.cells[Index(w.base, n)].status
                   /\ \A k \in 1 .. n - 1 : Index(w.base, k) # w.top /\ ~w.cells[Index(w.base, k)].status
           S == {n \in 1..f : n = f \/ CellOf(w, c + n).status}
<1>4. PICK x \in S : \A y \in S : x <= y
  <2>1. f \in S /\ S \in SUBSET Nat
    BY <1>2
  <2> HIDE DEF S
  <2>2. QED
    BY <2>1, FirstOf
<1>5. x \in 1 .. WindowSize + 1 /\ P(x)
  <2>1. x \in 1..f /\ (x = f \/ CellOf(w, c + x).status)
    BY <1>4, Zenon
  <2>2. x \in 1 .. WindowSize + 1
    BY <2>1, Sizes
  <2>3. ASSUME NEW k \in 1 .. x - 1 PROVE k \in 1..f /\ k # f /\ ~CellOf(w, c + k).status
    <3>1. k \in 1..f /\ k # f /\ ~(x <= k)
      BY <1>2, <2>1
    <3>2. ~(k \in S)
      BY <1>4, <3>1, Zenon
    <3>3. QED
      BY <3>1, <3>2, Zenon
  <2>4. QED
    BY <1>3, <2>1, <2>2, <2>3, Zenon
<1>6. PICK n \in 1 .. WindowSize + 1 : n = Acknowledged(w) /\ P(n)
  <2>1. \E y \in 1 .. WindowSize + 1 : P(y)
    BY <1>5, Zenon
  <2>2. Acknowledged(w) = CHOOSE y \in 1 .. WindowSize + 1 : P(y)
    BY Zenon DEF Acknowledged
  <2> HIDE DEF P
  <2>3. QED
    BY <2>1, <2>2, Zenon
<1>7. n \in 1..f
  <2>1. CASE n <= f
    BY <1>2, <2>1, Sizes
  <2>2. CASE ~(n <= f)
    <3>1. f \in 1 .. n - 1 /\ f \in 1..f
      BY <1>2, <2>2, Sizes
    <3>2. Index(w.base, f) # w.top
      BY <1>6, <3>1, Zenon
    <3>3. QED
      BY <1>3, <3>1, <3>2, Zenon
  <2>3. QED
    BY <2>1, <2>2, Zenon
<1>8. ASSUME NEW k \in 1 .. n - 1 PROVE ~CellOf(w, c + k).status
  <2>1. k \in 1..f
    BY <1>2, <1>7
  <2>2. QED
    BY <1>3, <1>6, <2>1, Zenon
<1>9. n = f \/ CellOf(w, c + n).status
  BY <1>3, <1>6, <1>7, Zenon
<1>10. QED
  BY <1>6, <1>7, <1>8, <1>9, Zenon

\* v is window w, which starts with payload c and has f packets under way, after
\* it has moved on by n packets.
MovedBy(v, w, c, f, n) ==
  /\ v \in SenderWindow /\ StartsAt(v, c + n) /\ InFlight(v) = f - n
  /\ \A k : CellOf(v, k) = CellOf(w, k)

\* Moving the window leaves the cells alone.
LEMMA MovedIs ==
  ASSUME NEW w \in SenderWindow, NEW c \in Nat, StartsAt(w, c),
         NEW f \in 0..WindowSize, f = InFlight(w), NEW n \in 0..f
  PROVE  MovedBy(Moved(w, n), w, c, f, n)
<1>1. PICK v : v = Moved(w, n)
  BY Zenon
<1>2. n \in Nat /\ c + n \in Nat /\ c + n \in Int /\ n \in Int /\ c \in Int /\ c + f \in Int
  BY Sizes
<1>3. w.base = c % Ring /\ w.top = (c + f) % Ring /\ w.seq = c % MaxSeqN
  BY FlightIs, Zenon DEF StartsAt
<1>4. /\ w.base \in Cells /\ w.top \in Cells /\ w.seq \in 0 .. MaxSeqN - 1
      /\ w.cells \in [Cells -> [status : BOOLEAN, backup : Nat]]
  BY Zenon DEF SenderWindow
<1>5. Index(w.base, n) = (c + n) % Ring /\ (c + n) % Ring \in Cells
  BY <1>2, <1>3, IndexIs, CellExists, Zenon
<1>6. r_add(w.seq, n, MaxSeqN) = (c + n) % MaxSeqN /\ (c + n) % MaxSeqN \in 0 .. MaxSeqN - 1
  <2>1. ((c % MaxSeqN) + n) % MaxSeqN = (c + n) % MaxSeqN
    BY <1>2, Sizes, ModShift, Zenon
  <2>2. (c + n) % MaxSeqN \in 0 .. MaxSeqN - 1
    BY <1>2, Sizes, ModRange, Zenon
  <2>3. QED
    BY <1>3, <2>1, <2>2, Zenon DEF r_add
<1>7. /\ v.base = (c + n) % Ring /\ v.top = w.top /\ v.seq = (c + n) % MaxSeqN /\ v.cells = w.cells
      /\ v = [base |-> v.base, top |-> v.top, seq |-> v.seq, cells |-> v.cells]
  BY <1>1, <1>5, <1>6, Zenon DEF SenderWindow, Moved
<1>8. v \in SenderWindow
  BY <1>4, <1>5, <1>6, <1>7, Zenon DEF SenderWindow
<1>9. StartsAt(v, c + n)
  BY <1>7, Zenon DEF StartsAt
<1>10. PICK g \in 0..WindowSize : g = InFlight(v) /\ v.top = ((c + n) + g) % Ring
  BY <1>2, <1>7, <1>8, FlightIs, Zenon
<1>11. g = f - n
  <2>1. PICK x \in Int, y \in Int : x = (c + n) + g /\ y = c + f
    BY <1>2, Sizes
  <2>2. x % Ring = y % Ring
    BY <1>3, <1>7, <1>10, <2>1, Zenon
  <2>3. x - y < Ring /\ y - x < Ring
    BY <1>2, <2>1, Sizes DEF Ring
  <2>4. x = y
    BY <2>2, <2>3, Sizes, ModClose, Zenon
  <2>5. QED
    BY <1>2, <2>1, <2>4
<1>12. QED
  BY <1>1, <1>7, <1>8, <1>9, <1>10, <1>11, Zenon DEF MovedBy, CellOf

\* An ack on the link: payload p has arrived, and was sent not too long ago.
LEMMA AckIs ==
  ASSUME RdtInv, NEW a \in acks
  PROVE  \E p \in Nat, c \in Nat, f \in 0..WindowSize :
           /\ p = a.payload /\ c = completed /\ f = InFlight(sender)
           /\ a.seq = p % MaxSeqN /\ c <= p + Lag /\ p < c + f /\ Has(p)
<1>1. PICK p \in Nat : p = a.payload
  BY Zenon DEF RdtInv, TypeOK, Packet
<1>2. PICK c \in Nat, f \in 0..WindowSize : c = completed /\ f = InFlight(sender)
  BY BufferRuns, Zenon DEF RdtInv, TypeOK
<1>3. OnLinkOK(a, c, c + f) /\ Has(p)
  BY <1>1, <1>2, Zenon DEF RdtInv, LinkInv
<1>4. QED
  BY <1>1, <1>2, <1>3, Zenon DEF OnLinkOK

\* An ack that comes late ends no timer.
LEMMA LateAckKeeps ==
  ASSUME RdtInv, NEW a \in acks, Sender_FromLowerLayer(a), ~InWindow(sender, a.seq)
  PROVE  RdtInv'
<1>1. PICK p \in Nat, c \in Nat, f \in 0..WindowSize :
        /\ p = a.payload /\ c = completed /\ f = InFlight(sender)
        /\ a.seq = p % MaxSeqN /\ c <= p + Lag /\ p < c + f /\ Has(p)
  BY AckIs, Zenon
<1>2. StartsAt(sender, c) /\ timers = TimersOf(sender, c)
  BY <1>1, Zenon DEF RdtInv, SenderInv
<1>3. ~(p >= c)
  <2>1. StartsAt(sender, c) /\ c <= p + Lag /\ p < c + f
    BY <1>1, <1>2, Zenon
  <2>2. InWindow(sender, p % MaxSeqN) <=> p >= c
    BY <2>1, AckWindow, Zenon
  <2>3. QED
    BY <1>1, <2>2, Zenon
<1>4. a.seq \notin timers
  <2>1. SUFFICES ASSUME NEW k \in c .. c + f - 1, p % MaxSeqN = k % MaxSeqN PROVE FALSE
    BY <1>1, <1>2, Zenon DEF TimersOf
  <2>2. k \in Int /\ p \in Int /\ k - p < MaxSeqN /\ p - k < MaxSeqN /\ k # p
    BY <1>1, <1>3, Sizes
  <2>3. QED
    BY <2>1, <2>2, Sizes, ModClose, Zenon
<1>5. /\ timers' = timers \ {a.seq} /\ acks' \subseteq acks
      /\ UNCHANGED <<sender, buffer, data, failed, receiver, produced, completed, delivered>>
  BY Zenon DEF Sender_FromLowerLayer, EndTimer
<1>6. timers' = timers /\ data' \subseteq data
  BY <1>4, <1>5, Zenon
<1>7. SenderInv' /\ ReceiverInv' /\ InOrder' /\ LinkInv'
  BY <1>5, <1>6, WindowsSame, LinkSame, Zenon
<1>8. TypeOK'
  BY <1>5, Zenon DEF RdtInv, TypeOK
<1>9. BufferInv' /\ NoAssertFails'
  BY <1>5, Zenon DEF RdtInv, BufferInv, NoAssertFails, InFlight
<1>10. QED
  BY <1>7, <1>8, <1>9, Zenon DEF RdtInv

\* Marking a packet takes away its timer.
LEMMA MarkedTimers ==
  ASSUME NEW w, NEW v, NEW c \in Nat, NEW f \in 0..WindowSize, f = InFlight(w),
         NEW p \in c .. c + f - 1, MarkedAt(v, w, c, f, p)
  PROVE  TimersOf(v, c) = TimersOf(w, c) \ {p % MaxSeqN}
<1>1. InFlight(v) = f
  BY Zenon DEF MarkedAt
<1>2. ASSUME NEW k \in c .. c + f - 1, k # p
      PROVE  k % MaxSeqN # p % MaxSeqN /\ CellOf(v, k) = CellOf(w, k)
  <2>1. k \in Int /\ p \in Int /\ k - p < MaxSeqN /\ p - k < MaxSeqN
    BY Sizes
  <2>2. QED
    BY <1>2, <2>1, Sizes, ModClose, Zenon DEF MarkedAt
<1>3. ~CellOf(v, p).status
  BY Zenon DEF MarkedAt
<1>4. QED
  BY <1>1, <1>2, <1>3, Zenon DEF TimersOf

\* An ack of a packet of the window that is not its first.
LEMMA InnerAckKeeps ==
  ASSUME RdtInv, NEW a \in acks, Sender_FromLowerLayer(a),
         InWindow(sender, a.seq), a.seq # sender.seq
  PROVE  RdtInv'
<1>1. PICK p \in Nat, c \in Nat, f \in 0..WindowSize :
        /\ p = a.payload /\ c = completed /\ f = InFlight(sender)
        /\ a.seq = p % MaxSeqN /\ c <= p + Lag /\ p < c + f /\ Has(p)
  BY AckIs, Zenon
<1>2. StartsAt(sender, c) /\ BackupOK(sender, c) /\ timers = TimersOf(sender, c)
  BY <1>1, Zenon DEF RdtInv, SenderInv
<1>3. p >= c /\ p # c
  <2>1. StartsAt(sender, c) /\ c <= p + Lag /\ p < c + f
    BY <1>1, <1>2, Zenon
  <2>2. /\ InWindow(sender, p % MaxSeqN) <=> p >= c
        /\ p >= c => (p % MaxSeqN = sender.seq <=> p = c)
    BY <2>1, AckWindow, Zenon
  <2>3. QED
    BY <1>1, <2>2, Zenon
<1>4. p \in c .. c + f - 1
  BY <1>1, <1>3
<1>5. PICK v : v = Marked(sender, p % MaxSeqN)
  BY Zenon
<1>6. /\ sender' = v /\ timers' = timers \ {p % MaxSeqN} /\ acks' \subseteq acks
      /\ UNCHANGED <<buffer, data, failed, receiver, produced, completed, delivered>>
  BY <1>1, <1>5, Zenon DEF Sender_FromLowerLayer, EndTimer
<1>7. MarkedAt(v, sender, c, f, p)
  <2>1. sender \in SenderWindow
    BY Zenon DEF RdtInv, TypeOK
  <2>2. QED
    BY <1>1, <1>2, <1>4, <1>5, <2>1, MarkedIs, Zenon
<1>8. v \in SenderWindow /\ StartsAt(v, c) /\ InFlight(v) = f
  BY <1>7, Zenon DEF MarkedAt
<1>9. ASSUME NEW k PROVE Has(k)' <=> Has(k)
  BY <1>6, HasSame, Zenon
<1>10. ASSUME NEW k \in c .. c + f - 1
       PROVE  CellOf(v, k).backup = k /\ (~CellOf(v, k).status => k # c /\ Has(k)')
  <2>1. CellOf(sender, k).backup = k /\ (~CellOf(sender, k).status => k # c /\ Has(k))
    BY <1>1, <1>2, Zenon DEF BackupOK
  <2>2. CASE k = p
    BY <1>1, <1>3, <1>7, <1>9, <2>1, <2>2, Zenon DEF MarkedAt
  <2>3. CASE k # p
    BY <1>7, <1>9, <2>1, <2>3, Zenon DEF MarkedAt
  <2>4. QED
    BY <2>2, <2>3, Zenon
<1>11. timers' = TimersOf(v, c)
  <2>1. f = InFlight(sender)
    BY <1>1, Zenon
  <2>2. TimersOf(v, c) = TimersOf(sender, c) \ {p % MaxSeqN}
    BY <1>4, <1>7, <2>1, MarkedTimers
  <2>3. QED
    BY <1>2, <1>6, <2>2, Zenon
<1>12. completed' = c /\ InFlight(sender') = f /\ InFlight(sender') = InFlight(sender)
  BY <1>1, <1>6, <1>8, Zenon
<1>13. SenderInv'
  <2>1. BackupOK(sender, completed)'
    BY <1>6, <1>10, <1>12, Zenon DEF BackupOK
  <2>2. StartsAt(sender', completed') /\ timers' = TimersOf(sender', completed')
    BY <1>6, <1>8, <1>11, <1>12, Zenon
  <2>3. QED
    BY <2>1, <2>2, Zenon DEF SenderInv
<1>14. TypeOK'
  BY <1>6, <1>8, Zenon DEF RdtInv, TypeOK
<1>15. BufferInv' /\ NoAssertFails'
  BY <1>6, <1>12, Zenon DEF RdtInv, BufferInv, NoAssertFails
<1>16. ReceiverInv' /\ InOrder'
  BY <1>6, <1>12, Zenon DEF RdtInv, ReceiverInv, InOrder, StartsAt, KeptOK, CellOf
<1>17. LinkInv'
  BY <1>6, <1>9, <1>12, Zenon DEF RdtInv, LinkInv, OnLinkOK
<1>18. QED
  BY <1>13, <1>14, <1>15, <1>16, <1>17, Zenon DEF RdtInv

\* Moving past packets that are acknowledged takes away no timer.
LEMMA MovedTimers ==
  ASSUME NEW v, NEW u, NEW c \in Nat, NEW f \in 1..WindowSize, f = InFlight(v), NEW n \in 1..f,
         MovedBy(u, v, c, f, n), ~CellOf(v, c).status,
         \A k \in 1 .. n - 1 : ~CellOf(v, c + k).status
  PROVE  TimersOf(u, c + n) = TimersOf(v, c)
<1>1. InFlight(u) = f - n /\ \A k : CellOf(u, k) = CellOf(v, k)
  BY Zenon DEF MovedBy
<1>2. (c + n) + (f - n) - 1 = c + f - 1
  OBVIOUS
<1>3. ASSUME NEW k \in c .. c + f - 1, CellOf(v, k).status PROVE k \in c + n .. c + f - 1
  <2>1. k # c
    BY <1>3, Zenon
  <2>2. ~(k - c \in 1 .. n - 1)
    <3>1. c + (k - c) = k
      OBVIOUS
    <3>2. QED
      BY <1>3, <3>1, Zenon
  <2>3. QED
    BY <2>1, <2>2
<1>4. ASSUME NEW k \in c + n .. c + f - 1 PROVE k \in c .. c + f - 1
  OBVIOUS
<1>5. PICK A : A = {k \in c + n .. c + f - 1 : CellOf(v, k).status}
  BY Zenon
<1>6. A = {k \in c .. c + f - 1 : CellOf(v, k).status}
  BY <1>3, <1>4, <1>5, Zenon
<1>7. TimersOf(u, c + n) = {k % MaxSeqN : k \in A}
  <2>1. (c + n) + InFlight(u) - 1 = c + f - 1
    BY <1>1, <1>2, Zenon
  <2>2. A = {k \in c + n .. (c + n) + InFlight(u) - 1 : CellOf(u, k).status}
    BY <1>1, <1>5, <2>1, Zenon
  <2>3. QED
    BY <2>2, Zenon DEF TimersOf
<1>8. TimersOf(v, c) = {k % MaxSeqN : k \in A}
  BY <1>6, Zenon DEF TimersOf
<1>9. QED
  BY <1>7, <1>8, Zenon

\* The sender moves past payloads that have been delivered: the receiver keeps no
\* first packet, so it has not got the one it waits for.
LEMMA AcknowledgedDelivered ==
  ASSUME RdtInv, NEW c \in Nat, c = completed, NEW n \in Nat, \A k \in c .. c + n - 1 : Has(k)
  PROVE  c + n <= Len(delivered)
<1>1. PICK d \in Nat : d = Len(delivered)
  BY DEF RdtInv, TypeOK
<1>2. c <= d /\ KeptOK(completed + InFlight(sender))
  BY <1>1, Zenon DEF RdtInv, ReceiverInv
<1>3. SUFFICES ASSUME ~(c + n <= d) PROVE FALSE
  BY <1>1, Zenon
<1>4. d \in c .. c + n - 1 /\ ~(d < d) /\ d \in d .. d + WindowSize
  BY <1>2, <1>3, Sizes
<1>5. CellOf(receiver, d).status
  BY <1>1, <1>4, Zenon DEF Has
<1>6. QED
  BY <1>1, <1>2, <1>4, <1>5, Zenon DEF KeptOK

\* An ack of the first packet of the window.
LEMMA FirstAckKeeps ==
  ASSUME RdtInv, NEW a \in acks, Sender_FromLowerLayer(a),
         InWindow(sender, a.seq), a.seq = sender.seq
  PROVE  RdtInv'
<1>1. PICK p \in Nat, c \in Nat, f \in 0..WindowSize :
        /\ p = a.payload /\ c = completed /\ f = InFlight(sender)
        /\ a.seq = p % MaxSeqN /\ c <= p + Lag /\ p < c + f /\ Has(p)
  BY AckIs, Zenon
<1>2. /\ StartsAt(sender, c) /\ BackupOK(sender, c) /\ timers = TimersOf(sender, c)
      /\ sender \in SenderWindow
  BY <1>1, Zenon DEF RdtInv, SenderInv, TypeOK
<1>3. p = c
  <2>1. StartsAt(sender, c) /\ c <= p + Lag /\ p < c + f
    BY <1>1, <1>2, Zenon
  <2>2. /\ InWindow(sender, p % MaxSeqN) <=> p >= c
        /\ p >= c => (p % MaxSeqN = sender.seq <=> p = c)
    BY <2>1, AckWindow, Zenon
  <2>3. QED
    BY <1>1, <2>2, Zenon
<1>4. f \in 1..WindowSize /\ c \in c .. c + f - 1 /\ a.seq = c % MaxSeqN /\ Has(c) /\ f = InFlight(sender)
  <2>1. c < c + f
    BY <1>1, <1>3, Zenon
  <2>2. f \in 1..WindowSize /\ c \in c .. c + f - 1
    BY <2>1
  <2>3. QED
    BY <1>1, <1>3, <2>2, Zenon
<1>5. PICK v : v = Marked(sender, c % MaxSeqN)
  BY Zenon
<1>6. MarkedAt(v, sender, c, f, c)
  BY <1>2, <1>4, <1>5, MarkedIs, Zenon
<1>7. /\ v \in SenderWindow /\ StartsAt(v, c) /\ f = InFlight(v) /\ ~CellOf(v, c).status
      /\ \A k \in c .. c + f - 1 : k # c => CellOf(v, k) = CellOf(sender, k)
  BY <1>6, Zenon DEF MarkedAt
<1>8. PICK n : n = Acknowledged(v)
  BY Zenon
<1>9. /\ n \in 1..f /\ \A k \in 1 .. n - 1 : ~CellOf(v, c + k).status
      /\ n = f \/ CellOf(v, c + n).status
  BY <1>4, <1>7, <1>8, AcknowledgedIs, Zenon
<1>10. PICK u : u = Moved(v, n)
  BY Zenon
<1>11. MovedBy(u, v, c, f, n)
  <2>1. n \in 0..f
    BY <1>9
  <2>2. QED
    BY <1>7, <1>10, <2>1, MovedIs, Zenon
<1>12. PICK e \in Nat, b \in Nat :
         e = c + f /\ b = c + n /\ b \in c .. c + f /\ b + (f - n) = e /\ n \in Nat /\ c <= b
  BY <1>9
<1>13. u \in SenderWindow /\ StartsAt(u, b) /\ InFlight(u) = f - n /\ \A k : CellOf(u, k) = CellOf(v, k)
  BY <1>11, <1>12, Zenon DEF MovedBy
<1>14. PICK t, net : t = timers \ {c % MaxSeqN} /\ net = OnLink(data, b)
  BY Zenon
<1>15. /\ completed' = b /\ SendLoop(u, buffer, t, net)
       /\ \E left \in {acks, acks \ {a}} : acks' = OnLink(left, b)
       /\ UNCHANGED <<receiver, produced, delivered>>
  BY <1>1, <1>4, <1>5, <1>8, <1>10, <1>12, <1>14, Zenon DEF Sender_FromLowerLayer, EndTimer
<1>16. t = TimersOf(u, b)
  <2>1. TimersOf(v, c) = TimersOf(sender, c) \ {c % MaxSeqN}
    BY <1>4, <1>6, MarkedTimers
  <2>2. TimersOf(u, c + n) = TimersOf(v, c)
    BY <1>4, <1>7, <1>9, <1>11, MovedTimers
  <2>3. QED
    BY <1>2, <1>12, <1>14, <2>1, <2>2, Zenon
<1>17. ASSUME NEW k \in b .. e - 1
       PROVE  CellOf(u, k).backup = k /\ (~CellOf(u, k).status => k # b /\ Has(k))
  <2>1. k \in c .. c + f - 1 /\ k # c /\ (n = f => FALSE)
    BY <1>9, <1>12
  <2>2. CellOf(u, k) = CellOf(sender, k) /\ CellOf(u, k) = CellOf(v, k)
    BY <1>7, <1>13, <2>1, Zenon
  <2>3. CellOf(sender, k).backup = k /\ (~CellOf(sender, k).status => Has(k))
    BY <1>2, <1>4, <2>1, Zenon DEF BackupOK
  <2>4. k = b => CellOf(u, k).status
    BY <1>9, <1>12, <2>1, <2>2, Zenon
  <2>5. QED
    BY <2>2, <2>3, <2>4, Zenon
<1>18. BackupOK(u, b)
  <2>1. b .. b + InFlight(u) - 1 = b .. e - 1
    <3>1. PICK g \in Int : g = InFlight(u) /\ g = f - n
      BY <1>12, <1>13
    <3>2. b + g - 1 = e - 1
      BY <1>12, <3>1
    <3>3. QED
      BY <3>1, <3>2, Zenon
  <2>2. SUFFICES ASSUME NEW k \in b .. b + InFlight(u) - 1
                 PROVE  CellOf(u, k).backup = k /\ (~CellOf(u, k).status => k # b /\ Has(k))
    BY Zenon DEF BackupOK
  <2>3. k \in b .. e - 1
    BY <2>1, Zenon
  <2>4. QED
    BY <1>17, <2>3, Zenon
<1>19. b <= Len(delivered)
  <2>1. ASSUME NEW k \in c .. c + n - 1 PROVE Has(k)
    <3>1. k \in c .. c + f - 1 /\ (k # c => k - c \in 1 .. n - 1) /\ c + (k - c) = k
      BY <1>9
    <3>2. CASE k = c
      BY <1>4, <3>2, Zenon
    <3>3. CASE k # c
      <4>1. ~CellOf(sender, k).status
        BY <1>7, <1>9, <3>1, <3>3, Zenon
      <4>2. QED
        BY <1>2, <1>4, <3>1, <4>1, Zenon DEF BackupOK
    <3>4. QED
      BY <3>2, <3>3, Zenon
  <2>2. QED
    BY <1>1, <1>12, <2>1, AcknowledgedDelivered, Zenon
<1>20. ASSUME NEW m, m \in Packet, OnLinkOK(m, c, e), m.payload + Lag >= b PROVE OnLinkOK(m, b, e)
  <2>1. PICK x \in Nat : x = m.payload
    BY <1>20, Zenon DEF Packet
  <2>2. b <= x + Lag
    BY <1>20, <2>1, Sizes
  <2>3. QED
    BY <1>20, <2>1, <2>2, Zenon DEF OnLinkOK
<1>21. net \subseteq Packet /\ \A m \in net : OnLinkOK(m, b, e)
  BY <1>1, <1>12, <1>14, <1>20, Zenon DEF OnLink, RdtInv, TypeOK, LinkInv
<1>22. acks' \subseteq Packet /\ \A m \in acks' : OnLinkOK(m, b, e) /\ Has(m.payload)
  <2>1. ASSUME NEW m \in acks' PROVE m \in acks /\ m.payload + Lag >= b
    BY <1>15, Zenon DEF OnLink
  <2>2. QED
    BY <1>1, <1>12, <1>20, <2>1, Zenon DEF RdtInv, TypeOK, LinkInv
<1>23. /\ RunFrom(buffer, e) /\ produced' = e + Len(buffer)
       /\ Len(delivered) <= e /\ KeptOK(e)
  BY <1>1, <1>12, <1>15, BufferRuns, Zenon DEF RdtInv, ReceiverInv
<1>24. Loops(u, b, e, buffer, t, net)
  <2>1. e = b + InFlight(u) /\ UNCHANGED <<receiver, delivered>>
    BY <1>12, <1>13, <1>15, Zenon
  <2>2. QED
    BY <1>12, <1>13, <1>15, <1>16, <1>18, <1>19, <1>21, <1>22, <1>23, <2>1, Zenon DEF Loops
<1>25. QED
  BY <1>24, LoopKeeps, Zenon

-----------------------------------------------------------------------------
(* 5. The receiver's steps *)

\* The receiver tells the packets of its window from those it has delivered.
LEMMA DataWindow ==
  ASSUME NEW w, NEW d \in Nat, StartsAt(w, d),
         NEW p \in Nat, p < d + WindowSize, d <= p + WindowSize + Lag
  PROVE  /\ r_minus(p % MaxSeqN, w.seq, MaxSeqN) < WindowSize <=> p >= d
         /\ p >= d => /\ r_minus(p % MaxSeqN, w.seq, MaxSeqN) = p - d
                      /\ p % MaxSeqN = w.seq <=> p = d
<1>1. CASE p >= d
  <2>1. p \in d .. d + MaxSeqN - 1 /\ p - d < WindowSize /\ p - d < MaxSeqN /\ d - p < MaxSeqN
        /\ p \in Int /\ d \in Int
    BY <1>1, Sizes
  <2>2. r_minus(p % MaxSeqN, w.seq, MaxSeqN) = p - d
    BY <2>1, BackupIs, Zenon
  <2>3. p % MaxSeqN = w.seq <=> p = d
    BY <2>1, Sizes, ModClose, Zenon DEF StartsAt
  <2>4. QED
    BY <1>1, <2>1, <2>2, <2>3, Zenon
<1>2. CASE ~(p >= d)
  <2>1. PICK x \in Int : x = p - d + MaxSeqN
    BY Sizes
  <2>2. x \in 0 .. MaxSeqN - 1 /\ p = d + x - MaxSeqN /\ ~(x < WindowSize) /\ p \in Int /\ d \in Int
    BY <1>2, <2>1, Sizes
  <2>3. r_minus(p % MaxSeqN, d % MaxSeqN, MaxSeqN) = x
    BY <2>2, Sizes, ModMinus, Zenon
  <2>4. QED
    BY <1>2, <2>2, <2>3, Zenon DEF StartsAt
<1>3. QED
  BY <1>1, <1>2, Zenon

\* A packet on the link, and where the two windows are.
DataAt(m, p, c, f, d) ==
  /\ p = m.payload /\ c = completed /\ f = InFlight(sender) /\ d = Len(delivered)
  /\ m.seq = p % MaxSeqN /\ c <= p + Lag /\ p < c + f
  /\ c <= d /\ d <= c + f /\ KeptOK(c + f) /\ StartsAt(receiver, d)
  /\ IsNew(m.seq) <=> p >= d
  /\ p >= d => /\ r_minus(m.seq, receiver.seq, MaxSeqN) = p - d
               /\ m.seq = receiver.seq <=> p = d

\* The receiver sees what a packet is.
LEMMA DataIs ==
  ASSUME RdtInv, NEW m \in data
  PROVE  \E p \in Nat, c \in Nat, f \in 0..WindowSize, d \in Nat : DataAt(m, p, c, f, d)
<1>1. PICK p \in Nat : p = m.payload
  BY Zenon DEF RdtInv, TypeOK, Packet
<1>2. PICK c \in Nat, f \in 0..WindowSize : c = completed /\ f = InFlight(sender)
  BY BufferRuns, Zenon DEF RdtInv, TypeOK
<1>3. PICK d \in Nat : d = Len(delivered)
  BY DEF RdtInv, TypeOK
<1>4. m.seq = p % MaxSeqN /\ c <= p + Lag /\ p < c + f
  BY <1>1, <1>2, Zenon DEF RdtInv, LinkInv, OnLinkOK
<1>5. c <= d /\ d <= c + f /\ KeptOK(c + f) /\ StartsAt(receiver, d)
  BY <1>2, <1>3, Zenon DEF RdtInv, ReceiverInv
<1>6. p < d + WindowSize /\ d <= p + WindowSize + Lag
  BY <1>4, <1>5, Sizes
<1>7. StartsAt(receiver, d)
  BY <1>5, Zenon
<1>8. /\ r_minus(p % MaxSeqN, receiver.seq, MaxSeqN) < WindowSize <=> p >= d
      /\ p >= d => /\ r_minus(p % MaxSeqN, receiver.seq, MaxSeqN) = p - d
                   /\ p % MaxSeqN = receiver.seq <=> p = d
  BY <1>6, <1>7, DataWindow, Zenon
<1>9. DataAt(m, p, c, f, d)
  BY <1>1, <1>2, <1>3, <1>4, <1>5, <1>8, Zenon DEF DataAt, IsNew
<1>10. QED
  BY <1>9, Zenon

\* A step of the receiver on packet m that keeps its part of the invariant.
Receives(m) ==
  /\ UNCHANGED <<sender, buffer, timers, produced, completed, failed>>
  /\ data' \subseteq data /\ acks' \subseteq acks \cup {m}
  /\ receiver' \in ReceiverWindow /\ delivered' \in Seq(Nat) /\ ReceiverInv' /\ InOrder'
  /\ \A k \in Nat : Has(k) => Has(k)'
  /\ m \in acks' \ acks => Has(m.payload)'

\* Such a step keeps the invariant.
LEMMA ReceivesKeeps ==
  ASSUME RdtInv, NEW m \in data, Receives(m)
  PROVE  RdtInv'
<1>1. /\ UNCHANGED <<sender, buffer, timers, produced, completed, failed>>
      /\ data' \subseteq data /\ acks' \subseteq acks \cup {m}
  BY Zenon DEF Receives
<1>2. \A k \in Nat : Has(k) => Has(k)'
  BY Zenon DEF Receives
<1>3. TypeOK'
  BY <1>1, Zenon DEF RdtInv, TypeOK, Receives
<1>4. SenderInv'
  <2>1. BackupOK(sender, completed)'
    <3>1. \A k \in completed .. completed + InFlight(sender) - 1 : k \in Nat
      <4>1. PICK c \in Nat, f \in 0..WindowSize : c = completed /\ f = InFlight(sender)
        BY BufferRuns, Zenon DEF RdtInv, TypeOK
      <4>2. \A k \in c .. c + f - 1 : k \in Nat
        BY Sizes
      <4>3. QED
        BY <4>1, <4>2, Zenon
    <3>2. QED
      BY <1>1, <1>2, <3>1, Zenon DEF RdtInv, SenderInv, BackupOK, CellOf, InFlight
  <2>2. QED
    BY <1>1, <2>1, Zenon DEF RdtInv, SenderInv, StartsAt, TimersOf, CellOf, InFlight
<1>5. BufferInv' /\ NoAssertFails'
  BY <1>1, Zenon DEF RdtInv, BufferInv, NoAssertFails, InFlight
<1>6. LinkInv'
  <2>1. completed' = completed /\ InFlight(sender') = InFlight(sender)
    BY <1>1, Zenon
  <2>2. ASSUME NEW x \in data'
        PROVE  OnLinkOK(x, completed, completed + InFlight(sender))
    BY <1>1, Zenon DEF RdtInv, LinkInv
  <2>3. ASSUME NEW x \in acks'
        PROVE  OnLinkOK(x, completed, completed + InFlight(sender)) /\ Has(x.payload)'
    <3>1. CASE x \in acks
      BY <1>2, <3>1, Zenon DEF RdtInv, LinkInv, TypeOK, Packet
    <3>2. CASE ~(x \in acks)
      <4>1. x = m
        BY <1>1, <3>2, Zenon
      <4>2. QED
        BY <3>2, <4>1, Zenon DEF RdtInv, LinkInv, Receives
    <3>3. QED
      BY <3>1, <3>2, Zenon
  <2>4. QED
    BY <2>1, <2>2, <2>3, Zenon DEF LinkInv, OnLinkOK
<1>7. QED
  BY <1>3, <1>4, <1>5, <1>6, Zenon DEF RdtInv, Receives

\* A packet that has been delivered is acknowledged again.
LEMMA OldDataKeeps ==
  ASSUME RdtInv, NEW m \in data, Receiver_FromLowerLayer(m), ~IsNew(m.seq)
  PROVE  RdtInv'
<1>1. PICK p \in Nat, c \in Nat, f \in 0..WindowSize, d \in Nat : DataAt(m, p, c, f, d)
  BY DataIs, Zenon
<1>2. /\ UNCHANGED <<sender, buffer, timers, produced, completed, failed, receiver, delivered>>
      /\ data' \subseteq data /\ acks' \subseteq acks \cup {m}
  BY Zenon DEF Receiver_FromLowerLayer
<1>3. Has(m.payload)
  <2>1. ~(p >= d) /\ p = m.payload /\ d = Len(delivered)
    BY <1>1, Zenon DEF DataAt
  <2>2. p < d
    BY <2>1
  <2>3. QED
    BY <2>1, <2>2, Zenon DEF Has
<1>4. ASSUME NEW k PROVE Has(k)' <=> Has(k)
  BY <1>2, HasSame, Zenon
<1>5. ReceiverInv' /\ InOrder'
  BY <1>2, WindowsSame, Zenon
<1>6. Receives(m)
  BY <1>2, <1>3, <1>4, <1>5, Zenon DEF Receives, RdtInv, TypeOK
<1>7. QED
  BY <1>6, ReceivesKeeps, Zenon

\* A packet that comes early is kept.
LEMMA EarlyDataKeeps ==
  ASSUME RdtInv, NEW m \in data, Receiver_FromLowerLayer(m), IsNew(m.seq), m.seq # receiver.seq
  PROVE  RdtInv'
<1>1. PICK p \in Nat, c \in Nat, f \in 0..WindowSize, d \in Nat : DataAt(m, p, c, f, d)
  BY DataIs, Zenon
<1>2. /\ p = m.payload /\ c = completed /\ f = InFlight(sender) /\ d = Len(delivered)
      /\ KeptOK(c + f) /\ StartsAt(receiver, d) /\ c <= d /\ d <= c + f
  BY <1>1, Zenon DEF DataAt
<1>3. p >= d /\ p # d /\ p < c + f /\ r_minus(m.seq, receiver.seq, MaxSeqN) = p - d
  BY <1>1, Zenon DEF DataAt
<1>4. p - d \in Nat /\ d + (p - d) = p /\ p \in d .. d + WindowSize /\ p \in Int
  BY <1>2, <1>3, Sizes
<1>5. PICK i \in Cells : i = p % Ring
  BY <1>4, CellExists, Zenon
<1>6. Index(receiver.base, r_minus(m.seq, receiver.seq, MaxSeqN)) = i
  BY <1>2, <1>3, <1>4, <1>5, IndexIs, Zenon DEF StartsAt
<1>7. PICK g : g = PutOnce(i, p)
  BY Zenon
<1>8. /\ UNCHANGED <<sender, buffer, timers, produced, completed, failed, delivered>>
      /\ data' \subseteq data /\ acks' \subseteq acks \cup {m}
      /\ receiver' = [receiver EXCEPT !.cells = g]
  BY <1>2, <1>6, <1>7, Zenon DEF Receiver_FromLowerLayer
<1>9. /\ receiver.base \in Cells /\ receiver.seq \in 0 .. MaxSeqN - 1
      /\ receiver.cells \in [Cells -> [status : BOOLEAN, payload : Nat]]
  BY Zenon DEF RdtInv, TypeOK, ReceiverWindow
<1>10. /\ g \in [Cells -> [status : BOOLEAN, payload : Nat]]
       /\ \A j \in Cells : j # i => g[j] = receiver.cells[j]
       /\ g[i].status
       /\ receiver.cells[i].status => g[i] = receiver.cells[i]
       /\ ~receiver.cells[i].status => g[i].payload = p
  <2>1. CASE receiver.cells[i].status
    BY <1>7, <1>9, <2>1, Zenon DEF PutOnce
  <2>2. CASE ~receiver.cells[i].status
    <3>1. g = [receiver.cells EXCEPT ![i] = [status |-> TRUE, payload |-> p]]
      BY <1>7, <2>2, Zenon DEF PutOnce
    <3>2. QED
      BY <1>9, <2>2, <3>1
  <2>3. QED
    BY <2>1, <2>2, Zenon
<1>11. /\ receiver'.base = receiver.base /\ receiver'.seq = receiver.seq /\ receiver'.cells = g
       /\ receiver' \in ReceiverWindow
  BY <1>8, <1>9, <1>10, Zenon DEF RdtInv, TypeOK, ReceiverWindow
<1>12. ASSUME NEW k \in d .. d + WindowSize, k # p PROVE CellOf(receiver, k)' = CellOf(receiver, k)
  <2>1. k \in Int /\ k - p < Ring /\ p - k < Ring
    BY <1>4, Sizes DEF Ring
  <2>2. k % Ring # i
    BY <1>4, <1>5, <1>12, <2>1, Sizes, ModClose, Zenon
  <2>3. k % Ring \in Cells
    BY <2>1, CellExists, Zenon
  <2>4. QED
    BY <1>10, <1>11, <2>2, <2>3, Zenon DEF CellOf
<1>13. /\ CellOf(receiver, p)'.status
       /\ CellOf(receiver, p).status => CellOf(receiver, p)' = CellOf(receiver, p)
       /\ ~CellOf(receiver, p).status => CellOf(receiver, p)'.payload = p
  BY <1>5, <1>10, <1>11, Zenon DEF CellOf
<1>14. KeptOK(c + f)'
  <2>1. d = Len(delivered') /\ c' = c /\ f' = f
    BY <1>2, <1>8, Zenon
  <2>2. ASSUME NEW k \in d .. d + WindowSize, CellOf(receiver, k)'.status
        PROVE  k # d /\ k < c + f /\ CellOf(receiver, k)'.payload = k
    <3>1. CASE k = p
      BY <1>2, <1>3, <1>4, <1>13, <3>1, Zenon DEF KeptOK
    <3>2. CASE k # p
      BY <1>2, <1>12, <2>2, <3>2, Zenon DEF KeptOK
    <3>3. QED
      BY <3>1, <3>2, Zenon
  <2>3. QED
    BY <2>1, <2>2, Zenon DEF KeptOK
<1>15. ReceiverInv'
  <2>1. completed' = c /\ InFlight(sender') = f /\ Len(delivered') = d
    BY <1>2, <1>8, Zenon
  <2>2. StartsAt(receiver', d)
    BY <1>2, <1>11, Zenon DEF StartsAt
  <2>3. QED
    BY <1>2, <1>14, <2>1, <2>2, Zenon DEF ReceiverInv, KeptOK
<1>16. Has(m.payload)'
  BY <1>2, <1>4, <1>8, <1>13, Zenon DEF Has
<1>17. ASSUME NEW k, Has(k) PROVE Has(k)'
  <2>1. CASE k < d
    BY <1>2, <1>8, <2>1, Zenon DEF Has
  <2>2. CASE k \in d .. d + WindowSize /\ CellOf(receiver, k).status
    BY <1>2, <1>8, <1>12, <1>13, <2>2, Zenon DEF Has
  <2>3. QED
    BY <1>2, <1>17, <2>1, <2>2, Zenon DEF Has
<1>18. InOrder' /\ delivered' \in Seq(Nat)
  BY <1>8, Zenon DEF RdtInv, TypeOK, InOrder
<1>19. Receives(m)
  BY <1>8, <1>11, <1>15, <1>16, <1>17, <1>18, Zenon DEF Receives
<1>20. QED
  BY <1>19, ReceivesKeeps, Zenon

\* get_after_base stops at the first cell that is not filled.
LEMMA RunAfterBaseIs ==
  ASSUME NEW d \in Nat, StartsAt(receiver, d)
  PROVE  /\ RunAfterBase \in 0..WindowSize
         /\ \A k \in 1..RunAfterBase : CellOf(receiver, d + k).status
         /\ RunAfterBase = WindowSize \/ ~CellOf(receiver, d + (RunAfterBase + 1)).status
<1>1. ASSUME NEW k \in Nat PROVE receiver.cells[Index(receiver.base, k)] = CellOf(receiver, d + k)
  BY IndexIs, Zenon DEF StartsAt, CellOf
<1> DEFINE P(n) == /\ \A k \in 1..n : receiver.cells[Index(receiver.base, k)].status
                   /\ n = WindowSize \/ ~receiver.cells[Index(receiver.base, n + 1)].status
           S == {n \in 0..WindowSize : n = WindowSize \/ ~CellOf(receiver, d + (n + 1)).status}
<1>2. PICK x \in S : \A y \in S : x <= y
  <2>1. WindowSize \in S /\ S \in SUBSET Nat
    BY Sizes
  <2> HIDE DEF S
  <2>2. QED
    BY <2>1, FirstOf
<1>3. x \in 0..WindowSize /\ P(x)
  <2>1. x \in 0..WindowSize /\ (x = WindowSize \/ ~CellOf(receiver, d + (x + 1)).status)
    BY <1>2, Zenon
  <2>2. x + 1 \in Nat
    BY <2>1, Sizes
  <2>3. ASSUME NEW k \in 1..x PROVE k \in Nat /\ CellOf(receiver, d + k).status
    <3>1. k \in Nat /\ k - 1 \in 0..WindowSize /\ k - 1 # WindowSize /\ ~(x <= k - 1) /\ (k - 1) + 1 = k
      BY <2>1, Sizes
    <3>2. ~(k - 1 \in S)
      BY <1>2, <3>1, Zenon
    <3>3. QED
      BY <3>1, <3>2, Zenon
  <2>4. QED
    BY <1>1, <2>1, <2>2, <2>3, Zenon
<1>4. PICK n \in 0..WindowSize : n = RunAfterBase /\ P(n)
  <2>1. \E y \in 0..WindowSize : P(y)
    BY <1>3, Zenon
  <2>2. RunAfterBase = CHOOSE y \in 0..WindowSize : P(y)
    BY Zenon DEF RunAfterBase
  <2> HIDE DEF P
  <2>3. QED
    BY <2>1, <2>2, Zenon
<1>5. n + 1 \in Nat /\ \A k \in 1..n : k \in Nat
  BY Sizes
<1>6. QED
  BY <1>1, <1>4, <1>5, Zenon

\* q holds the first d payloads.
AllUpTo(q, d) == RunFrom(q, 0) /\ Len(q) = d

\* Payloads that were delivered in order, and the ones that follow.
LEMMA DeliversOn ==
  ASSUME NEW q, NEW d \in Nat, AllUpTo(q, d), NEW n \in Nat
  PROVE  AllUpTo(q \o <<d>> \o [k \in 1..n |-> d + k], d + n + 1)
<1>1. RunFrom(q, 0) /\ Len(q) = d
  BY Zenon DEF AllUpTo
<1> USE <1>1
<1>2. PICK r : r = [k \in 1..n |-> d + k]
  BY Zenon
<1> USE <1>2
<1>3. RunFrom(<<d>>, d) /\ Len(<<d>>) = 1
  BY DEF RunFrom
<1>4. 0 + Len(q) = d /\ 0 \in Nat
  OBVIOUS
<1>5. PICK u : u = q \o <<d>>
  BY Zenon
<1>6. RunFrom(u, 0) /\ Len(u) = d + 1
  <2>1. RunFrom(<<d>>, 0 + Len(q))
    BY <1>3, <1>4, Zenon
  <2>2. RunFrom(q \o <<d>>, 0) /\ Len(q \o <<d>>) = Len(q) + Len(<<d>>)
    BY <1>4, <2>1, RunsJoin, Zenon
  <2>3. QED
    BY <1>3, <1>5, <2>2, Zenon
<1>7. RunFrom(r, d + 1) /\ Len(r) = n
  <2>1. d + 1 \in Nat
    OBVIOUS
  <2>2. RunFrom([k \in 1..n |-> (d + 1) + k - 1], d + 1) /\ Len([k \in 1..n |-> (d + 1) + k - 1]) = n
    BY <2>1, MessageIs, Zenon
  <2>3. \A k \in 1..n : (d + 1) + k - 1 = d + k
    OBVIOUS
  <2>4. r = [k \in 1..n |-> (d + 1) + k - 1]
    BY <2>3, Zenon
  <2>5. QED
    BY <2>2, <2>4, Zenon
<1>8. 0 + Len(u) = d + 1
  BY <1>6
<1>9. RunFrom(u \o r, 0) /\ Len(u \o r) = (d + 1) + n
  <2>1. RunFrom(r, 0 + Len(u))
    BY <1>7, <1>8, Zenon
  <2>2. RunFrom(u \o r, 0) /\ Len(u \o r) = Len(u) + Len(r)
    BY <1>4, <1>6, <2>1, RunsJoin, Zenon
  <2>3. QED
    BY <1>6, <1>7, <2>2, Zenon
<1>10. (d + 1) + n = d + n + 1
  OBVIOUS
<1>11. QED
  BY <1>5, <1>9, <1>10, Zenon DEF AllUpTo

\* How far the receiver's window moves when its first packet, d, comes: v is the
\* window after it has moved past d and n more, and e the end of what was sent.
RunOf(v, d, n, e) ==
  /\ n \in 0 .. WindowSize - 1 /\ d + n + 1 <= e
  /\ v \in ReceiverWindow /\ StartsAt(v, d + n + 1)
  /\ \A k \in 1..n : CellOf(receiver, d + k).payload = d + k
  /\ \A k \in d + n + 1 .. d + WindowSize :
       /\ CellOf(v, k) = CellOf(receiver, k)
       /\ CellOf(receiver, k).status => k # d + n + 1
  /\ \A k \in d + WindowSize + 1 .. d + n + 1 + WindowSize : ~CellOf(v, k).status

\* What Upload does to the window.
LEMMA UploadIs ==
  ASSUME NEW d \in Nat, NEW e \in Nat, d = Len(delivered), d < e, e <= d + WindowSize,
         receiver \in ReceiverWindow, StartsAt(receiver, d), KeptOK(e), NEW m, Upload(m)
  PROVE  RunOf(receiver', d, RunAfterBase, e)
<1>1. PICK n \in 0..WindowSize : n = RunAfterBase
  BY RunAfterBaseIs, Zenon
<1>2. /\ \A k \in 1..n : CellOf(receiver, d + k).status
      /\ n = WindowSize \/ ~CellOf(receiver, d + (n + 1)).status
  BY <1>1, RunAfterBaseIs, Zenon
<1>3. ASSUME NEW k \in 1..n PROVE d + k < e /\ CellOf(receiver, d + k).payload = d + k
  <2>1. d + k \in d .. d + WindowSize
    BY Sizes
  <2>2. QED
    BY <1>2, <2>1, Zenon DEF KeptOK
<1>4. n \in Nat /\ n \in 0 .. WindowSize - 1 /\ d + n + 1 <= e
  <2>1. n \in Nat
    BY Sizes
  <2>2. CASE n = 0
    BY <2>2, Sizes
  <2>3. CASE n # 0
    <3>1. n \in 1..n
      BY <2>1, <2>3
    <3>2. d + n < e
      BY <1>3, <3>1, Zenon
    <3>3. QED
      BY <2>1, <3>2, Sizes
  <2>4. QED
    BY <2>1, <2>2, <2>3, Zenon
<1>5. PICK b \in Nat : b = d + n + 1 /\ b = d + (n + 1) /\ b \in Int /\ n + 1 \in Nat /\ d \in Int /\ n + 1 \in Int
  BY <1>4
<1>6. /\ receiver.base = d % Ring /\ receiver.seq = d % MaxSeqN
      /\ receiver.cells \in [Cells -> [status : BOOLEAN, payload : Nat]]
  BY Zenon DEF StartsAt, ReceiverWindow
<1>7. Index(receiver.base, n + 1) = b % Ring /\ b % Ring \in Cells
  BY <1>5, <1>6, IndexIs, CellExists, Zenon
<1>8. r_add(receiver.seq, n + 1, MaxSeqN) = b % MaxSeqN /\ b % MaxSeqN \in 0 .. MaxSeqN - 1
  <2>1. ((d % MaxSeqN) + (n + 1)) % MaxSeqN = (d + (n + 1)) % MaxSeqN
    BY <1>5, Sizes, ModShift, Zenon
  <2>2. b % MaxSeqN \in 0 .. MaxSeqN - 1
    BY <1>5, Sizes, ModRange, Zenon
  <2>3. QED
    BY <1>5, <1>6, <2>1, <2>2, Zenon DEF r_add
<1>9. PICK T : T = {(d + k) % Ring : k \in 1..n}
  BY Zenon
<1>10. T = {Index(receiver.base, k) : k \in 1..n}
  <2>1. \A k \in 1..n : Index(receiver.base, k) = (d + k) % Ring
    <3>1. \A k \in 1..n : k \in Nat
      OBVIOUS
    <3>2. QED
      BY <1>6, <3>1, IndexIs, Zenon
  <2>2. QED
    BY <1>9, <2>1, Zenon
<1>11. PICK g : g = [i \in Cells |-> IF i \in T THEN [receiver.cells[i] EXCEPT !.status = FALSE]
                                    ELSE receiver.cells[i]]
  BY Zenon
<1>12. receiver' = [base |-> b % Ring, seq |-> b % MaxSeqN, cells |-> g]
  BY <1>1, <1>7, <1>8, <1>10, <1>11, Zenon DEF Upload
<1>13. g \in [Cells -> [status : BOOLEAN, payload : Nat]] /\ \A i \in Cells : i \in T => ~g[i].status
  <2>1. ASSUME NEW i \in Cells
        PROVE  g[i] \in [status : BOOLEAN, payload : Nat] /\ (i \in T => ~g[i].status)
    <3>1. receiver.cells[i] \in [status : BOOLEAN, payload : Nat]
      BY <1>6, Zenon
    <3>2. CASE i \in T
      <4>1. g[i] = [receiver.cells[i] EXCEPT !.status = FALSE]
        BY <1>11, <3>2, Zenon
      <4>2. QED
        BY <3>1, <4>1, Zenon
    <3>3. CASE ~(i \in T)
      BY <1>11, <3>1, <3>3, Zenon
    <3>4. QED
      BY <3>2, <3>3, Zenon
  <2>2. g = [i \in Cells |-> g[i]]
    BY <1>11, Zenon
  <2>3. QED
    BY <2>1, <2>2, Zenon
<1>14. receiver' \in ReceiverWindow /\ receiver'.cells = g /\ StartsAt(receiver', b)
  BY <1>7, <1>8, <1>12, <1>13, Zenon DEF ReceiverWindow, StartsAt
<1>15. ASSUME NEW k \in d + n + 1 .. d + WindowSize
       PROVE  /\ CellOf(receiver', k) = CellOf(receiver, k)
              /\ CellOf(receiver, k).status => k # d + n + 1
  <2>1. k \in Int /\ k % Ring \in Cells
    <3>1. k \in Int
      BY <1>4
    <3>2. QED
      BY <3>1, CellExists, Zenon
  <2>2. ~(k % Ring \in T)
    <3>1. SUFFICES ASSUME NEW j \in 1..n, k % Ring = (d + j) % Ring PROVE FALSE
      BY <1>9, Zenon
    <3>2. d + j \in Int /\ k - (d + j) < Ring /\ (d + j) - k < Ring /\ k # d + j
      BY <1>4, Sizes DEF Ring
    <3>3. QED
      BY <2>1, <3>1, <3>2, Sizes, ModClose, Zenon
  <2>3. CellOf(receiver', k) = CellOf(receiver, k)
    BY <1>11, <1>14, <2>1, <2>2, Zenon DEF CellOf
  <2>4. n # WindowSize
    BY <1>4, Sizes
  <2>5. QED
    BY <1>2, <1>5, <2>3, <2>4, Zenon
<1>16. ASSUME NEW k \in d + WindowSize + 1 .. d + n + 1 + WindowSize PROVE ~CellOf(receiver', k).status
  <2>1. PICK j \in 0..n : k = d + j + Ring /\ d + j \in Int /\ k \in Int
    <3>1. k - d - Ring \in 0..n /\ k = d + (k - d - Ring) + Ring /\ d + (k - d - Ring) \in Int /\ k \in Int
      BY <1>4, Sizes DEF Ring
    <3>2. QED
      BY <3>1, Zenon
  <2>2. k % Ring = (d + j) % Ring /\ (d + j) % Ring \in Cells
    <3>1. PICK q \in Int, r \in 0 .. Ring - 1 : r = (d + j) % Ring /\ d + j = Ring * q + r
      BY <2>1, Sizes, ModParts, Zenon
    <3>2. PICK x \in Int, y \in Int : x = Ring * q /\ y = Ring * (q + 1) /\ y = x + Ring /\ q + 1 \in Int
      BY Sizes
    <3>3. k = Ring * (q + 1) + r
      <4>1. d + j = x + r
        BY <3>1, <3>2, Zenon
      <4>2. k = y + r
        BY <2>1, <3>2, <4>1, Sizes
      <4>3. QED
        BY <3>2, <4>2, Zenon
    <3>4. k % Ring = r
      BY <2>1, <3>2, <3>3, Sizes, ModIs, Zenon
    <3>5. QED
      BY <2>1, <3>1, <3>4, CellExists, Zenon
  <2>3. CASE j \in 1..n
    BY <1>9, <1>13, <1>14, <2>2, <2>3, Zenon DEF CellOf
  <2>4. CASE j = 0
    <3>1. d \in d .. d + WindowSize /\ d + j = d
      BY <2>4, Sizes
    <3>2. ~receiver.cells[d % Ring].status
      BY <3>1, Zenon DEF KeptOK, CellOf
    <3>3. ~g[d % Ring].status
      BY <1>11, <1>13, <2>2, <3>1, <3>2, Zenon
    <3>4. QED
      BY <1>14, <2>2, <3>1, <3>3, Zenon DEF CellOf
  <2>5. j = 0 \/ j \in 1..n
    BY <1>4
  <2>6. QED
    BY <2>3, <2>4, <2>5, Zenon
<1>17. QED
  BY <1>1, <1>3, <1>4, <1>5, <1>14, <1>15, <1>16, Zenon DEF RunOf

\* The packet the receiver waits for: it is delivered with all that follow it.
LEMMA FirstDataKeeps ==
  ASSUME RdtInv, NEW m \in data, Receiver_FromLowerLayer(m), IsNew(m.seq), m.seq = receiver.seq
  PROVE  RdtInv'
<1>1. PICK p \in Nat, c \in Nat, f \in 0..WindowSize, d \in Nat : DataAt(m, p, c, f, d)
  BY DataIs, Zenon
<1>2. /\ p = m.payload /\ c = completed /\ f = InFlight(sender) /\ d = Len(delivered)
      /\ KeptOK(c + f) /\ StartsAt(receiver, d) /\ c <= d /\ p = d /\ p < c + f
  BY <1>1, Zenon DEF DataAt
<1>3. PICK e \in Nat : e = c + f /\ d < e /\ e <= d + WindowSize
  BY <1>2, Sizes
<1>4. /\ UNCHANGED <<sender, buffer, timers, produced, completed, failed>>
      /\ data' \subseteq data /\ acks' \subseteq acks \cup {m} /\ Upload(m)
  BY Zenon DEF Receiver_FromLowerLayer
<1>5. PICK n : n = RunAfterBase
  BY Zenon
<1>6. RunOf(receiver', d, n, e)
  <2>1. /\ d = Len(delivered) /\ d < e /\ e <= d + WindowSize /\ Upload(m)
        /\ StartsAt(receiver, d) /\ KeptOK(e) /\ receiver \in ReceiverWindow
    BY <1>2, <1>3, <1>4, Zenon DEF RdtInv, TypeOK
  <2>2. RunOf(receiver', d, RunAfterBase, e)
    BY <2>1, UploadIs, Zenon
  <2>3. QED
    BY <1>5, <2>2, Zenon
<1>7. /\ n \in 0 .. WindowSize - 1 /\ d + n + 1 <= e
      /\ receiver' \in ReceiverWindow /\ StartsAt(receiver', d + n + 1)
      /\ \A k \in 1..n : CellOf(receiver, d + k).payload = d + k
      /\ \A k \in d + n + 1 .. d + WindowSize :
           /\ CellOf(receiver', k) = CellOf(receiver, k)
           /\ CellOf(receiver, k).status => k # d + n + 1
      /\ \A k \in d + WindowSize + 1 .. d + n + 1 + WindowSize : ~CellOf(receiver', k).status
  BY <1>6, Zenon DEF RunOf
<1>8. PICK b \in Nat : b = d + n + 1 /\ d < b /\ d <= b /\ n \in Nat
  BY <1>7
<1>9. RunFrom(delivered', 0) /\ Len(delivered') = b
  <2>1. PICK r : r = [k \in 1..n |-> d + k]
    BY Zenon
  <2>2. ASSUME NEW k \in 1..n PROVE receiver.cells[Index(receiver.base, k)].payload = d + k
    <3>1. k \in Nat
      BY <1>8
    <3>2. QED
      BY <1>2, <1>7, <3>1, IndexIs, Zenon DEF StartsAt, CellOf
  <2>3. delivered' = delivered \o <<d>> \o r
    <3>1. r = [k \in 1..n |-> receiver.cells[Index(receiver.base, k)].payload]
      BY <2>1, <2>2, Zenon
    <3>2. QED
      BY <1>2, <1>4, <1>5, <3>1, Zenon DEF Upload
  <2>4. RunFrom(delivered, 0)
    <3>1. \A k \in 1..Len(delivered) : k - 1 = 0 + k - 1
      <4>1. Len(delivered) \in Nat
        BY <1>2, Zenon
      <4>2. QED
        BY <4>1
    <3>2. QED
      BY <3>1, Zenon DEF RunFrom, RdtInv, TypeOK, InOrder
  <2>5. AllUpTo(delivered, d) /\ n \in Nat
    BY <1>2, <1>8, <2>4, Zenon DEF AllUpTo
  <2>6. AllUpTo(delivered \o <<d>> \o [k \in 1..n |-> d + k], d + n + 1)
    BY <2>5, DeliversOn, Zenon
  <2>7. AllUpTo(delivered', b)
    BY <1>8, <2>1, <2>3, <2>6, Zenon
  <2>8. QED
    BY <2>7, Zenon DEF AllUpTo
<1>10. InOrder' /\ delivered' \in Seq(Nat)
  <2>1. \A k \in 1..b : k - 1 = 0 + k - 1
    OBVIOUS
  <2>2. QED
    BY <1>9, <2>1, Zenon DEF RunFrom, InOrder
<1>11. ASSUME NEW k \in b .. b + WindowSize, CellOf(receiver', k).status
       PROVE  k # b /\ k < e /\ CellOf(receiver', k).payload = k
  <2>1. k \in d + n + 1 .. d + WindowSize \/ k \in d + WindowSize + 1 .. d + n + 1 + WindowSize
    BY <1>7, <1>8, Sizes
  <2>2. k \in d + n + 1 .. d + WindowSize
    BY <1>7, <1>11, <2>1, Zenon
  <2>3. k \in d .. d + WindowSize
    BY <1>7, <1>8, <2>2
  <2>4. CellOf(receiver, k).status /\ CellOf(receiver', k) = CellOf(receiver, k) /\ k # b
    BY <1>7, <1>8, <1>11, <2>2, Zenon
  <2>5. QED
    BY <1>2, <1>3, <2>3, <2>4, Zenon DEF KeptOK
<1>12. ReceiverInv'
  <2>1. completed' = c /\ completed' + InFlight(sender') = e /\ Len(delivered') = b
    BY <1>2, <1>3, <1>4, <1>9, Zenon
  <2>2. c <= b
    BY <1>2, <1>8
  <2>3. KeptOK(completed + InFlight(sender))'
    BY <1>11, <2>1, Zenon DEF KeptOK, CellOf
  <2>4. StartsAt(receiver', Len(delivered')) /\ Len(delivered') <= e
    BY <1>7, <1>8, <2>1, Zenon
  <2>5. QED
    BY <2>1, <2>2, <2>3, <2>4, Zenon DEF ReceiverInv
<1>13. Has(m.payload)'
  BY <1>2, <1>8, <1>9, Zenon DEF Has
<1>14. ASSUME NEW k \in Nat, Has(k) PROVE Has(k)'
  <2>1. CASE k \in d .. d + WindowSize /\ CellOf(receiver, k).status
    <3>1. CASE k < b
      BY <1>9, <3>1, Zenon DEF Has
    <3>2. CASE ~(k < b)
      <4>1. k \in d + n + 1 .. d + WindowSize /\ k \in b .. b + WindowSize
        BY <1>8, <2>1, <3>2, Sizes
      <4>2. QED
        BY <1>7, <1>9, <2>1, <4>1, Zenon DEF Has, CellOf
    <3>3. QED
      BY <3>1, <3>2, Zenon
  <2>2. CASE k < d
    <3>1. k < b
      BY <1>8, <2>2
    <3>2. QED
      BY <1>9, <3>1, Zenon DEF Has
  <2>3. QED
    BY <1>2, <1>14, <2>1, <2>2, Zenon DEF Has
<1>15. Receives(m)
  BY <1>4, <1>7, <1>10, <1>12, <1>13, <1>14, Zenon DEF Receives
<1>16. QED
  BY <1>15, ReceivesKeeps, Zenon

-----------------------------------------------------------------------------
(* 6. Theorems *)

\* Both sides start with payload 0 and empty windows.
LEMMA RdtInit == Init => RdtInv
<1> SUFFICES ASSUME Init PROVE RdtInv
  OBVIOUS
<1> USE DEF Init
<1>1. 0 \in Nat /\ 0 % Ring = 0 /\ 0 % MaxSeqN = 0 /\ 0 \in Cells /\ 0 \in 0 .. MaxSeqN - 1
  <2>1. 0 \in 0 .. Ring - 1 /\ 0 \in 0 .. MaxSeqN - 1 /\ 0 \in Cells
    BY Sizes DEF Cells
  <2>2. QED
    BY <2>1, Sizes, ModNear
<1>2. sender \in SenderWindow /\ receiver \in ReceiverWindow
  <2>1. /\ [i \in Cells |-> [status |-> FALSE, backup |-> 0]] \in [Cells -> [status : BOOLEAN, backup : Nat]]
        /\ [i \in Cells |-> [status |-> FALSE, payload |-> 0]] \in [Cells -> [status : BOOLEAN, payload : Nat]]
    OBVIOUS
  <2>2. QED
    BY <1>1, <2>1, Zenon DEF SenderWindow, ReceiverWindow
<1>3. TypeOK
  BY <1>1, <1>2 DEF TypeOK
<1>4. sender.base = 0 % Ring /\ sender.base = sender.top /\ StartsAt(sender, 0) /\ StartsAt(receiver, 0)
  BY <1>1, Zenon DEF StartsAt
<1>5. InFlight(sender) = 0
  BY <1>1, <1>2, <1>4, FlightIs, Zenon
<1>6. completed = 0 /\ Len(delivered) = 0 /\ Len(buffer) = 0 /\ completed + InFlight(sender) = 0
  BY <1>5
<1>7. 0 .. 0 + 0 - 1 = {}
  OBVIOUS
<1>8. SenderInv
  BY <1>4, <1>5, <1>6, <1>7, Zenon DEF SenderInv, BackupOK, TimersOf
<1>9. BufferInv
  <2>1. produced = 0 /\ 0 + 0 = 0 /\ 1..0 = {} /\ buffer = <<>>
    OBVIOUS
  <2>2. QED
    BY <1>5, <1>6, <2>1, Zenon DEF BufferInv
<1>10. ReceiverInv
  <2>1. ASSUME NEW k \in 0 .. 0 + WindowSize PROVE ~CellOf(receiver, k).status
    <3>1. k \in Int
      BY Sizes
    <3>2. k % Ring \in Cells
      BY <3>1, CellExists, Zenon
    <3>3. QED
      BY <3>2, Zenon DEF CellOf
  <2>2. 0 <= 0
    OBVIOUS
  <2>3. QED
    BY <1>4, <1>6, <2>1, <2>2, Zenon DEF ReceiverInv, KeptOK
<1>11. LinkInv /\ InOrder /\ NoAssertFails
  <2>1. 1..0 = {}
    OBVIOUS
  <2>2. QED
    BY <1>6, <2>1, Zenon DEF LinkInv, InOrder, NoAssertFails
<1>12. QED
  BY <1>3, <1>8, <1>9, <1>10, <1>11, Zenon DEF RdtInv

\* Every step of either side, and of the link, keeps the invariant.
LEMMA RdtStep == RdtInv /\ [Next]_vars => RdtInv'
<1> SUFFICES ASSUME RdtInv, [Next]_vars PROVE RdtInv'
  OBVIOUS
<1>1. CASE UNCHANGED vars
  <2>1. /\ UNCHANGED <<sender, completed, timers, receiver, delivered>>
        /\ UNCHANGED <<buffer, produced, failed, data, acks>>
        /\ data' \subseteq data /\ acks' \subseteq acks
    BY <1>1, Zenon DEF vars
  <2>2. SenderInv' /\ ReceiverInv' /\ InOrder' /\ LinkInv'
    BY <2>1, WindowsSame, LinkSame, Zenon
  <2>3. TypeOK'
    BY <2>1, Zenon DEF RdtInv, TypeOK
  <2>4. BufferInv' /\ NoAssertFails'
    BY <2>1, Zenon DEF RdtInv, BufferInv, NoAssertFails, InFlight
  <2>5. QED
    BY <2>2, <2>3, <2>4, Zenon DEF RdtInv
<1>2. ASSUME NEW n \in 1..MaxMsg, Sender_FromUpperLayer(n) PROVE RdtInv'
  BY <1>2, UpperKeeps, Zenon
<1>3. ASSUME NEW a \in acks, Sender_FromLowerLayer(a) PROVE RdtInv'
  BY <1>3, LateAckKeeps, InnerAckKeeps, FirstAckKeeps, Zenon
<1>4. ASSUME NEW seq_n \in timers, Sender_ReSend(seq_n) PROVE RdtInv'
  BY <1>4, ReSendKeeps, Zenon
<1>5. ASSUME NEW m \in data, Receiver_FromLowerLayer(m) PROVE RdtInv'
  BY <1>5, OldDataKeeps, EarlyDataKeeps, FirstDataKeeps, Zenon
<1>6. ASSUME NEW m, Lose(m) PROVE RdtInv'
  BY <1>6, LoseKeeps, Zenon
<1>7. QED
  BY <1>1, <1>2, <1>3, <1>4, <1>5, <1>6, Zenon DEF Next

\* The inductive invariant holds for every window size, every ring of sequence
\* numbers that is large enough for the delay of the link, and any number of payloads.
THEOREM RdtInvariant == Spec => []RdtInv
  BY RdtInit, RdtStep, PTL DEF Spec

\* The receiver hands payloads to its upper layer in order, each one once, whatever
\* is lost, sent twice or overtaken (Receiver_ToUpperLayer of rdt_sim.cc checks it).
THEOREM DeliversInOrder == Spec => []InOrder
<1>1. RdtInv => InOrder
  BY Zenon DEF RdtInv
<1>2. QED
  BY <1>1, RdtInvariant, PTL

\* No ASSERT of the sender fails: a timer that expires is that of a packet that is
\* kept, there are never too many timers, and packets wait only behind a full window.
THEOREM AssertsHold == Spec => []NoAssertFails
<1>1. RdtInv => NoAssertFails
  BY Zenon DEF RdtInv
<1>2. QED
  BY <1>1, RdtInvariant, PTL

\* base_ and base_seq_n_ of both sides tell how far the side is, and the windows of
\* the two sides overlap.
THEOREM WindowsStayClose == Spec => []WindowsOverlap
<1>1. RdtInv => WindowsOverlap
  <2> SUFFICES ASSUME RdtInv PROVE WindowsOverlap
    OBVIOUS
  <2>1. PICK c \in Nat, f \in 0..WindowSize : c = completed /\ f = InFlight(sender)
    BY BufferRuns, Zenon DEF RdtInv, TypeOK
  <2>2. PICK d \in Nat : d = Len(delivered)
    BY DEF RdtInv, TypeOK
  <2>3. StartsAt(sender, c) /\ StartsAt(receiver, d) /\ c <= d /\ d <= c + f
    BY <2>1, <2>2, Zenon DEF RdtInv, SenderInv, ReceiverInv
  <2>4. d <= c + WindowSize
    BY <2>3, Sizes
  <2>5. ASSUME NEW k \in Nat PROVE Index(0, k) = k % Ring
    <3>1. 0 \in 0 .. Ring - 1 /\ 0 \in Nat /\ 0 + k = k
      BY Sizes
    <3>2. 0 % Ring = 0
      BY <3>1, Sizes, ModNear, Zenon
    <3>3. Index(0 % Ring, k) = (0 + k) % Ring
      BY <3>1, IndexIs, Zenon
    <3>4. QED
      BY <3>1, <3>2, <3>3, Zenon
  <2>6. QED
    BY <2>1, <2>2, <2>3, <2>4, <2>5, Zenon DEF WindowsOverlap, StartsAt
<1>2. QED
  BY <1>1, RdtInvariant, PTL

\* A packet has a timer exactly while it is sent and not acknowledged: late acks
\* end no other packet's timer.
THEOREM TimersAreRight == Spec => []TimerWhileUnacknowledged
<1>1. RdtInv => TimerWhileUnacknowledged
  <2> SUFFICES ASSUME RdtInv PROVE TimerWhileUnacknowledged
    OBVIOUS
  <2>1. PICK c \in Nat, f \in 0..WindowSize : c = completed /\ f = InFlight(sender)
    BY BufferRuns, Zenon DEF RdtInv, TypeOK
  <2>2. sender \in SenderWindow /\ StartsAt(sender, c) /\ timers = TimersOf(sender, c)
    BY <2>1, Zenon DEF RdtInv, SenderInv, TypeOK
  <2>3. PICK w : w = [sender EXCEPT !.top = sender.base]
    BY Zenon
  <2>4. w \in SenderWindow /\ StartsAt(w, c) /\ w.base = w.top
    BY <2>2, <2>3, Zenon DEF SenderWindow, StartsAt
  <2>5. InFlight(w) = 0
    BY <2>4, FlightIs, Zenon DEF StartsAt
  <2>6. ASSUME NEW j \in 0 .. f - 1
        PROVE  /\ SeqOf(w, j) = (c + j) % MaxSeqN /\ c + j \in c .. c + f - 1
               /\ sender.cells[Index(sender.base, j)] = CellOf(sender, c + j)
    <3>1. j \in Nat /\ c + 0 + j = c + j /\ c + j \in c .. c + f - 1
      OBVIOUS
    <3>2. SeqOf(w, j) = (c + 0 + j) % MaxSeqN
      BY <2>4, <2>5, <3>1, SeqIs, Zenon
    <3>3. Index(sender.base, j) = (c + j) % Ring
      BY <2>2, <3>1, IndexIs, Zenon DEF StartsAt
    <3>4. QED
      BY <3>1, <3>2, <3>3, Zenon DEF CellOf
  <2>7. ASSUME NEW k \in c .. c + f - 1 PROVE \E j \in 0 .. f - 1 : k = c + j
    <3>1. k - c \in 0 .. f - 1 /\ k = c + (k - c)
      OBVIOUS
    <3>2. QED
      BY <3>1, Zenon
  <2>8. PICK A : A = {k \in 0 .. f - 1 : sender.cells[Index(sender.base, k)].status}
    BY Zenon
  <2>9. PICK B : B = {k \in c .. c + f - 1 : CellOf(sender, k).status}
    BY Zenon
  <2>10. timers = {k % MaxSeqN : k \in B}
    BY <2>1, <2>2, <2>9, Zenon DEF TimersOf
  <2>11. ASSUME NEW x \in timers PROVE x \in {SeqOf(w, j) : j \in A}
    <3>1. PICK k \in B : x = k % MaxSeqN
      BY <2>10, Zenon
    <3>2. PICK j \in 0 .. f - 1 : k = c + j
      BY <2>7, <2>9, <3>1, Zenon
    <3>3. j \in A
      BY <2>6, <2>8, <2>9, <3>1, <3>2, Zenon
    <3>4. QED
      BY <2>6, <3>1, <3>2, <3>3, Zenon
  <2>12. ASSUME NEW x \in {SeqOf(w, j) : j \in A} PROVE x \in timers
    <3>1. PICK j \in A : x = SeqOf(w, j)
      BY Zenon
    <3>2. c + j \in B /\ x = (c + j) % MaxSeqN
      BY <2>6, <2>8, <2>9, <3>1, Zenon
    <3>3. QED
      BY <2>10, <3>2, Zenon
  <2>13. timers = {SeqOf(w, j) : j \in A}
    BY <2>11, <2>12, Zenon
  <2>14. QED
    BY <2>1, <2>3, <2>8, <2>13, Zenon DEF TimerWhileUnacknowledged
<1>2. QED
  BY <1>1, RdtInvariant, PTL
=============================================================================
