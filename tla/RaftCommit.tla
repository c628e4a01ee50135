---------------------------- MODULE RaftCommit ------------------------------
(***************************************************************************)
(* What is committed stays committed: the steps of the argument.  An entry *)
(* is pinned when the logs, the calls under way, the leaders and the votes *)
(* given keep it (Pinned in RaftInv).  Section 2 shows that no step takes  *)
(* a pin away, section 3 that a leader's own entries are pinned by the     *)
(* peers that acknowledged them, section 4 that what is committed is       *)
(* pinned by a set of peers that every majority meets.  Sections 2 to 5    *)
(* look at a step through Moves only; section 6 shows that every action of *)
(* Raft is such a step, and section 7 what follows for what was applied.   *)
(* The theorems are in RaftSafety.                                         *)
(***************************************************************************)
EXTENDS RaftPieces

-----------------------------------------------------------------------------
(* 1. Logs that keep an entry *)

\* A log has the entry if, as a piece, it has the term there.
LEMMA HasWhole ==
  ASSUME NEW l \in Seq(Entry), NEW k \in Nat \ {0}, NEW t
  PROVE  Has(l, k, t) <=> k \in Covered(Whole(l)) /\ TermOf(Whole(l), k) = t
<1>1. /\ Covered(Whole(l)) = 0..Len(l) /\ Len(l) \in Nat
      /\ \A j \in 0..Len(l) : TermOf(Whole(l), j) = TermAt(l, j)
  BY WholeFacts
<1>2. k \in 1..Len(l) <=> k \in 0..Len(l)
  BY <1>1
<1>3. QED
  BY <1>1, <1>2 DEF Has, TermAt

\* Terms do not decrease from one index of a log to any later one.
LEMMA SortedTerms ==
  ASSUME NEW l \in Seq(Entry), NEW u \in Nat, SortedUpTo(l, u),
         NEW k \in 0..Len(l), NEW j \in k..Len(l)
  PROVE  TermAt(l, k) <= TermAt(l, j)
<1>0. Len(l) \in Nat /\ k \in Nat /\ j \in Nat /\ j \in 0..Len(l)
  OBVIOUS
<1>1. \A n \in 0..Len(l) : TermAt(l, n) \in Nat
  BY TermAtType
<1>2. \A n \in 1..Len(l) : TermAt(l, n - 1) <= TermAt(l, n)
  BY DEF SortedUpTo
<1>3. SUFFICES ASSUME ~(TermAt(l, k) <= TermAt(l, j)) PROVE FALSE
  OBVIOUS
<1> DEFINE B == {n \in k..Len(l) : ~(TermAt(l, k) <= TermAt(l, n))}
<1>4. B \in SUBSET Nat /\ B # {}
  BY <1>0, <1>3
<1>5. PICK x \in B : \A y \in B : x <= y
  BY <1>4, LeastElement, Zenon
<1>6. x \in k..Len(l) /\ x # k /\ ~(TermAt(l, k) <= TermAt(l, x))
  BY <1>0, <1>1, <1>5
<1>7. x \in 1..Len(l) /\ x - 1 \in k..Len(l) /\ x - 1 \in 0..Len(l) /\ x \in 0..Len(l) /\ ~(x <= x - 1)
  BY <1>0, <1>6
<1>8. x - 1 \notin B
  BY <1>5, <1>7
<1>9. TermAt(l, k) <= TermAt(l, x - 1)
  BY <1>7, <1>8
<1> HIDE DEF B
<1>10. TermAt(l, x - 1) <= TermAt(l, x)
  BY <1>2, <1>7
<1>11. TermAt(l, k) \in Nat /\ TermAt(l, x - 1) \in Nat /\ TermAt(l, x) \in Nat
  BY <1>1, <1>7
<1>12. QED
  BY <1>6, <1>9, <1>10, <1>11

\* A part keeps what the whole keeps.
LEMMA KeepsPart ==
  ASSUME NEW x, NEW z, NEW k, NEW t, Part(z, x), Keeps(x, k, t)
  PROVE  Keeps(z, k, t)
BY DEF Part, Keeps

\* Start keeps the entry, if the leader has it or is of an earlier term.
LEMMA KeepsAppend ==
  ASSUME NEW l \in Seq(Entry), NEW e \in Entry, NEW k \in Nat \ {0}, NEW t \in Nat,
         Keeps(Whole(l), k, t), e.term >= t => Has(l, k, t)
  PROVE  Keeps(Whole(Append(l, e)), k, t)
<1>0. PICK a : a = Append(l, e)
  BY Zenon
<1>1. /\ a \in Seq(Entry) /\ Len(a) = Len(l) + 1 /\ Len(l) \in Nat
      /\ \A j \in 1..Len(l) : a[j] = l[j]
      /\ a[Len(l) + 1] = e
  BY <1>0, AppendFacts
<1>2. /\ Covered(Whole(a)) = 0 .. Len(l) + 1
      /\ \A j \in 0 .. Len(l) + 1 : TermOf(Whole(a), j) = TermAt(a, j)
  BY <1>1, WholeFacts
<1>3. /\ Covered(Whole(l)) = 0..Len(l)
      /\ \A j \in 0..Len(l) : TermOf(Whole(l), j) = TermAt(l, j)
  BY WholeFacts
<1>4. \A j \in 0..Len(l) : j \in 0 .. Len(l) + 1 /\ TermAt(a, j) = TermAt(l, j)
  BY <1>1 DEF TermAt
<1>5. TermAt(a, Len(l) + 1) = e.term /\ e.term \in Nat
  BY <1>1 DEF TermAt, Entry
<1>6. \A j \in 0 .. Len(l) + 1 : j \in 0..Len(l) \/ j = Len(l) + 1
  BY <1>1
<1>7. ASSUME NEW j \in Covered(Whole(a))
      PROVE  /\ TermOf(Whole(a), j) > t => j > k
             /\ TermOf(Whole(a), j) >= t /\ j >= k /\ k \in Covered(Whole(a))
                  => TermOf(Whole(a), k) = t
  <2>1. CASE j \in 0..Len(l)
    <3>1. TermOf(Whole(a), j) = TermOf(Whole(l), j) /\ j \in Covered(Whole(l))
      BY <1>2, <1>3, <1>4, <2>1
    <3>2. j >= k => k \in 0..Len(l)
      BY <1>1, <2>1
    <3>3. j >= k => k \in Covered(Whole(l)) /\ TermOf(Whole(a), k) = TermOf(Whole(l), k)
      BY <1>2, <1>3, <1>4, <3>2
    <3>4. QED
      BY <3>1, <3>3 DEF Keeps
  <2>2. CASE j = Len(l) + 1
    <3>1. TermOf(Whole(a), j) = e.term
      BY <1>2, <1>5, <2>2, <1>1
    <3>2. e.term > t => e.term >= t
      BY <1>5
    <3>3. ASSUME e.term >= t PROVE j > k /\ TermOf(Whole(a), k) = t
      <4>1. Has(l, k, t)
        BY <3>3
      <4>2. k \in 1..Len(l) /\ k \in 0..Len(l) /\ k # 0 /\ l[k].term = t
        BY <1>1, <4>1 DEF Has
      <4>3. TermOf(Whole(a), k) = TermAt(l, k)
        BY <1>2, <1>4, <4>2
      <4>4. QED
        BY <1>1, <2>2, <4>2, <4>3 DEF TermAt
    <3>4. QED
      BY <3>1, <3>2, <3>3
  <2>3. QED
    BY <1>2, <1>6, <2>1, <2>2
<1>8. QED
  BY <1>0, <1>7 DEF Keeps

\* AppendEntries keeps the entry: of the joined parts a and b, b begins with a
\* term from t on, if it begins after k and has such a term.
LEMMA KeepsJoin ==
  ASSUME NEW x, NEW a, NEW b, IsPiece(x), NEW k \in Nat, NEW t \in Nat,
         Keeps(a, k, t), Keeps(b, k, t), NEW p \in Covered(x),
         \A j \in Covered(x) : j <= p => j \in Covered(a) /\ TermOf(x, j) = TermOf(a, j),
         \A j \in Covered(x) : p <= j => j \in Covered(b) /\ TermOf(x, j) = TermOf(b, j),
         \A j \in Covered(b) : k <= p /\ TermOf(b, j) >= t => TermOf(b, p) >= t
  PROVE  Keeps(x, k, t)
<1>0. Covered(x) \subseteq Nat /\ p \in Nat
  BY CoveredFacts
<1> SUFFICES ASSUME NEW j \in Covered(x)
             PROVE  /\ TermOf(x, j) > t => j > k
                    /\ TermOf(x, j) >= t /\ j >= k /\ k \in Covered(x) => TermOf(x, k) = t
  BY DEF Keeps
<1>1. j \in Nat /\ (j <= p \/ p <= j)
  BY <1>0
<1>2. TermOf(x, j) > t => j > k
  <2>1. CASE j <= p
    BY <2>1 DEF Keeps
  <2>2. CASE p <= j
    BY <2>2 DEF Keeps
  <2>3. QED
    BY <1>1, <2>1, <2>2
<1>3. ASSUME TermOf(x, j) >= t, j >= k, k \in Covered(x) PROVE TermOf(x, k) = t
  <2>1. CASE j <= p
    <3>1. k <= p
      BY <1>0, <1>1, <1>3, <2>1
    <3>2. k \in Covered(a) /\ j \in Covered(a) /\ TermOf(x, k) = TermOf(a, k) /\ TermOf(x, j) = TermOf(a, j)
      BY <1>3, <2>1, <3>1
    <3>3. QED
      BY <1>3, <3>2 DEF Keeps
  <2>2. CASE p <= j /\ p <= k
    <3>1. k \in Covered(b) /\ j \in Covered(b) /\ TermOf(x, k) = TermOf(b, k) /\ TermOf(x, j) = TermOf(b, j)
      BY <1>3, <2>2
    <3>2. QED
      BY <1>3, <3>1 DEF Keeps
  <2>3. CASE p <= j /\ k <= p
    <3>1. j \in Covered(b) /\ TermOf(b, j) >= t
      BY <1>3, <2>3
    <3>2. TermOf(b, p) >= t
      BY <2>3, <3>1
    <3>3. p \in Covered(a) /\ TermOf(a, p) >= t
      BY <1>0, <3>2
    <3>4. k \in Covered(a) /\ TermOf(x, k) = TermOf(a, k)
      BY <1>3, <2>3
    <3>5. QED
      BY <2>3, <3>3, <3>4 DEF Keeps
  <2>4. QED
    BY <1>0, <1>1, <2>1, <2>2, <2>3
<1>4. QED
  BY <1>2, <1>3

\* AppendEntries leaves a log that keeps the entry.
LEMMA ExtendedKeeps ==
  ASSUME NEW l \in Seq(Entry), NEW m \in Request, HasPrev(l, m), Match(Whole(l), m),
         NEW k \in Nat, NEW t \in Nat, SortedUpTo(m.entries, m.term),
         Keeps(Whole(l), k, t), Keeps(m, k, t),
         m.term >= t /\ m.prev >= k => m.prevTerm >= t
  PROVE  Keeps(Whole(Extended(l, m)), k, t)
<1>1. /\ m.prev \in Nat /\ m.prevTerm \in Nat /\ m.term \in Nat /\ m.entries \in Seq(Entry)
      /\ Len(m.entries) \in Nat
  BY DEF Request
<1>2. PICK x : x = Whole(Extended(l, m))
  BY Zenon
<1>3. /\ IsPiece(x) /\ m.prev \in Covered(x)
      /\ \A j \in Covered(x) : j <= m.prev => j \in Covered(Whole(l)) /\ TermOf(x, j) = TermOf(Whole(l), j)
      /\ \A j \in Covered(x) : m.prev <= j => j \in Covered(m) /\ TermOf(x, j) = TermOf(m, j)
  BY <1>2, ExtendedIsJoin, Zenon
<1>4. TermOf(m, m.prev) = m.prevTerm
  BY DEF TermOf
<1>5. ASSUME NEW j \in Covered(m), k <= m.prev, TermOf(m, j) >= t PROVE TermOf(m, m.prev) >= t
  <2>1. CASE j = m.prev
    BY <1>5, <2>1
  <2>2. CASE j # m.prev
    <3>1. j - m.prev \in 1..Len(m.entries)
      BY <1>1, <2>2 DEF Covered
    <3>2. TermOf(m, j) = m.entries[j - m.prev].term
      BY <2>2 DEF TermOf, EntryOf
    <3>3. PICK n \in 1..Len(m.entries) : n = j - m.prev
      BY <3>1
    <3>4. TermAt(m.entries, n) <= m.term /\ TermAt(m.entries, n) = TermOf(m, j) /\ TermAt(m.entries, n) \in Nat
      BY <1>1, <3>2, <3>3, EntryTerm DEF SortedUpTo
    <3>5. m.term >= t /\ m.prev >= k
      BY <1>1, <1>5, <3>4
    <3>6. QED
      BY <1>4, <3>5
  <2>3. QED
    BY <2>1, <2>2
<1>6. Keeps(x, k, t)
  BY <1>3, <1>5, KeepsJoin, Zenon
<1>7. QED
  BY <1>2, <1>6

\* AppendEntries leaves a log that has the entry, if the call carries it.
LEMMA ExtendedHas ==
  ASSUME NEW l \in Seq(Entry), NEW m \in Request, HasPrev(l, m), Match(Whole(l), m),
         NEW k \in Nat \ {0}, NEW t \in Nat, Carries(m, k, t), k < m.prev => Has(l, k, t)
  PROVE  Has(Extended(l, m), k, t)
<1>1. m.prev \in Nat /\ m.entries \in Seq(Entry) /\ Len(m.entries) \in Nat /\ m.prev \in Covered(m)
  BY DEF Request, Covered
<1>2. PICK e : e = Extended(l, m)
  BY Zenon
<1>3. /\ \A j \in Covered(Whole(e)) : j <= m.prev => j \in Covered(Whole(l)) /\ TermOf(Whole(e), j) = TermOf(Whole(l), j)
      /\ \A j \in Covered(Whole(e)) : m.prev <= j => j \in Covered(m) /\ TermOf(Whole(e), j) = TermOf(m, j)
  BY <1>2, ExtendedIsJoin, Zenon
<1>4. e \in Seq(Entry) /\ Len(e) = m.prev + Len(m.entries)
  BY <1>2, ExtendedProperties
<1>5. k \in Covered(Whole(e))
  BY <1>1, <1>4, WholeFacts DEF Carries, LastOf
<1>6. TermOf(Whole(e), k) = t
  <2>1. CASE k < m.prev
    <3>1. k \in Covered(Whole(l)) /\ TermOf(Whole(l), k) = t
      BY <2>1, HasWhole
    <3>2. QED
      BY <1>1, <1>3, <1>5, <2>1, <3>1
  <2>2. CASE m.prev <= k
    BY <1>3, <1>5, <2>2 DEF Carries
  <2>3. QED
    BY <1>1, <2>1, <2>2
<1>7. QED
  BY <1>2, <1>4, <1>5, <1>6, HasWhole

\* The same, of a log that keeps the entry, if the call follows it.
LEMMA ExtendedGets ==
  ASSUME NEW l \in Seq(Entry), NEW m \in Request, HasPrev(l, m), Match(Whole(l), m),
         NEW k \in Nat \ {0}, NEW t \in Nat, Carries(m, k, t), m.prev >= k => m.prevTerm >= t,
         Keeps(Whole(Extended(l, m)), k, t)
  PROVE  Has(Extended(l, m), k, t)
<1>1. m.prev \in Nat /\ m.entries \in Seq(Entry) /\ Len(m.entries) \in Nat
  BY DEF Request
<1>2. PICK e : e = Extended(l, m)
  BY Zenon
<1>3. /\ m.prev \in Covered(Whole(e))
      /\ \A j \in Covered(Whole(e)) : m.prev <= j => j \in Covered(m) /\ TermOf(Whole(e), j) = TermOf(m, j)
  BY <1>2, ExtendedIsJoin, Zenon
<1>4. e \in Seq(Entry) /\ Len(e) = m.prev + Len(m.entries)
  BY <1>2, ExtendedProperties
<1>5. k \in Covered(Whole(e))
  BY <1>1, <1>4, WholeFacts DEF Carries, LastOf
<1>6. TermOf(Whole(e), k) = t
  <2>1. CASE k < m.prev
    <3>1. TermOf(Whole(e), m.prev) = m.prevTerm
      BY <1>1, <1>3 DEF TermOf
    <3>2. m.prev >= k
      BY <1>1, <2>1
    <3>3. Keeps(Whole(e), k, t)
      BY <1>2, Zenon
    <3>4. QED
      BY <1>3, <1>5, <3>1, <3>2, <3>3, Zenon DEF Keeps
  <2>2. CASE m.prev <= k
    BY <1>3, <1>5, <2>2, Zenon DEF Carries
  <2>3. QED
    BY <1>1, <2>1, <2>2
<1>7. QED
  BY <1>2, <1>4, <1>5, <1>6, HasWhole

\* A leader that has the entry sends calls that carry it.
LEMMA CallCarries ==
  ASSUME NEW l \in Seq(Entry), NEW u \in Nat, SortedUpTo(l, u), NEW m, IsPiece(m),
         Part(m, Whole(l)), NEW k \in Nat \ {0}, NEW t \in Nat, Has(l, k, t), k <= LastOf(m)
  PROVE  Carries(m, k, t) /\ (m.prev >= k => m.prevTerm >= t)
<1>1. k \in Covered(Whole(l)) /\ TermOf(Whole(l), k) = t
  BY HasWhole
<1>3. k \in Covered(m) => TermOf(m, k) = t
  BY <1>1 DEF Part
<1>4. ASSUME m.prev >= k PROVE m.prevTerm >= t
  <2>1. m.prev \in Nat /\ m.prev \in Covered(m) /\ TermOf(m, m.prev) = m.prevTerm
    BY DEF IsPiece, Covered, TermOf
  <2>2. m.prev \in Covered(Whole(l)) /\ TermOf(Whole(l), m.prev) = m.prevTerm
    BY <2>1, Zenon DEF Part
  <2>3. /\ k \in 0..Len(l) /\ m.prev \in k..Len(l) /\ m.prev \in 0..Len(l)
        /\ TermAt(l, m.prev) = m.prevTerm /\ TermAt(l, k) = t
    BY <1>1, <1>4, <2>1, <2>2, WholeFacts
  <2>4. TermAt(l, k) <= TermAt(l, m.prev) /\ TermAt(l, m.prev) \in Nat
    BY <2>3, SortedTerms, TermAtType
  <2>5. QED
    BY <2>3, <2>4
<1>5. QED
  BY <1>3, <1>4 DEF Carries

\* A candidate whose log is as recent as one that has the entry, has it too.
LEMMA NewerHas ==
  ASSUME NEW l \in Seq(Entry), NEW c \in Seq(Entry), NEW u \in Nat, SortedUpTo(l, u),
         NEW k \in Nat \ {0}, NEW t \in Nat, Has(l, k, t), Keeps(Whole(c), k, t),
         NEW m, m.lastTerm = LastTerm(c), m.lastIndex = Len(c), logNewer(m, l)
  PROVE  Has(c, k, t)
<1>1. Len(l) \in Nat /\ Len(c) \in Nat /\ k \in 1..Len(l) /\ k \in 0..Len(l) /\ Len(l) \in k..Len(l)
  BY LenFacts DEF Has
<1>2. TermAt(l, k) <= LastTerm(l) /\ LastTerm(l) \in Nat /\ LastTerm(c) \in Nat
  BY <1>1, SortedTerms, LastTermType DEF LastTerm
<1>3. TermAt(l, k) = t
  BY <1>1 DEF Has, TermAt
<1>4. /\ Covered(Whole(c)) = 0..Len(c)
      /\ \A j \in 0..Len(c) : TermOf(Whole(c), j) = TermAt(c, j)
  BY WholeFacts
<1>5. Len(c) \in Covered(Whole(c)) /\ TermOf(Whole(c), Len(c)) = LastTerm(c)
  BY <1>1, <1>4 DEF LastTerm
<1>6. LastTerm(c) >= t /\ (LastTerm(c) > t \/ Len(c) >= Len(l))
  BY <1>1, <1>2, <1>3 DEF logNewer
<1>7. Len(c) >= k
  <2>1. LastTerm(c) > t => Len(c) > k
    BY <1>5 DEF Keeps
  <2>2. QED
    BY <1>1, <1>6, <2>1
<1>8. k \in Covered(Whole(c))
  BY <1>1, <1>4, <1>7
<1>9. TermOf(Whole(c), k) = t
  BY <1>5, <1>6, <1>7, <1>8 DEF Keeps
<1>10. QED
  BY <1>8, <1>9, HasWhole

\* A log that has been appended to still has the entry.
LEMMA PrefixHas ==
  ASSUME NEW l \in Seq(Entry), NEW x \in Seq(Entry), Len(x) >= Len(l), SubSeq(x, 1, Len(l)) = l,
         NEW k, NEW t, Has(l, k, t)
  PROVE  Has(x, k, t)
<1>1. Len(l) \in Nat /\ Len(x) \in Nat /\ k \in 1..Len(l) /\ l[k].term = t
  BY LenFacts DEF Has
<1>2. \A j \in 1..Len(l) : SubSeq(x, 1, Len(l))[j] = x[j]
  BY <1>1
<1>3. QED
  BY <1>1, <1>2 DEF Has

-----------------------------------------------------------------------------
(* 2. A step leaves a pinned entry pinned *)

\* A log stays, is appended to by its leader, or takes the entries of a call.
LEMMA LogCases ==
  ASSUME TypeOK, LogMove, NEW i \in Server
  PROVE  log'[i] = log[i] \/ Grows(i) \/ \E m \in requests : Takes(m) /\ TakenBy(i, m)
<1>0. /\ log \in [Server -> Seq(Entry)] /\ currentTerm \in [Server -> Nat] /\ requests \subseteq Request
  BY Zenon DEF TypeOK
<1>1. CASE log' = log
  BY <1>1, Zenon
<1>2. ASSUME NEW j \in Server, Appends(j) PROVE log'[i] = log[i] \/ Grows(i)
  <2>1. PICK e \in Entry : e.term = currentTerm[j] /\ log' = [log EXCEPT ![j] = Append(log[j], e)]
    BY <1>2, Zenon DEF Appends
  <2>2. status[j] = "leader" /\ currentTerm' = currentTerm
    BY <1>2, Zenon DEF Appends
  <2>3. CASE j = i
    <3>1. log'[i] = Append(log[i], e)
      BY <1>0, <2>1, <2>3, Zenon
    <3>2. QED
      BY <2>1, <2>2, <2>3, <3>1, Zenon DEF Grows
  <2>4. CASE j # i
    BY <1>0, <2>1, <2>4, Zenon
  <2>5. QED
    BY <2>3, <2>4, Zenon
<1>3. ASSUME NEW m \in requests, Takes(m) PROVE log'[i] = log[i] \/ TakenBy(i, m)
  <2>1. /\ ~OldTerm(m) /\ HasPrev(log[m.to], m)
        /\ log' = [log EXCEPT ![m.to] = Extended(log[m.to], m)]
        /\ currentTerm' = [currentTerm EXCEPT ![m.to] = m.term]
    BY <1>3, Zenon DEF Takes
  <2>2. CASE m.to = i
    <3>1. currentTerm[i] \in Nat /\ m.term \in Nat
      BY <1>0, Zenon DEF Request
    <3>2. currentTerm[i] <= m.term
      BY <2>1, <2>2, <3>1 DEF OldTerm
    <3>3. currentTerm'[i] = m.term /\ log'[i] = Extended(log[i], m)
      BY <1>0, <2>1, <2>2, Zenon
    <3>4. QED
      BY <2>1, <2>2, <3>2, <3>3, Zenon DEF TakenBy
  <2>3. CASE m.to # i
    BY <1>0, <2>1, <2>3, Zenon
  <2>4. QED
    BY <2>2, <2>3, Zenon
<1>4. QED
  BY <1>1, <1>2, <1>3, Zenon DEF LogMove

\* A peer whose term nobody has won keeps its log while it stays in that term.
LEMMA OpenLog ==
  ASSUME TypeOK, RoleInv, LogMove, NEW i \in Server, currentTerm'[i] = currentTerm[i],
         Open(currentTerm[i])
  PROVE  log'[i] = log[i]
<1>1. ~Grows(i)
  <2>1. status[i] = "leader" => [term |-> currentTerm[i], server |-> i] \in elected
    BY Zenon DEF RoleInv, RoleOK
  <2>2. [term |-> currentTerm[i], server |-> i].term = currentTerm[i]
    BY Zenon
  <2>3. QED
    BY <2>1, <2>2, Zenon DEF Open, Grows
<1>2. ASSUME NEW m \in requests, TakenBy(i, m) PROVE FALSE
  <2>1. [term |-> m.term, server |-> m.from] \in elected
    BY Zenon DEF RoleInv, CallOK
  <2>2. [term |-> m.term, server |-> m.from].term = m.term
    BY Zenon
  <2>3. m.term = currentTerm[i]
    BY <1>2, Zenon DEF TakenBy
  <2>4. QED
    BY <2>1, <2>2, <2>3, Zenon DEF Open
<1>3. QED
  BY <1>1, <1>2, LogCases, Zenon

\* What is known of a call that AppendEntries takes.
LEMMA TakenFacts ==
  ASSUME TypeOK, LogInv, MatchInv, NEW i \in Server, NEW m \in requests
  PROVE  /\ log[i] \in Seq(Entry) /\ m \in Request /\ Match(Whole(log[i]), m)
         /\ SortedUpTo(m.entries, m.term)
<1>1. Whole(log[i]) \in Pieces /\ m \in Pieces
  BY Zenon DEF Pieces
<1>2. QED
  BY <1>1, Zenon DEF TypeOK, LogInv, MatchInv

\* Every log keeps the entry.
LEMMA KeepsStep ==
  ASSUME TypeOK, LogInv, MatchInv, LogMove, NEW S, NEW k \in Nat \ {0}, NEW t \in Nat,
         Pinned(S, k, t), NEW i \in Server
  PROVE  Keeps(Whole(log'[i]), k, t)
<1>0. PICK l : l = log[i]
  BY Zenon
<1>1. l \in Seq(Entry) /\ currentTerm[i] \in Nat
  BY <1>0, Zenon DEF TypeOK
<1>2. Keeps(Whole(l), k, t) /\ (status[i] = "leader" /\ currentTerm[i] >= t => Has(l, k, t))
  BY <1>0, Zenon DEF Pinned, LeaderHas
<1>3. CASE Grows(i)
  <2>1. PICK e \in Entry : e.term = currentTerm[i] /\ log'[i] = Append(l, e)
    BY <1>0, <1>3, Zenon DEF Grows
  <2>2. e.term >= t => Has(l, k, t)
    BY <1>2, <1>3, <2>1, Zenon DEF Grows
  <2>3. QED
    BY <1>1, <1>2, <2>1, <2>2, KeepsAppend
<1>4. ASSUME NEW m \in requests, TakenBy(i, m) PROVE Keeps(Whole(log'[i]), k, t)
  <2>1. m \in Request /\ Match(Whole(l), m) /\ SortedUpTo(m.entries, m.term)
    BY <1>0, TakenFacts, Zenon
  <2>2. Keeps(m, k, t) /\ (m.term >= t /\ m.prev >= k => m.prevTerm >= t)
    BY Zenon DEF Pinned, CallKeeps
  <2>3. HasPrev(l, m) /\ log'[i] = Extended(l, m)
    BY <1>0, <1>4, Zenon DEF TakenBy
  <2>4. k \in Nat
    OBVIOUS
  <2>5. Keeps(Whole(Extended(l, m)), k, t)
    BY <1>1, <1>2, <2>1, <2>2, <2>3, <2>4, ExtendedKeeps, Zenon
  <2>6. QED
    BY <2>3, <2>5, Zenon
<1>5. QED
  BY <1>0, <1>2, <1>3, <1>4, LogCases, Zenon

\* The peers that pin the entry still have it.
LEMMA MemberStep ==
  ASSUME TypeOK, LogInv, MatchInv, LogMove, TermAndVoteStep, TypeOK', NEW S \in SUBSET Server,
         NEW k \in Nat \ {0}, NEW t \in Nat, Pinned(S, k, t), NEW q \in S
  PROVE  Has(log'[q], k, t) /\ currentTerm'[q] >= t
<1>0. PICK l : l = log[q]
  BY Zenon
<1>1. l \in Seq(Entry) /\ currentTerm[q] \in Nat /\ currentTerm'[q] \in Nat /\ q \in Server
  BY <1>0, Zenon DEF TypeOK
<1>2. Has(l, k, t) /\ currentTerm[q] >= t
  BY <1>0, Zenon DEF Pinned
<1>3. currentTerm'[q] >= t
  <2>1. currentTerm'[q] >= currentTerm[q]
    BY <1>1, Zenon DEF TermAndVoteStep
  <2>2. QED
    BY <1>1, <1>2, <2>1
<1>4. CASE Grows(q)
  <2>1. PICK e \in Entry : log'[q] = Append(l, e)
    BY <1>0, <1>4, Zenon DEF Grows
  <2>2. /\ Len(Append(l, e)) = Len(l) + 1 /\ Len(l) \in Nat
        /\ \A j \in 1..Len(l) : Append(l, e)[j] = l[j]
    BY <1>1, AppendFacts, LenFacts
  <2>3. QED
    BY <1>2, <2>1, <2>2, <1>3 DEF Has
<1>5. ASSUME NEW m \in requests, TakenBy(q, m) PROVE Has(log'[q], k, t)
  <2>1. m \in Request /\ Match(Whole(l), m) /\ m.term \in Nat
    BY <1>0, <1>1, TakenFacts, Zenon DEF Request
  <2>2. HasPrev(l, m) /\ log'[q] = Extended(l, m) /\ currentTerm[q] <= m.term /\ m.to \in S
    BY <1>0, <1>5, Zenon DEF TakenBy
  <2>3. m.term > t \/ m.term = t
    BY <1>1, <1>2, <2>1, <2>2
  <2>4. Carries(m, k, t)
    BY <2>2, <2>3, Zenon DEF Pinned, CallKeeps
  <2>5. Has(Extended(l, m), k, t)
    BY <1>1, <1>2, <2>1, <2>2, <2>4, ExtendedHas, Zenon
  <2>6. QED
    BY <2>2, <2>5, Zenon
<1>6. QED
  BY <1>0, <1>1, <1>2, <1>3, <1>4, <1>5, LogCases, Zenon

\* What leaderRoutine sends is a part of the leader's log, up to its end.
LEMMA CallToFacts ==
  ASSUME TypeOK, NEW i \in Server, NEW p \in Server, nextIndex[i][p] - 1 \in 0..Len(log[i]),
         NEW m, m = CallTo(i, p)
  PROVE  /\ m.from = i /\ m.to = p /\ m.term = currentTerm[i] /\ m.commit = commitIndex[i]
         /\ IsPiece(m) /\ Part(m, Whole(log[i])) /\ LastOf(m) = Len(log[i])
<1>0. PICK l, n : l = log[i] /\ n = nextIndex[i][p] - 1
  BY Zenon
<1>1. /\ m.from = i /\ m.to = p /\ m.term = currentTerm[i] /\ m.commit = commitIndex[i]
      /\ m.prev = n /\ m.prevTerm = TermAt(l, n) /\ m.entries = SubSeq(l, n + 1, Len(l))
  BY <1>0, Zenon DEF CallTo
<1>2. l \in Seq(Entry) /\ n \in 0..Len(l)
  BY <1>0, Zenon DEF TypeOK
<1>3. Part(m, Whole(l))
  BY <1>1, <1>2, SuffixPart, Zenon
<1>4. n \in Nat /\ Len(l) \in Nat
  BY <1>2, LenFacts
<1>5. m.entries \in Seq(Entry) /\ Len(m.entries) = Len(l) - n
  <2>1. SubSeq(l, n + 1, Len(l)) \in Seq(Entry) /\ Len(SubSeq(l, n + 1, Len(l))) = Len(l) - n
    BY <1>2, SuffixProperties
  <2>2. QED
    BY <1>1, <2>1, Zenon
<1>6. m.prevTerm \in Nat /\ m.prev = n
  BY <1>1, <1>2, TermAtType, Zenon
<1>7. IsPiece(m)
  BY <1>4, <1>5, <1>6, Zenon DEF IsPiece
<1>8. LastOf(m) = Len(l)
  BY <1>4, <1>5, <1>6 DEF LastOf
<1>9. QED
  BY <1>0, <1>1, <1>3, <1>7, <1>8, Zenon

\* Calls keep the entry.
LEMMA CallsStep ==
  ASSUME TypeOK, LogInv, CallMove, NEW S, NEW k \in Nat \ {0}, NEW t \in Nat, Pinned(S, k, t),
         NEW m \in requests'
  PROVE  CallKeeps(m, S, k, t)
<1>1. CASE m \in requests
  BY <1>1, Zenon DEF Pinned
<1>2. ASSUME NEW i \in Server, Sends(i), NEW p \in Server \ {i}, m = CallTo(i, p)
      PROVE  CallKeeps(m, S, k, t)
  <2>0. PICK l, T : l = log[i] /\ T = currentTerm[i]
    BY Zenon
  <2>1. nextIndex[i][p] - 1 \in 0..Len(log[i]) /\ p \in Server /\ status[i] = "leader"
    BY <1>2, Zenon DEF Sends
  <2>2. /\ m.term = T /\ IsPiece(m) /\ Part(m, Whole(l)) /\ LastOf(m) = Len(l)
    <3>1. /\ m.term = currentTerm[i] /\ IsPiece(m) /\ Part(m, Whole(log[i])) /\ LastOf(m) = Len(log[i])
      BY <1>2, <2>1, CallToFacts
    <3>2. QED
      BY <2>0, <3>1, Zenon
  <2>3. l \in Seq(Entry) /\ T \in Nat /\ SortedUpTo(l, T)
    BY <2>0, Zenon DEF TypeOK, LogInv, LogTermsSorted
  <2>4. Keeps(Whole(l), k, t) /\ (T >= t => Has(l, k, t))
    BY <2>0, <2>1, Zenon DEF Pinned, LeaderHas
  <2>5. Keeps(m, k, t)
    BY <2>2, <2>4, KeepsPart, Zenon
  <2>6. T >= t => Carries(m, k, t) /\ (m.prev >= k => m.prevTerm >= t)
    <3>1. Has(l, k, t) => k <= LastOf(m)
      BY <2>2 DEF Has
    <3>2. QED
      BY <2>2, <2>3, <2>4, <3>1, CallCarries, Zenon
  <2>7. m.term > t \/ m.term = t => T >= t
    BY <2>2, <2>3
  <2>8. QED
    BY <2>2, <2>5, <2>6, <2>7, Zenon DEF CallKeeps
<1>3. QED
  <2>1. CASE requests' \subseteq requests
    BY <1>1, <2>1, Zenon
  <2>2. ASSUME NEW i \in Server, Sends(i) PROVE CallKeeps(m, S, k, t)
    <3>1. m \in requests \/ \E p \in Server \ {i} : m = CallTo(i, p)
      <4>1. requests' = {n \in requests : n.from # i} \cup {CallTo(i, p) : p \in Server \ {i}}
        BY <2>2, Zenon DEF Sends
      <4>2. QED
        BY <4>1, Zenon
    <3>2. QED
      BY <1>1, <1>2, <2>2, <3>1, Zenon
  <2>3. QED
    BY <2>1, <2>2, Zenon DEF CallMove

\* A leader from term t on has the entry: it had it before, or it was elected
\* with the vote of a peer that pins the entry.
LEMMA LeaderHasStep ==
  ASSUME TypeOK, TypeOK', MatchInv, RoleInv', LeadMove, LeaderStep, LeaderAppendStep,
         NEW S \in SUBSET Server, S # {}, NEW k \in Nat \ {0}, NEW t \in Nat, Pinned(S, k, t),
         \A e \in elected' : \/ e \in elected \/ e.term <= t
                             \/ \E v \in votes : v.voter \in S /\ v.term = e.term /\ v.cand = e.server,
         NEW i \in Server, status'[i] = "leader", currentTerm'[i] >= t
  PROVE  Has(log'[i], k, t)
<1>0. PICK T : T = currentTerm[i]
  BY Zenon
<1>1. /\ log[i] \in Seq(Entry) /\ log'[i] \in Seq(Entry) /\ T \in Nat
      /\ currentTerm'[i] = T /\ T >= t
  BY <1>0, Zenon DEF TypeOK, LeadMove
<1>2. CASE status[i] = "leader"
  <2>1. Has(log[i], k, t)
    BY <1>0, <1>1, <1>2, Zenon DEF Pinned, LeaderHas
  <2>2. Len(log'[i]) >= Len(log[i]) /\ SubSeq(log'[i], 1, Len(log[i])) = log[i]
    BY <1>0, <1>1, <1>2, Zenon DEF LeaderAppendStep
  <2>3. QED
    BY <1>1, <2>1, <2>2, PrefixHas, Zenon
<1>3. CASE status[i] # "leader"
  <2>1. log'[i] = log[i] /\ \A e \in elected : e.term # T
    BY <1>1, <1>3, Zenon DEF LeadMove, LeaderStep
  <2>2. \E e \in elected : e.term = t
    <3>1. PICK q \in S : Has(log[q], k, t)
      BY Zenon DEF Pinned
    <3>2. log[q] \in Seq(Entry) /\ q \in Server
      BY <3>1, Zenon DEF TypeOK
    <3>3. k \in Covered(Whole(log[q])) /\ TermOf(Whole(log[q]), k) = t /\ k # 0
      BY <3>1, <3>2, HasWhole
    <3>4. TermsWon(Whole(log[q]))
      BY <3>2, Zenon DEF MatchInv, Pieces
    <3>5. QED
      BY <3>3, <3>4, Zenon DEF TermsWon
  <2>3. ~(T <= t) /\ T > t
    BY <1>1, <2>1, <2>2
  <2>4. PICK e : e \in elected' /\ e.term = T /\ e.server = i
    <3>1. [term |-> currentTerm'[i], server |-> i] \in elected'
      BY Zenon DEF RoleInv, RoleOK
    <3>2. QED
      BY <1>1, <3>1
  <2>5. PICK v \in votes : v.voter \in S /\ v.term = T /\ v.cand = i
    BY <2>1, <2>3, <2>4, Zenon
  <2>6. QED
    BY <1>0, <2>1, <2>3, <2>5, Zenon DEF Pinned, VoteKeeps, Open
<1>4. QED
  BY <1>2, <1>3, Zenon

\* A vote of a peer that pins the entry goes to a candidate that has it.
LEMMA VotesStep ==
  ASSUME TypeOK, TypeOK', RoleInv, LogInv, BallotInv, VoteMove, LogMove, ElectMove,
         TermAndVoteStep, NEW S \in SUBSET Server, NEW k \in Nat \ {0}, NEW t \in Nat,
         Pinned(S, k, t), NEW v \in votes', v.voter \in S, v.term > t,
         \A e \in elected' : e.term # v.term, currentTerm'[v.cand] = v.term
  PROVE  Has(log'[v.cand], k, t)
<1>0. PICK c, T : c = v.cand /\ T = v.term
  BY Zenon
<1>1. /\ c \in Server /\ T \in Nat /\ v.voter \in Server /\ currentTerm[c] \in Nat
      /\ log[c] \in Seq(Entry) /\ log[v.voter] \in Seq(Entry)
  <2>1. v \in [voter : Server, term : Nat, cand : Server]
    BY Zenon DEF TypeOK
  <2>2. c \in Server /\ T \in Nat /\ v.voter \in Server
    BY <1>0, <2>1, Zenon
  <2>3. QED
    BY <2>2, Zenon DEF TypeOK
<1>2. Open(T)
  BY <1>0, Zenon DEF ElectMove, Open
<1>3. T <= currentTerm[c] => currentTerm[c] = T
  <2>1. currentTerm'[c] >= currentTerm[c] /\ currentTerm'[c] = T
    BY <1>0, <1>1, Zenon DEF TermAndVoteStep
  <2>2. QED
    BY <1>1, <2>1
<1>4. CASE v \in votes
  <2>1. currentTerm[c] = T
    BY <1>0, <1>3, <1>4, Zenon DEF BallotInv
  <2>2. Has(log[c], k, t)
    BY <1>0, <1>2, <1>4, <2>1, Zenon DEF Pinned, VoteKeeps
  <2>3. log'[c] = log[c]
    BY <1>0, <1>1, <1>2, <2>1, OpenLog, Zenon
  <2>4. QED
    BY <1>0, <2>2, <2>3, Zenon
<1>5. CASE log' = log /\ v.voter = v.cand
  BY <1>5, Zenon DEF Pinned
<1>6. ASSUME log' = log, NEW m \in voteCalls, m.to = v.voter, m.from = v.cand, m.term = v.term,
             logNewer(m, log[m.to])
      PROVE  Has(log'[v.cand], k, t)
  <2>1. currentTerm[c] = T
    BY <1>0, <1>3, <1>6, Zenon DEF BallotInv
  <2>2. m.lastTerm = LastTerm(log[c]) /\ m.lastIndex = Len(log[c])
    BY <1>0, <1>2, <1>6, <2>1, Zenon DEF BallotInv
  <2>3. Has(log[v.voter], k, t) /\ Keeps(Whole(log[c]), k, t)
    BY <1>1, Zenon DEF Pinned
  <2>4. SortedUpTo(log[v.voter], currentTerm[v.voter]) /\ currentTerm[v.voter] \in Nat
    BY <1>1, Zenon DEF LogInv, LogTermsSorted, TypeOK
  <2>5. logNewer(m, log[v.voter])
    BY <1>6, Zenon
  <2>6. Has(log[c], k, t)
    BY <1>1, <2>2, <2>3, <2>4, <2>5, NewerHas, Zenon
  <2>7. QED
    BY <1>0, <1>6, <2>6, Zenon
<1>7. QED
  BY <1>4, <1>5, <1>6, Zenon DEF VoteMove

\* A pinned entry stays pinned, if whoever wins a later term has the vote of a
\* peer that pins it.
LEMMA PinnedStep ==
  ASSUME TypeOK, TypeOK', LogInv, MatchInv, RoleInv, RoleInv', BallotInv, LeaderStep,
         LeaderAppendStep, TermAndVoteStep, Moves,
         NEW S \in SUBSET Server, S # {}, NEW k \in Nat \ {0}, NEW t \in Nat, Pinned(S, k, t),
         \A e \in elected' : \/ e \in elected \/ e.term <= t
                             \/ \E v \in votes : v.voter \in S /\ v.term = e.term /\ v.cand = e.server
  PROVE  Pinned(S, k, t)'
<1>0. LogMove /\ CallMove /\ VoteMove /\ ElectMove /\ LeadMove
  BY Zenon DEF Moves
<1>1. \A i \in Server : Keeps(Whole(log'[i]), k, t)
  BY <1>0, KeepsStep, Zenon
<1>2. \A m \in requests' : CallKeeps(m, S, k, t)
  BY <1>0, CallsStep, Zenon
<1>3. \A q \in S : Has(log'[q], k, t) /\ currentTerm'[q] >= t
  BY <1>0, MemberStep, Zenon
<1>4. \A i \in Server : status'[i] = "leader" /\ currentTerm'[i] >= t => Has(log'[i], k, t)
  BY <1>0, LeaderHasStep, Zenon
<1>5. \A v \in votes' : v.voter \in S /\ v.term > t /\ (\A e \in elected' : e.term # v.term)
                          /\ currentTerm'[v.cand] = v.term => Has(log'[v.cand], k, t)
  BY <1>0, VotesStep, Zenon
<1>6. QED
  BY <1>1, <1>2, <1>3, <1>4, <1>5, Zenon DEF Pinned, LeaderHas, VoteKeeps, Open, Keeps, CallKeeps

-----------------------------------------------------------------------------
(* 3. The entries of a leader's own term *)

\* Fewer peers pin the entry as well.
LEMMA PinnedFewer ==
  ASSUME NEW S, NEW R \in SUBSET S, NEW k, NEW t, Pinned(S, k, t)'
  PROVE  Pinned(R, k, t)'
BY Zenon DEF Pinned, CallKeeps, VoteKeeps

\* A peer that takes a call with the entry joins those that pin it: no other
\* call of the term is under way to it, and it has not voted in a later term.
LEMMA PinnedMore ==
  ASSUME TypeOK, TypeOK', LogInv, MatchInv, RoleInv, OneWinnerPerTerm, RoundInv, VoteOfTerm',
         NEW i \in Server, status[i] = "leader", NEW m \in requests \cap awaiting[i], Takes(m),
         NEW k \in Nat \ {0}, NEW t \in Nat, t = currentTerm[i], Has(log[i], k, t), k <= LastOf(m),
         NEW S, Pinned(S, k, t)'
  PROVE  Pinned(S \cup {m.to}, k, t)'
<1>0. PICK q, l : q = m.to /\ l = log[q]
  BY Zenon
<1>1. m.from = i /\ m.term = t /\ Part(m, Whole(log[i]))
  BY Zenon DEF RoundInv
<1>2. m \in Request /\ q \in Server /\ l \in Seq(Entry) /\ log[i] \in Seq(Entry) /\ currentTerm[i] \in Nat
  <2>1. m \in Request /\ requests \subseteq Request
    BY Zenon DEF TypeOK
  <2>2. q \in Server
    BY <1>0, <2>1, Zenon DEF Request
  <2>3. QED
    BY <1>0, <2>1, <2>2, Zenon DEF TypeOK
<1>3. /\ HasPrev(l, m) /\ log'[q] = Extended(l, m) /\ currentTerm'[q] = t /\ requests' = requests \ {m}
  <2>1. log \in [Server -> Seq(Entry)] /\ currentTerm \in [Server -> Nat]
    BY Zenon DEF TypeOK
  <2>2. /\ HasPrev(log[m.to], m) /\ requests' = requests \ {m}
        /\ log' = [log EXCEPT ![m.to] = Extended(log[m.to], m)]
        /\ currentTerm' = [currentTerm EXCEPT ![m.to] = m.term]
    BY Zenon DEF Takes
  <2>3. QED
    BY <1>0, <1>1, <1>2, <2>1, <2>2, Zenon
<1>4. Has(log'[q], k, t)
  <2>1. Match(Whole(l), m) /\ IsPiece(m)
    BY <1>0, <1>2, TakenFacts, Zenon DEF Request, IsPiece
  <2>2. SortedUpTo(log[i], currentTerm[i])
    BY Zenon DEF LogInv, LogTermsSorted
  <2>3. Carries(m, k, t) /\ (m.prev >= k => m.prevTerm >= t)
    BY <1>1, <1>2, <2>1, <2>2, CallCarries, Zenon
  <2>4. Keeps(Whole(log'[q]), k, t)
    BY <1>2, Zenon DEF Pinned, Keeps
  <2>5. Keeps(Whole(Extended(l, m)), k, t)
    BY <1>3, <2>4, Zenon
  <2>6. Has(Extended(l, m), k, t)
    BY <1>2, <1>3, <2>1, <2>3, <2>5, ExtendedGets, Zenon
  <2>7. QED
    BY <1>3, <2>6, Zenon
<1>5. ASSUME NEW n \in requests', n.term = t, n.to = q PROVE FALSE
  <2>1. n \in requests /\ n # m
    BY <1>3, Zenon
  <2>2. [term |-> n.term, server |-> n.from] \in elected /\ [term |-> currentTerm[i], server |-> i] \in elected
    BY <2>1, Zenon DEF RoleInv, RoleOK, CallOK
  <2>3. PICK e, f \in elected : e.term = t /\ e.server = n.from /\ f.term = t /\ f.server = i
    BY <1>5, <2>2
  <2>4. n.from = i
    BY <2>3, Zenon DEF OneWinnerPerTerm
  <2>5. \A a, b \in requests : a.from = b.from /\ a.to = b.to => a = b
    BY Zenon DEF RoundInv
  <2>6. n.from = m.from /\ n.to = m.to /\ m \in requests
    BY <1>0, <1>1, <1>5, <2>4, Zenon
  <2>7. QED
    BY <2>1, <2>5, <2>6, Zenon
<1>6. ASSUME NEW v \in votes', v.voter = q, v.term > t PROVE FALSE
  <2>1. v.term <= currentTerm'[q]
    BY <1>6, Zenon DEF VoteOfTerm
  <2>2. v.term \in Nat
    <3>1. votes' \subseteq [voter : Server, term : Nat, cand : Server]
      BY Zenon DEF TypeOK
    <3>2. QED
      BY <3>1
  <2>3. QED
    BY <1>3, <1>6, <2>1, <2>2
<1>7. PICK R : R = S \cup {q}
  BY Zenon
<1>8. ASSUME NEW n \in requests' PROVE CallKeeps(n, R, k, t)
  <2>1. CallKeeps(n, S, k, t)
    BY Zenon DEF Pinned, CallKeeps, Keeps, Carries
  <2>2. QED
    BY <1>5, <1>7, <2>1, Zenon DEF CallKeeps
<1>9. \A p \in R : Has(log'[p], k, t) /\ currentTerm'[p] >= t
  <2>1. \A p \in S : Has(log'[p], k, t) /\ currentTerm'[p] >= t
    BY Zenon DEF Pinned, Has
  <2>2. currentTerm'[q] >= t
    BY <1>3
  <2>3. QED
    BY <1>4, <1>7, <2>1, <2>2, Zenon
<1>10. Pinned(R, k, t)'
  BY <1>6, <1>7, <1>8, <1>9, Zenon DEF Pinned, VoteKeeps
<1>11. QED
  BY <1>0, <1>7, <1>10, Zenon

\* A majority that has left the leader's term stays out of it, and
\* acknowledges nothing.
LEMMA OutvotedStep ==
  ASSUME TypeOK, TypeOK', RoundInv, TermAndVoteStep, NEW i \in Server, AckMove(i),
         status[i] = "leader", status'[i] = "leader", currentTerm'[i] = currentTerm[i],
         NEW k \in Nat, Outvoted(i, k)
  PROVE  Outvoted(i, k)'
<1>1. PICK V \in SUBSET Server :
        Majority(V) /\ \A q \in V : currentTerm[q] > currentTerm[i] /\ q \notin Acked(i, k)
  BY Zenon DEF Outvoted
<1>2. ASSUME NEW q \in V PROVE currentTerm'[q] > currentTerm'[i]
  <2>1. /\ currentTerm[q] \in Nat /\ currentTerm'[q] \in Nat /\ currentTerm[i] \in Nat
        /\ currentTerm'[q] >= currentTerm[q] /\ currentTerm[q] > currentTerm[i]
    BY <1>1, Zenon DEF TypeOK, TermAndVoteStep
  <2>2. QED
    BY <2>1
<1>3. ASSUME NEW q \in V, q \in Acked(i, k)' PROVE FALSE
  <2>1. PICK m \in requests \cap awaiting[i] : Takes(m) /\ q = m.to
    BY <1>1, <1>3, Zenon DEF AckMove
  <2>2. m.term = currentTerm[i] /\ ~OldTerm(m)
    BY <2>1, Zenon DEF RoundInv, Takes
  <2>3. ~(currentTerm[i] < currentTerm[q])
    BY <2>1, <2>2, Zenon DEF OldTerm
  <2>4. currentTerm[i] \in Nat /\ currentTerm[q] \in Nat /\ currentTerm[q] > currentTerm[i]
    BY <1>1, Zenon DEF TypeOK
  <2>5. QED
    BY <2>3, <2>4
<1>4. PICK R : R = Acked(i, k)'
  BY Zenon
<1>5. \A q \in V : currentTerm'[q] > currentTerm'[i] /\ q \notin R
  BY <1>2, <1>3, <1>4, Zenon
<1>6. QED
  BY <1>1, <1>4, <1>5, Zenon DEF Outvoted, Majority

\* Whoever wins a term has the votes of a majority, given before.
LEMMA WinnersVotes ==
  ASSUME WonByQuorum', ElectMove, NEW e \in elected', e \notin elected
  PROVE  \E V \in SUBSET Server :
           Majority(V) /\ \A q \in V : [voter |-> q, term |-> e.term, cand |-> e.server] \in votes
<1>1. votes' = votes
  BY Zenon DEF ElectMove
<1>2. QED
  BY <1>1, Zenon DEF WonByQuorum, HasQuorum, Majority

\* An entry of the leader's term that it had before the step.
LEMMA OldEntry ==
  ASSUME TypeOK, TypeOK', LogInv, MatchInv, RoleInv, RoleInv', BallotInv, LeaderStep,
         LeaderAppendStep, TermAndVoteStep, VoteOfTerm, VoteOfTerm', WonByQuorum',
         OneWinnerPerTerm, RoundInv, Moves,
         NEW i \in Server, status[i] = "leader", status'[i] = "leader",
         NEW t \in Nat, currentTerm[i] = t, currentTerm'[i] = t,
         NEW k \in Nat \ {0}, Has(log[i], k, t), Outvoted(i, k) \/ Pinned(Acked(i, k), k, t)
  PROVE  Outvoted(i, k)' \/ Pinned(Acked(i, k), k, t)'
<1>0. PICK S, R : S = Acked(i, k) /\ R = Acked(i, k)'
  BY Zenon
<1>1. S \in SUBSET Server /\ i \in S /\ S # {}
  BY <1>0, Zenon DEF Acked
<1>2. AckMove(i) /\ ElectMove
  BY Zenon DEF Moves
<1>3. ASSUME Outvoted(i, k) PROVE Outvoted(i, k)'
  BY <1>2, <1>3, OutvotedStep, Zenon
<1>4. ASSUME Pinned(S, k, t), ~Outvoted(i, k) PROVE Pinned(R, k, t)'
  <2>1. ASSUME NEW e \in elected', e \notin elected, ~(e.term <= t)
        PROVE  \E v \in votes : v.voter \in S /\ v.term = e.term /\ v.cand = e.server
    <3>1. PICK V \in SUBSET Server :
            Majority(V) /\ \A q \in V : [voter |-> q, term |-> e.term, cand |-> e.server] \in votes
      BY <1>2, <2>1, WinnersVotes, Zenon
    <3>2. ASSUME NEW q \in V PROVE currentTerm[q] > t
      <4>1. PICK v \in votes : v.voter = q /\ v.term = e.term
        BY <3>1, Zenon
      <4>2. e.term <= currentTerm[q]
        BY <4>1, Zenon DEF VoteOfTerm
      <4>3. e.term \in Nat /\ currentTerm[q] \in Nat
        <5>1. elected' \subseteq [term : Nat, server : Server] /\ currentTerm[q] \in Nat
          BY Zenon DEF TypeOK
        <5>2. QED
          BY <5>1
      <4>4. QED
        BY <2>1, <4>2, <4>3
    <3>3. PICK q \in V : q \in S
      BY <1>0, <1>4, <3>1, <3>2, Zenon DEF Outvoted
    <3>4. QED
      BY <3>1, <3>3, Zenon
  <2>2. Pinned(S, k, t)'
    BY <1>1, <1>4, <2>1, PinnedStep, Zenon
  <2>3. CASE R \subseteq S
    BY <2>2, <2>3, PinnedFewer, Zenon
  <2>4. ASSUME NEW m \in requests \cap awaiting[i], Takes(m), NEW q \in R, q \notin S, q = m.to,
               k <= LastOf(m), \A p \in R : p \in S \/ p = m.to
        PROVE  Pinned(R, k, t)'
    <3>1. Pinned(S \cup {m.to}, k, t)'
      BY <2>2, <2>4, PinnedMore, Zenon
    <3>2. R \in SUBSET (S \cup {m.to})
      BY <2>4, Zenon
    <3>3. QED
      BY <3>1, <3>2, PinnedFewer, Zenon
  <2>5. k \in Nat
    OBVIOUS
  <2>6. R \subseteq S \/ \E m \in requests \cap awaiting[i] :
                           Takes(m) /\ \A p \in R : p \in S \/ (p = m.to /\ k <= LastOf(m))
    BY <1>0, <1>2, <2>5, Zenon DEF AckMove
  <2>7. QED
    BY <2>3, <2>4, <2>6, Zenon
<1>5. Outvoted(i, k)' \/ Pinned(R, k, t)'
  BY <1>0, <1>3, <1>4, Zenon
<1>6. QED
  BY <1>0, <1>5, Zenon

\* While no later term has been won, nothing in any log or call is as recent as
\* the entry that a leader appends next.
LEMMA NothingNewer ==
  ASSUME TypeOK, RoleInv, MatchInv, NEW i \in Server, status[i] = "leader",
         NEW T \in Nat, T = currentTerm[i], \A f \in elected : ~(f.term > T),
         NEW x \in Pieces, NEW j \in Covered(x)
  PROVE  /\ TermOf(x, j) \in Nat /\ ~(TermOf(x, j) > T)
         /\ TermOf(x, j) >= T => j <= Len(log[i])
<1>1. TermsWon(x) /\ LeaderHolds(x)
  BY Zenon DEF MatchInv
<1>2. elected \subseteq [term : Nat, server : Server]
  BY Zenon DEF TypeOK
<1>3. 1 <= T
  <2>1. [term |-> currentTerm[i], server |-> i] \in elected /\ \A e \in elected : e.server = i => 1 <= e.term
    BY Zenon DEF RoleInv, RoleOK
  <2>2. QED
    BY <2>1
<1>4. TermOf(x, j) = 0 \/ \E e \in elected : e.term = TermOf(x, j)
  BY <1>1, Zenon DEF TermsWon
<1>5. TermOf(x, j) \in Nat /\ ~(TermOf(x, j) > T)
  BY <1>2, <1>3, <1>4
<1>6. TermOf(x, j) = T => j <= Len(log[i])
  BY <1>1, Zenon DEF LeaderHolds
<1>7. QED
  BY <1>5, <1>6

\* An entry that Start has just appended is pinned by the leader alone, or a
\* majority has left the term.
LEMMA FreshEntry ==
  ASSUME TypeOK, TypeOK', RoleInv, MatchInv, OneWinnerPerTerm, RoundInv, VoteOfTerm, WonByQuorum,
         NEW i \in Server, Appends(i), NEW T \in Nat, T = currentTerm[i],
         NEW k \in Nat \ {0}, k = Len(log[i]) + 1, Acked(i, k)' \subseteq {i}
  PROVE  Outvoted(i, k)' \/ Pinned(Acked(i, k), k, T)'
<1>0. PICK l, R : l = log[i] /\ R = Acked(i, k)'
  BY Zenon
<1>1. PICK e \in Entry : e.term = T /\ log' = [log EXCEPT ![i] = Append(l, e)]
  BY <1>0, Zenon DEF Appends
<1>2. /\ status[i] = "leader" /\ currentTerm' = currentTerm /\ status' = status
      /\ requests' = requests /\ votes' = votes /\ elected' = elected
  BY Zenon DEF Appends
<1>3. /\ log \in [Server -> Seq(Entry)] /\ l \in Seq(Entry) /\ currentTerm \in [Server -> Nat]
      /\ elected \subseteq [term : Nat, server : Server]
      /\ votes \subseteq [voter : Server, term : Nat, cand : Server] /\ requests \subseteq Request
  BY <1>0, Zenon DEF TypeOK
<1>4. Len(l) \in Nat /\ k = Len(l) + 1
  BY <1>0, <1>3, LenFacts
<1>5. PICK a : a = Append(l, e)
  BY Zenon
<1>6. log'[i] = a /\ \A j \in Server \ {i} : log'[j] = log[j]
  BY <1>1, <1>3, <1>5, Zenon
<1>7. /\ a \in Seq(Entry) /\ Len(a) = k /\ a[k] = e
      /\ \A j \in 1..Len(l) : a[j] = l[j]
  BY <1>3, <1>4, <1>5, AppendFacts
<1>8. CASE \E f \in elected : f.term > T
  <2>1. PICK f \in elected : f.term > T
    BY <1>8, Zenon
  <2>2. PICK V \in SUBSET Server :
          Majority(V) /\ \A q \in V : [voter |-> q, term |-> f.term, cand |-> f.server] \in votes
    BY <2>1, Zenon DEF WonByQuorum, HasQuorum
  <2>3. ASSUME NEW q \in V PROVE currentTerm[q] > T
    <3>1. PICK v \in votes : v.voter = q /\ v.term = f.term
      BY <2>2, Zenon
    <3>2. f.term <= currentTerm[q]
      BY <3>1, Zenon DEF VoteOfTerm
    <3>3. QED
      BY <1>3, <2>1, <3>2
  <2>4. i \notin V
    BY <2>3
  <2>5. \A q \in V : currentTerm'[q] > currentTerm'[i] /\ q \notin R
    BY <1>0, <1>2, <2>3, <2>4, Zenon
  <2>6. Outvoted(i, k)'
    BY <1>0, <2>2, <2>5, Zenon DEF Outvoted, Majority
  <2>7. QED
    BY <2>6, Zenon
<1>9. CASE \A f \in elected : ~(f.term > T)
  <2>1. ASSUME NEW x \in Pieces PROVE Keeps(x, k, T)
    <3>1. ASSUME NEW j \in Covered(x) PROVE TermOf(x, j) \in Nat /\ ~(TermOf(x, j) > T) /\ (TermOf(x, j) >= T => j <= Len(l))
      BY <1>0, <1>2, <1>9, <2>1, <3>1, NothingNewer, Zenon
    <3>2. QED
      BY <1>4, <3>1 DEF Keeps, Covered
  <2>2. ASSUME NEW j \in Server PROVE Keeps(Whole(log'[j]), k, T)
    <3>1. CASE j # i
      <4>1. Whole(log[j]) \in Pieces
        BY Zenon DEF Pieces
      <4>2. QED
        BY <1>6, <2>1, <3>1, <4>1, Zenon
    <3>2. CASE j = i
      <4>1. /\ Covered(Whole(a)) = 0..k /\ \A n \in 0..k : TermOf(Whole(a), n) = TermAt(a, n)
        BY <1>7, WholeFacts, Zenon
      <4>2. /\ Covered(Whole(l)) = 0..Len(l) /\ \A n \in 0..Len(l) : TermOf(Whole(l), n) = TermAt(l, n)
        BY <1>3, WholeFacts, Zenon
      <4>3. Keeps(Whole(l), k, T)
        <5>1. Whole(l) \in Pieces
          BY <1>0, Zenon DEF Pieces
        <5>2. QED
          BY <2>1, <5>1, Zenon
      <4>4. TermAt(a, k) = T /\ \A n \in 0..Len(l) : TermAt(a, n) = TermAt(l, n)
        BY <1>1, <1>4, <1>7 DEF TermAt
      <4>5. ASSUME NEW n \in 0..k PROVE TermAt(a, n) > T => n > k
        <5>1. CASE n \in 0..Len(l)
          BY <4>2, <4>3, <4>4, <5>1, Zenon DEF Keeps
        <5>2. CASE n = k
          BY <4>4, <5>2
        <5>3. QED
          BY <1>4, <5>1, <5>2
      <4>6. Keeps(Whole(a), k, T)
        BY <4>1, <4>4, <4>5 DEF Keeps
      <4>7. QED
        BY <1>6, <3>2, <4>6, Zenon
    <3>3. QED
      BY <3>1, <3>2, Zenon
  <2>3. \A f \in elected : f.term >= T => f.term = T /\ f.server = i
    <3>1. PICK g \in elected : g.term = T /\ g.server = i
      <4>1. [term |-> currentTerm[i], server |-> i] \in elected
        BY <1>2, Zenon DEF RoleInv, RoleOK
      <4>2. QED
        BY <4>1
    <3>2. \A f \in elected : f.term >= T => f.term = T
      BY <1>3, <1>9
    <3>3. QED
      BY <3>1, <3>2, Zenon DEF OneWinnerPerTerm
  <2>4. ASSUME NEW m \in requests PROVE CallKeeps(m, {i}, k, T)
    <3>1. m \in Pieces /\ m.term \in Nat /\ m.prev \in Nat /\ Len(m.entries) \in Nat
      BY <1>3 DEF Pieces, Request
    <3>2. m.from # m.to /\ \E f \in elected : f.term = m.term /\ f.server = m.from
      <4>1. m.from # m.to /\ [term |-> m.term, server |-> m.from] \in elected
        BY Zenon DEF RoleInv, CallOK
      <4>2. QED
        BY <4>1
    <3>3. m.term >= T => m.term = T /\ m.from = i
      BY <2>3, <3>2, Zenon
    <3>4. ~(m.term > T) /\ (m.term = T => m.term >= T)
      BY <3>1, <3>3
    <3>5. ASSUME m.term >= T PROVE ~(m.prev >= k)
      <4>1. Part(m, Whole(l))
        BY <1>0, <1>2, <3>3, <3>5, Zenon DEF RoundInv
      <4>2. m.prev \in Covered(m)
        BY <3>1 DEF Covered
      <4>3. m.prev \in 0..Len(l)
        BY <1>3, <4>1, <4>2, WholeFacts, ZenonT(30) DEF Part
      <4>4. QED
        BY <1>4, <4>3
    <3>6. QED
      BY <2>1, <3>1, <3>2, <3>3, <3>4, <3>5, Zenon DEF CallKeeps
  <2>5. Has(log'[i], k, T) /\ currentTerm'[i] >= T
    BY <1>1, <1>2, <1>3, <1>4, <1>6, <1>7 DEF Has
  <2>6. ASSUME NEW j \in Server, status'[j] = "leader", currentTerm'[j] >= T PROVE Has(log'[j], k, T)
    <3>1. PICK f \in elected : f.term = currentTerm[j] /\ f.server = j
      <4>1. [term |-> currentTerm[j], server |-> j] \in elected
        BY <1>2, <2>6, Zenon DEF RoleInv, RoleOK
      <4>2. QED
        BY <4>1
    <3>2. j = i
      BY <1>2, <2>3, <2>6, <3>1, Zenon
    <3>3. QED
      BY <2>5, <3>2, Zenon
  <2>7. ASSUME NEW v \in votes, v.voter = i, v.term > T PROVE FALSE
    <3>1. v.term <= currentTerm[i] /\ v.term \in Nat
      BY <1>3, <2>7 DEF VoteOfTerm
    <3>2. QED
      BY <2>7, <3>1
  <2>8. Pinned({i}, k, T)'
    BY <1>2, <2>2, <2>4, <2>5, <2>6, <2>7, Zenon DEF Pinned, LeaderHas, VoteKeeps
  <2>9. R \in SUBSET {i}
    BY <1>0, Zenon
  <2>10. Pinned(R, k, T)'
    BY <2>8, <2>9, PinnedFewer, Zenon
  <2>11. QED
    BY <1>0, <2>10, Zenon
<1>10. QED
  BY <1>8, <1>9, Zenon

\* Nobody but the leader has acknowledged an entry that it has just appended.
LEMMA FreshAcked ==
  ASSUME TypeOK, IndexInv, NEW i \in Server, Appends(i), AckMove(i), NEW k \in Nat, k = Len(log[i]) + 1
  PROVE  Acked(i, k)' \subseteq {i}
<1>1. status[i] = "leader" /\ status'[i] = "leader" /\ requests' = requests
  BY Zenon DEF Appends
<1>2. Acked(i, k)' \subseteq Acked(i, k)
  <2>1. ASSUME NEW m \in requests, Takes(m) PROVE FALSE
    <3>1. requests' = requests \ {m}
      BY <2>1, Zenon DEF Takes
    <3>2. QED
      BY <1>1, <3>1, Zenon
  <2>2. QED
    BY <1>1, <2>1, Zenon DEF AckMove
<1>3. /\ \A p \in Server : matchIndex[i][p] \in 0 .. Len(log[i])
      /\ \A r \in replies[i] : r.prev + r.sent <= Len(log[i])
  BY <1>1, Zenon DEF IndexInv, IndexOK
<1>4. PICK n : n = Len(log[i])
  BY Zenon
<1>5. n \in Nat
  <2>1. log[i] \in Seq(Entry)
    BY Zenon DEF TypeOK
  <2>2. QED
    BY <1>4, <2>1, LenFacts, Zenon
<1>6. \A p \in Server : ~(matchIndex[i][p] >= k)
  BY <1>3, <1>4, <1>5
<1>7. \A r \in replies[i] : ~(r.prev + r.sent >= k)
  <2>1. replies[i] \subseteq AppendReply
    BY Zenon DEF TypeOK
  <2>2. ASSUME NEW r \in replies[i] PROVE ~(r.prev + r.sent >= k)
    <3>1. r.prev \in Nat /\ r.sent \in Nat
      BY <2>1 DEF AppendReply
    <3>2. r.prev + r.sent <= n
      BY <1>3, <1>4, Zenon
    <3>3. QED
      BY <1>4, <1>5, <3>1, <3>2
  <2>3. QED
    BY <2>2, Zenon
<1>8. Acked(i, k) \subseteq {i}
  BY <1>6, <1>7, Zenon DEF Acked
<1>9. QED
  BY <1>2, <1>8, Zenon

\* Every entry of a leader's own term is pinned by those that acknowledged it,
\* or a majority has left the term.
LEMMA EntriesStep ==
  ASSUME TypeOK, TypeOK', LogInv, MatchInv, RoleInv, RoleInv', BallotInv, LeaderStep,
         LeaderAppendStep, TermAndVoteStep, VoteOfTerm, VoteOfTerm', WonByQuorum, WonByQuorum',
         OneWinnerPerTerm, RoundInv, IndexInv, Moves, NEW i \in Server, LeaderEntries(i)
  PROVE  LeaderEntries(i)'
<1>0. SUFFICES ASSUME status'[i] = "leader", NEW k \in 1..Len(log'[i]), log'[i][k].term = currentTerm'[i]
               PROVE  Outvoted(i, k)' \/ Pinned(Acked(i, k), k, currentTerm[i])'
  BY Zenon DEF LeaderEntries
<1>1. PICK T, l, x : T = currentTerm[i] /\ l = log[i] /\ x = log'[i]
  BY Zenon
<1>2. LogMove /\ LeadMove /\ AckMove(i)
  BY Zenon DEF Moves
<1>3. T \in Nat /\ l \in Seq(Entry) /\ x \in Seq(Entry) /\ currentTerm'[i] = T
  BY <1>0, <1>1, <1>2, Zenon DEF TypeOK, LeadMove
<1>4. k \in Nat \ {0} /\ k \in Nat /\ Len(l) \in Nat /\ Len(x) \in Nat /\ Has(x, k, T)
  <2>1. Len(l) \in Nat /\ Len(x) \in Nat /\ k \in 1..Len(x) /\ x[k].term = T
    BY <1>0, <1>1, <1>3, LenFacts, Zenon
  <2>2. QED
    BY <2>1 DEF Has
<1>5. status[i] = "leader"
  <2> SUFFICES ASSUME status[i] # "leader" PROVE FALSE
    BY Zenon
  <2>1. l = x /\ \A e \in elected : e.term # T
    BY <1>0, <1>1, <1>2, <1>3, Zenon DEF LeadMove, LeaderStep
  <2>2. k \in Covered(Whole(l)) /\ TermOf(Whole(l), k) = T /\ k # 0
    BY <1>3, <1>4, <2>1, HasWhole
  <2>3. TermsWon(Whole(l))
    BY <1>1, Zenon DEF MatchInv, Pieces
  <2>4. QED
    BY <2>1, <2>2, <2>3, Zenon DEF TermsWon
<1>6. Len(x) >= Len(l) /\ SubSeq(x, 1, Len(l)) = l
  BY <1>0, <1>1, <1>3, <1>5, Zenon DEF LeaderAppendStep
<1>7. CASE k <= Len(l)
  <2>1. Has(l, k, T)
    <3>1. k \in 1..Len(l) /\ SubSeq(x, 1, Len(l))[k] = x[k]
      BY <1>3, <1>4, <1>6, <1>7
    <3>2. QED
      BY <1>4, <1>6, <3>1, Zenon DEF Has
  <2>2. Outvoted(i, k) \/ Pinned(Acked(i, k), k, T)
    BY <1>1, <1>5, <2>1, Zenon DEF LeaderEntries, Has
  <2>3. Outvoted(i, k)' \/ Pinned(Acked(i, k), k, T)'
    <3>1. Has(log[i], k, T) /\ currentTerm[i] = T
      BY <1>1, <2>1, ZenonT(30)
    <3>2. QED
      BY <1>0, <1>3, <1>4, <1>5, <2>2, <3>1, OldEntry, ZenonT(30)
  <2>4. QED
    BY <1>3, <2>3, Zenon
<1>8. CASE ~(k <= Len(l))
  <2>1. x # l
    BY <1>4, <1>8 DEF Has
  <2>2. ASSUME NEW m \in requests, Takes(m) PROVE FALSE
    <3>1. log \in [Server -> Seq(Entry)] /\ currentTerm \in [Server -> Nat]
      BY Zenon DEF TypeOK
    <3>2. /\ log' = [log EXCEPT ![m.to] = Extended(log[m.to], m)]
          /\ currentTerm' = [currentTerm EXCEPT ![m.to] = m.term]
      BY <2>2, Zenon DEF Takes
    <3>3. m.to = i
      BY <1>1, <2>1, <3>1, <3>2, Zenon
    <3>4. m.term = T
      BY <1>3, <3>1, <3>2, <3>3, Zenon
    <3>5. /\ m.from # m.to /\ [term |-> m.term, server |-> m.from] \in elected
          /\ [term |-> currentTerm[i], server |-> i] \in elected
      BY <1>5, Zenon DEF RoleInv, RoleOK, CallOK
    <3>6. PICK e, f \in elected : e.term = T /\ e.server = m.from /\ f.term = T /\ f.server = i
      BY <1>1, <3>4, <3>5
    <3>7. QED
      BY <3>3, <3>5, <3>6, Zenon DEF OneWinnerPerTerm
  <2>3. Appends(i)
    <3>1. PICK j \in Server : Appends(j)
      BY <1>1, <1>2, <2>1, <2>2, Zenon DEF LogMove
    <3>2. PICK a : log' = [log EXCEPT ![j] = a]
      BY <3>1, Zenon DEF Appends
    <3>3. log \in [Server -> Seq(Entry)]
      BY Zenon DEF TypeOK
    <3>4. j = i
      BY <1>1, <2>1, <3>2, <3>3, Zenon
    <3>5. QED
      BY <3>1, <3>4, Zenon
  <2>4. k = Len(l) + 1
    <3>1. PICK e \in Entry : log' = [log EXCEPT ![i] = Append(l, e)]
      BY <1>1, <2>3, Zenon DEF Appends
    <3>2. log \in [Server -> Seq(Entry)]
      BY Zenon DEF TypeOK
    <3>3. x = Append(l, e)
      BY <1>1, <3>1, <3>2, Zenon
    <3>4. Len(x) = Len(l) + 1
      BY <1>3, <3>3, AppendFacts, Zenon
    <3>5. QED
      BY <1>4, <1>8, <3>4 DEF Has
  <2>5. k = Len(log[i]) + 1
    BY <1>1, <2>4, Zenon
  <2>6. Acked(i, k)' \subseteq {i}
    BY <1>2, <1>4, <2>3, <2>5, FreshAcked, Zenon
  <2>7. Outvoted(i, k)' \/ Pinned(Acked(i, k), k, T)'
    BY <1>1, <1>3, <1>4, <2>3, <2>5, <2>6, FreshEntry, Zenon
  <2>8. QED
    BY <1>3, <2>7, Zenon
<1>9. QED
  BY <1>7, <1>8, Zenon

-----------------------------------------------------------------------------
(* 4. Chosen entries *)

\* A chosen entry is an entry of somebody.
LEMMA ChosenFacts ==
  ASSUME Majority(Server), NEW S \in SUBSET Server, NEW k \in Nat, NEW t, Chosen(S, k, t)
  PROVE  S # {} /\ k \in Nat \ {0}
<1>1. PICK q \in Server : q \in S
  BY Zenon DEF Chosen, Blocking
<1>2. k \in 1..Len(log[q])
  BY <1>1, Zenon DEF Chosen, Pinned, Has
<1>3. QED
  BY <1>1, <1>2

\* A chosen entry stays chosen: whoever wins an election has a vote from those
\* that pin it.
LEMMA ChosenStep ==
  ASSUME TypeOK, TypeOK', LogInv, MatchInv, RoleInv, RoleInv', BallotInv, LeaderStep,
         LeaderAppendStep, TermAndVoteStep, WonByQuorum', Moves, Majority(Server),
         NEW S \in SUBSET Server, NEW k \in Nat, NEW t \in Nat, Chosen(S, k, t)
  PROVE  Chosen(S, k, t)'
<1>1. S # {} /\ k \in Nat \ {0}
  BY ChosenFacts, Zenon
<1>2. Pinned(S, k, t) /\ Blocking(S) /\ ElectMove
  BY Zenon DEF Chosen, Moves
<1>3. ASSUME NEW e \in elected', e \notin elected
      PROVE  \E v \in votes : v.voter \in S /\ v.term = e.term /\ v.cand = e.server
  <2>1. PICK V \in SUBSET Server :
          Majority(V) /\ \A q \in V : [voter |-> q, term |-> e.term, cand |-> e.server] \in votes
    BY <1>2, <1>3, WinnersVotes, Zenon
  <2>2. PICK q \in V : q \in S
    BY <1>2, <2>1, Zenon DEF Blocking
  <2>3. QED
    BY <2>1, <2>2, Zenon
<1>4. Pinned(S, k, t)'
  BY <1>1, <1>2, <1>3, PinnedStep, Zenon
<1>5. Blocking(S)'
  BY <1>2, Zenon DEF Blocking, Majority
<1>6. QED
  BY <1>4, <1>5, Zenon DEF Chosen

\* Logs that match and have the entry hold the same entries up to it.
LEMMA SameUpTo ==
  ASSUME NEW x \in Seq(Entry), NEW y \in Seq(Entry), Match(Whole(x), Whole(y)),
         NEW k \in Nat \ {0}, NEW u, Has(x, k, u), Has(y, k, u), NEW j \in 1..k
  PROVE  x[j] = y[j]
<1>1. k \in Covered(Whole(x)) \cap Covered(Whole(y)) /\ TermOf(Whole(x), k) = TermOf(Whole(y), k)
  BY HasWhole, Zenon
<1>2. j \in 1..Len(x) /\ j \in 1..Len(y) /\ j <= k /\ j \in 0..Len(x) /\ j \in 0..Len(y)
  <2>1. k \in 1..Len(x) /\ k \in 1..Len(y) /\ Len(x) \in Nat /\ Len(y) \in Nat
    BY LenFacts, Zenon DEF Has
  <2>2. QED
    BY <2>1
<1>3. /\ j \in Covered(Whole(x)) \cap Covered(Whole(y)) /\ j \in Held(Whole(x)) /\ j \in Held(Whole(y))
      /\ EntryOf(Whole(x), j) = x[j] /\ EntryOf(Whole(y), j) = y[j]
  BY <1>2, WholeFacts
<1>4. Same(Whole(x), Whole(y), j)
  BY <1>1, <1>2, <1>3, Zenon DEF Match
<1>5. QED
  BY <1>3, <1>4, Zenon DEF Same

\* A log matches what it was before the step.
LEMMA LogMatchesOld ==
  ASSUME TypeOK, LogInv, MatchInv, LogMove, NEW q \in Server
  PROVE  Match(Whole(log'[q]), Whole(log[q]))
<1>0. PICK l : l = log[q]
  BY Zenon
<1>1. l \in Seq(Entry) /\ Whole(l) \in Pieces
  BY <1>0, Zenon DEF TypeOK, Pieces
<1>2. CASE log'[q] = l
  BY <1>0, <1>2, MatchSelf, Zenon
<1>3. CASE Grows(q)
  <2>1. PICK e \in Entry : log'[q] = Append(l, e)
    BY <1>0, <1>3, Zenon DEF Grows
  <2>2. PICK a : a = Append(l, e)
    BY Zenon
  <2>3. a \in Seq(Entry) /\ Len(l) <= Len(a) /\ \A k \in 1..Len(l) : l[k] = a[k]
    BY <1>1, <2>2, AppendFacts, LenFacts
  <2>4. Part(Whole(l), Whole(a))
    BY <1>1, <2>3, PrefixPart, Zenon
  <2>5. Match(Whole(l), Whole(a))
    BY <2>4, MatchSelf, MatchPart, Zenon
  <2>6. QED
    BY <1>0, <2>1, <2>2, <2>5, MatchSymmetric, Zenon
<1>4. ASSUME NEW m \in requests, TakenBy(q, m) PROVE Match(Whole(log'[q]), Whole(log[q]))
  <2>1. m \in Request /\ Match(Whole(l), m) /\ HasPrev(l, m) /\ log'[q] = Extended(l, m)
    BY <1>0, <1>4, TakenFacts, Zenon DEF TakenBy
  <2>2. PICK x : x = Whole(Extended(l, m))
    BY Zenon
  <2>3. /\ IsPiece(x) /\ m.prev \in Covered(x)
        /\ \A k \in Covered(x) : k <= m.prev => k \in Covered(Whole(l)) /\ TermOf(x, k) = TermOf(Whole(l), k)
        /\ \A k \in Held(x) : k <= m.prev => k \in Held(Whole(l)) /\ EntryOf(x, k) = EntryOf(Whole(l), k)
        /\ \A k \in Covered(x) : m.prev <= k => k \in Covered(m) /\ TermOf(x, k) = TermOf(m, k)
        /\ \A k \in Held(x) : m.prev < k => k \in Held(m) /\ EntryOf(x, k) = EntryOf(m, k)
    BY <1>1, <2>1, <2>2, ExtendedIsJoin, Zenon
  <2>4. IsPiece(Whole(l)) /\ Match(Whole(l), Whole(l)) /\ Match(m, Whole(l))
    BY <1>1, <2>1, WholeFacts, MatchSelf, MatchSymmetric, ZenonT(30)
  <2>5. Match(x, Whole(l))
    BY <2>3, <2>4, MatchJoin
  <2>6. QED
    BY <1>0, <2>1, <2>2, <2>5, Zenon
<1>5. QED
  BY <1>0, <1>2, <1>3, <1>4, LogCases, Zenon

\* What a peer commits is chosen, and the peer has it.
LEMMA CommitsChosen ==
  ASSUME TypeOK, TypeOK', LogInv, MatchInv, RoleInv, RoleInv', BallotInv, LeaderStep,
         LeaderAppendStep, TermAndVoteStep, WonByQuorum', Moves, Majority(Server), CommitInv,
         NEW i \in Server, Commits(i)
  PROVE  \E S \in SUBSET Server, k \in Nat, u \in Nat :
           Chosen(S, k, u)' /\ commitIndex'[i] <= k /\ u <= currentTerm'[i] /\ Has(log'[i], k, u)
<1>0. commitIndex'[i] \in Nat /\ currentTerm[i] \in Nat /\ log[i] \in Seq(Entry)
  BY Zenon DEF TypeOK
<1>1. ASSUME NEW m \in requests, m.to = i, Takes(m), m.commit # 0, commitIndex'[i] <= m.commit
      PROVE  \E S \in SUBSET Server, k \in Nat, u \in Nat :
               Chosen(S, k, u)' /\ commitIndex'[i] <= k /\ u <= currentTerm'[i] /\ Has(log'[i], k, u)
  <2>1. PICK S \in SUBSET Server, k \in Nat, u \in Nat :
          Chosen(S, k, u) /\ m.commit <= k /\ u <= m.term /\ Carries(m, k, u)
    BY <1>1, Zenon DEF CommitInv, CallSettled
  <2>2. Chosen(S, k, u)' /\ k \in Nat \ {0}
    BY <2>1, ChosenStep, ChosenFacts, Zenon
  <2>3. m \in Request /\ m.commit \in Nat /\ m.term \in Nat /\ Match(Whole(log[i]), m)
    BY TakenFacts, ZenonT(30) DEF Request
  <2>4. commitIndex'[i] <= k
    BY <1>0, <1>1, <2>1, <2>3
  <2>5. HasPrev(log[i], m) /\ log'[i] = Extended(log[i], m) /\ currentTerm'[i] = m.term
    <3>1. log \in [Server -> Seq(Entry)] /\ currentTerm \in [Server -> Nat]
      BY Zenon DEF TypeOK
    <3>2. QED
      BY <1>1, <3>1, Zenon DEF Takes
  <2>6. m.prev >= k => m.prevTerm >= u
    <3>1. m.term >= u
      BY <2>1, <2>3
    <3>2. QED
      BY <2>1, <3>1, Zenon DEF Chosen, Pinned, CallKeeps
  <2>7. Keeps(Whole(log'[i]), k, u)
    <3>1. LogMove /\ Pinned(S, k, u)
      BY <2>1, Zenon DEF Moves, Chosen
    <3>2. QED
      BY <2>2, <3>1, KeepsStep, Zenon
  <2>8. Has(Extended(log[i], m), k, u)
    <3>1. Keeps(Whole(Extended(log[i], m)), k, u)
      BY <2>5, <2>7, Zenon
    <3>2. QED
      BY <1>0, <2>1, <2>2, <2>3, <2>5, <2>6, <3>1, ExtendedGets, ZenonT(30)
  <2>9. QED
    BY <2>1, <2>2, <2>4, <2>5, <2>8, Zenon
<1>2. ASSUME status[i] = "leader", log' = log, currentTerm' = currentTerm,
             commitIndex'[i] \in 0..Len(log[i]),
             TermAt(log[i], commitIndex'[i]) >= currentTerm[i],
             Blocking(Acked(i, commitIndex'[i]))
      PROVE  \E S \in SUBSET Server, k \in Nat, u \in Nat :
               Chosen(S, k, u)' /\ commitIndex'[i] <= k /\ u <= currentTerm'[i] /\ Has(log'[i], k, u)
  <2>0. PICK n, l, T : n = commitIndex'[i] /\ l = log[i] /\ T = currentTerm[i]
    BY Zenon
  <2>1. 1 <= T
    <3>1. [term |-> currentTerm[i], server |-> i] \in elected /\ \A e \in elected : e.server = i => 1 <= e.term
      BY <1>2, Zenon DEF RoleInv, RoleOK
    <3>2. QED
      BY <2>0, <3>1
  <2>2. /\ n \in Nat /\ n \in 0..Len(l) /\ T \in Nat /\ l \in Seq(Entry) /\ TermAt(l, n) >= T
        /\ Blocking(Acked(i, n)) /\ SortedUpTo(l, T)
    BY <1>0, <1>2, <2>0, ZenonT(30) DEF LogInv, LogTermsSorted
  <2>3. n # 0
    BY <2>1, <2>2 DEF TermAt
  <2>4. n \in 1..Len(l) /\ Len(l) \in Nat
    BY <2>2, <2>3, LenFacts
  <2>5. l[n].term = T
    <3>1. TermAt(l, n) <= T /\ TermAt(l, n) = l[n].term /\ l[n].term \in Nat
      BY <2>2, <2>4, EntryTerm, Zenon DEF SortedUpTo
    <3>2. QED
      BY <2>2, <3>1
  <2>6. Has(l, n, T)
    BY <2>4, <2>5, Zenon DEF Has
  <2>7. Outvoted(i, n) \/ Pinned(Acked(i, n), n, T)
    BY <1>2, <2>0, <2>4, <2>5, Zenon DEF CommitInv, LeaderEntries
  <2>8. ~Outvoted(i, n)
    BY <2>2, Zenon DEF Outvoted, Blocking
  <2>9. PICK S : S = Acked(i, n)
    BY Zenon
  <2>10. S \in SUBSET Server /\ Chosen(S, n, T)
    BY <2>2, <2>7, <2>8, <2>9, Zenon DEF Chosen, Acked
  <2>11. Chosen(S, n, T)'
    BY <2>2, <2>10, ChosenStep, Zenon
  <2>12. commitIndex'[i] <= n /\ T <= currentTerm'[i] /\ Has(log'[i], n, T)
    <3>1. n <= n /\ T <= T
      BY <2>2
    <3>2. QED
      BY <1>2, <2>0, <2>6, <3>1, Zenon
  <2>13. QED
    BY <2>2, <2>10, <2>11, <2>12, Zenon
<1>3. QED
  BY <1>1, <1>2, Zenon DEF Commits

\* What is committed, sent as committed or applied stays settled.
LEMMA CommitStep ==
  ASSUME TypeOK, TypeOK', LogInv, MatchInv, MatchInv', RoleInv, RoleInv', BallotInv, LeaderStep,
         LeaderAppendStep, TermAndVoteStep, VoteOfTerm, VoteOfTerm', WonByQuorum, WonByQuorum',
         OneWinnerPerTerm, RoundInv, IndexInv, Moves, Majority(Server), CommitInv
  PROVE  CommitInv'
<1>0. /\ CallMove /\ CommitMove /\ LogMove
      /\ \A S \in SUBSET Server, k \in Nat, u \in Nat : Chosen(S, k, u) => Chosen(S, k, u)'
  BY ChosenStep, Zenon DEF Moves
<1>1. ASSUME NEW i \in Server PROVE LeaderEntries(i)'
  <2>1. LeaderEntries(i)
    BY Zenon DEF CommitInv
  <2>2. QED
    BY <2>1, EntriesStep, Zenon
<1>2. ASSUME NEW i \in Server PROVE Settled(commitIndex[i], currentTerm[i])'
  <2>1. currentTerm[i] \in Nat /\ currentTerm'[i] \in Nat /\ currentTerm'[i] >= currentTerm[i]
    BY Zenon DEF TypeOK, TermAndVoteStep
  <2>2. CASE commitIndex'[i] = commitIndex[i]
    <3>1. CASE commitIndex[i] = 0
      BY <2>2, <3>1, Zenon DEF Settled
    <3>2. ASSUME NEW S \in SUBSET Server, NEW k \in Nat, NEW u \in Nat, Chosen(S, k, u),
                 commitIndex[i] <= k, u <= currentTerm[i]
          PROVE  Settled(commitIndex[i], currentTerm[i])'
      <4>1. u <= currentTerm'[i]
        BY <2>1, <3>2
      <4>2. Chosen(S, k, u)' /\ commitIndex'[i] <= k
        BY <1>0, <2>2, <3>2, Zenon
      <4>3. QED
        BY <4>1, <4>2, Zenon DEF Settled
    <3>3. QED
      BY <3>1, <3>2, Zenon DEF CommitInv, Settled
  <2>3. CASE Commits(i)
    <3>1. \E S \in SUBSET Server, k \in Nat, u \in Nat :
            Chosen(S, k, u)' /\ commitIndex'[i] <= k /\ u <= currentTerm'[i]
      BY <2>3, CommitsChosen, Zenon
    <3>2. QED
      BY <3>1, Zenon DEF Settled
  <2>4. QED
    BY <1>0, <2>2, <2>3, Zenon DEF CommitMove
<1>3. ASSUME NEW m \in requests' PROVE CallSettled(m)'
  <2>1. CASE m \in requests
    <3>1. \/ m.commit = 0
          \/ \E S \in SUBSET Server, k \in Nat, u \in Nat :
               Chosen(S, k, u) /\ m.commit <= k /\ u <= m.term /\ Carries(m, k, u)
      BY <2>1, Zenon DEF CommitInv, CallSettled
    <3>2. \/ m.commit = 0
          \/ \E S \in SUBSET Server, k \in Nat, u \in Nat :
               Chosen(S, k, u)' /\ m.commit <= k /\ u <= m.term /\ Carries(m, k, u)
      BY <1>0, <3>1, Zenon
    <3>3. QED
      BY <3>2, Zenon DEF CallSettled, Carries
  <2>2. ASSUME NEW i \in Server, Sends(i), NEW p \in Server, nextIndex[i][p] - 1 \in 0..Len(log[i]),
               m = CallTo(i, p)
        PROVE  CallSettled(m)'
    <3>0. PICK l, T : l = log[i] /\ T = currentTerm[i]
      BY Zenon
    <3>1. /\ m.term = T /\ m.commit = commitIndex[i] /\ IsPiece(m) /\ Part(m, Whole(l)) /\ LastOf(m) = Len(l)
      <4>1. /\ m.term = currentTerm[i] /\ m.commit = commitIndex[i] /\ IsPiece(m)
            /\ Part(m, Whole(log[i])) /\ LastOf(m) = Len(log[i])
        BY <2>2, CallToFacts
      <4>2. QED
        BY <3>0, <4>1, ZenonT(30)
    <3>2. l \in Seq(Entry) /\ T \in Nat /\ SortedUpTo(l, T) /\ status[i] = "leader"
      BY <2>2, <3>0, Zenon DEF TypeOK, LogInv, LogTermsSorted, Sends
    <3>3. ASSUME NEW S \in SUBSET Server, NEW k \in Nat, NEW u \in Nat, Chosen(S, k, u),
                 commitIndex[i] <= k, u <= currentTerm[i]
          PROVE  CallSettled(m)'
      <4>1. Has(l, k, u)
        <5>1. T >= u
          BY <3>0, <3>2, <3>3
        <5>2. QED
          BY <3>0, <3>2, <3>3, <5>1, ZenonT(30) DEF Chosen, Pinned, LeaderHas
      <4>2. k \in Nat \ {0} /\ k <= LastOf(m)
        BY <3>1, <3>2, <4>1, LenFacts DEF Has
      <4>3. Carries(m, k, u)
        BY <3>1, <3>2, <4>1, <4>2, CallCarries, Zenon
      <4>4. Chosen(S, k, u)' /\ m.commit <= k /\ u <= m.term
        BY <1>0, <3>0, <3>1, <3>3, Zenon
      <4>5. QED
        BY <4>3, <4>4, Zenon DEF CallSettled, Carries
    <3>4. CASE commitIndex[i] = 0
      BY <3>1, <3>4, Zenon DEF CallSettled
    <3>5. QED
      BY <3>3, <3>4, Zenon DEF CommitInv, Settled
  <2>3. QED
    <3>1. ASSUME NEW i \in Server, Sends(i), m \notin requests PROVE CallSettled(m)'
      <4>1. /\ requests' = {n \in requests : n.from # i} \cup {CallTo(i, p) : p \in Server \ {i}}
            /\ \A p \in Server \ {i} : nextIndex[i][p] - 1 \in 0..Len(log[i])
        BY <3>1, Zenon DEF Sends
      <4>2. PICK p \in Server \ {i} : m = CallTo(i, p)
        BY <3>1, <4>1, Zenon
      <4>3. QED
        BY <2>2, <3>1, <4>1, <4>2, Zenon
    <3>2. QED
      BY <1>0, <2>1, <3>1, Zenon DEF CallMove
<1>4. ASSUME NEW a \in applied' PROVE AppliedSettled(a)'
  <2>0. log \in [Server -> Seq(Entry)] /\ log' \in [Server -> Seq(Entry)]
    BY Zenon DEF TypeOK
  <2>1. CASE a \in applied
    <3>1. PICK S \in SUBSET Server, k \in Nat, u \in Nat :
            Chosen(S, k, u) /\ a[1] \in 1..k /\ \A q \in S : log[q][a[1]].cmd = a[2]
      BY <2>1, Zenon DEF CommitInv, AppliedSettled
    <3>2. Chosen(S, k, u)' /\ k \in Nat \ {0}
      BY <1>0, <3>1, ChosenFacts, Zenon
    <3>3. ASSUME NEW q \in S PROVE log'[q][a[1]].cmd = a[2]
      <4>1. q \in Server /\ log[q] \in Seq(Entry) /\ log'[q] \in Seq(Entry)
        BY <2>0, Zenon
      <4>2. Has(log[q], k, u) /\ Has(log'[q], k, u)
        BY <3>1, <3>2, Zenon DEF Chosen, Pinned, Has
      <4>3. Match(Whole(log'[q]), Whole(log[q]))
        BY <1>0, <4>1, LogMatchesOld, Zenon
      <4>4. log'[q][a[1]] = log[q][a[1]]
        BY <3>1, <3>2, <4>1, <4>2, <4>3, SameUpTo, Zenon
      <4>5. QED
        BY <3>1, <4>4, Zenon
    <3>4. QED
      BY <3>1, <3>2, <3>3, Zenon DEF AppliedSettled
  <2>2. ASSUME NEW i \in Server, Commits(i), a[1] \in 1..commitIndex'[i], a[2] = log'[i][a[1]].cmd
        PROVE  AppliedSettled(a)'
    <3>1. PICK S \in SUBSET Server, k \in Nat, u \in Nat :
            Chosen(S, k, u)' /\ commitIndex'[i] <= k /\ Has(log'[i], k, u)
      BY <2>2, CommitsChosen, Zenon
    <3>2. k \in Nat \ {0} /\ a[1] \in 1..k
      <4>1. commitIndex'[i] \in Nat
        BY Zenon DEF TypeOK
      <4>2. QED
        BY <2>2, <3>1, <4>1
    <3>3. ASSUME NEW q \in S PROVE log'[q][a[1]].cmd = a[2]
      <4>1. /\ q \in Server /\ log'[q] \in Seq(Entry) /\ log'[i] \in Seq(Entry)
        BY <2>0, Zenon
      <4>2. Has(log'[q], k, u)
        BY <3>1, Zenon DEF Chosen, Pinned, Has
      <4>3. Match(Whole(log'[q]), Whole(log'[i]))
        <5>1. Whole(log'[q]) \in Pieces' /\ Whole(log'[i]) \in Pieces'
          BY <4>1, Zenon DEF Pieces, Whole
        <5>2. \A x, y \in Pieces' : Match(x, y)
          BY Zenon DEF MatchInv
        <5>3. QED
          BY <5>1, <5>2, Zenon
      <4>4. log'[q][a[1]] = log'[i][a[1]]
        BY <3>1, <3>2, <4>1, <4>2, <4>3, SameUpTo, Zenon
      <4>5. QED
        BY <2>2, <4>4, Zenon
    <3>4. QED
      BY <3>1, <3>2, <3>3, Zenon DEF AppliedSettled
  <2>3. QED
    BY <1>0, <2>1, <2>2, Zenon DEF CommitMove
<1>5. QED
  BY <1>1, <1>2, <1>3, <1>4, Zenon DEF CommitInv

-----------------------------------------------------------------------------
(* 5. Calls and candidates *)

\* A part of a part is a part.
LEMMA PartOfPart ==
  ASSUME NEW x, NEW y, NEW z, Part(x, y), Part(y, z)
  PROVE  Part(x, z)
BY DEF Part

\* What a leader has under way is of its term and a part of its log.
LEMMA RoundStep ==
  ASSUME TypeOK, TypeOK', RoleInv, OneWinnerPerTerm, LeaderStep, LeaderAppendStep, Moves, RoundInv
  PROVE  RoundInv'
<1>0. CallMove /\ LeadMove /\ AwaitMove
  BY Zenon DEF Moves
<1>1. ASSUME NEW i \in Server, Sends(i), NEW m \in requests'
      PROVE  \/ m \in requests /\ m.from # i
             \/ \E p \in Server \ {i} : /\ m = CallTo(i, p) /\ m.from = i /\ m.to = p
                                        /\ m.term = currentTerm[i] /\ Part(m, Whole(log[i]))
  <2>1. /\ requests' = {n \in requests : n.from # i} \cup {CallTo(i, p) : p \in Server \ {i}}
        /\ \A p \in Server \ {i} : nextIndex[i][p] - 1 \in 0..Len(log[i])
    BY <1>1, Zenon DEF Sends
  <2>2. ASSUME NEW p \in Server \ {i}, m = CallTo(i, p)
        PROVE  m.from = i /\ m.to = p /\ m.term = currentTerm[i] /\ Part(m, Whole(log[i]))
    <3>1. p \in Server /\ nextIndex[i][p] - 1 \in 0..Len(log[i])
      BY <2>1, Zenon
    <3>2. QED
      BY <2>2, <3>1, CallToFacts
  <2>3. QED
    BY <2>1, <2>2, Zenon
<1>2. ASSUME NEW m \in requests', NEW n \in requests', m.from = n.from, m.to = n.to PROVE m = n
  <2>1. \A a, b \in requests : a.from = b.from /\ a.to = b.to => a = b
    BY Zenon DEF RoundInv
  <2>2. CASE requests' \subseteq requests
    BY <1>2, <2>1, <2>2, Zenon
  <2>3. ASSUME NEW i \in Server, Sends(i) PROVE m = n
    <3>1. (m \in requests /\ m.from # i) \/ \E p \in Server : m = CallTo(i, p) /\ m.from = i /\ m.to = p
      BY <1>1, <2>3
    <3>2. (n \in requests /\ n.from # i) \/ \E p \in Server : n = CallTo(i, p) /\ n.from = i /\ n.to = p
      BY <1>1, <2>3
    <3>3. CASE m.from # i
      BY <1>2, <2>1, <3>1, <3>2, <3>3, Zenon
    <3>4. CASE m.from = i
      BY <1>2, <3>1, <3>2, <3>4, Zenon
    <3>5. QED
      BY <3>3, <3>4, Zenon
  <2>4. QED
    BY <1>0, <2>2, <2>3, Zenon DEF CallMove
<1>3. ASSUME NEW i \in Server, status'[i] = "leader", NEW m \in awaiting'[i]
      PROVE  m.from = i /\ m.term = currentTerm'[i]
  BY <1>0, <1>3, Zenon DEF AwaitMove, LeadMove, RoundInv
<1>4. ASSUME NEW i \in Server, status'[i] = "leader", NEW m \in requests', m.term = currentTerm'[i]
      PROVE  Part(m, Whole(log'[i]))
  <2>0. PICK l, x, T : l = log[i] /\ x = log'[i] /\ T = currentTerm[i]
    BY Zenon
  <2>1. l \in Seq(Entry) /\ x \in Seq(Entry) /\ currentTerm'[i] = T /\ m.term = T
    BY <1>0, <1>4, <2>0, ZenonT(30) DEF TypeOK, LeadMove
  <2>2. m \in requests => \E e \in elected : e.term = T /\ e.server = m.from
    <3>1. m \in requests => [term |-> m.term, server |-> m.from] \in elected
      BY Zenon DEF RoleInv, CallOK
    <3>2. QED
      BY <2>1, <3>1
  <2>3. status[i] = "leader"
    <3> SUFFICES ASSUME status[i] # "leader" PROVE FALSE
      BY Zenon
    <3>1. m \in requests /\ \A e \in elected : e.term # T
      BY <1>0, <1>4, <2>0, <2>1, Zenon DEF LeadMove, LeaderStep
    <3>2. QED
      BY <2>2, <3>1, Zenon
  <2>4. Len(x) >= Len(l) /\ SubSeq(x, 1, Len(l)) = l
    BY <1>4, <2>0, <2>1, <2>3, Zenon DEF LeaderAppendStep
  <2>5. Part(Whole(l), Whole(x))
    <3>1. Len(l) \in Nat /\ Len(x) \in Nat
      BY <2>1, LenFacts
    <3>2. Len(l) <= Len(x) /\ \A k \in 1..Len(l) : SubSeq(x, 1, Len(l))[k] = x[k]
      BY <2>1, <2>4, <3>1
    <3>3. \A k \in 1..Len(l) : l[k] = x[k]
      BY <2>4, <3>2, Zenon
    <3>4. QED
      BY <2>1, <3>2, <3>3, PrefixPart, Zenon
  <2>6. Part(m, Whole(l))
    <3>1. CASE m \in requests
      BY <2>0, <2>1, <2>3, <3>1, Zenon DEF RoundInv
    <3>2. ASSUME NEW j \in Server, Sends(j), m.term = currentTerm[j], Part(m, Whole(log[j]))
          PROVE  Part(m, Whole(l))
      <4>1. status[j] = "leader"
        BY <3>2, Zenon DEF Sends
      <4>2. [term |-> currentTerm[i], server |-> i] \in elected /\ [term |-> currentTerm[j], server |-> j] \in elected
        BY <2>3, <4>1, ZenonT(30) DEF RoleInv, RoleOK
      <4>3. PICK e, f \in elected : e.term = T /\ e.server = i /\ f.term = T /\ f.server = j
        BY <2>0, <2>1, <3>2, <4>2
      <4>4. i = j
        BY <4>3, Zenon DEF OneWinnerPerTerm
      <4>5. QED
        BY <2>0, <3>2, <4>4, Zenon
    <3>3. QED
      BY <1>0, <1>1, <3>1, <3>2, Zenon DEF CallMove
  <2>7. QED
    BY <2>0, <2>5, <2>6, PartOfPart, Zenon
<1>5. QED
  BY <1>2, <1>3, <1>4, Zenon DEF RoundInv, Part, Whole

\* A candidate's calls describe its log until its term is decided.
LEMMA BallotStep ==
  ASSUME TypeOK, TypeOK', RoleInv, TermAndVoteStep, Moves, BallotInv
  PROVE  BallotInv'
<1>0. /\ LogMove /\ VoteMove /\ BallotMove /\ ElectMove
      /\ votes' \subseteq [voter : Server, term : Nat, cand : Server]
      /\ voteCalls \subseteq VoteCall /\ voteCalls' \subseteq VoteCall
  BY Zenon DEF Moves, TypeOK
<1>1. \A j \in Server : currentTerm[j] \in Nat /\ currentTerm'[j] \in Nat /\ currentTerm'[j] >= currentTerm[j]
  BY Zenon DEF TypeOK, TermAndVoteStep
<1>2. ASSUME NEW v \in votes' PROVE v.term <= currentTerm'[v.cand]
  <2>1. v.term \in Nat /\ v.cand \in Server
    BY <1>0
  <2>2. v.term <= currentTerm[v.cand] => v.term <= currentTerm'[v.cand]
    BY <1>1, <2>1
  <2>3. CASE v \in votes
    BY <2>2, <2>3, Zenon DEF BallotInv
  <2>4. CASE v.term = currentTerm'[v.voter] /\ v.voter = v.cand
    BY <1>1, <2>1, <2>4
  <2>5. ASSUME NEW m \in voteCalls, m.from = v.cand, m.term = v.term PROVE v.term <= currentTerm'[v.cand]
    BY <2>2, <2>5, Zenon DEF BallotInv
  <2>6. QED
    BY <1>0, <2>3, <2>4, <2>5, ZenonT(30) DEF VoteMove
<1>3. ASSUME NEW m \in voteCalls'
      PROVE  /\ m.term <= currentTerm'[m.from]
             /\ m.term = currentTerm'[m.from] /\ (\A e \in elected' : e.term # m.term)
                  => m.lastIndex = Len(log'[m.from]) /\ m.lastTerm = LastTerm(log'[m.from])
  <2>1. m.term \in Nat /\ m.from \in Server
    BY <1>0 DEF VoteCall
  <2>2. CASE m \in voteCalls
    <3>1. m.term <= currentTerm[m.from]
      BY <2>2, Zenon DEF BallotInv
    <3>2. m.term <= currentTerm'[m.from] /\ (m.term = currentTerm'[m.from] => currentTerm[m.from] = m.term)
      BY <1>1, <2>1, <3>1
    <3>3. ASSUME m.term = currentTerm'[m.from], \A e \in elected' : e.term # m.term
          PROVE  m.lastIndex = Len(log'[m.from]) /\ m.lastTerm = LastTerm(log'[m.from])
      <4>1. Open(m.term) /\ currentTerm[m.from] = m.term
        BY <1>0, <3>2, <3>3, Zenon DEF ElectMove, Open
      <4>2. m.lastIndex = Len(log[m.from]) /\ m.lastTerm = LastTerm(log[m.from])
        BY <2>2, <4>1, Zenon DEF BallotInv
      <4>3. log'[m.from] = log[m.from]
        <5>1. currentTerm'[m.from] = currentTerm[m.from] /\ Open(currentTerm[m.from])
          BY <3>3, <4>1, Zenon
        <5>2. QED
          BY <1>0, <2>1, <5>1, OpenLog, Zenon
      <4>4. QED
        BY <4>2, <4>3, Zenon
    <3>4. QED
      BY <3>2, <3>3, Zenon
  <2>3. CASE /\ log' = log /\ m.term = currentTerm'[m.from]
             /\ m.lastIndex = Len(log[m.from]) /\ m.lastTerm = LastTerm(log[m.from])
    <3>1. m.term <= currentTerm'[m.from]
      BY <1>1, <2>1, <2>3
    <3>2. QED
      BY <2>3, <3>1, Zenon
  <2>4. QED
    BY <1>0, <2>2, <2>3, Zenon DEF BallotMove
<1>4. QED
  BY <1>2, <1>3, Zenon DEF BallotInv, Open, LastTerm, TermAt

-----------------------------------------------------------------------------
(* 6. What the actions do *)

\* Leaders that learn nothing new.
LEMMA LeadsOn ==
  ASSUME StillLeads
  PROVE  LeadMove /\ AwaitMove /\ \A i \in Server : AckMove(i)
<1>1. ASSUME NEW i \in Server, status'[i] = "leader", NEW k, NEW q \in Acked(i, k)'
      PROVE  q \in Acked(i, k)
  <2>1. matchIndex'[i] = matchIndex[i] /\ \A r \in replies'[i] : r \in replies[i] \/ ~r.success
    BY <1>1, Zenon DEF StillLeads
  <2>2. q \in Server /\ (\/ q = i \/ matchIndex'[i][q] >= k
                         \/ \E r \in replies'[i] : r.from = q /\ r.success /\ r.prev + r.sent >= k)
    BY <1>1, Zenon DEF Acked
  <2>3. QED
    BY <2>1, <2>2, Zenon DEF Acked
<1>2. LeadMove /\ AwaitMove
  BY Zenon DEF StillLeads, LeadMove, AwaitMove
<1>3. ASSUME NEW i \in Server PROVE AckMove(i)
  <2>1. status'[i] = "leader" => \A k \in Nat : Acked(i, k)' \subseteq Acked(i, k)
    BY <1>1, Zenon
  <2>2. QED
    BY <2>1, Zenon DEF AckMove
<1>4. QED
  BY <1>2, <1>3, Zenon

\* A step that changes no log, gives no vote, wins no election and sends nothing.
LEMMA QuietMoves ==
  ASSUME StillLeads, log' = log, votes' = votes, elected' = elected,
         commitIndex' = commitIndex, applied' = applied,
         requests' \subseteq requests, voteCalls' \subseteq voteCalls
  PROVE  Moves
<1>1. LogMove /\ CallMove /\ VoteMove /\ BallotMove /\ ElectMove /\ CommitMove
  BY Zenon DEF LogMove, CallMove, VoteMove, BallotMove, ElectMove, CommitMove
<1>2. QED
  BY <1>1, LeadsOn, Zenon DEF Moves

\* A leader holds no token.
LEMMA LeaderHasNoToken ==
  ASSUME TypeOK, RoleInv, NEW i \in Server, status[i] = "leader"
  PROVE  ~toFollower[i] /\ routine[i] \in {"enter", "wait", "panic"}
<1>1. routine[i] \in RoutineState /\ RoleOK(i)
  BY Zenon DEF TypeOK, RoleInv
<1>2. QED
  BY <1>1 DEF RoutineState, RoleOK

\* updateTerm: who leads afterwards led before, in the same term.
LEMMA UpdateLeads ==
  ASSUME TypeOK, RoleInv, NEW i \in Server, NEW t \in Nat, updateTerm(i, t), NEW j \in Server,
         status'[j] = "leader"
  PROVE  status[j] = "leader" /\ currentTerm'[j] = currentTerm[j]
<1>1. /\ currentTerm \in [Server -> Nat] /\ status \in [Server -> {"leader", "candidate", "follower"}]
      /\ currentTerm[i] \in Nat
  BY Zenon DEF TypeOK
<1>2. /\ currentTerm' = [currentTerm EXCEPT ![i] = SeenTerm(i, t)]
      /\ status' = [status EXCEPT ![i] = IF Deposed(i, t) THEN "follower" ELSE @]
  BY Zenon DEF updateTerm
<1>3. CASE j # i
  BY <1>1, <1>2, <1>3, Zenon
<1>4. CASE j = i
  <2>1. ~Deposed(i, t) /\ status[i] = "leader"
    BY <1>1, <1>2, <1>4
  <2>2. ~(t > currentTerm[i])
    BY <2>1, LeaderHasNoToken DEF Deposed
  <2>3. SeenTerm(i, t) = currentTerm[i]
    BY <2>2, Zenon DEF SeenTerm
  <2>4. QED
    BY <1>1, <1>2, <1>4, <2>1, <2>3, Zenon
<1>5. QED
  BY <1>3, <1>4, Zenon

\* RequestVote.
LEMMA RequestVoteMoves ==
  ASSUME TypeOK, RoleInv, NEW m \in voteCalls, RequestVote(m)
  PROVE  Moves
<1>0. PICK i, t : i = m.to /\ t = m.term
  BY Zenon
<1>1. i \in Server /\ t \in Nat
  <2>1. voteCalls \subseteq VoteCall
    BY Zenon DEF TypeOK
  <2>2. QED
    BY <1>0, <2>1 DEF VoteCall
<1>2. /\ updateTerm(i, t) /\ voteCalls' = voteCalls \ {m}
      /\ votes' = IF GrantVote(i, m) THEN votes \cup {[voter |-> i, term |-> SeenTerm(i, t), cand |-> m.from]}
                                     ELSE votes
  BY <1>0, Zenon DEF RequestVote
<1>3. UNCHANGED <<log, commitIndex, applied, matchIndex, requests, awaiting, replies, elected>>
  BY Zenon DEF RequestVote, applyVars, leaderVars, appendVars
<1>4. StillLeads
  BY <1>1, <1>2, <1>3, UpdateLeads, Zenon DEF StillLeads
<1>5. ASSUME NEW v \in votes', v \notin votes
      PROVE  /\ v.voter = i /\ v.cand = m.from /\ v.term = m.term /\ v.term = currentTerm'[i]
             /\ logNewer(m, log[m.to])
  <2>1. GrantVote(i, m) /\ v = [voter |-> i, term |-> SeenTerm(i, t), cand |-> m.from]
    BY <1>2, <1>5, Zenon
  <2>2. currentTerm'[i] = SeenTerm(i, t)
    <3>1. currentTerm \in [Server -> Nat]
      BY Zenon DEF TypeOK
    <3>2. currentTerm' = [currentTerm EXCEPT ![i] = SeenTerm(i, t)]
      BY <1>2, Zenon DEF updateTerm
    <3>3. QED
      BY <1>1, <3>1, <3>2, Zenon
  <2>3. m.term = SeenTerm(i, t) /\ logNewer(m, log[m.to])
    BY <1>0, <2>1, Zenon DEF GrantVote
  <2>4. v.voter = i /\ v.term = SeenTerm(i, t) /\ v.cand = m.from
    BY <2>1, Zenon
  <2>5. QED
    BY <2>2, <2>3, <2>4, Zenon
<1>6. VoteMove
  BY <1>0, <1>3, <1>5, Zenon DEF VoteMove
<1>7. LogMove /\ CallMove /\ BallotMove /\ ElectMove /\ CommitMove
  BY <1>2, <1>3, Zenon DEF LogMove, CallMove, BallotMove, ElectMove, CommitMove
<1>8. QED
  BY <1>4, <1>6, <1>7, LeadsOn, Zenon DEF Moves

\* What the reply to an AppendEntries call changes.
LEMMA ReplyFacts ==
  ASSUME TypeOK, ~Delays, NEW m \in requests, NEW success, NEW next, Reply(m, success, next),
         NEW i \in Server
  PROVE  /\ requests' = requests \ {m} /\ awaiting'[i] \subseteq awaiting[i]
         /\ \A r \in replies'[i] :
              \/ r \in replies[i]
              \/ /\ m \in awaiting[i] /\ m.from = i /\ r.from = m.to /\ r.success = success
                 /\ r.prev = m.prev /\ r.sent = Len(m.entries)
<1>1. awaiting \in [Server -> SUBSET Request] /\ replies \in [Server -> SUBSET AppendReply] /\ m.from \in Server
  BY Zenon DEF TypeOK, Request
<1>2. requests' = requests \ {m}
  BY Zenon DEF Reply
<1>3. CASE UNCHANGED <<awaiting, replies>>
  BY <1>2, <1>3, Zenon
<1>4. ASSUME NEW a, a = [from |-> m.to, term |-> currentTerm[m.to], success |-> success,
                         next |-> next, prev |-> m.prev, sent |-> Len(m.entries)],
             m \in awaiting[m.from],
             awaiting' = [awaiting EXCEPT ![m.from] = @ \ {m}],
             replies' = [replies EXCEPT ![m.from] = @ \cup {a}]
      PROVE  /\ awaiting'[i] \subseteq awaiting[i]
             /\ \A r \in replies'[i] :
                  \/ r \in replies[i]
                  \/ /\ m \in awaiting[i] /\ m.from = i /\ r.from = m.to /\ r.success = success
                     /\ r.prev = m.prev /\ r.sent = Len(m.entries)
  <2>1. a.from = m.to /\ a.success = success /\ a.prev = m.prev /\ a.sent = Len(m.entries)
    BY <1>4, Zenon
  <2>2. awaiting'[i] \subseteq awaiting[i]
    BY <1>1, <1>4, Zenon
  <2>3. \A r \in replies'[i] : r \in replies[i] \/ (r = a /\ m.from = i)
    BY <1>1, <1>4, Zenon
  <2>4. QED
    BY <1>4, <2>1, <2>2, <2>3, Zenon
<1>5. QED
  BY <1>2, <1>3, <1>4, Zenon DEF Reply

\* AppendEntries that refuses.
LEMMA RefuseMoves ==
  ASSUME TypeOK, RoleInv, ~Delays, NEW m \in requests, RefuseOldTerm(m) \/ RefuseConflict(m)
  PROVE  Moves
<1>1. m.to \in Server /\ m.term \in Nat
  BY Zenon DEF TypeOK, Request
<1>2. /\ UNCHANGED <<log, votes, elected, commitIndex, applied, voteCalls, matchIndex>>
      /\ \E next : Reply(m, FALSE, next)
  BY Zenon DEF RefuseOldTerm, RefuseConflict, applyVars, histVars, leaderVars
<1>3. requests' \subseteq requests
  <2>1. PICK next : Reply(m, FALSE, next)
    BY <1>2, Zenon
  <2>2. QED
    BY <2>1, Zenon DEF Reply
<1>4. ASSUME NEW i \in Server, status'[i] = "leader"
      PROVE  status[i] = "leader" /\ currentTerm'[i] = currentTerm[i]
  <2>1. CASE RefuseOldTerm(m)
    BY <1>4, <2>1, Zenon DEF RefuseOldTerm, termVars, roleVars
  <2>2. CASE RefuseConflict(m)
    <3>1. updateTerm(m.to, m.term)
      BY <2>2, Zenon DEF RefuseConflict
    <3>2. QED
      BY <1>1, <1>4, <3>1, UpdateLeads, Zenon
  <2>3. QED
    BY <2>1, <2>2, Zenon
<1>5. ASSUME NEW i \in Server
      PROVE  awaiting'[i] \subseteq awaiting[i] /\ \A r \in replies'[i] : r \in replies[i] \/ ~r.success
  <2>1. PICK next : Reply(m, FALSE, next)
    BY <1>2, Zenon
  <2>2. /\ awaiting'[i] \subseteq awaiting[i]
        /\ \A r \in replies'[i] : r \in replies[i] \/ r.success = FALSE
    BY <2>1, ReplyFacts, ZenonT(30)
  <2>3. QED
    BY <2>2, Zenon
<1>6. StillLeads
  BY <1>2, <1>4, <1>5, Zenon DEF StillLeads
<1>7. QED
  BY <1>2, <1>3, <1>6, QuietMoves, Zenon

\* AppendEntries that succeeds.
LEMMA AcceptMoves ==
  ASSUME TypeOK, TypeOK', RoleInv, ~Delays, NEW m \in requests, AcceptEntries(m)
  PROVE  Moves
<1>0. PICK i, l : i = m.to /\ l = Extended(log[i], m)
  BY Zenon
<1>1. i \in Server /\ m.term \in Nat /\ m.commit \in Nat /\ m.prev \in Nat /\ m.entries \in Seq(Entry)
  BY <1>0, Zenon DEF TypeOK, Request
<1>2. /\ UNCHANGED <<votes, elected, voteCalls, matchIndex>>
      /\ Reply(m, TRUE, 0) /\ updateTerm(i, m.term) /\ ~OldTerm(m) /\ HasPrev(log[m.to], m)
      /\ log' = [log EXCEPT ![i] = l]
  BY <1>0, Zenon DEF AcceptEntries, histVars, leaderVars
<1>3. /\ currentTerm \in [Server -> Nat] /\ log \in [Server -> Seq(Entry)]
      /\ commitIndex \in [Server -> Nat] /\ lastApplied \in [Server -> Nat]
  BY Zenon DEF TypeOK
<1>4. Takes(m)
  <2>1. SeenTerm(i, m.term) = m.term
    <3>1. currentTerm[i] \in Nat /\ ~(m.term < currentTerm[i])
      BY <1>0, <1>1, <1>2, <1>3, Zenon DEF OldTerm
    <3>2. QED
      BY <1>1, <3>1 DEF SeenTerm
  <2>2. currentTerm' = [currentTerm EXCEPT ![m.to] = m.term]
    BY <1>0, <1>2, <2>1, Zenon DEF updateTerm
  <2>3. requests' = requests \ {m}
    BY <1>2, Zenon DEF Reply
  <2>4. QED
    BY <1>0, <1>2, <2>2, <2>3, Zenon DEF Takes
<1>5. ASSUME NEW j \in Server, status'[j] = "leader"
      PROVE  status[j] = "leader" /\ currentTerm'[j] = currentTerm[j] /\ awaiting'[j] \subseteq awaiting[j]
  <2>1. status[j] = "leader" /\ currentTerm'[j] = currentTerm[j]
    BY <1>1, <1>2, <1>5, UpdateLeads, Zenon
  <2>2. awaiting'[j] \subseteq awaiting[j]
    BY <1>2, ReplyFacts, Zenon
  <2>3. QED
    BY <2>1, <2>2, Zenon
<1>6. LeadMove /\ AwaitMove
  BY <1>5, Zenon DEF LeadMove, AwaitMove
<1>7. ASSUME NEW j \in Server PROVE AckMove(j)
  <2>1. \A r \in replies'[j] :
          \/ r \in replies[j]
          \/ /\ m \in awaiting[j] /\ m.from = j /\ r.from = m.to /\ r.success = TRUE
             /\ r.prev = m.prev /\ r.sent = Len(m.entries)
    BY <1>2, ReplyFacts, Zenon
  <2>2. ASSUME NEW k, NEW q \in Acked(j, k)', q \notin Acked(j, k)
        PROVE  m \in awaiting[j] /\ q = m.to /\ LastOf(m) >= k
    <3>1. q \in Server /\ (\/ q = j \/ matchIndex'[j][q] >= k
                           \/ \E r \in replies'[j] : r.from = q /\ r.success /\ r.prev + r.sent >= k)
      BY <2>2, Zenon DEF Acked
    <3>2. PICK r \in replies'[j] : r.from = q /\ r.success /\ r.prev + r.sent >= k
      BY <1>2, <2>2, <3>1, Zenon DEF Acked
    <3>3. r \notin replies[j]
      BY <2>2, <3>1, <3>2, Zenon DEF Acked
    <3>4. QED
      BY <2>1, <3>2, <3>3, Zenon DEF LastOf
  <2>3. CASE m \in awaiting[j]
    <3>1. \A k \in Nat : \A q \in Acked(j, k)' : q \in Acked(j, k) \/ (q = m.to /\ k <= LastOf(m))
      <4>1. ASSUME NEW k \in Nat, LastOf(m) >= k PROVE k <= LastOf(m)
        BY <1>1, <4>1 DEF LastOf
      <4>2. QED
        BY <2>2, <4>1, Zenon
    <3>2. QED
      BY <1>4, <2>3, <3>1, Zenon DEF AckMove
  <2>4. CASE m \notin awaiting[j]
    <3>1. \A k \in Nat : Acked(j, k)' \subseteq Acked(j, k)
      BY <2>2, <2>4, Zenon
    <3>2. QED
      BY <3>1, Zenon DEF AckMove
  <2>5. QED
    BY <2>3, <2>4, Zenon
<1>8. CommitMove
  <2>1. CASE UNCHANGED applyVars
    BY <2>1, Zenon DEF applyVars, CommitMove
  <2>2. CASE m.commit > commitIndex[i] /\ applyLog(i, l, MinOf(Len(l), m.commit))
    <3>0. PICK c : c = MinOf(Len(l), m.commit)
      BY Zenon
    <3>1. /\ commitIndex' = [commitIndex EXCEPT ![i] = c]
          /\ applied' = applied \cup {<<k, l[k].cmd>> : k \in lastApplied[i] + 1 .. c}
      BY <2>2, <3>0, Zenon DEF applyLog
    <3>2. commitIndex'[i] = c /\ log'[i] = l /\ \A j \in Server \ {i} : commitIndex'[j] = commitIndex[j]
      BY <1>1, <1>2, <1>3, <3>1, Zenon
    <3>3. Commits(i)
      <4>1. l \in Seq(Entry)
        BY <1>1, <3>2, Zenon DEF TypeOK
      <4>2. c <= m.commit /\ m.commit # 0
        <5>1. commitIndex[i] \in Nat /\ Len(l) \in Nat
          BY <1>1, <1>3, <4>1
        <5>2. QED
          BY <1>1, <2>2, <3>0, <5>1 DEF MinOf
      <4>3. QED
        BY <1>0, <1>4, <3>2, <4>2, Zenon DEF Commits
    <3>4. ASSUME NEW a \in applied', a \notin applied
          PROVE  a[1] \in 1 .. commitIndex'[i] /\ a[2] = log'[i][a[1]].cmd
      <4>1. PICK k \in lastApplied[i] + 1 .. c : a = <<k, l[k].cmd>>
        BY <3>1, <3>4, Zenon
      <4>2. lastApplied[i] \in Nat
        BY <1>1, <1>3, Zenon
      <4>3. c \in Nat
        <5>1. l \in Seq(Entry)
          BY <1>1, <3>2, Zenon DEF TypeOK
        <5>2. QED
          BY <1>1, <3>0, <5>1 DEF MinOf
      <4>4. k \in 1 .. c
        BY <4>1, <4>2, <4>3
      <4>5. a[1] = k /\ a[2] = l[k].cmd
        BY <4>1
      <4>6. QED
        BY <3>2, <4>4, <4>5, Zenon
    <3>5. QED
      BY <1>1, <3>2, <3>3, <3>4, Zenon DEF CommitMove
  <2>3. QED
    BY <1>0, <2>1, <2>2, Zenon DEF AcceptEntries
<1>9. LogMove /\ CallMove /\ VoteMove /\ BallotMove /\ ElectMove
  <2>1. requests' \subseteq requests
    BY <1>4, Zenon DEF Takes
  <2>2. QED
    BY <1>2, <1>4, <2>1, Zenon DEF LogMove, CallMove, VoteMove, BallotMove, ElectMove
<1>10. QED
  BY <1>6, <1>7, <1>8, <1>9, Zenon DEF Moves

\* Start.
LEMMA StartMoves ==
  ASSUME TypeOK, NEW i \in Server, NEW c \in Command, Start(i, c)
  PROVE  Moves
<1>1. /\ UNCHANGED <<currentTerm, status, requests, votes, elected, voteCalls, awaiting, replies,
                     commitIndex, applied>>
      /\ status[i] = "leader" /\ log' = [log EXCEPT ![i] = Append(log[i], NewEntry(i, c))]
      /\ matchIndex' = [matchIndex EXCEPT ![i][i] = @ + 1]
  BY Zenon DEF Start, termVars, roleVars, appendVars, histVars, applyVars
<1>2. Appends(i)
  <2>1. NewEntry(i, c) \in Entry /\ NewEntry(i, c).term = currentTerm[i]
    <3>1. currentTerm[i] \in Nat
      BY Zenon DEF TypeOK
    <3>2. QED
      BY <3>1, Zenon DEF NewEntry, Entry
  <2>2. QED
    BY <1>1, <2>1, Zenon DEF Appends
<1>3. ASSUME NEW j \in Server PROVE AckMove(j)
  <2>1. \A q \in Server : q # j => matchIndex'[j][q] = matchIndex[j][q]
    <3>1. matchIndex \in [Server -> [Server -> Nat]]
      BY Zenon DEF TypeOK
    <3>2. QED
      BY <1>1, <3>1
  <2>2. ASSUME NEW k, NEW q \in Acked(j, k)' PROVE q \in Acked(j, k)
    <3>1. q \in Server /\ (\/ q = j \/ matchIndex'[j][q] >= k
                           \/ \E r \in replies'[j] : r.from = q /\ r.success /\ r.prev + r.sent >= k)
      BY <2>2, Zenon DEF Acked
    <3>2. QED
      BY <1>1, <2>1, <3>1, Zenon DEF Acked
  <2>3. QED
    BY <2>2, Zenon DEF AckMove
<1>4. LeadMove /\ AwaitMove
  BY <1>1, Zenon DEF LeadMove, AwaitMove
<1>5. LogMove /\ CallMove /\ VoteMove /\ BallotMove /\ ElectMove /\ CommitMove
  BY <1>1, <1>2, Zenon DEF LogMove, CallMove, VoteMove, BallotMove, ElectMove, CommitMove
<1>6. QED
  BY <1>3, <1>4, <1>5, Zenon DEF Moves

\* One iteration of candidateRoutine.
LEMMA ElectionMoves ==
  ASSUME TypeOK, NEW i \in Server, BeginElection(i), status'[i] # "leader",
         \A j \in Server : j # i => status'[j] = status[j]
  PROVE  Moves
<1>0. PICK t : t = currentTerm[i] + 1
  BY Zenon
<1>1. /\ UNCHANGED <<log, commitIndex, applied, matchIndex, requests, awaiting, replies, elected>>
      /\ currentTerm' = [currentTerm EXCEPT ![i] = t]
      /\ voteCalls' = voteCalls \cup
           {[from |-> i, to |-> p, term |-> t, lastIndex |-> Len(log[i]),
             lastTerm |-> LastTerm(log[i])] : p \in Server \ {i}}
      /\ votes' = votes \cup {[voter |-> i, term |-> t, cand |-> i]}
  BY <1>0, Zenon DEF BeginElection, applyVars, leaderVars, appendVars
<1>2. currentTerm'[i] = t /\ \A j \in Server \ {i} : currentTerm'[j] = currentTerm[j]
  <2>1. currentTerm \in [Server -> Nat]
    BY Zenon DEF TypeOK
  <2>2. QED
    BY <1>1, <2>1, Zenon
<1>3. StillLeads
  BY <1>1, <1>2, Zenon DEF StillLeads
<1>4. VoteMove
  <2>1. ASSUME NEW v \in votes', v \notin votes
        PROVE  v.voter = i /\ v.cand = i /\ v.term = t
    BY <1>1, <2>1
  <2>2. QED
    BY <1>1, <1>2, <2>1, ZenonT(30) DEF VoteMove
<1>5. BallotMove
  <2>1. ASSUME NEW m \in voteCalls', m \notin voteCalls
        PROVE  m.from = i /\ m.term = t /\ m.lastIndex = Len(log[i]) /\ m.lastTerm = LastTerm(log[i])
    BY <1>1, <2>1
  <2>2. QED
    BY <1>1, <1>2, <2>1, ZenonT(30) DEF BallotMove
<1>6. LogMove /\ CallMove /\ ElectMove /\ CommitMove
  BY <1>1, Zenon DEF LogMove, CallMove, ElectMove, CommitMove
<1>7. QED
  BY <1>3, <1>4, <1>5, <1>6, LeadsOn, Zenon DEF Moves

\* A majority of votes: leaderRoutine begins.
LEMMA WinMoves ==
  ASSUME TypeOK, RoleInv, NEW i \in Server, NEW g, routine[i] = "candidate", WinElection(i, g),
         UNCHANGED <<termVars, log, persisted, applyVars, toFollower, voteCalls, requests,
                     votes, crashes>>
  PROVE  Moves
<1>1. /\ UNCHANGED <<currentTerm, log, commitIndex, applied, voteCalls, requests, votes>>
      /\ status' = [status EXCEPT ![i] = "leader"] /\ elected \subseteq elected'
      /\ awaiting' = [awaiting EXCEPT ![i] = {}] /\ replies' = [replies EXCEPT ![i] = {}]
      /\ \E f : matchIndex' = [matchIndex EXCEPT ![i] = f]
  BY Zenon DEF termVars, applyVars, WinElection, BeginLeader, NoRound
<1>2. status[i] # "leader"
  BY LeaderHasNoToken
<1>3. /\ status \in [Server -> {"leader", "candidate", "follower"}]
      /\ awaiting \in [Server -> SUBSET Request] /\ replies \in [Server -> SUBSET AppendReply]
      /\ matchIndex \in [Server -> [Server -> Nat]]
  BY Zenon DEF TypeOK
<1>4. awaiting'[i] = {}
  BY <1>1, <1>3, Zenon
<1>5. ASSUME NEW j \in Server, j # i
      PROVE  /\ status'[j] = status[j] /\ awaiting'[j] = awaiting[j] /\ replies'[j] = replies[j]
             /\ matchIndex'[j] = matchIndex[j]
  BY <1>1, <1>3, <1>5, Zenon
<1>6. LeadMove /\ AwaitMove
  <2>1. ASSUME NEW j \in Server PROVE j = i \/ (status'[j] = status[j] /\ awaiting'[j] = awaiting[j])
    BY <1>5, Zenon
  <2>2. LeadMove
    BY <1>1, <1>4, <2>1, Zenon DEF LeadMove
  <2>3. AwaitMove
    <3>1. \A m \in awaiting'[i] : FALSE
      BY <1>4, Zenon
    <3>2. QED
      BY <2>1, <3>1, Zenon DEF AwaitMove
  <2>4. QED
    BY <2>2, <2>3, Zenon
<1>7. ASSUME NEW j \in Server PROVE AckMove(j)
  <2>1. CASE j = i
    BY <1>2, <2>1, Zenon DEF AckMove
  <2>2. CASE j # i
    <3>1. replies'[j] = replies[j] /\ matchIndex'[j] = matchIndex[j]
      BY <1>5, <2>2, Zenon
    <3>2. \A k \in Nat : Acked(j, k)' \subseteq Acked(j, k)
      BY <3>1, Zenon DEF Acked
    <3>3. QED
      BY <3>2, Zenon DEF AckMove
  <2>3. QED
    BY <2>1, <2>2, Zenon
<1>8. LogMove /\ CallMove /\ VoteMove /\ BallotMove /\ ElectMove /\ CommitMove
  BY <1>1, Zenon DEF LogMove, CallMove, VoteMove, BallotMove, ElectMove, CommitMove
<1>9. QED
  BY <1>6, <1>7, <1>8, Zenon DEF Moves

\* A reply with a later term.
LEMMA StepDownMoves ==
  ASSUME TypeOK, NEW i \in Server, NEW t, StepDown(i, t)
  PROVE  Moves
<1>1. /\ UNCHANGED <<log, commitIndex, applied, voteCalls, requests, votes, elected, matchIndex>>
      /\ currentTerm' = [currentTerm EXCEPT ![i] = t] /\ status' = [status EXCEPT ![i] = "follower"]
      /\ awaiting' = [awaiting EXCEPT ![i] = {}] /\ replies' = [replies EXCEPT ![i] = {}]
  BY Zenon DEF StepDown, applyVars, leaderVars, histVars, NoRound
<1>2. /\ status \in [Server -> {"leader", "candidate", "follower"}] /\ currentTerm \in [Server -> Nat]
      /\ awaiting \in [Server -> SUBSET Request] /\ replies \in [Server -> SUBSET AppendReply]
  BY Zenon DEF TypeOK
<1>3. status'[i] = "follower"
  BY <1>1, <1>2, Zenon
<1>4. ASSUME NEW j \in Server, j # i
      PROVE  /\ status'[j] = status[j] /\ awaiting'[j] = awaiting[j] /\ replies'[j] = replies[j]
             /\ currentTerm'[j] = currentTerm[j]
  BY <1>1, <1>2, <1>4, Zenon
<1>5. StillLeads
  <2>1. ASSUME NEW j \in Server, status'[j] = "leader" PROVE j # i
    BY <1>3, <2>1
  <2>2. QED
    BY <1>1, <1>4, <2>1, Zenon DEF StillLeads
<1>6. QED
  BY <1>1, <1>5, QuietMoves, Zenon

\* A token waits for a leader that was deposed only.
LEMMA ProceedingLeads ==
  ASSUME RoleInv, StepDownFirst, NEW i \in Server, routine[i] \in {"enter", "wait"}, MayProceed(i)
  PROVE  status[i] = "leader"
<1>1. ~toFollower[i] /\ RoleOK(i)
  BY Zenon DEF MayProceed, RoleInv
<1>2. QED
  BY <1>1 DEF RoleOK

\* A step that only kills the process.
LEMMA PanicMoves ==
  ASSUME NEW i \in Server, Panic(i)
  PROVE  Moves
<1>1. UNCHANGED <<log, commitIndex, applied, voteCalls, requests, votes, elected, matchIndex,
                  currentTerm, status, awaiting, replies>>
  BY Zenon DEF Panic, termVars, applyVars, leaderVars, appendVars, histVars
<1>2. StillLeads
  BY <1>1, Zenon DEF StillLeads
<1>3. QED
  BY <1>1, <1>2, QuietMoves, Zenon

\* One round of leaderRoutine.
LEMMA BroadcastMoves ==
  ASSUME TypeOK, RoleInv, StepDownFirst, ~Delays, NEW i \in Server, Broadcast(i)
  PROVE  Moves
<1>0. PICK round : round = {CallTo(i, p) : p \in Server \ {i}}
  BY Zenon
<1>1. CASE Panic(i)
  BY <1>1, PanicMoves, Zenon
<1>2. CASE ~Panic(i)
  <2>1. /\ ~\E p \in Server \ {i} : nextIndex[i][p] - 1 \notin 0..Len(log[i])
        /\ requests' = {m \in requests : m.from # i} \cup round
        /\ awaiting' = [awaiting EXCEPT ![i] = round]
        /\ replies' = [replies EXCEPT ![i] = {}]
        /\ UNCHANGED <<termVars, log, persisted, applyVars, leaderVars, status, toFollower,
                       candVars, voteCalls, histVars, crashes>>
    BY <1>0, <1>2, Zenon DEF Broadcast, CallTo
  <2>2. UNCHANGED <<currentTerm, log, commitIndex, applied, matchIndex, status, voteCalls, votes, elected>>
    BY <2>1, Zenon DEF termVars, applyVars, leaderVars, histVars
  <2>3. status[i] = "leader"
    BY ProceedingLeads, Zenon DEF Broadcast
  <2>4. Sends(i)
    BY <1>0, <2>1, <2>2, <2>3, Zenon DEF Sends
  <2>5. awaiting'[i] = round /\ replies'[i] = {} /\ \A j \in Server \ {i} : awaiting'[j] = awaiting[j] /\ replies'[j] = replies[j]
    <3>1. awaiting \in [Server -> SUBSET Request] /\ replies \in [Server -> SUBSET AppendReply]
      BY Zenon DEF TypeOK
    <3>2. QED
      BY <2>1, <3>1, Zenon
  <2>6. ASSUME NEW m \in round PROVE m.from = i /\ m.term = currentTerm[i]
    <3>1. PICK p \in Server \ {i} : m = CallTo(i, p)
      BY <1>0, Zenon
    <3>2. QED
      BY <3>1, Zenon DEF CallTo
  <2>7. LeadMove
    BY <2>2, Zenon DEF LeadMove
  <2>8. AwaitMove
    <3>1. ASSUME NEW j \in Server, NEW m \in awaiting'[j]
          PROVE  m \in awaiting[j] \/ (m.from = j /\ m.term = currentTerm'[j])
      BY <2>2, <2>5, <2>6, Zenon
    <3>2. QED
      BY <2>2, <3>1, Zenon DEF AwaitMove
  <2>9. ASSUME NEW j \in Server PROVE AckMove(j)
    <3>1. \A r \in replies'[j] : r \in replies[j]
      BY <2>5, Zenon
    <3>2. \A k \in Nat : Acked(j, k)' \subseteq Acked(j, k)
      BY <2>2, <3>1, Zenon DEF Acked
    <3>3. QED
      BY <3>2, Zenon DEF AckMove
  <2>10. LogMove /\ CallMove /\ VoteMove /\ BallotMove /\ ElectMove /\ CommitMove
    BY <2>2, <2>4, Zenon DEF LogMove, CallMove, VoteMove, BallotMove, ElectMove, CommitMove
  <2>11. QED
    BY <2>7, <2>8, <2>9, <2>10, Zenon DEF Moves
<1>3. QED
  BY <1>1, <1>2, Zenon

\* More peers block as much.
LEMMA BlockingMore ==
  ASSUME NEW S, NEW T, S \subseteq T, Blocking(S)
  PROVE  Blocking(T)
  BY Zenon DEF Blocking

\* The leader takes a reply to a call with entries: what it commits, a peer of
\* every majority is known to hold.
LEMMA AdvanceMoves ==
  ASSUME TypeOK, IndexInv, MiddleBlocks, NEW i \in Server, status[i] = "leader",
         NEW r \in replies[i], r.success, AdvanceCommit(i, r)
  PROVE  Moves
<1>0. PICK match, n : match = [matchIndex[i] EXCEPT ![r.from] = r.prev + r.sent] /\ n = SortedMiddle(match)
  BY Zenon
<1>1. /\ r.from \in Server /\ r.prev \in Nat /\ r.sent \in Nat /\ matchIndex[i] \in [Server -> Nat]
      /\ log[i] \in Seq(Entry) /\ lastApplied[i] \in Nat
      /\ matchIndex \in [Server -> [Server -> Nat]] /\ replies \in [Server -> SUBSET AppendReply]
      /\ commitIndex \in [Server -> Nat]
  <2>1. /\ matchIndex \in [Server -> [Server -> Nat]] /\ replies \in [Server -> SUBSET AppendReply]
        /\ commitIndex \in [Server -> Nat] /\ log \in [Server -> Seq(Entry)] /\ lastApplied \in [Server -> Nat]
    BY Zenon DEF TypeOK
  <2>2. r \in AppendReply
    BY <2>1, Zenon
  <2>3. r.from \in Server /\ r.prev \in Nat /\ r.sent \in Nat
    BY <2>2 DEF AppendReply
  <2>4. QED
    BY <2>1, <2>3, Zenon
<1>2. CASE Panic(i)
  BY <1>2, PanicMoves, Zenon
<1>3. CASE ~Panic(i)
  <2>1. /\ n \in 0..Len(log[i])
        /\ matchIndex' = [matchIndex EXCEPT ![i] = match]
        /\ replies' = [replies EXCEPT ![i] = @ \ {r}]
        /\ \/ TermAt(log[i], n) >= currentTerm[i] /\ applyLog(i, log[i], n)
           \/ UNCHANGED applyVars
        /\ UNCHANGED <<currentTerm, log, status, voteCalls, requests, awaiting, votes, elected>>
    BY <1>0, <1>3, Zenon DEF AdvanceCommit, termVars, roleVars, histVars
  <2>2. /\ matchIndex'[i] = match /\ replies'[i] \subseteq replies[i]
        /\ \A j \in Server \ {i} : matchIndex'[j] = matchIndex[j] /\ replies'[j] = replies[j]
    BY <1>1, <2>1, Zenon
  <2>3. match[r.from] = r.prev + r.sent /\ \A q \in Server \ {r.from} : match[q] = matchIndex[i][q]
    BY <1>0, <1>1, Zenon
  <2>4. ASSUME NEW k, NEW q \in Server, match[q] >= k PROVE q \in Acked(i, k)
    BY <2>3, <2>4, Zenon DEF Acked
  <2>5. ASSUME NEW j \in Server PROVE AckMove(j)
    <3>1. ASSUME NEW k, NEW q \in Acked(j, k)' PROVE q \in Acked(j, k)
      <4>1. q \in Server /\ (\/ q = j \/ matchIndex'[j][q] >= k
                             \/ \E x \in replies'[j] : x.from = q /\ x.success /\ x.prev + x.sent >= k)
        BY <3>1, Zenon DEF Acked
      <4>2. CASE j = i
        BY <2>2, <2>4, <4>1, <4>2, Zenon DEF Acked
      <4>3. CASE j # i
        BY <2>2, <4>1, <4>3, Zenon DEF Acked
      <4>4. QED
        BY <4>2, <4>3, Zenon
    <3>2. QED
      BY <3>1, Zenon DEF AckMove
  <2>6. LeadMove /\ AwaitMove
    BY <2>1, Zenon DEF LeadMove, AwaitMove
  <2>7. LogMove /\ CallMove /\ VoteMove /\ BallotMove /\ ElectMove
    BY <2>1, Zenon DEF LogMove, CallMove, VoteMove, BallotMove, ElectMove
  <2>8. CASE UNCHANGED applyVars
    <3>1. CommitMove
      BY <2>8, ZenonT(30) DEF applyVars, CommitMove
    <3>2. QED
      BY <2>5, <2>6, <2>7, <3>1, Zenon DEF Moves
  <2>9. CASE TermAt(log[i], n) >= currentTerm[i] /\ applyLog(i, log[i], n)
    <3>1. /\ commitIndex' = [commitIndex EXCEPT ![i] = n]
          /\ applied' = applied \cup {<<k, log[i][k].cmd>> : k \in lastApplied[i] + 1 .. n}
      BY <2>9, Zenon DEF applyLog
    <3>2. commitIndex'[i] = n /\ \A j \in Server \ {i} : commitIndex'[j] = commitIndex[j]
      BY <1>1, <3>1, Zenon
    <3>3. Blocking(Acked(i, n))
      <4>1. match \in [Server -> 0..Len(log[i])]
        <5>1. /\ \A p \in Server : matchIndex[i][p] \in 0..Len(log[i])
              /\ r.prev + r.sent <= Len(log[i])
          BY Zenon DEF IndexInv, IndexOK
        <5>2. r.prev + r.sent \in 0..Len(log[i])
          BY <1>1, <5>1
        <5>3. match = [p \in Server |-> match[p]]
          BY <1>0, <1>1, Zenon
        <5>4. \A p \in Server : match[p] \in 0..Len(log[i])
          BY <2>3, <5>1, <5>2, Zenon
        <5>5. QED
          BY <5>3, <5>4, Zenon
      <4>2. Len(log[i]) \in Nat
        BY <1>1
      <4>3. Blocking({p \in Server : match[p] >= SortedMiddle(match)})
        BY <4>1, <4>2, Zenon DEF MiddleBlocks
      <4>4. {p \in Server : match[p] >= SortedMiddle(match)} \subseteq Acked(i, n)
        BY <1>0, <2>4, Zenon
      <4>5. QED
        BY <4>3, <4>4, BlockingMore, Zenon
    <3>4. Commits(i)
      BY <2>1, <2>9, <3>2, <3>3, Zenon DEF Commits
    <3>5. ASSUME NEW a \in applied', a \notin applied
          PROVE  a[1] \in 1 .. commitIndex'[i] /\ a[2] = log'[i][a[1]].cmd
      <4>1. PICK k \in lastApplied[i] + 1 .. n : a = <<k, log[i][k].cmd>>
        BY <3>1, <3>5, ZenonT(30)
      <4>2. k \in 1 .. n
        BY <1>1, <2>1, <4>1
      <4>3. a[1] = k /\ a[2] = log[i][k].cmd
        BY <4>1
      <4>4. QED
        BY <2>1, <3>2, <4>2, <4>3, Zenon
    <3>6. CommitMove
      BY <3>2, <3>4, <3>5, Zenon DEF CommitMove
    <3>7. QED
      BY <2>5, <2>6, <2>7, <3>6, Zenon DEF Moves
  <2>10. QED
    BY <2>1, <2>8, <2>9, Zenon
<1>4. QED
  BY <1>2, <1>3, Zenon

\* The leader takes a reply.
LEMMA TakeReplyMoves ==
  ASSUME TypeOK, RoleInv, IndexInv, MiddleBlocks, StepDownFirst, NEW i \in Server,
         NEW r \in replies[i], TakeReply(i, r)
  PROVE  Moves
<1>1. status[i] = "leader"
  BY ProceedingLeads DEF TakeReply
<1>2. CASE StepDown(i, r.term)
  BY <1>2, StepDownMoves, Zenon
<1>3. CASE r.success /\ AdvanceCommit(i, r)
  BY <1>1, <1>3, AdvanceMoves, Zenon
<1>4. CASE /\ replies' = [replies EXCEPT ![i] = @ \ {r}]
           /\ UNCHANGED <<termVars, log, persisted, applyVars, matchIndex, roleVars, candVars,
                          voteCalls, requests, awaiting, histVars, crashes>>
  <2>1. UNCHANGED <<currentTerm, log, commitIndex, applied, matchIndex, status, voteCalls,
                    requests, awaiting, votes, elected>>
    BY <1>4, Zenon DEF termVars, applyVars, roleVars, histVars
  <2>2. \A j \in Server : replies'[j] \subseteq replies[j]
    <3>1. replies \in [Server -> SUBSET AppendReply]
      BY Zenon DEF TypeOK
    <3>2. QED
      BY <1>4, <3>1, Zenon
  <2>3. StillLeads
    BY <2>1, <2>2, Zenon DEF StillLeads
  <2>4. QED
    BY <2>1, <2>3, QuietMoves, Zenon
<1>5. QED
  BY <1>2, <1>3, <1>4, Zenon DEF TakeReply

\* The candidate takes a reply.
LEMMA CountVoteMoves ==
  ASSUME TypeOK, RoleInv, NEW i \in Server, NEW r, CountVote(i, r)
  PROVE  Moves
<1>1. CASE StepDown(i, r.term)
  BY <1>1, StepDownMoves, Zenon
<1>2. ASSUME NEW g, WinElection(i, g),
             UNCHANGED <<termVars, log, persisted, applyVars, toFollower, voteCalls, requests,
                         votes, crashes>>
      PROVE  Moves
  <2>1. routine[i] = "candidate"
    BY Zenon DEF CountVote
  <2>2. QED
    BY <1>2, <2>1, WinMoves, Zenon
<1>3. CASE /\ UNCHANGED <<status, elected, ballot, leaderVars, routine, awaiting, replies>>
           /\ UNCHANGED <<termVars, log, persisted, applyVars, toFollower, voteCalls, requests,
                          votes, crashes>>
  <2>1. UNCHANGED <<currentTerm, log, commitIndex, applied, matchIndex, status, voteCalls,
                    requests, awaiting, replies, votes, elected>>
    BY <1>3, Zenon DEF termVars, applyVars, leaderVars
  <2>2. StillLeads
    BY <2>1, Zenon DEF StillLeads
  <2>3. QED
    BY <2>1, <2>2, QuietMoves, Zenon
<1>4. QED
  BY <1>1, <1>2, <1>3, Zenon DEF CountVote

\* The election timer fires.
LEMMA TimeoutMoves ==
  ASSUME TypeOK, RoleInv, NEW i \in Server, ElectionTimeout(i) \/ CandidateTimeout(i)
  PROVE  Moves
<1>1. BeginElection(i)
  BY Zenon DEF ElectionTimeout, CandidateTimeout
<1>2. status \in [Server -> {"leader", "candidate", "follower"}]
  BY Zenon DEF TypeOK
<1>3. \A j \in Server : j # i => status'[j] = status[j]
  BY <1>2, Zenon DEF ElectionTimeout, CandidateTimeout
<1>4. status'[i] # "leader"
  <2>1. CASE ElectionTimeout(i)
    <3>1. status'[i] = "candidate"
      BY <1>2, <2>1, Zenon DEF ElectionTimeout
    <3>2. QED
      BY <3>1
  <2>2. CASE CandidateTimeout(i)
    <3>1. routine[i] = "candidate" /\ status' = status
      BY <2>2, Zenon DEF CandidateTimeout
    <3>2. QED
      BY <3>1, LeaderHasNoToken
  <2>3. QED
    BY <2>1, <2>2, Zenon
<1>5. QED
  BY <1>1, <1>3, <1>4, ElectionMoves, Zenon

\* The token is taken, or Make's loop goes round.
LEMMA ReturnMoves ==
  ASSUME TypeOK, RoleInv, NEW i \in Server, TakeToFollower(i) \/ Dispatch(i)
  PROVE  Moves
<1>1. CASE TakeToFollower(i)
  <2>1. /\ UNCHANGED <<currentTerm, log, commitIndex, applied, matchIndex, status, voteCalls,
                       requests, votes, elected>>
        /\ awaiting' = [awaiting EXCEPT ![i] = {}] /\ replies' = [replies EXCEPT ![i] = {}]
    BY <1>1, Zenon DEF TakeToFollower, NoRound, termVars, applyVars, leaderVars, histVars
  <2>2. \A j \in Server : awaiting'[j] \subseteq awaiting[j] /\ replies'[j] \subseteq replies[j]
    <3>1. awaiting \in [Server -> SUBSET Request] /\ replies \in [Server -> SUBSET AppendReply]
      BY Zenon DEF TypeOK
    <3>2. QED
      BY <2>1, <3>1, Zenon
  <2>3. StillLeads
    BY <2>1, <2>2, Zenon DEF StillLeads
  <2>4. QED
    BY <2>1, <2>3, QuietMoves, Zenon
<1>2. CASE Dispatch(i)
  <2>1. status[i] = "follower" /\ routine[i] = "return"
    BY <1>2, ZenonT(30) DEF Dispatch, RoleInv, RoleOK
  <2>2. /\ UNCHANGED status
        /\ UNCHANGED <<termVars, log, persisted, applyVars, leaderVars, candVars, voteCalls,
                       appendVars, histVars, crashes>>
    BY <1>2, <2>1 DEF Dispatch
  <2>3. UNCHANGED <<currentTerm, log, commitIndex, applied, matchIndex, status, voteCalls,
                    requests, awaiting, replies, votes, elected>>
    BY <2>2, Zenon DEF termVars, applyVars, leaderVars, appendVars, histVars
  <2>4. StillLeads
    BY <2>3, Zenon DEF StillLeads
  <2>5. QED
    BY <2>3, <2>4, QuietMoves, Zenon
<1>3. QED
  BY <1>1, <1>2, Zenon

\* Without crashes and with every call answered or dropped, no step does more
\* than Moves says.
LEMMA MovesNext ==
  ASSUME StepDownFirst, ~Delays, MaxCrash = 0, MiddleBlocks,
         TypeOK, TypeOK', RoleInv, IndexInv, [Next]_vars
  PROVE  Moves
<1>1. CASE UNCHANGED vars
  <2>1. UNCHANGED <<currentTerm, log, commitIndex, applied, matchIndex, status, voteCalls,
                    requests, awaiting, replies, votes, elected>>
    BY <1>1, Zenon DEF vars, termVars, applyVars, leaderVars, roleVars, candVars, appendVars, histVars
  <2>2. StillLeads
    BY <2>1, Zenon DEF StillLeads
  <2>3. QED
    BY <2>1, <2>2, QuietMoves, Zenon
<1>2. CASE Handler
  BY <1>2, RequestVoteMoves, RefuseMoves, AcceptMoves, Zenon DEF Handler, AppendEntries
<1>3. ASSUME NEW i \in Server, Routine(i) PROVE Moves
  BY <1>3, TimeoutMoves, ReturnMoves, CountVoteMoves, BroadcastMoves, TakeReplyMoves, ZenonT(30) DEF Routine
<1>4. CASE \E i \in Server, c \in Command : Start(i, c)
  BY <1>4, StartMoves, Zenon
<1>5. ASSUME NEW i \in Server, CrashRestart(i) PROVE FALSE
  <2>1. crashes \in Nat
    BY Zenon DEF TypeOK
  <2>2. crashes < MaxCrash
    BY <1>5, Zenon DEF CrashRestart
  <2>3. QED
    BY <2>1, <2>2
<1>6. QED
  BY <1>1, <1>2, <1>3, <1>4, <1>5, ZenonT(30) DEF Next

\* At first nothing is sent, led or committed.
LEMMA CommitInit ==
  ASSUME Init
  PROVE  RoundInv /\ BallotInv /\ CommitInv
<1>1. /\ requests = {} /\ voteCalls = {} /\ votes = {} /\ applied = {}
      /\ \A i \in Server : status[i] = "follower" /\ commitIndex[i] = 0
  BY Zenon DEF Init
<1>2. \A i \in Server : status[i] # "leader"
  BY <1>1
<1>3. RoundInv
  BY <1>1, <1>2, Zenon DEF RoundInv
<1>4. BallotInv
  BY <1>1, Zenon DEF BallotInv
<1>5. CommitInv
  BY <1>1, <1>2, Zenon DEF CommitInv, LeaderEntries, Settled
<1>6. QED
  BY <1>3, <1>4, <1>5, Zenon

-----------------------------------------------------------------------------
(* 7. What was applied *)

\* Peers that pin two entries agree up to the first of them.
LEMMA ChosenAgree ==
  ASSUME TypeOK, MatchInv, Majority(Server),
         NEW S \in SUBSET Server, NEW k \in Nat, NEW u \in Nat, Chosen(S, k, u),
         NEW T \in SUBSET Server, NEW j \in Nat, NEW v \in Nat, Chosen(T, j, v),
         u <= v, NEW n \in 1..k, n \in 1..j
  PROVE  \E p \in S, q \in T : log[p][n] = log[q][n]
<1>1. k \in Nat \ {0} /\ j \in Nat \ {0} /\ S # {} /\ T # {}
  BY ChosenFacts, Zenon
<1>2. PICK p \in S : Has(log[p], k, u)
  BY <1>1, Zenon DEF Chosen, Pinned
<1>3. PICK q \in T : Has(log[q], j, v)
  BY <1>1, Zenon DEF Chosen, Pinned
<1>4. PICK x, y : x = log[p] /\ y = log[q]
  BY Zenon
<1>5. x \in Seq(Entry) /\ y \in Seq(Entry) /\ Match(Whole(x), Whole(y))
  <2>1. log \in [Server -> Seq(Entry)] /\ p \in Server /\ q \in Server
    BY Zenon DEF TypeOK
  <2>2. Whole(log[p]) \in Pieces /\ Whole(log[q]) \in Pieces
    BY <2>1 DEF Pieces
  <2>3. QED
    BY <1>4, <2>1, <2>2, Zenon DEF MatchInv
<1>6. Keeps(Whole(y), k, u) /\ Keeps(Whole(x), j, v)
  BY <1>4, Zenon DEF Chosen, Pinned
<1>7. /\ Has(x, k, u) /\ k \in Covered(Whole(x)) /\ TermOf(Whole(x), k) = u
      /\ Has(y, j, v) /\ j \in Covered(Whole(y)) /\ TermOf(Whole(y), j) = v
  BY <1>1, <1>2, <1>3, <1>4, <1>5, HasWhole, ZenonT(30)
<1>8. CASE k <= j
  <2>1. k \in Covered(Whole(y))
    <3>1. Covered(Whole(y)) = 0..Len(y) /\ Len(y) \in Nat
      BY <1>5, WholeFacts
    <3>2. QED
      BY <1>1, <1>7, <1>8, <3>1
  <2>2. v >= u /\ j >= k
    BY <1>8
  <2>3. TermOf(Whole(y), k) = u
    BY <1>6, <1>7, <2>1, <2>2, Zenon DEF Keeps
  <2>4. Has(y, k, u)
    BY <1>1, <1>5, <2>1, <2>3, HasWhole, Zenon
  <2>5. x[n] = y[n]
    BY <1>1, <1>5, <1>7, <2>4, SameUpTo, ZenonT(30)
  <2>6. QED
    BY <1>4, <2>5, Zenon
<1>9. CASE ~(k <= j)
  <2>1. j \in Covered(Whole(x))
    <3>1. Covered(Whole(x)) = 0..Len(x) /\ Len(x) \in Nat
      BY <1>5, WholeFacts
    <3>2. QED
      BY <1>1, <1>7, <1>9, <3>1
  <2>2. ~(j > k) /\ k >= j
    BY <1>9
  <2>3. ~(v > u)
    BY <1>6, <1>7, <2>2, Zenon DEF Keeps
  <2>4. u >= v
    BY <2>3
  <2>5. TermOf(Whole(x), j) = v
    BY <1>6, <1>7, <2>1, <2>2, <2>4, Zenon DEF Keeps
  <2>6. Has(x, j, v)
    BY <1>1, <1>5, <2>1, <2>5, HasWhole, Zenon
  <2>7. x[n] = y[n]
    BY <1>1, <1>5, <1>7, <2>6, SameUpTo, Zenon
  <2>8. QED
    BY <1>4, <2>7, Zenon
<1>10. QED
  BY <1>8, <1>9, Zenon

\* What two peers apply at an index is the same command.
LEMMA AppliedAgree ==
  ASSUME TypeOK, MatchInv, Majority(Server), CommitInv
  PROVE  StateMachineSafety
<1> SUFFICES ASSUME NEW a \in applied, NEW b \in applied, a[1] = b[1]
             PROVE  a[2] = b[2]
  BY Zenon DEF StateMachineSafety
<1>1. PICK S \in SUBSET Server, k \in Nat, u \in Nat :
        Chosen(S, k, u) /\ a[1] \in 1..k /\ \A q \in S : log[q][a[1]].cmd = a[2]
  BY Zenon DEF CommitInv, AppliedSettled
<1>2. PICK T \in SUBSET Server, j \in Nat, v \in Nat :
        Chosen(T, j, v) /\ b[1] \in 1..j /\ \A q \in T : log[q][b[1]].cmd = b[2]
  BY Zenon DEF CommitInv, AppliedSettled
<1>3. \E p \in S, q \in T : log[p][a[1]] = log[q][a[1]]
  <2>0. PICK n \in 1..k : n = a[1] /\ n \in 1..j
    BY <1>1, <1>2, Zenon
  <2>1. CASE u <= v
    <3>1. \E p \in S, q \in T : log[p][n] = log[q][n]
      BY <1>1, <1>2, <2>0, <2>1, ChosenAgree
    <3>2. QED
      BY <2>0, <3>1, Zenon
  <2>2. CASE v <= u
    <3>1. \E q \in T, p \in S : log[q][n] = log[p][n]
      BY <1>1, <1>2, <2>0, <2>2, ChosenAgree
    <3>2. QED
      BY <2>0, <3>1, Zenon
  <2>3. u <= v \/ v <= u
    OBVIOUS
  <2>4. QED
    BY <2>1, <2>2, <2>3, Zenon
<1>4. PICK p \in S, q \in T : log[p][a[1]] = log[q][a[1]]
  BY <1>3, Zenon
<1>5. log[p][a[1]].cmd = a[2] /\ log[q][a[1]].cmd = b[2]
  BY <1>1, <1>2, Zenon
<1>6. QED
  BY <1>4, <1>5, Zenon

\* The leader of the latest term has what was applied.
LEMMA AppliedAtLeader ==
  ASSUME TypeOK, MatchInv, Majority(Server), CommitInv
  PROVE  LeaderCompleteness
<1> SUFFICES ASSUME NEW i \in Server, status[i] = "leader",
                    \A j \in Server : currentTerm[j] <= currentTerm[i], NEW a \in applied
             PROVE  a[1] <= Len(log[i]) /\ log[i][a[1]].cmd = a[2]
  BY Zenon DEF LeaderCompleteness
<1>1. PICK S \in SUBSET Server, k \in Nat, u \in Nat :
        Chosen(S, k, u) /\ a[1] \in 1..k /\ \A q \in S : log[q][a[1]].cmd = a[2]
  BY Zenon DEF CommitInv, AppliedSettled
<1>2. k \in Nat \ {0} /\ S # {}
  BY <1>1, ChosenFacts, Zenon
<1>3. PICK q \in S : Has(log[q], k, u) /\ currentTerm[q] >= u
  BY <1>1, <1>2, Zenon DEF Chosen, Pinned
<1>4. log[i] \in Seq(Entry) /\ log[q] \in Seq(Entry) /\ currentTerm[i] \in Nat /\ currentTerm[q] \in Nat
  BY <1>3, Zenon DEF TypeOK
<1>5. currentTerm[i] >= u
  <2>1. currentTerm[q] <= currentTerm[i]
    BY <1>3, Zenon
  <2>2. QED
    BY <1>3, <1>4, <2>1
<1>6. Has(log[i], k, u)
  BY <1>1, <1>5, Zenon DEF Chosen, Pinned, LeaderHas
<1>7. log[i][a[1]] = log[q][a[1]]
  <2>1. Match(Whole(log[i]), Whole(log[q]))
    BY Zenon DEF MatchInv, Pieces
  <2>2. QED
    BY <1>1, <1>2, <1>3, <1>4, <1>6, <2>1, SameUpTo, ZenonT(30)
<1>8. a[1] <= Len(log[i])
  BY <1>1, <1>4, <1>6 DEF Has
<1>9. QED
  BY <1>1, <1>7, <1>8, Zenon
=============================================================================
