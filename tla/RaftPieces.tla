---------------------------- MODULE RaftPieces ------------------------------
(***************************************************************************)
(* Lemmas about logs and the operators AppendEntries and leaderRoutine apply *)
(* to them, about pieces of logs, and about positions in a log: nextIndex   *)
(* and matchIndex stay within the log of a leader, where a deposed peer    *)
(* steps down first.  The theorem is in RaftSafety.                        *)
(***************************************************************************)
EXTENDS RaftInv, TLAPS, WellFoundedInduction

-----------------------------------------------------------------------------
(* 1. Logs and their operators *)

\* A sequence is a function on 1..Len(s).
LEMMA LenFacts ==
  ASSUME NEW S, NEW s \in Seq(S)
  PROVE  /\ Len(s) \in Nat /\ DOMAIN s = 1..Len(s) /\ s \in [1..Len(s) -> S]
         /\ \A k \in 1..Len(s) : s[k] \in S
OBVIOUS

\* The empty sequence is the one of length 0.
LEMMA EmptyFacts ==
  ASSUME NEW S
  PROVE  <<>> \in Seq(S) /\ \A s \in Seq(S) : s = <<>> <=> Len(s) = 0
OBVIOUS

\* Appending leaves the earlier elements where they are.
LEMMA AppendFacts ==
  ASSUME NEW S, NEW s \in Seq(S), NEW e \in S
  PROVE  /\ Append(s, e) \in Seq(S)
         /\ Len(Append(s, e)) = Len(s) + 1
         /\ \A k \in 1..Len(s) : Append(s, e)[k] = s[k]
         /\ Append(s, e)[Len(s) + 1] = e
OBVIOUS

\* A slice holds the elements from a to b.
LEMMA SubSeqFacts ==
  ASSUME NEW S, NEW s \in Seq(S), NEW a \in 1 .. Len(s) + 1, NEW b \in a - 1 .. Len(s)
  PROVE  /\ SubSeq(s, a, b) \in Seq(S)
         /\ Len(SubSeq(s, a, b)) = b - a + 1
         /\ \A k \in 1 .. b - a + 1 : SubSeq(s, a, b)[k] = s[a + k - 1]
<1>1. Len(s) \in Nat /\ \A k \in 1..Len(s) : s[k] \in S
  OBVIOUS
<1>2. /\ Len(SubSeq(s, a, b)) = b - a + 1
      /\ \A k \in 1 .. b - a + 1 : SubSeq(s, a, b)[k] = s[a + k - 1]
  BY <1>1
<1>3. \A k \in 1 .. b - a + 1 : a + k - 1 \in 1..Len(s)
  BY <1>1
<1>4. SubSeq(s, a, b) \in Seq(S)
  BY <1>1, <1>2, <1>3
<1>5. QED
  BY <1>2, <1>4

\* A concatenation has the elements of the first part, then of the second.
LEMMA ConcatFacts ==
  ASSUME NEW S, NEW s \in Seq(S), NEW u \in Seq(S)
  PROVE  /\ s \o u \in Seq(S)
         /\ Len(s \o u) = Len(s) + Len(u)
         /\ \A k \in 1 .. Len(s) + Len(u) :
              (s \o u)[k] = IF k <= Len(s) THEN s[k] ELSE u[k - Len(s)]
OBVIOUS

\* Sequences with the same elements are equal.
LEMMA EqualFacts ==
  ASSUME NEW S, NEW s \in Seq(S), NEW u \in Seq(S), Len(s) = Len(u),
         \A k \in 1..Len(s) : s[k] = u[k]
  PROVE  s = u
OBVIOUS

\* A sequence is its own longest slice.
LEMMA FullFacts ==
  ASSUME NEW S, NEW s \in Seq(S)
  PROVE  SubSeq(s, 1, Len(s)) = s
OBVIOUS

\* A non-empty set of natural numbers has a least element.  The loops of
\* AppendEntries end at such an element.
LEMMA LeastElement ==
  ASSUME NEW S \in SUBSET Nat, S # {}
  PROVE  \E x \in S : \A y \in S : x <= y
<1> DEFINE R == OpToRel(<, Nat)
<1>1. IsWellFoundedOn(R, Nat)
  BY NatLessThanWellFounded, Zenon
<1>2. \A x, y \in Nat : x < y => <<x, y>> \in R
  BY DEF OpToRel
<1> HIDE DEF R
<1>3. PICK x \in S : \A y \in S : ~(<<y, x>> \in R)
  BY <1>1, WFMin, Zenon
<1>4. \A y \in S : ~(y < x)
  BY <1>2, <1>3, Zenon
<1>5. x \in Nat /\ \A y \in S : y \in Nat
  OBVIOUS
<1>6. \A y \in S : x <= y
  BY <1>4, <1>5, SMT
<1>7. QED
  BY <1>6

\* The backwards scan of AppendEntries (lines 266-271) ends at an index of the
\* log, 0 included, and passes only entries of one term.
LEMMA ConflictStartProperties ==
  ASSUME NEW l, NEW prev \in Nat
  PROVE  /\ ConflictStart(l, prev) \in 0..prev
         /\ \A n \in ConflictStart(l, prev) .. prev : TermAt(l, n) = TermAt(l, prev)
<1> DEFINE Run == {k \in 0..prev : \A n \in k..prev : TermAt(l, n) = TermAt(l, prev)}
<1>1. prev \in Run
  BY SMT
<1>2. PICK k \in Run : \A j \in Run : k <= j
  <2>1. Run \in SUBSET Nat /\ Run # {}
    BY <1>1
  <2> HIDE DEF Run
  <2>2. QED
    BY <2>1, LeastElement
<1>3. k = 0 \/ TermAt(l, k - 1) # TermAt(l, prev)
  <2> SUFFICES ASSUME k # 0, TermAt(l, k - 1) = TermAt(l, prev) PROVE FALSE
    OBVIOUS
  <2>1. k - 1 \in 0..prev
    BY <1>2
  <2>2. \A n \in k - 1 .. prev : n = k - 1 \/ n \in k..prev
    BY <1>2
  <2>3. \A n \in k - 1 .. prev : TermAt(l, n) = TermAt(l, prev)
    BY <1>2, <2>2
  <2>4. k - 1 \in Run
    BY <2>1, <2>3
  <2>5. QED
    BY <1>2, <2>4
<1>4. QED
  BY <1>2, <1>3 DEF ConflictStart

\* The comparison loop of AppendEntries (lines 276-281) counts entries of the
\* call that the log holds at the same index with the same term, and stops at
\* the first difference or at the end of one of the two.
LEMMA AgreeingProperties ==
  ASSUME NEW l \in Seq(Entry), NEW m \in Request, m.prev <= Len(l)
  PROVE  LET n == Agreeing(l, m) IN
         /\ n \in 0..Len(m.entries)
         /\ m.prev + n <= Len(l)
         /\ \A k \in 1..n : l[m.prev + k].term = m.entries[k].term
         /\ \/ n = Len(m.entries)
            \/ m.prev + n = Len(l)
            \/ l[m.prev + n + 1].term # m.entries[n + 1].term
<1> DEFINE Agree(n) == /\ m.prev + n <= Len(l)
                       /\ \A k \in 1..n : l[m.prev + k].term = m.entries[k].term
           Stop(n) == \/ n = Len(m.entries)
                      \/ m.prev + n = Len(l)
                      \/ l[m.prev + n + 1].term # m.entries[n + 1].term
           e == Len(m.entries)
           Left == {d \in 0..e : Agree(e - d)}
<1>1. m.prev \in Nat /\ m.entries \in Seq(Entry) /\ e \in Nat /\ Len(l) \in Nat
  BY DEF Request
<1>2. Left \in SUBSET Nat /\ e \in Left
  BY <1>1
<1>3. PICK d \in Left : \A j \in Left : d <= j
  <2> HIDE DEF Left
  <2> QED
    BY <1>2, LeastElement
<1>4. e - d \in 0..e /\ Agree(e - d)
  BY <1>1, <1>3
<1>5. Stop(e - d)
  <2> SUFFICES ASSUME ~Stop(e - d) PROVE FALSE
    OBVIOUS
  <2>0. d \in 0..e
    OBVIOUS
  <2>1. d # 0 /\ d - 1 \in 0..e
    BY <1>1, <2>0
  <2>2. m.prev + (e - (d - 1)) <= Len(l)
    <3>1. m.prev + (e - d) <= Len(l) /\ m.prev + (e - d) # Len(l)
      BY <1>4
    <3>2. m.prev \in Nat /\ Len(l) \in Nat /\ e \in Nat /\ d \in Nat
      BY <1>1, <2>0
    <3> HIDE DEF e
    <3>3. QED
      BY <3>1, <3>2
  <2> HIDE DEF e
  <2>3. \A k \in 1 .. e - (d - 1) : k \in 1 .. e - d \/ k = e - d + 1
    BY <1>1, <2>0
  <2> USE DEF e
  <2>4. l[m.prev + (e - d + 1)].term = m.entries[e - d + 1].term
    BY <1>1, <1>3
  <2>5. Agree(e - (d - 1))
    BY <1>4, <2>2, <2>3, <2>4
  <2>6. d - 1 \in Left
    BY <2>1, <2>5
  <2>7. d <= d - 1
    BY <1>3, <2>6, Zenon
  <2>8. QED
    BY <2>0, <2>7
<1>6. \E n \in 0..e : Agree(n) /\ Stop(n)
  BY <1>4, <1>5, Zenon
<1>7. Agreeing(l, m) = CHOOSE n \in 0..e : Agree(n) /\ Stop(n)
  BY DEF Agreeing
<1>8. QED
  BY <1>6, <1>7, Zenon

\* TermAt reads a term within the log.
LEMMA TermAtType ==
  ASSUME NEW l \in Seq(Entry), NEW k \in 0..Len(l)
  PROVE  TermAt(l, k) \in Nat
<1>1. CASE k = 0
  BY <1>1 DEF TermAt
<1>2. CASE k # 0
  <2>1. k \in 1..Len(l)
    BY <1>2
  <2>2. l[k] \in Entry
    BY <2>1, LenFacts
  <2>3. QED
    BY <2>2, <1>2 DEF TermAt, Entry
<1>3. QED
  BY <1>1, <1>2

\* The term that a candidate sends with its calls (line 469) is a term.
LEMMA LastTermType ==
  ASSUME NEW l \in Seq(Entry)
  PROVE  LastTerm(l) \in Nat
<1>1. Len(l) \in 0..Len(l)
  OBVIOUS
<1>2. QED
  BY <1>1, TermAtType DEF LastTerm

\* An entry of a log has a term that is a natural number.
LEMMA EntryTerm ==
  ASSUME NEW l \in Seq(Entry), NEW k \in 1..Len(l)
  PROVE  l[k].term \in Nat /\ TermAt(l, k) = l[k].term
<1>1. l[k] \in Entry /\ k # 0
  BY LenFacts
<1>2. QED
  BY <1>1 DEF Entry, TermAt

\* A suffix of a log is a log.
LEMMA SuffixProperties ==
  ASSUME NEW l \in Seq(Entry), NEW k \in 0..Len(l)
  PROVE  /\ SubSeq(l, k + 1, Len(l)) \in Seq(Entry)
         /\ Len(SubSeq(l, k + 1, Len(l))) = Len(l) - k
         /\ \A j \in 1 .. Len(l) - k : SubSeq(l, k + 1, Len(l))[j] = l[k + j]
<1>1. Len(l) \in Nat /\ k \in Nat /\ k + 1 \in Int
  OBVIOUS
<1>2. \A j \in k + 1 .. Len(l) : l[j] \in Entry
  BY LenFacts
<1>3. /\ SubSeq(l, k + 1, Len(l)) \in Seq(Entry)
      /\ Len(SubSeq(l, k + 1, Len(l))) = IF k + 1 <= Len(l) THEN Len(l) - (k + 1) + 1 ELSE 0
      /\ \A j \in 1 .. Len(l) - (k + 1) + 1 : SubSeq(l, k + 1, Len(l))[j] = l[k + 1 + j - 1]
  BY <1>1, <1>2, SubSeqFacts
<1>4. \A j \in 1 .. Len(l) - k : j \in 1 .. Len(l) - (k + 1) + 1 /\ k + 1 + j - 1 = k + j
  BY <1>1
<1>5. QED
  BY <1>1, <1>3, <1>4

\* What AppendEntries keeps is a prefix of the log.
LEMMA TruncatedProperties ==
  ASSUME NEW l \in Seq(Entry), NEW m \in Request, HasPrev(l, m)
  PROVE  /\ Truncated(l, m) \in Seq(Entry)
         /\ Len(Truncated(l, m)) = m.prev + Agreeing(l, m)
         /\ \A k \in 1 .. m.prev + Agreeing(l, m) : Truncated(l, m)[k] = l[k]
<1> DEFINE n == m.prev + Agreeing(l, m)
<1>1. n \in Nat /\ n <= Len(l)
  BY AgreeingProperties DEF Request, HasPrev
<1>2. \A j \in 1 .. n : l[j] \in Entry
  BY <1>1, LenFacts
<1> HIDE DEF n
<1>3. /\ SubSeq(l, 1, n) \in Seq(Entry)
      /\ Len(SubSeq(l, 1, n)) = n
      /\ \A j \in 1 .. n : SubSeq(l, 1, n)[j] = l[j]
  BY <1>1, <1>2, SubSeqFacts
<1>4. QED
  BY <1>3 DEF n, Truncated

\* After AppendEntries the log ends with the call's entries: up to the agreeing
\* ones it is the old log, and from there on the call's.
LEMMA ExtendedProperties ==
  ASSUME NEW l \in Seq(Entry), NEW m \in Request, HasPrev(l, m)
  PROVE  /\ Extended(l, m) \in Seq(Entry)
         /\ Len(Extended(l, m)) = m.prev + Len(m.entries)
         /\ \A k \in 1 .. m.prev + Len(m.entries) :
              Extended(l, m)[k] = IF k <= m.prev + Agreeing(l, m) THEN l[k]
                                  ELSE m.entries[k - m.prev]
<1> DEFINE n == Agreeing(l, m)
           t == Truncated(l, m)
           s == SubSeq(m.entries, n + 1, Len(m.entries))
<1>1. m.entries \in Seq(Entry) /\ m.prev \in Nat
  BY DEF Request
<1>2. n \in 0..Len(m.entries)
  BY AgreeingProperties DEF HasPrev
<1>3. /\ s \in Seq(Entry)
      /\ Len(s) = Len(m.entries) - n
      /\ \A j \in 1 .. Len(m.entries) - n : s[j] = m.entries[n + j]
  BY <1>1, <1>2, SuffixProperties
<1>4. /\ t \in Seq(Entry)
      /\ Len(t) = m.prev + n
      /\ \A k \in 1 .. m.prev + n : t[k] = l[k]
  BY TruncatedProperties
<1> HIDE DEF n, t, s
<1>5. /\ t \o s \in Seq(Entry)
      /\ Len(t \o s) = Len(t) + Len(s)
      /\ \A k \in 1 .. Len(t) + Len(s) : (t \o s)[k] = IF k <= Len(t) THEN t[k] ELSE s[k - Len(t)]
  BY <1>3, <1>4, ConcatFacts, Zenon
<1>6. Len(t) + Len(s) = m.prev + Len(m.entries)
  BY <1>1, <1>2, <1>3, <1>4
<1>7. ASSUME NEW k \in 1 .. m.prev + Len(m.entries)
      PROVE  (t \o s)[k] = IF k <= m.prev + n THEN l[k] ELSE m.entries[k - m.prev]
  <2>1. CASE k <= m.prev + n
    BY <2>1, <1>1, <1>2, <1>4, <1>5, <1>6
  <2>2. CASE ~(k <= m.prev + n)
    <3>1. k - (m.prev + n) \in 1 .. Len(m.entries) - n
      BY <2>2, <1>1, <1>2
    <3>2. n + (k - (m.prev + n)) = k - m.prev
      BY <1>1, <1>2
    <3>3. (t \o s)[k] = s[k - (m.prev + n)]
      BY <2>2, <1>1, <1>4, <1>5, <1>6
    <3>4. QED
      BY <2>2, <3>1, <3>2, <3>3, <1>3
  <2>3. QED
    BY <2>1, <2>2, Zenon
<1>8. QED
  BY <1>5, <1>6, <1>7 DEF Extended, n, t, s

-----------------------------------------------------------------------------
(* 2. Pieces of logs *)

\* The indices of a piece.
LEMMA CoveredFacts ==
  ASSUME NEW x, IsPiece(x)
  PROVE  /\ Covered(x) \subseteq Nat /\ Held(x) \subseteq Covered(x)
         /\ \A k, n \in Covered(x), j \in Nat : n <= j /\ j <= k => j \in Covered(x)
BY DEF IsPiece, Covered, Held

\* A log, as a piece, has the terms and the entries of the log.
LEMMA WholeFacts ==
  ASSUME NEW l \in Seq(Entry)
  PROVE  /\ IsPiece(Whole(l))
         /\ Covered(Whole(l)) = 0..Len(l) /\ Held(Whole(l)) = 1..Len(l)
         /\ \A k \in 0..Len(l) : TermOf(Whole(l), k) = TermAt(l, k)
         /\ \A k \in 1..Len(l) : EntryOf(Whole(l), k) = l[k]
<1>1. /\ Whole(l).prev = 0 /\ Whole(l).prevTerm = 0 /\ Whole(l).entries = l
      /\ Len(l) \in Nat
  BY DEF Whole
<1>2. \A k \in 1..Len(l) : k - 0 = k
  OBVIOUS
<1>3. QED
  BY <1>1, <1>2 DEF IsPiece, Covered, Held, TermOf, EntryOf, TermAt

\* Matching is symmetric.
LEMMA MatchSymmetric ==
  ASSUME NEW x, NEW y, Match(x, y)
  PROVE  Match(y, x)
BY DEF Match, Same

\* A piece matches itself.
LEMMA MatchSelf ==
  ASSUME NEW x
  PROVE  Match(x, x)
BY DEF Match, Same

\* A piece is a part of itself.
LEMMA PartSelf ==
  ASSUME NEW x
  PROVE  Part(x, x)
BY DEF Part

\* Parts of pieces that match, match.
LEMMA MatchPart ==
  ASSUME NEW x, NEW y, NEW z, Match(x, y), Part(z, x)
  PROVE  Match(z, y)
<1> SUFFICES ASSUME NEW k \in Covered(z) \cap Covered(y), TermOf(z, k) = TermOf(y, k),
                    NEW n \in Covered(z) \cap Covered(y), n <= k
             PROVE  Same(z, y, n)
  BY DEF Match
<1>1. k \in Covered(x) \cap Covered(y) /\ n \in Covered(x) \cap Covered(y)
  BY DEF Part
<1>2. TermOf(x, k) = TermOf(y, k)
  BY DEF Part
<1>3. Same(x, y, n)
  BY <1>1, <1>2 DEF Match
<1>4. QED
  BY <1>3 DEF Same, Part

\* Parts of matching pieces match.
LEMMA MatchParts ==
  ASSUME NEW x, NEW y, NEW z, NEW w, Match(x, y), Part(z, x), Part(w, y)
  PROVE  Match(z, w)
<1>1. Match(z, y)
  BY MatchPart
<1>2. Match(y, z)
  BY <1>1, MatchSymmetric
<1>3. Match(w, z)
  BY <1>2, MatchPart
<1>4. QED
  BY <1>3, MatchSymmetric

\* A prefix of a log is a part of it.
LEMMA PrefixPart ==
  ASSUME NEW l \in Seq(Entry), NEW x \in Seq(Entry), Len(x) <= Len(l),
         \A k \in 1..Len(x) : x[k] = l[k]
  PROVE  Part(Whole(x), Whole(l))
<1>1. Len(x) \in Nat /\ Len(l) \in Nat
  OBVIOUS
<1>2. \A k \in 0..Len(x) : TermAt(x, k) = TermAt(l, k)
  BY <1>1 DEF TermAt
<1>3. QED
  BY <1>1, <1>2, WholeFacts DEF Part

\* AppendEntries joins what the log has up to PrevLogIndex with the entries of
\* the call.  What matches both matches the result: a piece with the term of the
\* call's entry at k agrees with the call down to PrevLogIndex, and from there
\* with the log.
LEMMA MatchJoin ==
  ASSUME NEW x, NEW a, NEW b, NEW y, IsPiece(x), IsPiece(y), Match(a, y), Match(b, y),
         NEW p \in Covered(x),
         \A k \in Covered(x) : k <= p => k \in Covered(a) /\ TermOf(x, k) = TermOf(a, k),
         \A k \in Held(x) : k <= p => k \in Held(a) /\ EntryOf(x, k) = EntryOf(a, k),
         \A k \in Covered(x) : p <= k => k \in Covered(b) /\ TermOf(x, k) = TermOf(b, k),
         \A k \in Held(x) : p < k => k \in Held(b) /\ EntryOf(x, k) = EntryOf(b, k)
  PROVE  Match(x, y)
<1>0. Covered(x) \subseteq Nat /\ Covered(y) \subseteq Nat /\ Held(x) \subseteq Covered(x)
  BY CoveredFacts
<1> SUFFICES ASSUME NEW k \in Covered(x) \cap Covered(y), TermOf(x, k) = TermOf(y, k),
                    NEW n \in Covered(x) \cap Covered(y), n <= k
             PROVE  Same(x, y, n)
  BY DEF Match
<1>1. p \in Nat /\ k \in Nat /\ n \in Nat
  BY <1>0
<1>2. ASSUME NEW j \in Covered(x) \cap Covered(y), j <= p, TermOf(a, j) = TermOf(y, j), n <= j
      PROVE  Same(x, y, n)
  <2>1. n <= p /\ n \in Covered(a) /\ j \in Covered(a)
    BY <1>0, <1>1, <1>2
  <2>2. Same(a, y, n)
    BY <1>2, <2>1 DEF Match
  <2>3. QED
    BY <2>1, <2>2 DEF Same
<1>3. CASE k <= p
  BY <1>2, <1>3
<1>4. CASE p < k
  <2>1. k \in Covered(b) /\ TermOf(b, k) = TermOf(y, k)
    BY <1>1, <1>4
  <2>2. CASE p < n
    <3>1. n \in Covered(b) /\ TermOf(x, n) = TermOf(b, n)
      BY <1>1, <2>2
    <3>2. Same(b, y, n)
      BY <2>1, <3>1 DEF Match
    <3>3. QED
      BY <2>2, <3>1, <3>2 DEF Same
  <2>3. CASE n <= p
    <3>1. p \in Covered(y)
      BY <1>1, <1>4, <2>3, CoveredFacts
    <3>2. p \in Covered(b) /\ TermOf(x, p) = TermOf(b, p) /\ TermOf(x, p) = TermOf(a, p)
      BY <1>1
    <3>3. Same(b, y, p)
      BY <1>1, <1>4, <2>1, <3>1, <3>2 DEF Match
    <3>4. TermOf(a, p) = TermOf(y, p)
      BY <3>2, <3>3, Zenon DEF Same
    <3>5. QED
      BY <1>1, <1>2, <2>3, <3>1, <3>4
  <2>4. QED
    BY <1>1, <2>2, <2>3
<1>5. QED
  BY <1>1, <1>3, <1>4

\* What AppendEntries leaves of log l is l up to PrevLogIndex, and the call's
\* entries from there on: those that agree in the term (line 278) are the same.
LEMMA ExtendedIsJoin ==
  ASSUME NEW l \in Seq(Entry), NEW m \in Request, HasPrev(l, m), Match(Whole(l), m)
  PROVE  LET x == Whole(Extended(l, m)) IN
         /\ IsPiece(x) /\ m.prev \in Covered(x)
         /\ \A k \in Covered(x) : k <= m.prev => k \in Covered(Whole(l)) /\ TermOf(x, k) = TermOf(Whole(l), k)
         /\ \A k \in Held(x) : k <= m.prev => k \in Held(Whole(l)) /\ EntryOf(x, k) = EntryOf(Whole(l), k)
         /\ \A k \in Covered(x) : m.prev <= k => k \in Covered(m) /\ TermOf(x, k) = TermOf(m, k)
         /\ \A k \in Held(x) : m.prev < k => k \in Held(m) /\ EntryOf(x, k) = EntryOf(m, k)
<1> DEFINE w == Extended(l, m)
           x == Whole(w)
           n == Agreeing(l, m)
           p == m.prev
           e == m.entries
           E == Len(m.entries)
<1>1. /\ e \in Seq(Entry) /\ E = Len(e) /\ E \in Nat /\ p \in Nat /\ Len(l) \in Nat
      /\ p <= Len(l) /\ TermAt(l, p) = m.prevTerm
  BY DEF Request, HasPrev
<1>2. /\ w \in Seq(Entry) /\ Len(w) = p + E
      /\ \A k \in 1 .. p + E : w[k] = IF k <= p + n THEN l[k] ELSE e[k - p]
  BY ExtendedProperties
<1>3. /\ n \in 0..E /\ p + n <= Len(l)
      /\ \A k \in 1..n : l[p + k].term = e[k].term
  BY AgreeingProperties DEF HasPrev
<1>4. /\ Covered(m) = p .. p + E /\ Held(m) = p + 1 .. p + E
      /\ TermOf(m, p) = m.prevTerm
      /\ \A k \in p + 1 .. p + E : EntryOf(m, k) = e[k - p] /\ TermOf(m, k) = e[k - p].term
  BY <1>1 DEF Covered, Held, TermOf, EntryOf
<1>5. /\ IsPiece(x) /\ Covered(x) = 0 .. p + E /\ Held(x) = 1 .. p + E
      /\ \A k \in 0 .. p + E : TermOf(x, k) = TermAt(w, k)
      /\ \A k \in 1 .. p + E : EntryOf(x, k) = w[k]
  BY <1>2, WholeFacts
<1>6. /\ Covered(Whole(l)) = 0..Len(l) /\ Held(Whole(l)) = 1..Len(l)
      /\ \A k \in 0..Len(l) : TermOf(Whole(l), k) = TermAt(l, k)
      /\ \A k \in 1..Len(l) : EntryOf(Whole(l), k) = l[k]
  BY WholeFacts
<1> HIDE DEF w, x, n, p, e, E
<1>7. \A k \in 0..p : TermAt(w, k) = TermAt(l, k)
  BY <1>1, <1>2, <1>3 DEF TermAt
<1>8. ASSUME NEW k \in p + 1 .. p + n PROVE l[k] = e[k - p]
  <2>0. PICK q : q = p + n
    OBVIOUS
  <2>1. /\ n \in 1..n /\ q \in p + 1 .. p + E /\ q - p = n
        /\ q \in Covered(m) /\ q \in Covered(Whole(l)) /\ q \in 0..Len(l) /\ q # 0
    BY <1>1, <1>3, <1>4, <1>6, <2>0
  <2>2. TermOf(Whole(l), q) = TermOf(m, q)
    <3>1. TermOf(Whole(l), q) = l[q].term
      BY <1>6, <2>1 DEF TermAt
    <3>2. TermOf(m, q) = e[n].term
      BY <1>4, <2>1
    <3>3. l[q].term = e[n].term
      BY <1>3, <2>0, <2>1
    <3>4. QED
      BY <3>1, <3>2, <3>3
  <2>3. /\ k \in Covered(m) /\ k \in Covered(Whole(l)) /\ k <= q
        /\ k \in Held(m) /\ k \in Held(Whole(l)) /\ k \in p + 1 .. p + E /\ k \in 1..Len(l)
    BY <1>1, <1>3, <1>4, <1>6, <2>0
  <2>4. Same(Whole(l), m, k)
    BY <2>1, <2>2, <2>3 DEF Match
  <2>5. QED
    BY <1>4, <1>6, <2>3, <2>4 DEF Same
<1>9. ASSUME NEW k \in p + 1 .. p + E PROVE w[k] = e[k - p] /\ TermAt(w, k) = e[k - p].term
  <2>1. k \in 1 .. p + E /\ k # 0
    BY <1>1
  <2>2. CASE k <= p + n
    <3>1. k \in p + 1 .. p + n
      BY <1>1, <1>3, <2>2
    <3>2. QED
      BY <1>2, <1>8, <2>1, <2>2, <3>1 DEF TermAt
  <2>3. CASE ~(k <= p + n)
    BY <1>2, <2>1, <2>3 DEF TermAt
  <2>4. QED
    BY <2>2, <2>3
<1>10. p \in Covered(x)
  BY <1>1, <1>5
<1>11. ASSUME NEW k \in Covered(x), k <= p
       PROVE  k \in Covered(Whole(l)) /\ TermOf(x, k) = TermOf(Whole(l), k)
  <2>1. k \in 0..p /\ k \in 0 .. p + E /\ k \in 0..Len(l)
    BY <1>1, <1>5, <1>11
  <2>2. QED
    BY <1>5, <1>6, <1>7, <2>1
<1>12. ASSUME NEW k \in Held(x), k <= p
       PROVE  k \in Held(Whole(l)) /\ EntryOf(x, k) = EntryOf(Whole(l), k)
  <2>1. k \in 1 .. p + E /\ k \in 1..Len(l) /\ k <= p + n
    BY <1>1, <1>3, <1>5, <1>12
  <2>2. QED
    BY <1>2, <1>5, <1>6, <2>1
<1>13. ASSUME NEW k \in Covered(x), p <= k
       PROVE  k \in Covered(m) /\ TermOf(x, k) = TermOf(m, k)
  <2>1. k \in 0 .. p + E /\ k \in p .. p + E /\ (k = p \/ k \in p + 1 .. p + E) /\ p \in 0..p
    BY <1>1, <1>5, <1>13
  <2>2. CASE k = p
    BY <1>1, <1>4, <1>5, <1>7, <2>1, <2>2
  <2>3. CASE k \in p + 1 .. p + E
    BY <1>4, <1>5, <1>9, <2>1, <2>3
  <2>4. QED
    BY <2>1, <2>2, <2>3
<1>14. ASSUME NEW k \in Held(x), p < k
       PROVE  k \in Held(m) /\ EntryOf(x, k) = EntryOf(m, k)
  <2>1. k \in 1 .. p + E /\ k \in p + 1 .. p + E
    BY <1>1, <1>5, <1>14
  <2>2. QED
    BY <1>4, <1>5, <1>9, <2>1
<1>15. QED
  BY <1>5, <1>10, <1>11, <1>12, <1>13, <1>14 DEF w, x, p

\* The truncated log is a part of the log.
LEMMA TruncatedIsPart ==
  ASSUME NEW l \in Seq(Entry), NEW m \in Request, HasPrev(l, m)
  PROVE  Part(Whole(Truncated(l, m)), Whole(l))
<1> DEFINE n == m.prev + Agreeing(l, m)
<1>1. n \in Nat /\ n <= Len(l)
  BY AgreeingProperties DEF HasPrev, Request
<1>2. /\ Truncated(l, m) \in Seq(Entry) /\ Len(Truncated(l, m)) = n
      /\ \A k \in 1..n : Truncated(l, m)[k] = l[k]
  BY TruncatedProperties
<1> HIDE DEF n
<1>3. QED
  BY <1>1, <1>2, PrefixPart

\* A call of a leader is a part of its log (lines 395-398).
LEMMA SuffixPart ==
  ASSUME NEW l \in Seq(Entry), NEW k \in 0..Len(l), NEW m, m.prev = k, m.prevTerm = TermAt(l, k),
         m.entries = SubSeq(l, k + 1, Len(l))
  PROVE  Part(m, Whole(l))
<1> DEFINE s == SubSeq(l, k + 1, Len(l))
<1>1. /\ Len(s) = Len(l) - k /\ Len(l) \in Nat /\ k \in Nat
      /\ \A j \in 1 .. Len(l) - k : s[j] = l[k + j]
  BY SuffixProperties
<1> HIDE DEF s
<1>2. m.entries = s /\ Covered(m) = k..Len(l) /\ Held(m) = k + 1 .. Len(l)
  BY <1>1 DEF Covered, Held, s
<1>3. ASSUME NEW j \in k + 1 .. Len(l) PROVE EntryOf(m, j) = l[j] /\ TermOf(m, j) = TermAt(l, j)
  <2>1. j - k \in 1 .. Len(l) - k /\ k + (j - k) = j /\ j # k /\ j # 0
    BY <1>1
  <2>2. s[j - k] = l[j]
    BY <1>1, <2>1
  <2>3. QED
    BY <1>2, <2>1, <2>2 DEF EntryOf, TermOf, TermAt
<1>4. TermOf(m, k) = TermAt(l, k)
  BY DEF TermOf
<1>5. \A j \in k..Len(l) : j = k \/ j \in k + 1 .. Len(l)
  BY <1>1
<1>6. \A j \in k..Len(l) : TermOf(m, j) = TermAt(l, j) /\ j \in 0..Len(l)
  BY <1>1, <1>3, <1>4, <1>5
<1>7. \A j \in k + 1 .. Len(l) : j \in 1..Len(l)
  BY <1>1
<1>8. QED
  BY <1>2, <1>3, <1>6, <1>7, WholeFacts DEF Part

-----------------------------------------------------------------------------
(* 3. Positions in a log *)

\* The positions of a log of length n, and the one after it.
LEMMA RangeFacts ==
  ASSUME NEW n \in Nat
  PROVE  /\ n >= n /\ n + 1 \in Nat /\ n <= n + 1
         /\ n + 1 \in 1 .. n + 1 /\ 0 \in 0..n /\ n \in 0..n
         /\ \A x \in 1 .. n + 1 : x - 1 \in 0..n
         /\ \A k \in 0..n : k + (n - k) <= n
OBVIOUS

\* A position in a log is one in a longer log.
LEMMA RangeGrows ==
  ASSUME NEW a \in Nat, NEW b \in Nat, a <= b
  PROVE  /\ \A x \in 1 .. a + 1 : x \in 1 .. b + 1
         /\ \A x \in 0..a : x \in 0..b
         /\ \A x, y \in Nat : x + y <= a => x + y <= b
OBVIOUS

\* What follows x by y places, within a log of length n.
LEMMA SumInRange ==
  ASSUME NEW n \in Nat, NEW x \in Nat, NEW y \in Nat, x + y <= n
  PROVE  x + y \in 0..n /\ x + y + 1 \in 1 .. n + 1
OBVIOUS

-----------------------------------------------------------------------------
(* 4. The indices of a leader *)

\* Nobody leads when the peers are made.
LEMMA IndexInit == Init => IndexInv
<1> SUFFICES ASSUME Init, NEW i \in Server PROVE IndexOK(i) /\ Alive(i)
  BY DEF IndexInv
<1>1. status[i] = "follower" /\ routine[i] = "follower"
  BY DEF Init
<1>2. QED
  BY <1>1 DEF IndexOK, Alive

\* Who leads after a step in which nobody wins has led before it, with a log
\* that was no longer.
LEMMA StaysLeader ==
  ASSUME RoleInv', LeaderStep, elected' = elected, NEW i \in Server, status'[i] = "leader"
  PROVE  status[i] = "leader" /\ Len(log'[i]) >= Len(log[i])
<1>1. [term |-> currentTerm'[i], server |-> i] \in elected
  BY ZenonT(30) DEF RoleInv, RoleOK
<1>2. ~\A e \in elected : e.term # currentTerm'[i]
  BY <1>1
<1>3. QED
  BY <1>2, Zenon DEF LeaderStep

\* The numbers in calls and replies.
LEMMA RoundType ==
  ASSUME TypeOK, NEW i \in Server
  PROVE  /\ \A m \in awaiting[i] : m.prev \in Nat /\ Len(m.entries) \in Nat
         /\ \A r \in replies[i] : r.from \in Server /\ r.prev \in Nat /\ r.sent \in Nat
<1>1. awaiting[i] \subseteq Request /\ replies[i] \subseteq AppendReply
  BY DEF TypeOK
<1>2. \A m \in Request : m.prev \in Nat /\ Len(m.entries) \in Nat
  BY LenFacts DEF Request
<1>3. \A r \in AppendReply : r.from \in Server /\ r.prev \in Nat /\ r.sent \in Nat
  BY SMTT(30) DEF AppendReply
<1>4. QED
  BY <1>1, <1>2, <1>3, ZenonT(30)

\* A peer whose indices the step does not touch.
LEMMA IndexKeep ==
  ASSUME TypeOK, TypeOK', NEW i \in Server, IndexOK(i),
         status'[i] = "leader" => status[i] = "leader" /\ Len(log'[i]) >= Len(log[i]),
         nextIndex'[i] = nextIndex[i], matchIndex'[i] = matchIndex[i],
         awaiting'[i] \subseteq awaiting[i], replies'[i] \subseteq replies[i]
  PROVE  IndexOK(i)'
<1> SUFFICES ASSUME status'[i] = "leader" PROVE IndexOK(i)'
  BY DEF IndexOK
<1>1. PICK a, b : a = Len(log[i]) /\ b = Len(log'[i])
  BY ZenonT(30)
<1>2. a \in Nat /\ b \in Nat /\ a <= b
  BY <1>1, LenFacts DEF TypeOK
<1>3. \A p \in Server : nextIndex'[i][p] \in 1 .. b + 1 /\ matchIndex'[i][p] \in 0..b
  <2>1. \A p \in Server : nextIndex'[i][p] \in 1 .. a + 1 /\ matchIndex'[i][p] \in 0..a
    BY <1>1, ZenonT(30) DEF IndexOK
  <2>2. QED
    BY <1>2, <2>1, RangeGrows, ZenonT(30)
<1>4. \A m \in awaiting'[i] : m.prev + Len(m.entries) <= b
  <2> SUFFICES ASSUME NEW m \in awaiting'[i] PROVE m.prev + Len(m.entries) <= b
    OBVIOUS
  <2>1. m.prev + Len(m.entries) <= a
    BY <1>1 DEF IndexOK
  <2>2. m.prev \in Nat /\ Len(m.entries) \in Nat
    BY RoundType, Zenon
  <2>3. QED
    BY <1>2, <2>1, <2>2, RangeGrows, Zenon
<1>5. ASSUME NEW r \in replies'[i]
      PROVE  /\ r.prev + r.sent <= b
             /\ ~r.success /\ r.next # -1 => r.next \in 1 .. b + 1
  <2>1. /\ r.prev + r.sent <= a
        /\ ~r.success /\ r.next # -1 => r.next \in 1 .. a + 1
    BY <1>1 DEF IndexOK
  <2>2. r.prev \in Nat /\ r.sent \in Nat
    BY RoundType, Zenon
  <2>3. QED
    BY <1>2, <2>1, <2>2
<1>6. QED
  BY <1>1, <1>3, <1>4, <1>5, SMTT(30) DEF IndexOK

\* A step in which nobody wins, and which changes neither indices nor rounds
\* except to end them.
LEMMA IndexFrame ==
  ASSUME TypeOK, TypeOK', RoleInv', LeaderStep, IndexInv, elected' = elected,
         UNCHANGED leaderVars,
         \A j \in Server : /\ routine'[j] # "panic"
                           /\ awaiting'[j] \subseteq awaiting[j]
                           /\ replies'[j] \subseteq replies[j]
  PROVE  IndexInv'
<1> SUFFICES ASSUME NEW j \in Server PROVE IndexOK(j)' /\ Alive(j)'
  BY DEF IndexInv
<1>1. status'[j] = "leader" => status[j] = "leader" /\ Len(log'[j]) >= Len(log[j])
  BY StaysLeader
<1>2. IndexOK(j) /\ nextIndex'[j] = nextIndex[j] /\ matchIndex'[j] = matchIndex[j]
  BY DEF IndexInv, leaderVars
<1>3. QED
  BY <1>1, <1>2, IndexKeep DEF Alive

\* A handler's reply to a call of the current round tells its leader of
\* entries the leader has.
LEMMA IndexReply ==
  ASSUME TypeOK, TypeOK', RoleInv', LeaderStep, IndexInv, elected' = elected,
         UNCHANGED <<leaderVars, routine>>,
         NEW m \in requests, NEW success \in BOOLEAN, NEW next \in Int,
         ~success /\ next # -1 => next \in 1..m.prev,
         Reply(m, success, next)
  PROVE  IndexInv'
<1>0. \A j \in Server : routine'[j] # "panic"
  BY DEF IndexInv, Alive
<1>1. CASE UNCHANGED <<awaiting, replies>>
  BY <1>0, <1>1, IndexFrame
<1>2. CASE ~UNCHANGED <<awaiting, replies>>
  <2> DEFINE r == [from |-> m.to, term |-> currentTerm[m.to], success |-> success,
                   next |-> next, prev |-> m.prev, sent |-> Len(m.entries)]
  <2>1. /\ m \in awaiting[m.from]
        /\ awaiting' = [awaiting EXCEPT ![m.from] = @ \ {m}]
        /\ replies' = [replies EXCEPT ![m.from] = @ \cup {r}]
    BY <1>2, Zenon DEF Reply
  <2>2. /\ m.from \in Server /\ m.prev \in Nat /\ Len(m.entries) \in Nat
        /\ r.prev = m.prev /\ r.sent = Len(m.entries) /\ r.success = success /\ r.next = next
    BY LenFacts, Zenon DEF TypeOK, Request
  <2> HIDE DEF r
  <2> SUFFICES ASSUME NEW j \in Server PROVE IndexOK(j)'
    BY <1>0 DEF IndexInv, Alive
  <2>3. status'[j] = "leader" => status[j] = "leader" /\ Len(log'[j]) >= Len(log[j])
    BY StaysLeader
  <2>4. IndexOK(j) /\ nextIndex'[j] = nextIndex[j] /\ matchIndex'[j] = matchIndex[j]
    BY DEF IndexInv, leaderVars
  <2>5. awaiting'[j] \subseteq awaiting[j]
    <3>1. awaiting'[j] = IF j = m.from THEN awaiting[j] \ {m} ELSE awaiting[j]
      BY <2>1, ZenonT(30) DEF TypeOK
    <3>2. QED
      BY <3>1
  <2>6. CASE j # m.from
    <3>1. replies'[j] = replies[j]
      BY <2>1, <2>6, Zenon DEF TypeOK
    <3>2. QED
      BY <2>3, <2>4, <2>5, <3>1, IndexKeep
  <2>7. CASE j = m.from
    <3> SUFFICES ASSUME status'[j] = "leader" PROVE IndexOK(j)'
      BY Zenon DEF IndexOK
    <3>1. PICK a, b : a = Len(log[j]) /\ b = Len(log'[j])
      BY ZenonT(30)
    <3>2. a \in Nat /\ b \in Nat /\ a <= b
      BY <2>3, <3>1, LenFacts DEF TypeOK
    <3>3. m.prev + Len(m.entries) <= a
      BY <2>1, <2>3, <2>4, <2>7, <3>1, ZenonT(30) DEF IndexOK
    <3>4. \A q \in replies[j] :
            /\ q.prev \in Nat /\ q.sent \in Nat /\ q.prev + q.sent <= a
            /\ ~q.success /\ q.next # -1 => q.next \in 1 .. a + 1
      BY <2>3, <2>4, <3>1, RoundType, Zenon DEF IndexOK
    <3>5. \A q \in replies[j] \cup {r} :
            /\ q.prev + q.sent <= b
            /\ ~q.success /\ q.next # -1 => q.next \in 1 .. b + 1
      <4>1. \A q \in replies[j] : /\ q.prev + q.sent <= b
                                  /\ ~q.success /\ q.next # -1 => q.next \in 1 .. b + 1
        BY <3>2, <3>4, RangeGrows, ZenonT(30)
      <4>2. r.prev + r.sent <= b /\ (~r.success /\ r.next # -1 => r.next \in 1 .. b + 1)
        BY <2>2, <3>2, <3>3
      <4>3. QED
        BY <4>1, <4>2, Zenon
    <3>6. replies'[j] = replies[j] \cup {r}
      BY <2>1, <2>7, ZenonT(30) DEF TypeOK
    <3>7. \A p \in Server : nextIndex'[j][p] \in 1 .. b + 1 /\ matchIndex'[j][p] \in 0..b
      <4>1. \A p \in Server : nextIndex'[j][p] \in 1 .. a + 1 /\ matchIndex'[j][p] \in 0..a
        BY <2>3, <2>4, <3>1, ZenonT(30) DEF IndexOK
      <4>2. QED
        BY <3>2, <4>1, RangeGrows, Zenon
    <3>8. \A q \in awaiting'[j] : q.prev + Len(q.entries) <= b
      <4>1. \A q \in awaiting'[j] : /\ q.prev \in Nat /\ Len(q.entries) \in Nat
                                    /\ q.prev + Len(q.entries) <= a
        BY <2>3, <2>4, <2>5, <3>1, RoundType, ZenonT(30) DEF IndexOK
      <4>2. QED
        BY <3>2, <4>1, RangeGrows, Zenon
    <3>9. QED
      BY <3>1, <3>5, <3>6, <3>7, <3>8, Zenon DEF IndexOK
  <2>8. QED
    BY <2>6, <2>7
<1>3. QED
  BY <1>1, <1>2

\* The handlers keep IndexInv.
LEMMA IndexHandler ==
  ASSUME TypeOK, TypeOK', RoleInv, RoleInv', AsksInside, LeaderStep, IndexInv, Handler
  PROVE  IndexInv'
<1>0. \A j \in Server : routine[j] # "panic"
  BY SMTT(30) DEF IndexInv, Alive
<1>1. CASE \E m \in voteCalls : RequestVote(m)
  <2>1. UNCHANGED <<leaderVars, routine, awaiting, replies, elected>>
    BY <1>1, Zenon DEF RequestVote, appendVars
  <2>2. QED
    BY <1>0, <2>1, IndexFrame
<1>2. ASSUME NEW m \in requests, RefuseOldTerm(m) PROVE IndexInv'
  <2>1. /\ UNCHANGED <<leaderVars, routine>> /\ elected' = elected
        /\ Reply(m, FALSE, -1)
    BY <1>2, Zenon DEF RefuseOldTerm, roleVars, histVars
  <2>2. PICK success, next : success = FALSE /\ next = -1
    BY Zenon
  <2>3. next \in Int
    BY <2>2
  <2>4. success \in BOOLEAN /\ (~success /\ next # -1 => next \in 1..m.prev)
    BY <2>2, Zenon
  <2>5. Reply(m, success, next)
    BY <2>1, <2>2, Zenon
  <2>6. QED
    BY <2>1, <2>3, <2>4, <2>5, IndexReply
<1>3. ASSUME NEW m \in requests, RefuseConflict(m) PROVE IndexInv'
  <2>1. PICK n : n = NextAsked(m)
    OBVIOUS
  <2>2. /\ UNCHANGED <<leaderVars, routine>> /\ elected' = elected
        /\ ~HasPrev(log[m.to], m) /\ Reply(m, FALSE, n)
    BY <1>3, <2>1, ZenonT(30) DEF RefuseConflict, NextAsked, histVars
  <2>3. n \in 1..m.prev
    BY <2>1, <2>2, Zenon DEF AsksInside
  <2>4. n \in Int
    BY <2>3
  <2>5. QED
    BY <2>2, <2>3, <2>4, IndexReply, Zenon
<1>4. ASSUME NEW m \in requests, AcceptEntries(m) PROVE IndexInv'
  <2>1. /\ UNCHANGED <<leaderVars, routine>> /\ elected' = elected
        /\ Reply(m, TRUE, 0)
    BY <1>4, Zenon DEF AcceptEntries, histVars
  <2>2. PICK success, next : success = TRUE /\ next = 0
    OBVIOUS
  <2>3. next \in Int
    BY <2>2
  <2>4. success \in BOOLEAN /\ (~success /\ next # -1 => next \in 1..m.prev)
    BY <2>2, Zenon
  <2>5. Reply(m, success, next)
    BY <2>1, <2>2, ZenonT(30)
  <2>6. QED
    BY <2>1, <2>3, <2>4, <2>5, IndexReply
<1>5. QED
  BY <1>1, <1>2, <1>3, <1>4, Zenon DEF Handler, AppendEntries

\* A new leader starts with indices within its log and with no round.
LEMMA IndexWin ==
  ASSUME TypeOK, TypeOK', IndexInv, NEW i \in Server, BeginLeader(i), log' = log,
         \A j \in Server : j # i => status'[j] = status[j]
  PROVE  IndexInv'
<1>1. /\ nextIndex' = [nextIndex EXCEPT ![i] = [p \in Server |-> Len(log[i]) + 1]]
      /\ matchIndex' = [matchIndex EXCEPT ![i] =
                          [p \in Server |-> IF p = i THEN Len(log[i]) ELSE 0]]
      /\ routine' = [routine EXCEPT ![i] = "enter"]
      /\ awaiting' = [awaiting EXCEPT ![i] = {}]
      /\ replies' = [replies EXCEPT ![i] = {}]
  BY Zenon DEF BeginLeader, NoRound
<1>2. ASSUME NEW j \in Server PROVE Alive(j)'
  <2>1. routine \in [Server -> RoutineState] /\ routine[j] # "panic"
    BY Zenon DEF IndexInv, Alive, TypeOK
  <2>2. routine'[j] = "enter" \/ routine'[j] = routine[j]
    BY <1>1, <2>1, Zenon
  <2>3. QED
    BY <2>1, <2>2, Zenon DEF Alive
<1>3. IndexOK(i)'
  <2>1. Len(log[i]) \in Nat
    BY LenFacts, Zenon DEF TypeOK
  <2>2. \A p \in Server : /\ nextIndex'[i][p] = Len(log[i]) + 1
                          /\ matchIndex'[i][p] = 0 \/ matchIndex'[i][p] = Len(log[i])
    <3>1. DOMAIN nextIndex = Server /\ DOMAIN matchIndex = Server
      BY Zenon DEF TypeOK
    <3>2. /\ nextIndex'[i] = [p \in Server |-> Len(log[i]) + 1]
          /\ matchIndex'[i] = [p \in Server |-> IF p = i THEN Len(log[i]) ELSE 0]
      BY <1>1, <3>1, Zenon
    <3>3. QED
      BY <3>2, Zenon
  <2>3. awaiting'[i] = {} /\ replies'[i] = {}
    BY <1>1, Zenon DEF TypeOK
  <2>4. \A p \in Server : /\ nextIndex'[i][p] \in 1 .. Len(log[i]) + 1
                          /\ matchIndex'[i][p] \in 0 .. Len(log[i])
    BY <2>1, <2>2, RangeFacts, Zenon
  <2>5. QED
    BY <2>3, <2>4, Zenon DEF IndexOK
<1>4. ASSUME NEW j \in Server, j # i PROVE IndexOK(j)'
  <2>1. /\ nextIndex'[j] = nextIndex[j] /\ matchIndex'[j] = matchIndex[j]
        /\ awaiting'[j] = awaiting[j] /\ replies'[j] = replies[j]
    BY <1>1, <1>4, ZenonT(30) DEF TypeOK
  <2>2. IndexOK(j) /\ status'[j] = status[j] /\ Len(log[j]) \in Nat
    BY <1>4, LenFacts, Zenon DEF IndexInv, TypeOK
  <2>3. /\ status'[j] = "leader" => status[j] = "leader" /\ Len(log'[j]) >= Len(log[j])
        /\ awaiting'[j] \subseteq awaiting[j] /\ replies'[j] \subseteq replies[j]
    BY <2>1, <2>2, RangeFacts, Zenon
  <2>4. QED
    BY <2>1, <2>2, <2>3, IndexKeep, Zenon
<1>5. QED
  BY <1>2, <1>3, <1>4, Zenon DEF IndexInv

\* A step that changes only what leader i knows of its peers and its round.
LEMMA IndexOfOne ==
  ASSUME TypeOK, TypeOK', IndexInv, NEW i \in Server, IndexOK(i)', routine'[i] # "panic",
         \A j \in Server \ {i} :
           /\ routine'[j] = routine[j] /\ status'[j] = status[j] /\ log'[j] = log[j]
           /\ nextIndex'[j] = nextIndex[j] /\ matchIndex'[j] = matchIndex[j]
           /\ awaiting'[j] = awaiting[j] /\ replies'[j] = replies[j]
  PROVE  IndexInv'
<1>1. ASSUME NEW j \in Server, j # i PROVE IndexOK(j)' /\ Alive(j)'
  <2>1. IndexOK(j) /\ Alive(j) /\ Len(log[j]) \in Nat
    BY LenFacts, Zenon DEF IndexInv, TypeOK
  <2>2. /\ status'[j] = "leader" => status[j] = "leader" /\ Len(log'[j]) >= Len(log[j])
        /\ awaiting'[j] \subseteq awaiting[j] /\ replies'[j] \subseteq replies[j]
        /\ nextIndex'[j] = nextIndex[j] /\ matchIndex'[j] = matchIndex[j]
        /\ routine'[j] = routine[j]
    BY <1>1, <2>1, RangeFacts, Zenon
  <2>3. IndexOK(j)'
    BY <2>1, <2>2, IndexKeep, Zenon
  <2>4. QED
    BY <2>1, <2>2, <2>3, Zenon DEF Alive
<1>2. QED
  BY <1>1, Zenon DEF IndexInv, Alive

\* The leader that takes part in a step is one: a deposed leader would have
\* taken its token.
LEMMA InOffice ==
  ASSUME TypeOK, RoleInv, StepDownFirst, NEW i \in Server, routine[i] \in {"enter", "wait"},
         MayProceed(i)
  PROVE  status[i] = "leader"
BY Zenon DEF RoleInv, RoleOK, MayProceed

\* A round is sent from within the log, and its calls end with the log
\* (lines 386-407).
LEMMA IndexBroadcast ==
  ASSUME TypeOK, TypeOK', RoleInv, StepDownFirst, IndexInv, NEW i \in Server, Broadcast(i)
  PROVE  IndexInv'
<1>1. PICK l, n : l = log[i] /\ n = Len(l)
  BY ZenonT(30)
<1>2. l \in Seq(Entry) /\ n \in Nat /\ n = Len(l)
  BY <1>1, LenFacts DEF TypeOK
<1>3. status[i] = "leader"
  BY InOffice, ZenonT(30) DEF Broadcast
<1>4. \A p \in Server : nextIndex[i][p] \in 1 .. n + 1 /\ matchIndex[i][p] \in 0..n
  BY <1>1, <1>3, Zenon DEF IndexInv, IndexOK
<1>5. \A p \in Server : nextIndex[i][p] - 1 \in 0..n
  BY <1>2, <1>4, RangeFacts, Zenon
<1> DEFINE call(p) == [from |-> i, to |-> p, term |-> currentTerm[i], prev |-> nextIndex[i][p] - 1,
                       prevTerm |-> TermAt(log[i], nextIndex[i][p] - 1),
                       entries |-> SubSeq(log[i], nextIndex[i][p] - 1 + 1, Len(log[i])),
                       commit |-> commitIndex[i]]
           round == {call(p) : p \in Server \ {i}}
<1>6. /\ awaiting' = [awaiting EXCEPT ![i] = round]
      /\ replies' = [replies EXCEPT ![i] = {}]
      /\ routine' = [routine EXCEPT ![i] = "wait"]
      /\ UNCHANGED <<log, leaderVars, status>>
  BY <1>1, <1>5, Zenon DEF Broadcast
<1>7. \A m \in round : m.prev + Len(m.entries) <= n
  <2> SUFFICES ASSUME NEW p \in Server \ {i} PROVE call(p).prev + Len(call(p).entries) <= n
    BY Zenon
  <2>1. PICK k : k = nextIndex[i][p] - 1
    OBVIOUS
  <2>2. k \in 0..n /\ call(p).prev = k /\ call(p).entries = SubSeq(l, k + 1, Len(l))
    BY <1>1, <1>5, <2>1, ZenonT(30)
  <2>3. Len(SubSeq(l, k + 1, Len(l))) = n - k
    BY <1>2, <2>2, SuffixProperties, Zenon
  <2> HIDE DEF call
  <2>4. QED
    BY <1>2, <2>2, <2>3, RangeFacts, Zenon
<1> HIDE DEF round
<1>8. awaiting'[i] = round /\ replies'[i] = {} /\ routine'[i] = "wait"
  BY <1>6, Zenon DEF TypeOK
<1>9. IndexOK(i)'
  BY <1>1, <1>4, <1>6, <1>7, <1>8, Zenon DEF IndexOK, leaderVars
<1>10. \A j \in Server \ {i} :
         /\ routine'[j] = routine[j] /\ awaiting'[j] = awaiting[j] /\ replies'[j] = replies[j]
  BY <1>6, Zenon DEF TypeOK
<1>11. QED
  BY <1>6, <1>8, <1>9, <1>10, IndexOfOne, Zenon DEF leaderVars

\* The indices of peer q move to values within the log: a leader that takes a
\* reply (lines 434-435 and 449) keeps what it knows within its log.
LEMMA IndexMove ==
  ASSUME TypeOK, TypeOK', IndexInv, NEW i \in Server, status[i] = "leader", NEW q \in Server,
         UNCHANGED <<log, status, routine, awaiting>>,
         replies' = [replies EXCEPT ![i] = replies'[i]], replies'[i] \subseteq replies[i],
         NEW x \in 1 .. Len(log[i]) + 1, NEW y \in 0 .. Len(log[i]),
         nextIndex' = [nextIndex EXCEPT ![i][q] = x],
         matchIndex' = [matchIndex EXCEPT ![i][q] = y]
  PROVE  IndexInv'
<1>1. \A p \in Server : /\ nextIndex'[i][p] \in {x, nextIndex[i][p]}
                        /\ matchIndex'[i][p] \in {y, matchIndex[i][p]}
  BY DEF TypeOK
<1>2. IndexOK(i) /\ Alive(i)
  BY DEF IndexInv
<1>3. \A p \in Server : /\ nextIndex'[i][p] \in 1 .. Len(log[i]) + 1
                        /\ matchIndex'[i][p] \in 0 .. Len(log[i])
  BY <1>1, <1>2, Zenon DEF IndexOK
<1>4. IndexOK(i)'
  BY <1>2, <1>3, ZenonT(30) DEF IndexOK
<1>5. \A j \in Server \ {i} : /\ nextIndex'[j] = nextIndex[j] /\ matchIndex'[j] = matchIndex[j]
                              /\ replies'[j] = replies[j]
  BY DEF TypeOK
<1>6. QED
  BY <1>2, <1>4, <1>5, IndexOfOne, ZenonT(30) DEF Alive

\* The leader takes a reply: a follower's refusal and its success both name
\* entries that the leader has, so the sorted middle is in the log too.
LEMMA IndexTakeReply ==
  ASSUME TypeOK, TypeOK', RoleInv, RoleInv', LeaderStep, StepDownFirst, MiddleInRange, IndexInv,
         NEW i \in Server, NEW r \in replies[i], TakeReply(i, r), ~StepDown(i, r.term)
  PROVE  IndexInv'
<1>1. PICK n : n = Len(log[i])
  BY ZenonT(30)
<1>2. n \in Nat /\ r.from \in Server /\ r.prev \in Nat /\ r.sent \in Nat
  BY <1>1, RoundType, LenFacts, Zenon DEF TypeOK
<1>3. status[i] = "leader"
  BY InOffice, Zenon DEF TakeReply
<1>4. /\ \A p \in Server : matchIndex[i][p] \in 0..n
      /\ r.prev + r.sent <= n
      /\ ~r.success /\ r.next # -1 => r.next \in 1 .. n + 1
  BY <1>1, <1>3, Zenon DEF IndexInv, IndexOK
<1>5. CASE AdvanceCommit(i, r)
  <2>1. PICK y, x, match : y = r.prev + r.sent /\ x = NextAfter(r)
                           /\ match = [matchIndex[i] EXCEPT ![r.from] = y]
    BY ZenonT(30)
  <2>2. y \in 0..n /\ x \in 1 .. n + 1
    BY <1>2, <1>4, <2>1, SumInRange, ZenonT(30) DEF NextAfter
  <2>3. match \in [Server -> 0..n]
    <3>1. matchIndex[i] \in [Server -> 0..n]
      BY <1>4, Zenon DEF TypeOK
    <3>2. QED
      BY <1>2, <2>1, <2>2, <3>1, Zenon
  <2>4. SortedMiddle(match) \in 0..n
    BY <1>2, <2>3, Zenon DEF MiddleInRange
  <2>5. /\ matchIndex' = [matchIndex EXCEPT ![i] = match]
        /\ nextIndex' = [nextIndex EXCEPT ![i][r.from] = x]
        /\ replies' = [replies EXCEPT ![i] = @ \ {r}]
        /\ UNCHANGED <<log, roleVars, awaiting>>
    BY <1>1, <1>5, <2>1, <2>4, Zenon DEF AdvanceCommit
  <2>6. matchIndex' = [matchIndex EXCEPT ![i][r.from] = y]
    BY <2>1, <2>5, ZenonT(30)
  <2>7. /\ replies' = [replies EXCEPT ![i] = replies'[i]]
        /\ replies'[i] \subseteq replies[i]
    BY <2>5, SMTT(30) DEF TypeOK
  <2>8. QED
    BY <1>1, <1>2, <1>3, <2>2, <2>5, <2>6, <2>7, IndexMove, Zenon DEF roleVars
<1>6. CASE ~AdvanceCommit(i, r)
  <2>1. /\ nextIndex' = IF ~r.success /\ r.next # -1
                         THEN [nextIndex EXCEPT ![i][r.from] = r.next] ELSE nextIndex
        /\ replies' = [replies EXCEPT ![i] = @ \ {r}]
        /\ UNCHANGED <<log, matchIndex, roleVars, awaiting, elected>>
    BY <1>6, Zenon DEF TakeReply, histVars
  <2>2. /\ replies' = [replies EXCEPT ![i] = replies'[i]]
        /\ \A j \in Server : replies'[j] \subseteq replies[j]
    BY <2>1, Zenon DEF TypeOK
  <2>3. CASE ~r.success /\ r.next # -1
    <3>1. PICK x, y : x = r.next /\ y = matchIndex[i][r.from]
      BY Zenon
    <3>2. x \in 1 .. n + 1 /\ y \in 0..n /\ nextIndex' = [nextIndex EXCEPT ![i][r.from] = x]
      BY <1>2, <1>4, <2>1, <2>3, <3>1, Zenon
    <3>3. matchIndex' = [matchIndex EXCEPT ![i][r.from] = y]
      <4>1. /\ matchIndex \in [Server -> [Server -> Nat]] /\ matchIndex[i] \in [Server -> Nat]
            /\ matchIndex' = matchIndex
        BY <2>1, Zenon DEF TypeOK
      <4>2. [matchIndex[i] EXCEPT ![r.from] = y] = matchIndex[i]
        BY <3>1, <4>1, Zenon
      <4>3. [matchIndex EXCEPT ![i] = matchIndex[i]] = matchIndex
        BY <4>1, Zenon
      <4>4. QED
        BY <4>1, <4>2, <4>3, Zenon
    <3>4. QED
      BY <1>1, <1>2, <1>3, <2>1, <2>2, <3>2, <3>3, IndexMove, ZenonT(30) DEF roleVars
  <2>4. CASE ~(~r.success /\ r.next # -1)
    <3>1. UNCHANGED leaderVars
      BY <2>1, <2>4, Zenon DEF leaderVars
    <3>2. \A j \in Server : routine'[j] # "panic"
      BY <2>1 DEF IndexInv, Alive, roleVars
    <3>3. QED
      BY <2>1, <2>2, <3>1, <3>2, IndexFrame, Zenon
  <2>5. QED
    BY <2>3, <2>4, Zenon
<1>7. QED
  BY <1>5, <1>6

\* Start lengthens the leader's log and its own matchIndex by one (lines 331-336).
LEMMA IndexStart ==
  ASSUME TypeOK, TypeOK', IndexInv, NEW i \in Server, NEW c \in Command, Start(i, c)
  PROVE  IndexInv'
<1>1. PICK l, n, e : l = log[i] /\ n = Len(l) /\ e = NewEntry(i, c)
  BY Zenon
<1>2. l \in Seq(Entry) /\ n \in Nat /\ e \in Entry
  BY <1>1, LenFacts, ZenonT(30) DEF TypeOK, NewEntry, Entry
<1>3. /\ status[i] = "leader" /\ log' = [log EXCEPT ![i] = Append(l, e)]
      /\ matchIndex' = [matchIndex EXCEPT ![i][i] = @ + 1]
      /\ UNCHANGED <<nextIndex, roleVars, appendVars>>
  BY <1>1, Zenon DEF Start
<1>4. log'[i] = Append(l, e) /\ Len(log'[i]) = n + 1
  <2>1. log \in [Server -> Seq(Entry)] /\ Len(Append(l, e)) = n + 1
    BY <1>1, <1>2, AppendFacts, ZenonT(30) DEF TypeOK
  <2>2. QED
    BY <1>3, <2>1, Zenon
<1>5. \A p \in Server : /\ nextIndex[i][p] \in 1 .. n + 1 /\ matchIndex[i][p] \in 0..n
                        /\ matchIndex'[i][p] = matchIndex[i][p]
                           \/ matchIndex'[i][p] = matchIndex[i][p] + 1
  <2>1. matchIndex \in [Server -> [Server -> Nat]]
    BY Zenon DEF TypeOK
  <2>2. matchIndex'[i] = [matchIndex[i] EXCEPT ![i] = @ + 1] /\ matchIndex[i] \in [Server -> Nat]
    BY <1>3, <2>1, Zenon
  <2>3. \A p \in Server : matchIndex'[i][p] = matchIndex[i][p]
                          \/ matchIndex'[i][p] = matchIndex[i][p] + 1
    BY <2>2, Zenon
  <2>4. QED
    BY <1>1, <1>3, <2>3, Zenon DEF IndexInv, IndexOK
<1>6. \A p \in Server : nextIndex'[i][p] \in 1 .. n + 1 + 1 /\ matchIndex'[i][p] \in 0 .. n + 1
  <2>1. \A x \in 0..n : x \in 0 .. n + 1 /\ x + 1 \in 0 .. n + 1
    BY <1>2
  <2>2. \A x \in 1 .. n + 1 : x \in 1 .. n + 1 + 1
    BY <1>2
  <2>3. QED
    BY <1>3, <1>5, <2>1, <2>2, Zenon
<1>7. \A m \in awaiting'[i] : m.prev + Len(m.entries) <= n + 1
  <2>1. \A m \in awaiting[i] : /\ m.prev \in Nat /\ Len(m.entries) \in Nat
                               /\ m.prev + Len(m.entries) <= n
    BY <1>1, <1>3, RoundType, Zenon DEF IndexInv, IndexOK
  <2>2. QED
    BY <1>2, <1>3, <2>1, RangeFacts, RangeGrows, Zenon DEF appendVars
<1>8. \A r \in replies'[i] : /\ r.prev + r.sent <= n + 1
                             /\ ~r.success /\ r.next # -1 => r.next \in 1 .. n + 1 + 1
  <2>1. \A r \in replies[i] : /\ r.prev \in Nat /\ r.sent \in Nat /\ r.prev + r.sent <= n
                              /\ ~r.success /\ r.next # -1 => r.next \in 1 .. n + 1
    BY <1>1, <1>3, RoundType, Zenon DEF IndexInv, IndexOK
  <2>2. QED
    BY <1>2, <1>3, <2>1, RangeFacts, RangeGrows, Zenon DEF appendVars
<1>9. IndexOK(i)'
  BY <1>4, <1>6, <1>7, <1>8, Zenon DEF IndexOK
<1>10. \A j \in Server \ {i} : log'[j] = log[j] /\ matchIndex'[j] = matchIndex[j]
  BY <1>3, ZenonT(30) DEF TypeOK
<1>11. routine'[i] # "panic"
  BY <1>3 DEF IndexInv, Alive, roleVars
<1>12. QED
  BY <1>3, <1>9, <1>10, <1>11, IndexOfOne, Zenon DEF roleVars, appendVars

\* A step that moves the routine of one peer, and does not panic.
LEMMA AliveFrame ==
  ASSUME TypeOK, IndexInv, NEW i \in Server, NEW s, s # "panic",
         routine' = [routine EXCEPT ![i] = s]
  PROVE  \A j \in Server : routine'[j] # "panic"
<1>1. routine \in [Server -> RoutineState]
  BY DEF TypeOK
<1>2. \A j \in Server : routine'[j] = IF j = i THEN s ELSE routine[j]
  BY <1>1
<1>3. QED
  BY <1>2, SMTT(30) DEF IndexInv, Alive

\* The routine goroutine keeps IndexInv.
LEMMA IndexRoutine ==
  ASSUME TypeOK, TypeOK', RoleInv, RoleInv', LeaderStep, StepDownFirst, MiddleInRange, IndexInv,
         NEW i \in Server, Routine(i)
  PROVE  IndexInv'
<1>0. \A j \in Server : routine[j] # "panic"
  BY Zenon DEF IndexInv, Alive
<1>1. CASE ElectionTimeout(i) \/ CandidateTimeout(i) \/ (Dispatch(i) /\ status[i] = "candidate")
  <2>1. BeginElection(i)
    BY <1>1 DEF ElectionTimeout, CandidateTimeout, Dispatch
  <2>2. /\ routine' = [routine EXCEPT ![i] = "candidate"]
        /\ UNCHANGED <<leaderVars, awaiting, replies, elected>>
    BY <2>1, Zenon DEF BeginElection, appendVars
  <2>3. \A j \in Server : routine'[j] # "panic"
    BY <2>2, AliveFrame, Zenon
  <2>4. QED
    BY <2>2, <2>3, IndexFrame, ZenonT(30)
<1>2. ASSUME NEW s, s # "panic", routine' = [routine EXCEPT ![i] = s], NoRound(i),
             UNCHANGED <<leaderVars, elected>>
      PROVE  IndexInv'
  <2>1. \A j \in Server : routine'[j] # "panic"
    BY <1>2, AliveFrame, Zenon
  <2>2. \A j \in Server : /\ awaiting'[j] = IF j = i THEN {} ELSE awaiting[j]
                          /\ replies'[j] = IF j = i THEN {} ELSE replies[j]
    BY <1>2, ZenonT(30) DEF NoRound, TypeOK
  <2>3. \A j \in Server : awaiting'[j] \subseteq awaiting[j] /\ replies'[j] \subseteq replies[j]
    BY <2>2
  <2>4. QED
    BY <1>2, <2>1, <2>3, IndexFrame, Zenon
<1>3. CASE TakeToFollower(i)
  <2>1. /\ routine' = [routine EXCEPT ![i] = "return"] /\ NoRound(i)
        /\ UNCHANGED <<leaderVars, elected>>
    BY <1>3, Zenon DEF TakeToFollower, histVars
  <2>2. QED
    BY <1>2, <2>1, ZenonT(30)
<1>4. CASE Dispatch(i) /\ status[i] # "candidate"
  <2>1. status[i] = "follower"
    BY <1>4, Zenon DEF Dispatch, RoleInv, RoleOK
  <2>2. /\ routine' = [routine EXCEPT ![i] = "follower"]
        /\ UNCHANGED <<leaderVars, awaiting, replies, elected>>
    BY <1>4, <2>1, Zenon DEF Dispatch, appendVars, histVars
  <2>3. \A j \in Server : routine'[j] # "panic"
    BY <2>2, AliveFrame, Zenon
  <2>4. QED
    BY <2>2, <2>3, IndexFrame, Zenon
<1>5. ASSUME NEW t, StepDown(i, t) PROVE IndexInv'
  <2>1. /\ routine' = [routine EXCEPT ![i] = "follower"] /\ NoRound(i)
        /\ UNCHANGED <<leaderVars, elected>>
    BY <1>5, Zenon DEF StepDown, histVars
  <2>2. QED
    BY <1>2, <2>1, ZenonT(30)
<1>6. CASE \E r \in voteReplies[i] : CountVote(i, r)
  <2>1. PICK r \in voteReplies[i] : CountVote(i, r)
    BY <1>6
  <2>2. CASE StepDown(i, r.term)
    BY <1>5, <2>2
  <2>3. CASE BeginLeader(i) /\ log' = log /\ status' = [status EXCEPT ![i] = "leader"]
    <3>1. \A j \in Server : j # i => status'[j] = status[j]
      BY <2>3, Zenon DEF TypeOK
    <3>2. QED
      BY <2>3, <3>1, IndexWin, Zenon
  <2>4. CASE UNCHANGED <<leaderVars, routine, awaiting, replies, elected>>
    BY <1>0, <2>4, IndexFrame, Zenon
  <2>5. QED
    BY <2>1, <2>2, <2>3, <2>4, ZenonT(30) DEF CountVote, WinElection
<1>7. CASE Broadcast(i)
  BY <1>7, IndexBroadcast
<1>8. CASE \E r \in replies[i] : TakeReply(i, r)
  <2>1. PICK r \in replies[i] : TakeReply(i, r)
    BY <1>8
  <2>2. CASE StepDown(i, r.term)
    BY <1>5, <2>2
  <2>3. CASE ~StepDown(i, r.term)
    BY <2>1, <2>3, IndexTakeReply
  <2>4. QED
    BY <2>2, <2>3, ZenonT(30)
<1>9. QED
  BY <1>1, <1>3, <1>4, <1>6, <1>7, <1>8, Zenon DEF Routine

\* Every step keeps IndexInv.
LEMMA IndexNext ==
  ASSUME TypeOK, TypeOK', RoleInv, RoleInv', AsksInside, LeaderStep, StepDownFirst, MiddleInRange, IndexInv,
         [Next]_vars
  PROVE  IndexInv'
<1>1. CASE \E i \in Server : CrashRestart(i)
  <2>1. PICK i \in Server : CrashRestart(i)
    BY <1>1
  <2>2. /\ status' = [status EXCEPT ![i] = "follower"]
        /\ routine' = [routine EXCEPT ![i] = "follower"]
        /\ nextIndex' = [nextIndex EXCEPT ![i] = [p \in Server |-> 0]]
        /\ matchIndex' = [matchIndex EXCEPT ![i] = [p \in Server |-> 0]]
        /\ log' = [log EXCEPT ![i] = persisted[i].log]
        /\ awaiting' = [awaiting EXCEPT ![i] = {}]
        /\ replies' = [replies EXCEPT ![i] = {}]
    BY <2>1, Zenon DEF CrashRestart, NoRound
  <2>3. status'[i] = "follower" /\ routine'[i] = "follower"
    BY <2>2, Zenon DEF TypeOK
  <2>4. IndexOK(i)'
    BY <2>3, Zenon DEF IndexOK
  <2>5. ASSUME NEW j \in Server \ {i}
        PROVE  /\ routine'[j] = routine[j] /\ status'[j] = status[j] /\ log'[j] = log[j]
               /\ nextIndex'[j] = nextIndex[j] /\ matchIndex'[j] = matchIndex[j]
               /\ awaiting'[j] = awaiting[j] /\ replies'[j] = replies[j]
    BY <2>2, ZenonT(30) DEF TypeOK
  <2>6. QED
    BY <2>3, <2>4, <2>5, IndexOfOne, Zenon
<1>2. CASE UNCHANGED vars
  <2>1. UNCHANGED <<status, routine, log, nextIndex, matchIndex, awaiting, replies>>
    BY <1>2, Zenon DEF vars, roleVars, leaderVars, appendVars
  <2>2. QED
    BY <2>1, Zenon DEF IndexInv, IndexOK, Alive
<1>3. QED
  BY <1>1, <1>2, IndexHandler, IndexRoutine, IndexStart, Zenon DEF Next
=============================================================================
