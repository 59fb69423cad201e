---------------------------- MODULE ListingProofs ----------------------------
(***************************************************************************)
(* What the operators of Listing and Query return, for lists of any length *)
(* and pages of any size.                                                  *)
(***************************************************************************)
EXTENDS Listing, Query, FiniteSetTheorems, SequenceTheorems, TLAPS

-----------------------------------------------------------------------------
(* Queries                                                                 *)

IsQuery(q) == DOMAIN q = {"rows", "known", "asked", "stale", "behind"}

\* A query is settled by an answer alone: whatever else happens to it asks, or marks it.
LEMMA QueryMoves ==
  ASSUME NEW q, IsQuery(q)
  PROVE  /\ IsQuery(FetchFailed(q)) /\ ~Settled(FetchFailed(q))
         /\ IsQuery(Refetched(q)) /\ ~Settled(Refetched(q))
         /\ IsQuery(Invalidated(q)) /\ ~Settled(Invalidated(q))
         /\ IsQuery(Overtaken(q)) /\ ~Settled(Overtaken(q))
         /\ IsQuery([q EXCEPT !.asked = TRUE]) /\ ~Settled([q EXCEPT !.asked = TRUE])
         /\ \A p \in Mounted(q) : IsQuery(p) /\ (p = q \/ ~Settled(p))
BY DEF IsQuery, Settled, FetchFailed, Refetched, Invalidated, Overtaken, Mounted

LEMMA QueryBegins ==
  ASSUME NEW rows
  PROVE  /\ IsQuery(NewQuery(rows)) /\ ~Settled(NewQuery(rows)) /\ NewQuery(rows).rows = rows
         /\ IsQuery(AnsweredWith(rows)) /\ AnsweredWith(rows).rows = rows
BY DEF IsQuery, Settled, NewQuery, AnsweredWith

\* None of them changes what the last answer held.
LEMMA QueryKeepsRows ==
  ASSUME NEW q, IsQuery(q)
  PROVE  /\ FetchFailed(q).rows = q.rows /\ Refetched(q).rows = q.rows
         /\ Invalidated(q).rows = q.rows /\ Overtaken(q).rows = q.rows
         /\ [q EXCEPT !.asked = TRUE].rows = q.rows
         /\ \A p \in Mounted(q) : p.rows = q.rows
BY DEF IsQuery, FetchFailed, Refetched, Invalidated, Overtaken, Mounted

\* The marks of a query stay what they are.
LEMMA QueryStaysOK ==
  ASSUME NEW q, IsQuery(q), QueryOK(q)
  PROVE  /\ QueryOK(FetchFailed(q)) /\ QueryOK(Refetched(q)) /\ QueryOK(Invalidated(q))
         /\ QueryOK(Overtaken(q)) /\ QueryOK([q EXCEPT !.asked = TRUE])
         /\ \A p \in Mounted(q) : QueryOK(p)
BY DEF IsQuery, QueryOK, FetchFailed, Refetched, Invalidated, Overtaken, Mounted

LEMMA QueryBeginsOK ==
  ASSUME NEW rows
  PROVE  QueryOK(NewQuery(rows)) /\ QueryOK(AnsweredWith(rows))
BY DEF QueryOK, NewQuery, AnsweredWith

-----------------------------------------------------------------------------
(* Pages                                                                   *)

\* A longer list has no fewer pages, and one that is not empty has one.
LEMMA PagesGrow ==
  ASSUME NEW m \in Nat, NEW n \in Nat, m <= n, NEW size \in Nat \ {0}
  PROVE  /\ Pages(m, size) \in Nat /\ Pages(n, size) \in Nat
         /\ Pages(m, size) <= Pages(n, size)
         /\ n > 0 => Pages(n, size) >= 1
<1> DEFINE p == (m + size - 1) \div size
           q == (n + size - 1) \div size
<1>1. p \in Int /\ size * p <= m + size - 1 /\ m + size - 1 < size * (p + 1)
  OBVIOUS
<1>2. q \in Int /\ size * q <= n + size - 1 /\ n + size - 1 < size * (q + 1)
  OBVIOUS
<1> HIDE DEF p, q
<1>3. p >= 0 /\ q >= 0 /\ p <= q /\ (n > 0 => q >= 1)
  <2>1. size * 0 = 0 /\ size * 1 = size
    OBVIOUS
  <2>2. \A i, j \in Int : size * i < size * j => i < j
    OBVIOUS
  <2>3. size * 0 < size * (p + 1) /\ size * 0 < size * (q + 1) /\ size * p < size * (q + 1)
    BY <1>1, <1>2, <2>1
  <2>4. n > 0 => size * 1 < size * (q + 1)
    BY <1>2, <2>1
  <2>5. QED
    BY <1>1, <1>2, <2>2, <2>3, <2>4
<1>4. Pages(m, size) = p /\ Pages(n, size) = q
  BY DEF Pages, p, q
<1>5. QED
  BY <1>1, <1>2, <1>3, <1>4

-----------------------------------------------------------------------------
(* Sets as sequences                                                       *)

\* In a finite set of integers each element has a place of its own, counted from the top, and
\* every place is taken.
LEMMA PlacesFromTop ==
  ASSUME NEW S \in SUBSET Int, IsFiniteSet(S), NEW n \in 1..Cardinality(S)
  PROVE  \E x \in S : Cardinality({y \in S : y > x}) = n - 1
<1> DEFINE above(x) == {y \in S : y > x}
           place == [x \in S |-> Cardinality(above(x))]
           T == 0..Cardinality(S) - 1
<1>1. Cardinality(S) \in Nat
  BY FS_CardinalityType
<1>2. IsFiniteSet(T) /\ Cardinality(T) = Cardinality(S)
  <2>1. PICK k \in Int : k = Cardinality(S) - 1
    BY <1>1
  <2>2. IsFiniteSet(0..k) /\ Cardinality(0..k) = IF 0 > k THEN 0 ELSE k - 0 + 1
    BY FS_Interval
  <2>3. QED
    BY <1>1, <2>1, <2>2
<1>3. ASSUME NEW x \in S PROVE Cardinality(above(x)) \in T /\ IsFiniteSet(above(x))
  <2>1. above(x) \in SUBSET S /\ above(x) # S
    OBVIOUS
  <2>2. IsFiniteSet(above(x)) /\ Cardinality(above(x)) <= Cardinality(S)
        /\ Cardinality(above(x)) # Cardinality(S)
    BY <2>1, FS_Subset
  <2>3. Cardinality(above(x)) \in Nat
    BY <2>2, FS_CardinalityType
  <2>4. QED
    BY <1>1, <2>2, <2>3
<1>4. ASSUME NEW x \in S, NEW z \in S, x < z
      PROVE  place[x] # place[z]
  <2>1. /\ x \in Int /\ z \in Int /\ x < z
        /\ \A y \in S : y \in Int
    BY <1>4
  <2>2. above(z) \subseteq above(x) /\ z \in above(x) /\ z \notin above(z)
    <3>1. \A y \in S : y > z => y > x
      BY <2>1
    <3>2. z > x /\ ~(z > z)
      BY <2>1
    <3>3. QED
      BY <3>1, <3>2
  <2>3. Cardinality(above(x)) # Cardinality(above(z))
    BY <1>3, <2>2, FS_Subset
  <2>4. QED
    BY <2>3
<1>5. place \in Injection(S, T)
  <2>1. place \in [S -> T]
    BY <1>3
  <2>2. \A x, z \in S : place[x] = place[z] => x = z
    <3> HIDE DEF place
    <3>1. \A x, z \in S : x # z => (x < z \/ z < x)
      OBVIOUS
    <3>2. QED
      BY <1>4, <3>1
  <2> HIDE DEF place, T
  <2>3. QED
    BY <2>1, <2>2 DEF Injection, IsInjective
<1>6. place \in Surjection(S, T)
  <2> HIDE DEF place, T
  <2>1. QED
    BY <1>2, <1>5, FS_Injection
<1>7. n - 1 \in T
  BY <1>1
<1>8. \E x \in S : place[x] = n - 1
  <2> HIDE DEF place, T
  <2>1. QED
    BY <1>6, <1>7 DEF Surjection
<1>9. QED
  BY <1>8

\* The same, counted from the bottom.
LEMMA PlacesFromBottom ==
  ASSUME NEW S \in SUBSET Int, IsFiniteSet(S), NEW n \in 1..Cardinality(S)
  PROVE  \E x \in S : Cardinality({y \in S : y < x}) = n - 1
<1> DEFINE below(x) == {y \in S : y < x}
           place == [x \in S |-> Cardinality(below(x))]
           T == 0..Cardinality(S) - 1
<1>1. Cardinality(S) \in Nat
  BY FS_CardinalityType
<1>2. IsFiniteSet(T) /\ Cardinality(T) = Cardinality(S)
  <2>1. PICK k \in Int : k = Cardinality(S) - 1
    BY <1>1
  <2>2. IsFiniteSet(0..k) /\ Cardinality(0..k) = IF 0 > k THEN 0 ELSE k - 0 + 1
    BY FS_Interval
  <2>3. QED
    BY <1>1, <2>1, <2>2
<1>3. ASSUME NEW x \in S PROVE Cardinality(below(x)) \in T /\ IsFiniteSet(below(x))
  <2>1. below(x) \in SUBSET S /\ below(x) # S
    OBVIOUS
  <2>2. IsFiniteSet(below(x)) /\ Cardinality(below(x)) <= Cardinality(S)
        /\ Cardinality(below(x)) # Cardinality(S)
    BY <2>1, FS_Subset
  <2>3. Cardinality(below(x)) \in Nat
    BY <2>2, FS_CardinalityType
  <2>4. QED
    BY <1>1, <2>2, <2>3
<1>4. ASSUME NEW x \in S, NEW z \in S, x < z
      PROVE  place[x] # place[z]
  <2>1. /\ x \in Int /\ z \in Int /\ x < z
        /\ \A y \in S : y \in Int
    BY <1>4
  <2>2. below(x) \subseteq below(z) /\ x \in below(z) /\ x \notin below(x)
    <3>1. \A y \in S : y < x => y < z
      BY <2>1
    <3>2. x < z /\ ~(x < x)
      BY <2>1
    <3>3. QED
      BY <3>1, <3>2
  <2>3. Cardinality(below(x)) # Cardinality(below(z))
    BY <1>3, <2>2, FS_Subset
  <2>4. QED
    BY <2>3
<1>5. place \in Injection(S, T)
  <2>1. place \in [S -> T]
    BY <1>3
  <2>2. \A x, z \in S : place[x] = place[z] => x = z
    <3> HIDE DEF place
    <3>1. \A x, z \in S : x # z => (x < z \/ z < x)
      OBVIOUS
    <3>2. QED
      BY <1>4, <3>1
  <2> HIDE DEF place, T
  <2>3. QED
    BY <2>1, <2>2 DEF Injection, IsInjective
<1>6. place \in Surjection(S, T)
  <2> HIDE DEF place, T
  <2>1. QED
    BY <1>2, <1>5, FS_Injection
<1>7. n - 1 \in T
  BY <1>1
<1>8. \E x \in S : place[x] = n - 1
  <2> HIDE DEF place, T
  <2>1. QED
    BY <1>6, <1>7 DEF Surjection
<1>9. QED
  BY <1>8

\* A list of a set holds members of the set, and as many.
LEMMA DescendingLists ==
  ASSUME NEW S \in SUBSET Int, IsFiniteSet(S)
  PROVE  Descending(S) \in Seq(S) /\ Len(Descending(S)) = Cardinality(S)
<1>1. Cardinality(S) \in Nat
  BY FS_CardinalityType
<1>2. ASSUME NEW n \in 1..Cardinality(S)
      PROVE  (CHOOSE x \in S : Cardinality({y \in S : y > x}) = n - 1) \in S
  BY PlacesFromTop
<1>3. Descending(S) \in [1..Cardinality(S) -> S]
  BY <1>2 DEF Descending
<1>4. Descending(S) \in Seq(S)
  BY <1>1, <1>3, SeqDef
<1>5. QED
  BY <1>1, <1>3, <1>4, LenProperties

LEMMA AscendingLists ==
  ASSUME NEW S \in SUBSET Int, IsFiniteSet(S)
  PROVE  Ascending(S) \in Seq(S) /\ Len(Ascending(S)) = Cardinality(S)
<1>1. Cardinality(S) \in Nat
  BY FS_CardinalityType
<1>2. ASSUME NEW n \in 1..Cardinality(S)
      PROVE  (CHOOSE x \in S : Cardinality({y \in S : y < x}) = n - 1) \in S
  BY PlacesFromBottom
<1>3. Ascending(S) \in [1..Cardinality(S) -> S]
  BY <1>2 DEF Ascending
<1>4. Ascending(S) \in Seq(S)
  BY <1>1, <1>3, SeqDef
<1>5. QED
  BY <1>1, <1>3, <1>4, LenProperties
-----------------------------------------------------------------------------
(* Counting                                                                *)

\* The places of a list are as many as it is long.
LEMMA PlacesCount ==
  ASSUME NEW n \in Nat
  PROVE  IsFiniteSet(1..n) /\ Cardinality(1..n) = n
<1>1. IsFiniteSet(1..n) /\ Cardinality(1..n) = IF 1 > n THEN 0 ELSE n - 1 + 1
  BY FS_Interval
<1>2. QED
  BY <1>1

\* Two sets without a common member count as their union does.
LEMMA DisjointSets ==
  ASSUME NEW A, NEW B, IsFiniteSet(A), IsFiniteSet(B), A \cap B = {}
  PROVE  /\ IsFiniteSet(A \union B)
         /\ Cardinality(A \union B) = Cardinality(A) + Cardinality(B)
         /\ Cardinality(A) \in Nat /\ Cardinality(B) \in Nat
<1>1. /\ IsFiniteSet(A \union B)
      /\ Cardinality(A \union B) = Cardinality(A) + Cardinality(B) - Cardinality(A \cap B)
  BY FS_Union
<1>2. Cardinality(A \cap B) = 0 /\ Cardinality(A) \in Nat /\ Cardinality(B) \in Nat
  BY FS_EmptySet, FS_CardinalityType
<1>3. QED
  BY <1>1, <1>2

-----------------------------------------------------------------------------
(* Rows of a page                                                          *)

\* What the number of pages means: the last page is needed, and none after it.
LEMMA PagesHold ==
  ASSUME NEW n \in Nat, NEW size \in Nat \ {0}
  PROVE  /\ Pages(n, size) \in Nat
         /\ n > 0 => size * (Pages(n, size) - 1) < n
         /\ n <= size * Pages(n, size)
         /\ Pages(n, size) <= n
<1> DEFINE p == (n + size - 1) \div size
<1>1. p \in Int /\ size * p <= n + size - 1 /\ n + size - 1 < size * (p + 1)
  OBVIOUS
<1>2. Pages(n, size) = p /\ Pages(n, size) \in Nat
  BY PagesGrow DEF Pages
<1> HIDE DEF p
<1>3. size * (p + 1) = size * p + size /\ size * (p - 1) = size * p - size
      /\ size * p \in Int
  BY <1>1
<1>4. n <= size * p /\ size * (p - 1) < n
  BY <1>1, <1>3
<1>5. p <= n
  <2>1. CASE p = 0
    BY <2>1
  <2>2. CASE p > 0
    <3>1. \A i, j \in Nat : i >= 1 => j <= i * j
      OBVIOUS
    <3>2. p - 1 \in Nat
      BY <1>1, <2>2
    <3>3. p - 1 <= size * (p - 1)
      BY <3>1, <3>2
    <3>4. size * (p - 1) \in Int
      BY <1>1
    <3>5. QED
      BY <1>1, <1>4, <3>3, <3>4
  <2>3. QED
    BY <1>1, <1>2, <2>1, <2>2
<1>6. QED
  BY <1>2, <1>4, <1>5

LEMMA PageLists ==
  ASSUME NEW S, NEW s \in Seq(S), NEW p \in Nat \ {0}, NEW size \in Nat \ {0}
  PROVE  /\ PageOf(s, p, size) \in Seq(S)
         /\ \A n \in DOMAIN PageOf(s, p, size) : PageOf(s, p, size)[n] \in S
         /\ size * (p - 1) < Len(s) => PageOf(s, p, size) # << >>
<1>1. PICK a \in Nat, b \in Nat : a = (p - 1) * size /\ b = p * size /\ b = a + size
  <2>1. (p - 1) * size \in Nat /\ p * size \in Nat /\ p * size = (p - 1) * size + size
    OBVIOUS
  <2>2. QED
    BY <2>1
<1> DEFINE last == IF b < Len(s) THEN b ELSE Len(s)
<1>2. Len(s) \in Nat /\ last \in Nat /\ last <= Len(s)
  BY LenProperties
<1>3. PageOf(s, p, size) = SubSeq(s, a + 1, last)
  BY <1>1 DEF PageOf
<1>4. \A i \in a + 1..last : s[i] \in S
  <2> HIDE DEF last
  <2>1. \A i \in a + 1..last : i \in 1..Len(s)
    BY <1>2
  <2>2. QED
    BY <2>1, ElementOfSeq
<1>5. /\ SubSeq(s, a + 1, last) \in Seq(S)
      /\ Len(SubSeq(s, a + 1, last)) = IF a + 1 <= last THEN last - (a + 1) + 1 ELSE 0
  <2> HIDE DEF last
  <2>1. PICK first \in Int : first = a + 1
    OBVIOUS
  <2>2. \A i \in first..last : s[i] \in S
    BY <1>4, <2>1
  <2>3. /\ SubSeq(s, first, last) \in Seq(S)
        /\ Len(SubSeq(s, first, last)) = IF first <= last THEN last - first + 1 ELSE 0
    BY <1>2, <2>2, SubSeqProperties
  <2>4. QED
    BY <2>1, <2>3
<1>6. \A n \in DOMAIN PageOf(s, p, size) : PageOf(s, p, size)[n] \in S
  BY <1>3, <1>5, LenProperties, ElementOfSeq
<1>7. size * (p - 1) < Len(s) => PageOf(s, p, size) # << >>
  <2>1. size * (p - 1) = a
    BY <1>1
  <2>2. a < Len(s) => a + 1 <= last
    BY <1>1, <1>2
  <2>3. a < Len(s) => Len(SubSeq(s, a + 1, last)) # 0
    <3> HIDE DEF last
    <3>1. QED
      BY <1>2, <1>5, <2>2
  <2>4. Len(<< >>) = 0
    BY EmptySeq
  <2>5. QED
    BY <1>3, <2>1, <2>3, <2>4
<1>8. QED
  BY <1>3, <1>5, <1>6, <1>7
=============================================================================
