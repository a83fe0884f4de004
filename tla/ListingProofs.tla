--------------------------- MODULE ListingProofs ---------------------------
(***************************************************************************)
(* Proofs about Listing, for any table that PostgreSQL can hold, pages of  *)
(* any size and any width of int: a walk over a list that rows only join   *)
(* misses none and repeats no more than joined, and its pages are full     *)
(* where the total says so.                                                *)
(*                                                                         *)
(* All follow the place of a row in its list, which is the number of rows  *)
(* from the newest down to it.                                             *)
(***************************************************************************)
EXTENDS Listing, FiniteSetTheorems, SequenceTheorems, TLAPS

----------------------------------------------------------------------------
(* Page numbers. *)

\* The offset is one that an int holds.
Representable(page, perPage) == (page - 1) * perPage <= MaxInt

\* An offset that an int holds is computed right.
LEMMA WrapKeeps == \A n \in 0 .. MaxInt : Wrap(n) = n
  <1> SUFFICES ASSUME NEW n \in 0 .. MaxInt
               PROVE  Wrap(n) = n
    OBVIOUS
  <1>1. MaxInt \in Nat
    BY ListingAssumption
  <1>2. \A a, b \in Nat : a < b => a % b = a
    OBVIOUS
  <1>3. (n + MaxInt + 1) % (2 * (MaxInt + 1)) = n + MaxInt + 1
    BY <1>1, <1>2
  <1> QED
    BY <1>1, <1>3 DEF Wrap

\* parsePagination keeps a page number that an int holds, and its answers are sound.
LEMMA Parsed ==
  \A n \in Int : /\ Page(n) \in 1 .. MaxInt /\ PerPage(n) \in 1 .. MaxPerPage
                 /\ n \in 1 .. MaxInt => Page(n) = n
  BY ListingAssumption DEF Page, PerPage, Atoi

\* The product of two numbers, and what the next page adds to it.
LEMMA Pages ==
  ASSUME NEW k \in Nat \ {0}, NEW size \in Nat \ {0}
  PROVE  /\ (k - 1) * size \in Nat /\ k - 1 <= (k - 1) * size
         /\ k * size = (k - 1) * size + size
  OBVIOUS

----------------------------------------------------------------------------
(* Lists, newest first. *)

\* The place of x in S.
PlaceIn(S, x) == Cardinality({y \in S : y >= x})

\* Places count from 1, and an older row has a later one.
LEMMA Places ==
  ASSUME NEW S \in SUBSET Nat, IsFiniteSet(S)
  PROVE  /\ \A x \in S : PlaceIn(S, x) \in 1 .. Cardinality(S)
         /\ \A x, y \in S : x < y => PlaceIn(S, y) < PlaceIn(S, x)
  <1> DEFINE From(x) == {y \in S : y >= x}
  <1>1. \A x \in S : /\ From(x) \in SUBSET S /\ x \in From(x)
                     /\ \A y \in S : x < y => From(y) \in SUBSET From(x) /\ x \notin From(y)
    <2> SUFFICES ASSUME NEW x \in S
                 PROVE  /\ From(x) \in SUBSET S /\ x \in From(x)
                        /\ \A y \in S : x < y => /\ From(y) \in SUBSET From(x)
                                                /\ x \notin From(y)
      OBVIOUS
    <2>1. From(x) \in SUBSET S /\ x \in From(x)
      OBVIOUS
    <2>2. ASSUME NEW y \in S, x < y
          PROVE  From(y) \in SUBSET From(x) /\ x \notin From(y)
      <3>1. ASSUME NEW z \in S, z >= y
            PROVE  z >= x
        BY <2>2, <3>1
      <3>2. ~ (x >= y)
        BY <2>2
      <3> QED
        BY <3>1, <3>2
    <2> HIDE DEF From
    <2> QED
      BY <2>1, <2>2
  <1>2. \A x : PlaceIn(S, x) = Cardinality(From(x))
    BY DEF PlaceIn
  <1> HIDE DEF From
  <1>3. \A x \in S : /\ IsFiniteSet(From(x)) /\ Cardinality(From(x)) \in Nat
                     /\ Cardinality(From(x)) <= Cardinality(S) /\ Cardinality(From(x)) # 0
    BY <1>1, FS_Subset, FS_CardinalityType, FS_EmptySet
  <1>4. ASSUME NEW x \in S, NEW y \in S, x < y
        PROVE  Cardinality(From(y)) < Cardinality(From(x))
    <2>1. From(y) \in SUBSET From(x) /\ From(y) # From(x)
      BY <1>1, <1>4
    <2>2. Cardinality(From(y)) <= Cardinality(From(x))
          /\ (Cardinality(From(x)) = Cardinality(From(y)) => From(x) = From(y))
      BY <1>3, <2>1, FS_Subset
    <2> QED
      BY <1>3, <2>1, <2>2
  <1>5. Cardinality(S) \in Nat
    BY FS_CardinalityType
  <1> QED
    BY <1>2, <1>3, <1>4, <1>5

\* Every place is that of a row.
LEMMA PlacesAreTaken ==
  ASSUME NEW S \in SUBSET Nat, IsFiniteSet(S)
  PROVE  \A i \in 1 .. Cardinality(S) : \E x \in S : PlaceIn(S, x) = i
  <1> DEFINE n == Cardinality(S)
             f == [x \in S |-> PlaceIn(S, x)]
  <1>1. n \in Nat
    BY FS_CardinalityType
  <1>2. IsFiniteSet(1 .. n) /\ Cardinality(1 .. n) = n
    BY <1>1, FS_Interval
  <1>3. f \in [S -> 1 .. n]
    BY Places
  <1>4. ASSUME NEW x \in S, NEW y \in S, PlaceIn(S, x) = PlaceIn(S, y)
        PROVE  x = y
    <2>1. x < y \/ y < x \/ x = y
      OBVIOUS
    <2> QED
      BY <1>1, <1>4, <2>1, Places
  <1>5. f \in Injection(S, 1 .. n)
    BY <1>3, <1>4 DEF Injection, IsInjective
  <1>6. \A x \in S : f[x] = PlaceIn(S, x)
    OBVIOUS
  <1> HIDE DEF f
  <1>7. f \in Surjection(S, 1 .. n)
    BY <1>2, <1>5, FS_Injection
  <1> QED
    BY <1>6, <1>7 DEF Surjection

\* What ORDER BY created_at DESC returns: the rows of S, later ones first.
LEMMA NewestFirst ==
  ASSUME NEW S \in SUBSET Nat, IsFiniteSet(S)
  PROVE  /\ Newest(S) \in [1 .. Cardinality(S) -> S]
         /\ \A i, j \in 1 .. Cardinality(S) : i < j => Newest(S)[i] > Newest(S)[j]
  <1> DEFINE n == Cardinality(S)
             s == [i \in 1 .. n |-> CHOOSE x \in S : PlaceIn(S, x) = i]
  <1>1. n \in Nat
    BY FS_CardinalityType
  <1>2. \A i \in 1 .. n : s[i] \in S /\ PlaceIn(S, s[i]) = i
    BY PlacesAreTaken
  <1>3. s \in [1 .. n -> S]
    BY <1>2
  <1> HIDE DEF s
  <1>4. ASSUME NEW i \in 1 .. n, NEW j \in 1 .. n, i < j
        PROVE  s[i] > s[j]
    <2>1. s[i] \in Nat /\ s[j] \in Nat
      BY <1>2
    <2>2. \A x, y \in S : x < y => PlaceIn(S, y) < PlaceIn(S, x)
      BY Places
    <2>3. i = PlaceIn(S, s[i]) /\ j = PlaceIn(S, s[j]) /\ i \in Nat /\ j \in Nat
      BY <1>2
    <2>4. ~ (s[i] < s[j])
      <3>1. s[i] < s[j] => PlaceIn(S, s[j]) < PlaceIn(S, s[i])
        BY <1>2, <2>2
      <3> QED
        BY <1>4, <2>3, <3>1
    <2>5. s[i] # s[j]
      BY <1>4, <2>3
    <2> QED
      BY <2>1, <2>4, <2>5
  <1>5. \A i, j \in 1 .. n : i # j => s[i] # s[j]
    BY <1>1, <1>2
  <1>6. s \in SetToSeqs(S) /\ \A i, j \in DOMAIN s : i < j => s[i] > s[j]
    BY <1>3, <1>4, <1>5 DEF SetToSeqs
  <1>7. /\ Newest(S) \in SetToSeqs(S)
        /\ \A i, j \in DOMAIN Newest(S) : i < j => Newest(S)[i] > Newest(S)[j]
    BY <1>6 DEF Newest, Ordered
  <1> QED
    BY <1>7 DEF SetToSeqs

\* In that order every row stands at its place.
LEMMA RowsStandAtTheirPlaces ==
  ASSUME NEW S \in SUBSET Nat, IsFiniteSet(S), NEW x \in S
  PROVE  Newest(S)[PlaceIn(S, x)] = x
  <1> DEFINE n == Cardinality(S)
             s == Newest(S)
  <1>1. n \in Nat /\ IsFiniteSet(1 .. n) /\ Cardinality(1 .. n) = n
    BY FS_CardinalityType, FS_Interval
  <1>2. s \in [1 .. n -> S] /\ \A i, j \in 1 .. n : i < j => s[i] > s[j]
    BY NewestFirst
  <1> HIDE DEF s
  <1>3. s \in Injection(1 .. n, S)
    <2>1. \A i, j \in 1 .. n : i < j \/ j < i \/ i = j
      BY <1>1
    <2>2. \A i \in 1 .. n : s[i] \in Nat
      BY <1>2
    <2>3. \A i, j \in 1 .. n : i < j => s[i] # s[j]
      BY <1>2, <2>2
    <2>4. \A i, j \in 1 .. n : s[i] = s[j] => i = j
      BY <2>1, <2>3
    <2> QED
      BY <1>2, <2>4 DEF Injection, IsInjective
  <1>4. s \in Surjection(1 .. n, S)
    BY <1>1, <1>3, FS_Injection
  <1>5. PICK k \in 1 .. n : s[k] = x
    BY <1>4 DEF Surjection
  <1> DEFINE From == {y \in S : y >= x}
             t == [i \in 1 .. k |-> s[i]]
  <1>6. \A i \in 1 .. n : s[i] >= x <=> i <= k
    <2>1. \A i \in 1 .. n : s[i] \in Nat /\ i \in Nat
      <3> SUFFICES ASSUME NEW i \in 1 .. n
                   PROVE  s[i] \in Nat /\ i \in Nat
        OBVIOUS
      <3>1. s[i] \in S
        BY <1>2
      <3>2. s[i] \in Nat
        BY <3>1
      <3>3. n \in Nat
        BY <1>1
      <3>4. i \in Nat
        BY <3>3
      <3> QED
        BY <3>2, <3>4
    <2>2. \A i \in 1 .. n : (i < k => s[i] > x) /\ (k < i => x > s[i])
      BY <1>2, <1>5
    <2> QED
      BY <1>5, <2>1, <2>2
  <1>7. t \in [1 .. k -> From]
    BY <1>1, <1>2, <1>5, <1>6
  <1>8. t \in Injection(1 .. k, From)
    BY <1>1, <1>3, <1>5, <1>7 DEF Injection, IsInjective
  <1>9. t \in Surjection(1 .. k, From)
    BY <1>1, <1>4, <1>5, <1>6, <1>7 DEF Surjection
  <1>10. ExistsBijection(1 .. k, From)
    BY <1>8, <1>9 DEF ExistsBijection, Bijection
  <1>11. Cardinality(From) = k
    <2> HIDE DEF From
    <2> QED
      BY <1>1, <1>5, <1>10, FS_CountingElements
  <1> QED
    BY <1>5, <1>11 DEF PlaceIn, s

----------------------------------------------------------------------------
(* One page. *)

PageOf(S, offset, size) ==
  SubSeq(Newest(S), offset + 1, Least(Len(Newest(S)), offset + size))

\* A page is full unless the list ends on it, and shows the places from its offset on.
LEMMA PagesShow ==
  ASSUME NEW S \in SUBSET Nat, IsFiniteSet(S), NEW offset \in Nat, NEW size \in Nat
  PROVE  /\ offset + size <= Cardinality(S) => Len(PageOf(S, offset, size)) = size
         /\ Cardinality(S) < offset + size =>
              Len(PageOf(S, offset, size)) < size \/ size = 0
         /\ \A x \in S : offset < PlaceIn(S, x) /\ PlaceIn(S, x) <= offset + size
                           => x \in ToSet(PageOf(S, offset, size))
  <1> DEFINE n == Cardinality(S)
             rows == Newest(S)
             last == Least(n, offset + size)
             p == SubSeq(rows, offset + 1, last)
  <1>1. n \in Nat
    BY FS_CardinalityType
  <1>2. rows \in [1 .. n -> S]
    BY NewestFirst
  <1>3. Len(rows) = n
    BY <1>1, <1>2
  <1>4. /\ last \in Nat /\ last <= n /\ last <= offset + size
        /\ last = n \/ last = offset + size
    BY <1>1 DEF Least
  <1>5. \A x \in S : PlaceIn(S, x) \in 1 .. n /\ rows[PlaceIn(S, x)] = x
    BY Places, RowsStandAtTheirPlaces
  <1>6. p = PageOf(S, offset, size)
    BY <1>3 DEF PageOf
  <1> HIDE DEF n, rows, last
  <1>7. \A i \in offset + 1 .. last : rows[i] \in S
    BY <1>1, <1>2, <1>4
  <1>8. /\ p \in Seq(S)
        /\ Len(p) = IF offset + 1 <= last THEN last - (offset + 1) + 1 ELSE 0
        /\ \A i \in 1 .. last - (offset + 1) + 1 : p[i] = rows[(offset + 1) + i - 1]
    BY <1>4, <1>7, SubSeqProperties
  <1> HIDE DEF p
  <1>9. ASSUME NEW x \in S, offset < PlaceIn(S, x), PlaceIn(S, x) <= offset + size
        PROVE  x \in ToSet(p)
    <2> DEFINE i == PlaceIn(S, x) - offset
    <2>1. PlaceIn(S, x) \in 1 .. n /\ rows[PlaceIn(S, x)] = x
      BY <1>5
    <2>2. PlaceIn(S, x) <= last
      BY <1>1, <1>4, <1>9, <2>1
    <2>3. i \in 1 .. Len(p) /\ i \in 1 .. last - (offset + 1) + 1
          /\ (offset + 1) + i - 1 = PlaceIn(S, x)
      <3> DEFINE k == PlaceIn(S, x)
      <3>1. k \in Nat /\ offset < k /\ k <= last
        BY <1>1, <1>9, <2>1, <2>2
      <3>2. i = k - offset
        OBVIOUS
      <3> HIDE DEF k, i
      <3>3. /\ i \in 1 .. last - (offset + 1) + 1 /\ offset + 1 <= last
            /\ (offset + 1) + i - 1 = k
        BY <1>4, <3>1, <3>2
      <3> QED
        BY <1>8, <3>3 DEF k
    <2>4. p[i] = x
      BY <1>8, <2>1, <2>3
    <2>5. DOMAIN p = 1 .. Len(p)
      BY <1>8
    <2> HIDE DEF i
    <2> QED
      BY <2>3, <2>4, <2>5 DEF ToSet
  <1> QED
    BY <1>1, <1>4, <1>6, <1>8, <1>9 DEF n

\* It shows no row twice, and no places but those.
LEMMA PagesShowOnly ==
  ASSUME NEW S \in SUBSET Nat, IsFiniteSet(S), NEW offset \in Nat, NEW size \in Nat
  PROVE  LET p == PageOf(S, offset, size)
         IN  /\ Len(p) \in Nat /\ IsFiniteSet(ToSet(p)) /\ Cardinality(ToSet(p)) = Len(p)
             /\ \A x \in ToSet(p) : /\ x \in S /\ offset < PlaceIn(S, x)
                                    /\ PlaceIn(S, x) <= offset + size
  <1> DEFINE n == Cardinality(S)
             rows == Newest(S)
             last == Least(n, offset + size)
             p == SubSeq(rows, offset + 1, last)
  <1>1. n \in Nat
    BY FS_CardinalityType
  <1>2. /\ rows \in [1 .. n -> S]
        /\ \A i, j \in 1 .. n : i < j => rows[i] > rows[j]
    BY NewestFirst
  <1>3. Len(rows) = n
    BY <1>1, <1>2
  <1>4. last \in Nat /\ last <= n /\ last <= offset + size
    BY <1>1 DEF Least
  <1>5. \A x \in S : PlaceIn(S, x) \in 1 .. n /\ rows[PlaceIn(S, x)] = x
    BY Places, RowsStandAtTheirPlaces
  <1>6. p = PageOf(S, offset, size)
    BY <1>3 DEF PageOf
  <1> HIDE DEF n, rows, last
  <1>7. \A i \in offset + 1 .. last : rows[i] \in S
    BY <1>1, <1>2, <1>4
  <1>8. /\ p \in Seq(S)
        /\ Len(p) = IF offset + 1 <= last THEN last - (offset + 1) + 1 ELSE 0
        /\ \A i \in 1 .. last - (offset + 1) + 1 : p[i] = rows[(offset + 1) + i - 1]
    BY <1>4, <1>7, SubSeqProperties
  <1> HIDE DEF p
  <1>9. \A i, j \in 1 .. n : rows[i] = rows[j] => i = j
    <2> SUFFICES ASSUME NEW i \in 1 .. n, NEW j \in 1 .. n, rows[i] = rows[j]
                 PROVE  i = j
      OBVIOUS
    <2>1. rows[i] \in Nat /\ rows[j] \in Nat
      <3>1. rows[i] \in S /\ rows[j] \in S
        BY <1>2
      <3> QED
        BY <3>1
    <2>2. i < j \/ j < i \/ i = j
      BY <1>1
    <2> QED
      BY <1>2, <2>1, <2>2
  <1>10. /\ Len(p) \in Nat /\ DOMAIN p = 1 .. Len(p)
         /\ \A i \in 1 .. Len(p) : /\ offset + i \in 1 .. n /\ offset + i <= last
                                   /\ p[i] = rows[offset + i]
    <2>1. Len(p) \in Nat /\ DOMAIN p = 1 .. Len(p)
      BY <1>8
    <2> SUFFICES ASSUME NEW i \in 1 .. Len(p)
                 PROVE  /\ offset + i \in 1 .. n /\ offset + i <= last
                        /\ p[i] = rows[offset + i]
      BY <2>1
    <2>2. /\ i \in 1 .. last - (offset + 1) + 1 /\ (offset + 1) + i - 1 = offset + i
          /\ offset + i \in 1 .. n /\ offset + i <= last
      BY <1>1, <1>4, <1>8
    <2> QED
      BY <1>8, <2>2
  <1>11. Cardinality(ToSet(p)) = Len(p) /\ IsFiniteSet(ToSet(p))
    <2>1. p \in [1 .. Len(p) -> ToSet(p)] /\ \A x \in ToSet(p) : \E i \in 1 .. Len(p) : p[i] = x
      BY <1>8, <1>10 DEF ToSet
    <2>2. \A i, j \in 1 .. Len(p) : p[i] = p[j] => i = j
      <3> SUFFICES ASSUME NEW i \in 1 .. Len(p), NEW j \in 1 .. Len(p), p[i] = p[j]
                   PROVE  i = j
        OBVIOUS
      <3>1. offset + i = offset + j
        BY <1>9, <1>10
      <3> QED
        BY <1>10, <3>1
    <2>3. p \in Bijection(1 .. Len(p), ToSet(p))
      BY <2>1, <2>2 DEF Bijection, Injection, Surjection, IsInjective
    <2>4. ExistsBijection(1 .. Len(p), ToSet(p))
      BY <2>3 DEF ExistsBijection
    <2>5. IsFiniteSet(1 .. Len(p))
      BY <1>10, FS_Interval
    <2>6. p \in Surjection(1 .. Len(p), ToSet(p))
      BY <2>3 DEF Bijection
    <2> QED
      BY <1>10, <2>4, <2>5, <2>6, FS_CountingElements, FS_Surjection
  <1>12. ASSUME NEW x \in ToSet(p)
         PROVE  x \in S /\ offset < PlaceIn(S, x) /\ PlaceIn(S, x) <= offset + size
    <2>1. PICK i \in 1 .. Len(p) : x = p[i]
      BY <1>10 DEF ToSet
    <2>2. x = rows[offset + i] /\ offset + i \in 1 .. n /\ offset + i <= offset + size
      BY <1>4, <1>10, <2>1
    <2>3. x \in S
      BY <1>2, <2>2
    <2>4. PlaceIn(S, x) = offset + i
      BY <1>5, <1>9, <2>2, <2>3
    <2> QED
      BY <1>10, <2>2, <2>3, <2>4
  <1> QED
    BY <1>6, <1>10, <1>11, <1>12

----------------------------------------------------------------------------
(* The lists of the table. *)

\* Every list is a finite set of numbers, smaller than what an int holds.
LEMMA ListsAreFinite ==
  ASSUME NEW S \in SUBSET Rows
  PROVE  /\ S \in SUBSET Nat /\ IsFiniteSet(S)
         /\ Cardinality(S) \in Nat /\ Cardinality(S) < MaxInt
  <1>1. /\ S \in SUBSET Nat /\ IsFiniteSet(Rows) /\ Cardinality(Rows) < MaxInt
        /\ MaxInt \in Nat
    BY ListingAssumption, FewRows
  <1>2. IsFiniteSet(S) /\ Cardinality(S) <= Cardinality(Rows)
    BY <1>1, FS_Subset
  <1>3. Cardinality(S) \in Nat /\ Cardinality(Rows) \in Nat
    BY <1>1, <1>2, FS_CardinalityType
  <1> QED
    BY <1>1, <1>2, <1>3

\* The list that is walked.
LEMMA ListWalked ==
  /\ Matching(query.filter) \in SUBSET Rows
  /\ Counted = Cardinality(Matching(query.filter))
  /\ Counted \in Nat /\ Counted < MaxInt
  /\ \A r : Rank(r) = PlaceIn(Matching(query.filter), r)
  <1>1. Matching(query.filter) \in SUBSET Rows
    BY DEF Matching, Present
  <1> QED
    BY <1>1, ListsAreFinite DEF Counted, Rank, PlaceIn

\* Rows only join a list that is not of active ones, and places only grow.
LEMMA RowsJoin ==
  ASSUME ListingTypeOK, "active" \notin Filters, NEW s \in Rows, Insert(s) \/ Expire(s)
  PROVE  /\ Matching(query.filter) \subseteq Matching(query.filter)'
         /\ Counted <= Counted' /\ Counted' \in Nat
         /\ \A r \in Matching(query.filter) : /\ Rank(r) \in Nat /\ Rank(r)' \in Nat
                                              /\ Rank(r) <= Rank(r)'
  <1> DEFINE M == Matching(query.filter)
             N == Matching(query.filter)'
  <1>1. M \in SUBSET Rows /\ N \in SUBSET Rows
    BY DEF Matching, Present
  <1>2. query.filter \in Filters /\ query.filter # "active" /\ query' = query
    BY DEF ListingTypeOK, Insert, Expire
  <1>3. \A r \in Rows : \/ status'[r] = status[r]
                        \/ status[r] = "absent"
                        \/ status[r] = "active" /\ status'[r] = "expired"
    BY DEF ListingTypeOK, Insert, Expire
  <1>4. M \subseteq N
    BY <1>2, <1>3 DEF Matching, Present
  <1>5. /\ Counted = Cardinality(M) /\ Counted' = Cardinality(N)
        /\ \A r : /\ Rank(r) = Cardinality({x \in M : x >= r})
                  /\ Rank(r)' = Cardinality({x \in N : x >= r})
    BY DEF Counted, Rank
  <1> HIDE DEF M, N
  <1>6. IsFiniteSet(N) /\ Cardinality(N) \in Nat /\ Cardinality(M) <= Cardinality(N)
    BY <1>1, <1>4, ListsAreFinite, FS_Subset
  <1>7. ASSUME NEW r \in M
        PROVE  /\ Rank(r) \in Nat /\ Rank(r)' \in Nat /\ Rank(r) <= Rank(r)'
    <2> DEFINE A == {x \in M : x >= r}
               B == {x \in N : x >= r}
    <2>1. A \in SUBSET Rows /\ B \in SUBSET Rows /\ A \in SUBSET B
      BY <1>1, <1>4
    <2>2. Rank(r) = Cardinality(A) /\ Rank(r)' = Cardinality(B)
      BY <1>5
    <2> HIDE DEF A, B
    <2>3. /\ IsFiniteSet(B) /\ Cardinality(A) \in Nat /\ Cardinality(B) \in Nat
      BY <2>1, ListsAreFinite
    <2> QED
      BY <2>1, <2>2, <2>3, FS_Subset
  <1> QED
    BY <1>4, <1>5, <1>6, <1>7 DEF M, N

\* What the SELECT of a page returns when its offset is one that an int holds.
LEMMA Selected ==
  ASSUME NEW request, request.page \in 1 .. MaxInt, request.perPage \in Nat,
         Representable(request.page, request.perPage)
  PROVE  LET offset == (request.page - 1) * request.perPage
         IN  /\ offset \in Nat
             /\ Select(request) =
                  [page |-> request.page, perPage |-> request.perPage,
                   total |-> request.total, error |-> "none",
                   rows |-> PageOf(Matching(query.filter), offset, request.perPage)]
  <1> DEFINE k == request.page
             size == request.perPage
             offset == (k - 1) * size
  <1>1. k - 1 \in Nat /\ size \in Nat /\ MaxInt \in Nat
    BY ListingAssumption
  <1>2. offset \in Nat
    <2> DEFINE j == k - 1
    <2>1. j \in Nat /\ offset = j * size
      BY <1>1
    <2> HIDE DEF j, k, size, offset
    <2> QED
      BY <1>1, <2>1
  <1>3. offset <= MaxInt
    BY DEF Representable
  <1>4. Offset(k, size) = Wrap(offset)
    BY DEF Offset
  <1> HIDE DEF offset
  <1>5. Offset(k, size) = offset /\ ~ (offset < 0)
    BY <1>1, <1>2, <1>3, <1>4, WrapKeeps
  <1>6. Select(request) =
          [page |-> k, perPage |-> size, total |-> request.total, error |-> "none",
           rows |-> PageOf(Matching(query.filter), offset, size)]
    <2> DEFINE all == Newest(Matching(query.filter))
               o == Offset(request.page, request.perPage)
    <2>1. o = offset /\ (o < 0) = FALSE
      BY <1>5
    <2>2. Select(request) =
            [page |-> request.page, perPage |-> request.perPage,
             total |-> request.total,
             error |-> IF o < 0 THEN "refused" ELSE "none",
             rows |-> IF o < 0 THEN <<>>
                      ELSE SubSeq(all, o + 1, Least(Len(all), o + request.perPage))]
      BY Zenon DEF Select
    <2>3. PageOf(Matching(query.filter), offset, size) =
            SubSeq(all, offset + 1, Least(Len(all), offset + size))
      BY Zenon DEF PageOf
    <2> HIDE DEF all, o
    <2> QED
      BY <2>1, <2>2, <2>3, Zenon
  <1> QED
    BY <1>2, <1>6 DEF offset

----------------------------------------------------------------------------
(* Types. *)

\* The first states have them.
LEMMA TypesStart == Init => ListingTypeOK
  <1> SUFFICES ASSUME Init
               PROVE  ListingTypeOK
    OBVIOUS
  <1>1. {PerPage(n) : n \in PerPageValues} \subseteq 1 .. MaxPerPage
    BY Parsed, ListingAssumption
  <1> QED
    BY <1>1 DEF Init, ListingTypeOK, Idle

\* A request of page n, by its number or as the next of the walk.
LEMMA AskedFor ==
  ASSUME ListingTypeOK, NEW n \in Int, Ask(Page(n)), UNCHANGED <<status, query>>,
         next' = 0 \/ (next' = next /\ next = n)
  PROVE  ListingTypeOK'
  <1>1. PICK total : asked' = [page |-> Page(n), perPage |-> query.perPage, total |-> total]
    BY DEF Ask
  <1>2. /\ asked'.page = Page(n) /\ asked'.perPage = query.perPage
        /\ Page(n) \in 1 .. MaxInt
    BY <1>1, Parsed
  <1> QED
    BY <1>2 DEF ListingTypeOK

\* Every step keeps them.
LEMMA TypesKeep == ListingTypeOK /\ [Next]_vars => ListingTypeOK'
  <1> SUFFICES ASSUME ListingTypeOK, [Next]_vars
               PROVE  ListingTypeOK'
    OBVIOUS
  <1>1. CASE \E r \in Rows : Insert(r) \/ Expire(r)
    BY <1>1 DEF Insert, Expire, ListingTypeOK
  <1>2. CASE AskNext
    <2>1. next \in Int /\ Ask(Page(next)) /\ UNCHANGED <<status, query, next>>
      BY <1>2 DEF AskNext, ListingTypeOK
    <2> QED
      BY <2>1, AskedFor
  <1>3. ASSUME NEW n \in PageNumbers, JumpTo(n)
        PROVE  ListingTypeOK'
    <2>1. n \in Int
      BY ListingAssumption
    <2>2. Ask(Page(n)) /\ UNCHANGED <<status, query>> /\ next' = 0
      BY <1>3 DEF JumpTo
    <2> QED
      BY <2>1, <2>2, AskedFor
  <1>4. CASE ReadPage
    BY <1>4 DEF ReadPage, ListingTypeOK
  <1>5. CASE ReadFails
    BY <1>5 DEF ReadFails, ListingTypeOK
  <1>6. CASE OpenWebList
    BY <1>6 DEF OpenWebList, ListingTypeOK
  <1>7. CASE UNCHANGED vars
    BY <1>7 DEF vars, ListingTypeOK
  <1> QED
    BY <1>1, <1>2, <1>3, <1>4, <1>5, <1>6, <1>7 DEF Next

----------------------------------------------------------------------------
(* The walk. *)

\* A walk begins with nothing behind it.
LEMMA WalkStarts == Init => WalkInv
  <1> SUFFICES ASSUME Init
               PROVE  WalkInv
    OBVIOUS
  <1>1. ListingTypeOK
    BY TypesStart
  <1>2. Behind = 0
    BY <1>1 DEF Init, Behind, ListingTypeOK
  <1>3. \A r \in owed : ~ (Rank(r) <= 0)
    <2> SUFFICES ASSUME NEW r \in Matching(query.filter)
                 PROVE  ~ (Rank(r) <= 0)
      BY DEF Init
    <2> DEFINE M == Matching(query.filter)
    <2>1. M \in SUBSET Nat /\ IsFiniteSet(M) /\ Cardinality(M) \in Nat
      BY ListWalked, ListsAreFinite
    <2>2. Rank(r) = PlaceIn(M, r)
      BY ListWalked
    <2> HIDE DEF M
    <2>3. PlaceIn(M, r) \in 1 .. Cardinality(M)
      BY <2>1, Places DEF M
    <2> QED
      BY <2>1, <2>2, <2>3
  <1>4. 0 \in 0 .. Counted /\ 0 <= Counted
    BY ListWalked
  <1>5. FullBeforeTheLast
    BY DEF Init, NoReply, FullBeforeTheLast
  <1> QED
    BY <1>2, <1>3, <1>4, <1>5 DEF Init, WalkInv, WalkMissesNothing, Idle

\* What the answer of ReadPage is, unless the page asked for is beyond all offsets.
LEMMA PageRead ==
  ASSUME ListingTypeOK, ReadPage, Representable(asked.page, asked.perPage)
  PROVE  LET M == Matching(query.filter)
             offset == (asked.page - 1) * query.perPage
         IN  /\ offset \in Nat
             /\ reply' = [page |-> asked.page, perPage |-> query.perPage,
                          total |-> asked.total, error |-> "none",
                          rows |-> PageOf(M, offset, query.perPage)]
             /\ seen' = seen \union ToSet(PageOf(M, offset, query.perPage))
             /\ shown' = shown + Len(PageOf(M, offset, query.perPage))
             /\ next' = IF next = 0 \/ Len(PageOf(M, offset, query.perPage)) < query.perPage
                        THEN 0 ELSE next + 1
  <1>1. /\ asked.page \in 1 .. MaxInt /\ asked.perPage = query.perPage
        /\ query.perPage \in Nat
    BY ListingAssumption DEF ReadPage, ListingTypeOK
  <1> DEFINE M == Matching(query.filter)
             offset == (asked.page - 1) * query.perPage
             rows == PageOf(M, offset, query.perPage)
  <1>2. /\ offset \in Nat
        /\ Select(asked) = [page |-> asked.page, perPage |-> query.perPage,
                            total |-> asked.total, error |-> "none", rows |-> rows]
    BY <1>1, Selected
  <1>3. /\ reply' = Select(asked) /\ seen' = seen \union ToSet(Select(asked).rows)
        /\ shown' = shown + Len(Select(asked).rows)
        /\ next' = IF next = 0 \/ Len(Select(asked).rows) < query.perPage
                   THEN 0 ELSE next + 1
    BY DEF ReadPage
  <1> HIDE DEF rows, offset, M
  <1>4. Select(asked).rows = rows
    BY <1>2
  <1>5. /\ seen' = seen \union ToSet(rows) /\ shown' = shown + Len(rows)
        /\ next' = IF next = 0 \/ Len(rows) < query.perPage THEN 0 ELSE next + 1
    BY <1>3, <1>4
  <1> QED
    BY <1>2, <1>3, <1>5 DEF rows, offset, M

\* What ReadPage does to the walk: it reads the places behind which it stands.
LEMMA WalkPage ==
  ASSUME ListingTypeOK, WalkInv, ReadPage, next > 0
  PROVE  LET size == query.perPage
             rows == PageOf(Matching(query.filter), Behind, size)
         IN  /\ next \in Nat \ {0} /\ size \in Nat \ {0} /\ Behind \in Nat
             /\ next * size = Behind + size
             /\ seen' = seen \union ToSet(rows) /\ shown' = shown + Len(rows)
             /\ next' = IF Len(rows) < size THEN 0 ELSE next + 1
  <1> DEFINE M == Matching(query.filter)
             size == query.perPage
             v == (next - 1) * size
             rows == PageOf(M, v, size)
  <1>1. /\ next \in Nat \ {0} /\ size \in Nat \ {0} /\ MaxInt \in Nat
        /\ asked.page = Page(next) /\ asked.perPage = size
    BY ListingAssumption DEF ListingTypeOK, ReadPage
  <1>2. /\ v \in Nat /\ next - 1 <= v /\ next * size = v + size
    <2> HIDE DEF size
    <2> QED
      BY <1>1, Pages
  <1>3. v <= Counted /\ Counted \in Nat /\ Counted < MaxInt
    BY ListWalked DEF WalkInv, Behind
  <1> HIDE DEF v, size, M
  <1>4. next \in 1 .. MaxInt
    BY <1>1, <1>2, <1>3
  <1>5. asked.page = next
    BY <1>1, <1>4, Parsed
  <1>6. Representable(asked.page, asked.perPage)
    BY <1>1, <1>2, <1>3, <1>5 DEF Representable, v
  <1>7. /\ seen' = seen \union ToSet(rows) /\ shown' = shown + Len(rows)
        /\ next' = IF Len(rows) < size THEN 0 ELSE next + 1
    BY <1>1, <1>5, <1>6, PageRead DEF v, size, M
  <1>8. v = Behind
    BY DEF v, size, Behind
  <1> HIDE DEF rows
  <1> QED
    BY <1>1, <1>2, <1>7, <1>8 DEF rows, size, M

\* The page that the walk reads shows what is owed up to its end.
LEMMA WalkReads ==
  ASSUME ListingTypeOK, WalkInv, ReadPage, next > 0
  PROVE  /\ next' = 0 => owed \subseteq seen'
         /\ next' > 0 => /\ (next' - 1) * query.perPage <= Counted
                         /\ \A r \in owed : Rank(r) <= (next' - 1) * query.perPage
                                              => r \in seen'
  <1> DEFINE M == Matching(query.filter)
             size == query.perPage
             v == Behind
             rows == PageOf(M, v, size)
  <1>1. next \in Nat \ {0} /\ size \in Nat \ {0}
    BY WalkPage
  <1>2. v \in Nat /\ next * size = v + size
    BY WalkPage
  <1>3. /\ owed \subseteq M /\ v <= Counted /\ \A r \in owed : Rank(r) <= v => r \in seen
    BY DEF WalkInv
  <1>4. /\ M \in SUBSET Nat /\ IsFiniteSet(M) /\ Counted = Cardinality(M)
        /\ Counted \in Nat
        /\ \A r \in M : Rank(r) = PlaceIn(M, r) /\ PlaceIn(M, r) \in 1 .. Counted
    <2>1. M \in SUBSET Rows /\ Counted = Cardinality(M) /\ \A r : Rank(r) = PlaceIn(M, r)
          /\ Counted \in Nat
      BY ListWalked
    <2> HIDE DEF M
    <2>2. M \in SUBSET Nat /\ IsFiniteSet(M)
      BY <2>1, ListsAreFinite
    <2> QED
      BY <2>1, <2>2, Places
  <1>5. /\ seen' = seen \union ToSet(rows)
        /\ next' = IF Len(rows) < size THEN 0 ELSE next + 1
    BY WalkPage
  <1> HIDE DEF v, size, M
  <1>6. /\ v + size <= Counted => Len(rows) = size
        /\ Counted < v + size => Len(rows) < size
        /\ \A r \in M : v < PlaceIn(M, r) /\ PlaceIn(M, r) <= v + size => r \in ToSet(rows)
    BY <1>1, <1>2, <1>4, PagesShow
  <1> HIDE DEF rows
  <1>7. \A r \in owed : Rank(r) <= v + size => r \in seen'
    <2> SUFFICES ASSUME NEW r \in owed, Rank(r) <= v + size
                 PROVE  r \in seen'
      OBVIOUS
    <2>1. r \in M /\ Rank(r) = PlaceIn(M, r) /\ PlaceIn(M, r) \in Nat
      BY <1>3, <1>4
    <2>2. CASE Rank(r) <= v
      BY <1>3, <1>5, <2>2
    <2>3. CASE v < Rank(r)
      BY <1>5, <1>6, <2>1, <2>3
    <2> QED
      BY <1>2, <2>1, <2>2, <2>3
  <1>8. CASE Counted < v + size
    <2>1. next' = 0
      BY <1>5, <1>6, <1>8
    <2>2. \A r \in owed : Rank(r) <= v + size
      BY <1>1, <1>2, <1>3, <1>4, <1>8
    <2> QED
      BY <1>7, <2>1, <2>2
  <1>9. CASE v + size <= Counted
    <2>1. next' = next + 1
      BY <1>1, <1>5, <1>6, <1>9
    <2>2. (next' - 1) * size = v + size
      BY <1>1, <1>2, <2>1
    <2> QED
      BY <1>1, <1>7, <1>9, <2>1, <2>2 DEF size
  <1> QED
    BY <1>1, <1>2, <1>4, <1>8, <1>9

\* What the answer says of the page that follows is right.
LEMMA ReadIsFull ==
  ASSUME ListingTypeOK, WalkInv, ReadPage
  PROVE  FullBeforeTheLast'
  <1> DEFINE M == Matching(query.filter)
             size == query.perPage
             k == asked.page
             v == (k - 1) * size
             rows == PageOf(M, v, size)
  <1>1. /\ k \in Nat \ {0} /\ size \in Nat \ {0} /\ asked.perPage = size
        /\ asked.total \in Nat /\ asked.total <= Counted /\ Counted < MaxInt
        /\ MaxInt \in Nat /\ Counted \in Nat
    BY ListingAssumption, ListWalked DEF ListingTypeOK, ReadPage, WalkInv
  <1>2. v \in Nat /\ k * size = v + size
    <2> HIDE DEF size, k
    <2> QED
      BY <1>1, Pages
  <1>3. reply'.page = k /\ reply'.perPage = size /\ reply'.total = asked.total
    BY <1>1 DEF ReadPage, Select
  <1>4. M \in SUBSET Nat /\ IsFiniteSet(M) /\ Counted = Cardinality(M)
    BY ListWalked, ListsAreFinite
  <1>5. SUFFICES ASSUME k * size < asked.total
                 PROVE  reply'.error = "none" /\ Len(reply'.rows) = size
    BY <1>3 DEF FullBeforeTheLast
  <1> HIDE DEF v, size, k, M
  <1>6. v + size <= Counted /\ v <= MaxInt
    BY <1>1, <1>2, <1>5
  <1>7. Representable(asked.page, asked.perPage)
    BY <1>1, <1>6 DEF Representable, v, k
  <1>8. reply'.error = "none" /\ reply'.rows = rows
    BY <1>1, <1>7, PageRead DEF v, k, size, M
  <1>9. Len(rows) = size
    BY <1>1, <1>2, <1>4, <1>6, PagesShow
  <1> QED
    BY <1>8, <1>9

\* Every step keeps WalkInv while no row leaves the list.
LEMMA WalkKeeps ==
  ASSUME ListingTypeOK, WalkInv, "active" \notin Filters, [Next]_vars
  PROVE  WalkInv'
  <1>1. Counted \in Nat
    BY ListWalked
  <1>2. ASSUME NEW s \in Rows, Insert(s) \/ Expire(s)
        PROVE  WalkInv'
    <2>1. /\ UNCHANGED <<query, next, asked, seen, owed, reply>>
          /\ Behind' = Behind /\ Behind \in Int
      BY <1>2 DEF Insert, Expire, Behind, ListingTypeOK
    <2>2. /\ Matching(query.filter) \subseteq Matching(query.filter)'
          /\ Counted <= Counted' /\ Counted' \in Nat
          /\ \A r \in Matching(query.filter) : /\ Rank(r) \in Nat /\ Rank(r)' \in Nat
                                               /\ Rank(r) <= Rank(r)'
      BY <1>2, RowsJoin
    <2>3. owed' \subseteq Matching(query.filter)' /\ asked'.total \in 0 .. Counted'
      BY <1>1, <2>1, <2>2 DEF WalkInv
    <2>4. ASSUME next' > 0
          PROVE  /\ Behind' <= Counted'
                 /\ \A r \in owed' : Rank(r)' <= Behind' => r \in seen'
      <3>1. next > 0 /\ Behind <= Counted
        BY <2>1, <2>4 DEF WalkInv
      <3>2. Behind' <= Counted'
        BY <1>1, <2>1, <2>2, <3>1
      <3>3. ASSUME NEW r \in owed, Rank(r)' <= Behind
            PROVE  r \in seen
        <4>1. r \in Matching(query.filter)
          BY DEF WalkInv
        <4>2. Rank(r) <= Behind
          BY <2>1, <2>2, <3>3, <4>1
        <4> QED
          BY <3>1, <4>2 DEF WalkInv
      <3> QED
        BY <2>1, <3>2, <3>3
    <2>5. WalkMissesNothing' /\ FullBeforeTheLast'
      BY <2>1 DEF WalkInv, WalkMissesNothing, FullBeforeTheLast
    <2> QED
      BY <2>3, <2>4, <2>5 DEF WalkInv
  <1>3. /\ UNCHANGED <<status, query>> => UNCHANGED <<Matching(query.filter), Counted>>
        /\ UNCHANGED <<status, query>> => \A r : Rank(r)' = Rank(r)
    BY DEF Matching, Present, Counted, Rank
  <1>4. ASSUME NEW page, Ask(page)
        PROVE  asked'.total \in 0 .. Counted
    BY <1>1, <1>4 DEF Ask
  <1>5. CASE AskNext
    <2>1. UNCHANGED <<status, query, next, seen, owed, reply>> /\ Behind' = Behind
      BY <1>5 DEF AskNext, Behind
    <2>2. asked'.total \in 0 .. Counted
      BY <1>4, <1>5 DEF AskNext
    <2> QED
      BY <1>3, <2>1, <2>2 DEF WalkInv, WalkMissesNothing, FullBeforeTheLast
  <1>6. ASSUME NEW n \in PageNumbers, JumpTo(n)
        PROVE  WalkInv'
    <2>1. UNCHANGED <<status, query, seen, reply>> /\ next' = 0 /\ owed' = {}
      BY <1>6 DEF JumpTo
    <2>2. asked'.total \in 0 .. Counted
      BY <1>4, <1>6 DEF JumpTo
    <2> QED
      BY <1>3, <2>1, <2>2 DEF WalkInv, WalkMissesNothing, FullBeforeTheLast
  <1>7. CASE ReadPage
    <2>1. UNCHANGED <<status, query, owed>> /\ asked' = Idle /\ seen \subseteq seen'
      BY <1>7 DEF ReadPage
    <2>2. owed' \subseteq Matching(query.filter)' /\ asked'.total \in 0 .. Counted'
      BY <1>1, <1>3, <2>1 DEF WalkInv, Idle
    <2>3. FullBeforeTheLast'
      BY <1>7, ReadIsFull
    <2>4. CASE next > 0
      <3>1. Behind' = (next' - 1) * query.perPage
        BY <2>1 DEF Behind
      <3>2. next' > 0 => /\ Behind' <= Counted'
                         /\ \A r \in owed' : Rank(r)' <= Behind' => r \in seen'
        BY <1>3, <1>7, <2>1, <2>4, <3>1, WalkReads
      <3>3. WalkMissesNothing'
        BY <1>7, <2>1, <2>4, WalkReads DEF WalkMissesNothing
      <3> QED
        BY <2>2, <2>3, <3>2, <3>3 DEF WalkInv
    <2>5. CASE ~ (next > 0)
      <3>1. next = 0 /\ next' = 0
        BY <1>7, <2>5 DEF ReadPage, ListingTypeOK
      <3>2. WalkMissesNothing'
        BY <2>1, <3>1 DEF WalkInv, WalkMissesNothing
      <3> QED
        BY <2>2, <2>3, <3>1, <3>2 DEF WalkInv
    <2> QED
      BY <2>4, <2>5
  <1>8. CASE ReadFails
    <2>1. /\ UNCHANGED <<status, query, next, seen, owed>> /\ asked' = Idle
          /\ Behind' = Behind /\ reply'.error = "failed"
      BY <1>8 DEF ReadFails, Behind, Select
    <2>2. asked'.total \in 0 .. Counted
      BY <1>1, <2>1 DEF Idle
    <2>3. FullBeforeTheLast'
      BY <2>1 DEF FullBeforeTheLast
    <2> QED
      BY <1>3, <2>1, <2>2, <2>3 DEF WalkInv, WalkMissesNothing
  <1>9. CASE OpenWebList
    <2>1. UNCHANGED <<status, query, asked, seen>> /\ next' = 0 /\ owed' = {}
      BY <1>9 DEF OpenWebList
    <2>2. reply'.page = 1 /\ reply'.perPage \in Nat /\ reply'.total = 0
      <3>1. \A limit \in WebLimits : limit \in Nat
        BY ListingAssumption, FewRows, FS_CardinalityType DEF WebLimits
      <3>2. PICK limit \in WebLimits :
              \E n : reply' = [Select([page |-> 1, perPage |-> limit, total |-> 0])
                                 EXCEPT !.rows = SubSeq(@, 1, n)]
        BY <1>9 DEF OpenWebList
      <3> QED
        BY <3>1, <3>2 DEF Select
    <2>3. FullBeforeTheLast'
      BY <2>2 DEF FullBeforeTheLast
    <2> QED
      BY <1>3, <2>1, <2>3 DEF WalkInv, WalkMissesNothing
  <1>10. CASE UNCHANGED vars
    BY <1>3, <1>10 DEF vars, WalkInv, Behind, WalkMissesNothing, FullBeforeTheLast
  <1> QED
    BY <1>2, <1>5, <1>6, <1>7, <1>8, <1>9, <1>10 DEF Next

----------------------------------------------------------------------------
(* Repetitions. *)

\* A walk begins with none.
LEMMA RepeatsStart == Init => RepeatsInv
  <1> SUFFICES ASSUME Init
               PROVE  RepeatsInv
    OBVIOUS
  <1>1. /\ seen = {} /\ shown = 0 /\ Matching(query.filter) \ owed = {} /\ Ahead = {}
    BY DEF Init, Ahead
  <1>2. Cardinality({}) = 0
    BY FS_EmptySet
  <1> QED
    BY <1>1, <1>2 DEF RepeatsInv, RepeatsAreJoins

\* The sets that are counted are finite.
LEMMA RowsAreCounted ==
  ASSUME seen \subseteq Matching(query.filter)
  PROVE  /\ IsFiniteSet(seen) /\ Cardinality(seen) \in Nat
         /\ IsFiniteSet(Ahead) /\ Cardinality(Ahead) \in Nat
         /\ IsFiniteSet(Matching(query.filter) \ owed)
         /\ Cardinality(Matching(query.filter) \ owed) \in Nat
  <1>1. Matching(query.filter) \in SUBSET Rows
    BY ListWalked
  <1>2. /\ seen \in SUBSET Rows /\ Ahead \in SUBSET Rows
        /\ Matching(query.filter) \ owed \in SUBSET Rows
    BY <1>1 DEF Ahead
  <1> QED
    BY <1>2, ListsAreFinite

\* A row that joins moves at most one row from behind the walk to ahead of it.
LEMMA RepeatsJoin ==
  ASSUME ListingTypeOK, WalkInv, RepeatsInv, "active" \notin Filters,
         NEW s \in Rows, Insert(s) \/ Expire(s)
  PROVE  RepeatsInv'
  <1> DEFINE M == Matching(query.filter)
             N == Matching(query.filter)'
             A == Ahead
             B == Ahead'
  <1>1. /\ UNCHANGED <<query, next, asked, seen, shown, owed>> /\ Behind' = Behind
    BY DEF Insert, Expire, Behind
  <1>2. /\ M \subseteq N /\ \A r \in M : /\ Rank(r) \in Nat /\ Rank(r)' \in Nat
                                         /\ Rank(r) <= Rank(r)'
    BY RowsJoin
  <1>3. N \subseteq M \union {s}
    BY DEF Matching, Present, Insert, Expire, ListingTypeOK
  <1>4. M \in SUBSET Rows /\ N \in SUBSET Rows
    BY DEF Matching, Present
  <1>5. /\ owed \subseteq M /\ seen \subseteq M /\ shown \in Nat
    BY DEF WalkInv, RepeatsInv
  <1>6. /\ A = {r \in seen : Rank(r) > Behind} /\ B = {r \in seen : Rank(r)' > Behind}
    BY <1>1 DEF Ahead
  <1>7. /\ \A r : Rank(r) = PlaceIn(M, r) /\ Rank(r)' = PlaceIn(N, r)
    BY DEF Rank, PlaceIn
  <1>8. Behind \in Int
    BY DEF Behind, ListingTypeOK
  <1>9. /\ next > 0 => shown + Cardinality(A) <= Cardinality(seen) + Cardinality(M \ owed)
        /\ shown <= Cardinality(seen) + Cardinality(M \ owed)
    BY DEF RepeatsInv, RepeatsAreJoins
  <1>10. /\ Cardinality(seen) \in Nat /\ IsFiniteSet(A) /\ Cardinality(A) \in Nat
         /\ IsFiniteSet(M \ owed) /\ Cardinality(M \ owed) \in Nat
    BY <1>5, RowsAreCounted
  <1>11. SUFFICES /\ next > 0 => shown + Cardinality(B)
                                   <= Cardinality(seen) + Cardinality(N \ owed)
                  /\ shown <= Cardinality(seen) + Cardinality(N \ owed)
    <2>1. seen \subseteq N
      BY <1>2, <1>5
    <2>2. next = 1 \/ (next = 0 /\ asked # Idle) => seen = {} /\ shown = 0
      BY DEF RepeatsInv
    <2> HIDE DEF B
    <2> QED
      BY <1>1, <1>5, <1>11, <2>1, <2>2 DEF RepeatsInv, RepeatsAreJoins, B
  <1> HIDE DEF M, N, A, B
  <1>12. CASE N = M
    <2>1. B = A
      BY <1>6, <1>7, <1>12
    <2> QED
      BY <1>9, <1>12, <2>1
  <1>13. CASE N # M
    <2>1. N = M \union {s} /\ s \notin M
      BY <1>2, <1>3, <1>13
    <2>2. N \ owed = (M \ owed) \union {s} /\ s \notin M \ owed
      BY <1>5, <2>1
    <2>3. Cardinality(N \ owed) = Cardinality(M \ owed) + 1
      BY <1>10, <2>2, FS_AddElement
    <2>4. ASSUME NEW r \in seen
          PROVE  Rank(r)' <= Rank(r) + 1
      <3> DEFINE From == {y \in M : y >= r}
                 To == {y \in N : y >= r}
      <3>1. From \in SUBSET Rows /\ To \in SUBSET Rows /\ To \subseteq From \union {s}
        BY <1>4, <2>1
      <3>2. Rank(r) = Cardinality(From) /\ Rank(r)' = Cardinality(To)
        BY <1>7 DEF PlaceIn
      <3> HIDE DEF From, To
      <3>3. IsFiniteSet(From) /\ Cardinality(From) \in Nat /\ Cardinality(To) \in Nat
        BY <3>1, ListsAreFinite
      <3>4. /\ IsFiniteSet(From \union {s})
            /\ Cardinality(From \union {s}) <= Cardinality(From) + 1
            /\ Cardinality(From \union {s}) \in Nat
        BY <3>3, FS_AddElement
      <3>5. Cardinality(To) <= Cardinality(From \union {s})
        BY <3>1, <3>4, FS_Subset
      <3> QED
        BY <3>2, <3>3, <3>4, <3>5
    <2>5. \A x, y \in seen : Rank(x) = Rank(y) => x = y
      <3>1. M \in SUBSET Nat /\ IsFiniteSet(M)
        BY <1>4, ListsAreFinite
      <3> SUFFICES ASSUME NEW x \in seen, NEW y \in seen, Rank(x) = Rank(y)
                   PROVE  x = y
        OBVIOUS
      <3>2. x \in M /\ y \in M /\ x \in Nat /\ y \in Nat
        BY <1>5, <3>1
      <3>3. (x < y => Rank(y) < Rank(x)) /\ (y < x => Rank(x) < Rank(y))
        BY <1>7, <3>1, <3>2, Places
      <3>4. Rank(x) \in Nat /\ Rank(y) \in Nat
        BY <1>2, <3>2
      <3> QED
        BY <3>2, <3>3, <3>4
    <2> DEFINE x == CHOOSE r \in seen : Rank(r) = Behind
    <2>6. B \subseteq A \union {x}
      <3> SUFFICES ASSUME NEW r \in B, r \notin A
                   PROVE  r = x
        OBVIOUS
      <3>1. r \in seen /\ Rank(r)' > Behind /\ ~ (Rank(r) > Behind)
        BY <1>6
      <3>2. Rank(r) \in Nat /\ Rank(r)' \in Nat
        BY <1>2, <1>5, <3>1
      <3>3. Rank(r) = Behind
        BY <1>8, <2>4, <3>1, <3>2
      <3> QED
        BY <2>5, <3>1, <3>3
    <2> HIDE DEF x
    <2>7. /\ IsFiniteSet(A \union {x}) /\ Cardinality(A \union {x}) <= Cardinality(A) + 1
          /\ Cardinality(A \union {x}) \in Nat
      BY <1>10, FS_AddElement
    <2>8. Cardinality(B) <= Cardinality(A \union {x}) /\ Cardinality(B) \in Nat
      BY <2>6, <2>7, FS_Subset, FS_CardinalityType
    <2> QED
      BY <1>5, <1>9, <1>10, <2>3, <2>7, <2>8
  <1> QED
    BY <1>12, <1>13

\* The page that the walk reads repeats rows that were ahead, and those are no
\* longer ahead.
LEMMA RepeatsWalk ==
  ASSUME ListingTypeOK, WalkInv, RepeatsInv, ReadPage, next > 0
  PROVE  RepeatsInv'
  <1> DEFINE M == Matching(query.filter)
             size == query.perPage
             v == Behind
             R == ToSet(PageOf(M, v, size))
             A == Ahead
             B == {r \in seen' : Rank(r) > v + size}
             D == seen \intersect R
  <1>1. /\ next \in Nat \ {0} /\ size \in Nat \ {0} /\ v \in Nat /\ next * size = v + size
        /\ seen' = seen \union R /\ shown' = shown + Len(PageOf(M, v, size))
        /\ next' = 0 \/ next' = next + 1
    BY WalkPage
  <1>2. UNCHANGED <<status, query, owed>> /\ asked' = Idle
    BY DEF ReadPage
  <1>3. M \in SUBSET Nat /\ IsFiniteSet(M) /\ M \in SUBSET Rows
    BY ListWalked, ListsAreFinite
  <1>4. \A r : Rank(r) = PlaceIn(M, r)
    BY ListWalked
  <1>5. seen \subseteq M /\ shown \in Nat
    BY DEF RepeatsInv
  <1>6. /\ IsFiniteSet(seen) /\ Cardinality(seen) \in Nat
        /\ IsFiniteSet(A) /\ Cardinality(A) \in Nat
        /\ Cardinality(M \ owed) \in Nat
    BY <1>5, RowsAreCounted
  <1>7. shown + Cardinality(A) <= Cardinality(seen) + Cardinality(M \ owed)
    BY <1>1 DEF RepeatsInv
  <1>8. A = {r \in seen : Rank(r) > v}
    BY DEF Ahead
  <1>9. /\ M' = M /\ \A r : Rank(r)' = Rank(r)
        /\ next' > 0 => Ahead' = B
    <2>1. M' = M /\ \A r : Rank(r)' = Rank(r)
      BY <1>2 DEF Matching, Present, Rank
    <2>2. ASSUME next' > 0
          PROVE  Behind' = v + size
      <3>1. Behind' = (next' - 1) * query.perPage
        BY <1>2 DEF Behind
      <3>2. next' - 1 = next
        BY <1>1, <2>2
      <3> QED
        BY <1>1, <3>1, <3>2
    <2> QED
      BY <2>1, <2>2 DEF Ahead
  <1>10. /\ Len(PageOf(M, v, size)) = Cardinality(R) /\ IsFiniteSet(R)
         /\ Cardinality(R) \in Nat
         /\ \A x \in R : x \in M /\ v < Rank(x) /\ Rank(x) <= v + size
    <2> HIDE DEF M, v, size
    <2> QED
      BY <1>1, <1>3, <1>4, PagesShowOnly
  <1>11. \A r \in M : Rank(r) \in Nat
    <2> HIDE DEF M
    <2>1. \A r \in M : PlaceIn(M, r) \in 1 .. Cardinality(M) /\ Cardinality(M) \in Nat
      BY <1>3, Places, FS_CardinalityType
    <2> QED
      BY <1>4, <2>1
  <1> HIDE DEF M, size, v, R, A
  <1>12. B \union D \subseteq A /\ B \intersect D = {}
    <2>1. ASSUME NEW r \in B
          PROVE  r \in A /\ r \notin R
      <3>1. r \in seen' /\ Rank(r) > v + size
        OBVIOUS
      <3>2. r \in M
        BY <1>1, <1>5, <1>10, <3>1
      <3>3. Rank(r) \in Nat /\ Rank(r) > v /\ ~ (Rank(r) <= v + size)
        BY <1>1, <1>11, <3>1, <3>2
      <3> QED
        BY <1>1, <1>8, <1>10, <3>1, <3>3
    <2>2. ASSUME NEW r \in D
          PROVE  r \in A
      <3>1. r \in seen /\ v < Rank(r) /\ Rank(r) \in Nat
        BY <1>5, <1>10, <1>11
      <3> QED
        BY <1>1, <1>8, <3>1
    <2> QED
      BY <2>1, <2>2
  <1> HIDE DEF B, D
  <1>13. /\ IsFiniteSet(B) /\ IsFiniteSet(D)
         /\ Cardinality(B) \in Nat /\ Cardinality(D) \in Nat
    BY <1>6, <1>12, FS_Subset, FS_CardinalityType
  <1>14. Cardinality(B) + Cardinality(D) <= Cardinality(A)
    <2>1. Cardinality(B \intersect D) = 0
      BY <1>12, FS_EmptySet
    <2>2. Cardinality(B \union D) = Cardinality(B) + Cardinality(D) - Cardinality(B \intersect D)
      BY <1>13, FS_Union
    <2>3. Cardinality(B \union D) <= Cardinality(A)
      BY <1>6, <1>12, FS_Subset
    <2> QED
      BY <1>13, <2>1, <2>2, <2>3
  <1>15. Cardinality(seen') = Cardinality(seen) + Cardinality(R) - Cardinality(D)
    BY <1>1, <1>6, <1>10, FS_Union DEF D
  <1>16. /\ shown' \in Nat
         /\ shown' + Cardinality(B) <= Cardinality(seen') + Cardinality(M \ owed)
         /\ shown' <= Cardinality(seen') + Cardinality(M \ owed)
    BY <1>1, <1>5, <1>6, <1>7, <1>10, <1>13, <1>14, <1>15
  <1>17. seen' \subseteq M
    BY <1>1, <1>5, <1>10
  <1>18. ~ (next' = 1 \/ (next' = 0 /\ asked' # Idle))
    BY <1>1, <1>2
  <1>19. Matching(query.filter)' = M
    BY <1>9 DEF M
  <1> QED
    BY <1>2, <1>9, <1>16, <1>17, <1>18, <1>19 DEF RepeatsInv, RepeatsAreJoins

\* The one page of a client that asks for it by number repeats none, whatever
\* its offset.
LEMMA RepeatsJump ==
  ASSUME ListingTypeOK, RepeatsInv, ReadPage, next = 0
  PROVE  RepeatsInv'
  <1> DEFINE M == Matching(query.filter)
             rows == Select(asked).rows
             o == Offset(asked.page, asked.perPage)
  <1>1. M \in SUBSET Nat /\ IsFiniteSet(M) /\ M \in SUBSET Rows
    BY ListWalked, ListsAreFinite
  <1>2. asked.page \in Nat /\ asked.perPage \in Nat /\ MaxInt \in Nat \ {0}
    BY ListingAssumption DEF ListingTypeOK, ReadPage
  <1>3. o \in Int
    <2> DEFINE k == (asked.page - 1) * asked.perPage
    <2>1. k \in Int
      BY <1>2
    <2>2. o = Wrap(k)
      BY DEF Offset
    <2> HIDE DEF k, o
    <2>3. k + MaxInt + 1 \in Int /\ 2 * (MaxInt + 1) \in Nat \ {0}
      BY <1>2, <2>1
    <2>4. (k + MaxInt + 1) % (2 * (MaxInt + 1)) \in Int
      BY <2>3
    <2> QED
      BY <1>2, <2>2, <2>4 DEF Wrap
  <1>4. IF o < 0 THEN rows = <<>> ELSE rows = PageOf(M, o, asked.perPage)
    BY DEF Select, PageOf
  <1>5. /\ seen = {} /\ shown = 0 /\ next' = 0 /\ asked' = Idle
        /\ seen' = seen \union ToSet(rows) /\ shown' = shown + Len(rows)
        /\ UNCHANGED <<status, query, owed>>
    BY DEF RepeatsInv, ReadPage
  <1>6. M' = M
    BY <1>5 DEF Matching, Present
  <1> HIDE DEF M, rows, o
  <1>7. Len(rows) \in Nat /\ Cardinality(ToSet(rows)) = Len(rows) /\ ToSet(rows) \subseteq M
    <2>1. CASE o < 0
      <3>1. rows = <<>> /\ ToSet(<<>>) = {} /\ Len(<<>>) = 0
        BY <1>4, <2>1 DEF ToSet
      <3> QED
        BY <3>1, FS_EmptySet
    <2>2. CASE ~ (o < 0)
      <3>1. o \in Nat /\ rows = PageOf(M, o, asked.perPage)
        BY <1>3, <1>4, <2>2
      <3> QED
        BY <1>1, <1>2, <3>1, PagesShowOnly
    <2> QED
      BY <2>1, <2>2
  <1>8. /\ seen' \subseteq M /\ shown' \in Nat /\ shown' = Cardinality(seen')
    <2>1. seen' = ToSet(rows) /\ shown' = Len(rows)
      BY <1>5, <1>7
    <2> QED
      BY <1>7, <2>1
  <1>9. Cardinality(M \ owed) \in Nat
    BY <1>1, ListsAreFinite
  <1>10. Matching(query.filter)' = M
    BY <1>6 DEF M
  <1> QED
    BY <1>5, <1>8, <1>9, <1>10 DEF RepeatsInv, RepeatsAreJoins

\* Every step keeps RepeatsInv while no row leaves the list.
LEMMA RepeatsKeep ==
  ASSUME ListingTypeOK, WalkInv, RepeatsInv, "active" \notin Filters, [Next]_vars
  PROVE  RepeatsInv'
  <1>1. ASSUME NEW s \in Rows, Insert(s) \/ Expire(s)
        PROVE  RepeatsInv'
    BY <1>1, RepeatsJoin
  <1>2. ASSUME UNCHANGED <<status, query, next, seen, shown, owed>>,
               next > 0 \/ asked' = Idle \/ asked' = asked
        PROVE  RepeatsInv'
    <2>1. /\ Matching(query.filter)' = Matching(query.filter) /\ Ahead' = Ahead
      BY <1>2 DEF Matching, Present, Ahead, Rank, Behind
    <2> QED
      BY <1>2, <2>1 DEF RepeatsInv, RepeatsAreJoins, ListingTypeOK
  <1>3. ASSUME UNCHANGED <<status, query, seen, shown>>, next = 1, next' = 0
        PROVE  RepeatsInv'
    <2>1. seen = {} /\ shown = 0 /\ Matching(query.filter)' = Matching(query.filter)
      BY <1>3 DEF RepeatsInv, Matching, Present
    <2>2. Matching(query.filter) \ owed' \in SUBSET Rows
      BY ListWalked
    <2>3. Cardinality(Matching(query.filter) \ owed') \in Nat /\ Cardinality({}) = 0
      BY <2>2, ListsAreFinite, FS_EmptySet
    <2> QED
      BY <1>3, <2>1, <2>3 DEF RepeatsInv, RepeatsAreJoins
  <1>4. CASE AskNext
    BY <1>2, <1>4 DEF AskNext
  <1>5. ASSUME NEW n \in PageNumbers, JumpTo(n)
        PROVE  RepeatsInv'
    BY <1>3, <1>5 DEF JumpTo
  <1>6. CASE ReadPage
    <2>1. next > 0 \/ next = 0
      BY DEF ListingTypeOK
    <2> QED
      BY <1>6, <2>1, RepeatsWalk, RepeatsJump
  <1>7. CASE ReadFails
    BY <1>2, <1>7 DEF ReadFails
  <1>8. CASE OpenWebList
    BY <1>3, <1>8 DEF OpenWebList
  <1>9. CASE UNCHANGED vars
    BY <1>2, <1>9 DEF vars
  <1> QED
    BY <1>1, <1>4, <1>5, <1>6, <1>7, <1>8, <1>9 DEF Next

----------------------------------------------------------------------------
(* The theorems. *)

\* The walk's invariant, whatever is inserted, expires and is asked for meanwhile.
THEOREM ListingInvariant == Spec => []ListingInv
  <1>1. Init => ListingInv
    BY TypesStart, WalkStarts, RepeatsStart DEF ListingInv
  <1>2. ListingInv /\ [Next]_vars => ListingInv'
    BY TypesKeep, WalkKeeps, RepeatsKeep DEF ListingInv
  <1> QED
    BY <1>1, <1>2, PTL DEF Spec

\* A walk misses no row of a list that rows only join: ?status=active, which they
\* leave when they expire, is the list of which this is not so.
THEOREM WalksMissNothing ==
  ASSUME "active" \notin Filters
  PROVE  Spec => []WalkMissesNothing
  <1>1. ListingInv => WalkMissesNothing
    BY DEF ListingInv, WalkInv
  <1> QED
    BY <1>1, ListingInvariant, PTL

\* Of such a list a page is full if the total, counted before its rows were read,
\* says that another follows.
THEOREM PagesFullBeforeTheLast ==
  ASSUME "active" \notin Filters
  PROVE  Spec => []FullBeforeTheLast
  <1>1. ListingInv => FullBeforeTheLast
    BY DEF ListingInv, WalkInv
  <1> QED
    BY <1>1, ListingInvariant, PTL

\* A walk over such a list repeats no more rows than joined it meanwhile.
THEOREM RepeatsAreOfJoins ==
  ASSUME "active" \notin Filters
  PROVE  Spec => []RepeatsAreJoins
  <1>1. ListingInv => RepeatsAreJoins
    BY DEF ListingInv, RepeatsInv
  <1> QED
    BY <1>1, ListingInvariant, PTL
============================================================================
