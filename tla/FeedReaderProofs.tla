-------------------------- MODULE FeedReaderProofs --------------------------
(***************************************************************************)
(* Proofs about FeedReader, for every value of its constants: paging with  *)
(* a cursor of time and uri meets every post of the feed, and none twice,  *)
(* and on a page the boards take turns.                                    *)
(***************************************************************************)
EXTENDS FeedReader, TLAPS, FiniteSetTheorems, WellFoundedInduction

(* A non-empty set of numbers has a least one. *)
LEMMA Least ==
  ASSUME NEW T, T \subseteq Nat, T # {}
  PROVE  \E n \in T : \A k \in T : n <= k
  <1>1. PICK n \in T : \A k \in T : <<k, n>> \notin OpToRel(<, Nat)
    BY NatLessThanWellFounded, WFMin, Zenon
  <1>2. \A k \in T : ~(k < n)
    BY <1>1, Zenon DEF OpToRel
  <1> QED
    BY <1>2

(* A page has the newest rows of those that are left, and when rows are left it has
   one; the floor of the page is its oldest. *)
LEMMA PageOfNewest ==
  ASSUME NEW rs, rs \subseteq Row, IsFiniteSet(rs), NEW limit \in Nat \ {0}
  PROVE  /\ \A c \in Newest(rs, limit), d \in rs \ Newest(rs, limit) : Newer(c, d)
         /\ rs # {} => Newest(rs, limit) # {}
  <1> DEFINE Above(r) == {q \in rs : Newer(q, r)}
  <1>1. \A r \in rs : IsFiniteSet(Above(r)) /\ Cardinality(Above(r)) \in Nat
    <2> TAKE r \in rs
    <2>1. Above(r) \subseteq rs
      OBVIOUS
    <2> QED
      BY <2>1, FS_Subset, FS_CardinalityType
  <1>2. \A c, d \in rs : ~Newer(c, d) => Above(d) \subseteq Above(c)
    BY DEF Newer, Older, Key, Row
  <1>3. ASSUME NEW c \in Newest(rs, limit), NEW d \in rs \ Newest(rs, limit), ~Newer(c, d)
        PROVE  FALSE
    <2>1. Cardinality(Above(d)) <= Cardinality(Above(c))
      BY <1>1, <1>2, <1>3, FS_Subset DEF Newest
    <2>2. Cardinality(Above(c)) < limit /\ ~(Cardinality(Above(d)) < limit)
      BY DEF Newest
    <2> QED
      BY <1>1, <2>1, <2>2 DEF Newest
  <1>4. ASSUME rs # {}
        PROVE  Newest(rs, limit) # {}
    <2>1. PICK r \in rs : \A q \in rs : Cardinality(Above(r)) <= Cardinality(Above(q))
      <3> DEFINE T == {Cardinality(Above(r)) : r \in rs}
      <3>1. T \subseteq Nat /\ T # {}
        BY <1>1, <1>4
      <3>2. PICK n \in T : \A k \in T : n <= k
        BY <3>1, Least
      <3> QED
        BY <3>2
    <2>2. ASSUME NEW q \in Above(r)
          PROVE  FALSE
      <3>1. Above(q) \subseteq Above(r) /\ q \notin Above(q) /\ Above(q) # Above(r)
        BY <2>2 DEF Newer, Older, Key, Row
      <3>2. Cardinality(Above(q)) < Cardinality(Above(r))
        BY <1>1, <2>2, <3>1, FS_Subset
      <3>3. Cardinality(Above(q)) \in Nat /\ Cardinality(Above(r)) \in Nat
        BY <1>1, <2>2
      <3>4. Cardinality(Above(r)) <= Cardinality(Above(q))
        BY <2>1, <2>2
      <3> QED
        BY <3>2, <3>3, <3>4
    <2>3. Cardinality(Above(r)) = 0
      BY <2>2, FS_EmptySet
    <2>4. Cardinality(Above(r)) < limit
      BY <2>3
    <2>5. r \in Newest(rs, limit)
      BY <2>4, Zenon DEF Newest
    <2> QED
      BY <2>5
  <1> QED
    BY <1>3, <1>4

LEMMA FloorIsOldest ==
  ASSUME NEW rs, rs \subseteq Row, rs # {}, \A q, r \in rs : q.uri = r.uri => q = r
  PROVE  \E r \in rs : Floor(rs) = Key(r) /\ \A q \in rs : q = r \/ Newer(q, r)
  <1> DEFINE A == {r.at : r \in rs}
  <1>a. A \subseteq Nat /\ A # {}
    BY DEF Row
  <1>1. PICK m \in A : \A k \in A : m <= k
    BY <1>a, Least
  <1> DEFINE U == {r.uri : r \in {r \in rs : r.at = m}}
  <1>2. U \subseteq Nat /\ U # {}
    BY <1>1 DEF Row
  <1>3. PICK u \in U : \A k \in U : u <= k
    BY <1>2, Least
  <1>4. PICK r \in rs : r.at = m /\ r.uri = u
    BY <1>3
  <1>5. \A q \in rs : q = r \/ Newer(q, r)
    BY <1>1, <1>3, <1>4 DEF Newer, Older, Key, Row
  <1> QED
    BY <1>5 DEF Floor

-----------------------------------------------------------------------------
(* The page as it is displayed.                                            *)

(* Rows that a page may have: of posts that differ. *)
Sortable(rs) == rs \subseteq Row /\ IsFiniteSet(rs) /\ \A q, r \in rs : q.uri = r.uri => q = r

LEMMA NewerOrder ==
  ASSUME NEW rs, Sortable(rs)
  PROVE  /\ \A q \in rs : ~Newer(q, q)
         /\ \A q, r \in rs : q # r => Newer(q, r) \/ Newer(r, q)
         /\ \A q, r, t \in rs : Newer(q, r) /\ Newer(r, t) => Newer(q, t)
  BY DEF Sortable, Newer, Older, Key, Row

(* Within a board the newer row has the lower rank. *)
LEMMA RankFacts ==
  ASSUME NEW rs, Sortable(rs)
  PROVE  /\ \A r \in rs : Rank(rs, r) \in Nat
         /\ \A q, r \in rs : q.board = r.board /\ Newer(q, r) => Rank(rs, q) < Rank(rs, r)
         /\ \A q, r \in rs : q.board = r.board /\ Rank(rs, q) = Rank(rs, r) => q = r
  <1> DEFINE Above(r) == {q \in rs : q.board = r.board /\ Newer(q, r)}
  <1>1. \A r \in rs : IsFiniteSet(Above(r)) /\ Cardinality(Above(r)) \in Nat
                      /\ Rank(rs, r) = Cardinality(Above(r))
    <2> TAKE r \in rs
    <2>1. Above(r) \subseteq rs
      OBVIOUS
    <2> QED
      BY <2>1, FS_Subset, FS_CardinalityType DEF Sortable, Rank
  <1>2. ASSUME NEW q \in rs, NEW r \in rs, q.board = r.board, Newer(q, r)
        PROVE  Rank(rs, q) < Rank(rs, r)
    <2>1. Above(q) \subseteq Above(r) /\ q \in Above(r) /\ q \notin Above(q)
      BY <1>2, NewerOrder
    <2>2. Cardinality(Above(q)) <= Cardinality(Above(r)) /\ Cardinality(Above(q)) # Cardinality(Above(r))
      BY <1>1, <2>1, FS_Subset
    <2> HIDE DEF Above
    <2> QED
      BY <1>1, <2>2
  <1>3. ASSUME NEW q \in rs, NEW r \in rs, q.board = r.board, Rank(rs, q) = Rank(rs, r), q # r
        PROVE  FALSE
    <2>1. Newer(q, r) \/ Newer(r, q)
      BY <1>3, NewerOrder
    <2>2. Rank(rs, q) \in Nat /\ Rank(rs, r) \in Nat
      BY <1>1
    <2> QED
      BY <1>2, <1>3, <2>1, <2>2
  <1> QED
    BY <1>1, <1>2, <1>3

LEMMA BeforeOrder ==
  ASSUME NEW rs, Sortable(rs)
  PROVE  /\ \A q \in rs : ~Before(rs, q, q)
         /\ \A q, r \in rs : q # r => Before(rs, q, r) \/ Before(rs, r, q)
         /\ \A q, r, t \in rs : Before(rs, q, r) /\ Before(rs, r, t) => Before(rs, q, t)
  BY NewerOrder, RankFacts DEF Before

(* The page has each row once, in this order. *)
LEMMA PageInOrder ==
  ASSUME NEW rs, Sortable(rs)
  PROVE  LET pg == InterleaveByBoard(rs)
             n  == Cardinality(rs)
         IN  /\ n \in Nat /\ pg \in [1 .. n -> rs] /\ Len(pg) = n
             /\ \A r \in rs : \E i \in 1 .. n : pg[i] = r
             /\ \A i, j \in 1 .. n : i < j => Before(rs, pg[i], pg[j])
  <1> DEFINE pg == InterleaveByBoard(rs)
             n == Cardinality(rs)
             Above(r) == {q \in rs : Before(rs, q, r)}
             above == [r \in rs |-> Cardinality(Above(r))]
             place == [r \in rs |-> Cardinality(Above(r)) + 1]
  <1>1. n \in Nat /\ IsFiniteSet(rs)
    BY FS_CardinalityType DEF Sortable
  <1>2. \A r \in rs : /\ IsFiniteSet(Above(r)) /\ Cardinality(Above(r)) \in Nat
                       /\ Cardinality(Above(r)) \in 0 .. n - 1
    <2> TAKE r \in rs
    <2>1. Above(r) \subseteq rs /\ r \notin Above(r)
      BY BeforeOrder
    <2> HIDE DEF Above
    <2>2. IsFiniteSet(Above(r)) /\ Cardinality(Above(r)) \in Nat
          /\ Cardinality(Above(r)) <= n /\ Cardinality(Above(r)) # n
      BY <1>1, <2>1, FS_Subset, FS_CardinalityType
    <2> HIDE DEF n
    <2> QED
      BY <1>1, <2>2
  <1>3. \A q, r \in rs : Before(rs, q, r) => place[q] < place[r]
    <2> SUFFICES ASSUME NEW q \in rs, NEW r \in rs, Before(rs, q, r)
                 PROVE  Cardinality(Above(q)) + 1 < Cardinality(Above(r)) + 1
      OBVIOUS
    <2>1. Above(q) \subseteq Above(r) /\ q \in Above(r) /\ q \notin Above(q)
      BY BeforeOrder
    <2>2. Cardinality(Above(q)) <= Cardinality(Above(r)) /\ Cardinality(Above(q)) # Cardinality(Above(r))
      BY <1>2, <2>1, FS_Subset
    <2>3. Cardinality(Above(q)) \in Nat /\ Cardinality(Above(r)) \in Nat
      BY <1>2
    <2> HIDE DEF Above
    <2> QED
      BY <2>2, <2>3
  <1>4. place \in [rs -> 1 .. n]
    <2>1. \A r \in rs : Cardinality(Above(r)) + 1 \in 1 .. n
      <3> HIDE DEF Above, n
      <3> QED
        BY <1>1, <1>2
    <2> QED
      BY <2>1
  <1>5. \A r \in rs : /\ place[r] = Cardinality(Above(r)) + 1
                       /\ place[r] \in Nat /\ Cardinality(Above(r)) \in Nat
    <2> TAKE r \in rs
    <2>1. Cardinality(Above(r)) \in Nat
      BY <1>2
    <2>2. place[r] = Cardinality(Above(r)) + 1
      OBVIOUS
    <2> HIDE DEF place, Above
    <2> QED
      BY <2>1, <2>2
  <1> HIDE DEF place
  <1>6. \A q, r \in rs : q # r => place[q] # place[r]
    <2> SUFFICES ASSUME NEW q \in rs, NEW r \in rs, q # r PROVE place[q] # place[r]
      OBVIOUS
    <2>1. place[q] < place[r] \/ place[r] < place[q]
      BY <1>3, BeforeOrder
    <2>2. place[q] \in Nat /\ place[r] \in Nat
      BY <1>5
    <2> QED
      BY <2>1, <2>2
  <1>7. place \in Injection(rs, 1 .. n)
    BY <1>4, <1>6 DEF Injection, IsInjective
  <1>8. place \in Surjection(rs, 1 .. n)
    <2>1. IsFiniteSet(1 .. n) /\ Cardinality(1 .. n) = n
      <3> HIDE DEF n
      <3> QED
        BY <1>1, FS_Interval
    <2> QED
      BY <1>7, <2>1, FS_Injection
  <1>9. ASSUME NEW i \in 1 .. n
        PROVE  pg[i] \in rs /\ place[pg[i]] = i
    <2>1. \E r \in rs : place[r] = i
      BY <1>8 DEF Surjection
    <2>2. \A r \in rs : place[r] = i <=> Cardinality(Above(r)) = i - 1
      <3>1. i \in Nat
        BY <1>1
      <3> HIDE DEF Above
      <3> QED
        BY <1>5, <3>1
    <2>3. pg[i] = CHOOSE r \in rs : above[r] = i - 1
      BY DEF InterleaveByBoard
    <2>4. \A r \in rs : above[r] = Cardinality(Above(r))
      OBVIOUS
    <2> HIDE DEF above, Above, pg
    <2>5. \E r \in rs : above[r] = i - 1
      BY <2>1, <2>2, <2>4
    <2>6. pg[i] \in rs /\ above[pg[i]] = i - 1
      BY <2>3, <2>5
    <2>7. Cardinality(Above(pg[i])) = i - 1
      BY <2>4, <2>6
    <2> QED
      BY <2>2, <2>6, <2>7
  <1>10. pg \in [1 .. n -> rs] /\ Len(pg) = n
    <2>1. pg = [i \in 1 .. n |-> CHOOSE r \in rs : above[r] = i - 1]
      BY DEF InterleaveByBoard
    <2>2. pg \in [1 .. n -> rs]
      <3> HIDE DEF pg, above, n
      <3>1. \A i \in 1 .. n : (CHOOSE r \in rs : above[r] = i - 1) = pg[i]
        BY <2>1
      <3> QED
        BY <1>9, <2>1, <3>1
    <2> HIDE DEF pg, n
    <2> QED
      BY <1>1, <2>2
  <1>11. \A r \in rs : \E i \in 1 .. n : pg[i] = r
    BY <1>4, <1>6, <1>9
  <1>12. \A i, j \in 1 .. n : i < j => Before(rs, pg[i], pg[j])
    <2> SUFFICES ASSUME NEW i \in 1 .. n, NEW j \in 1 .. n, i < j, ~Before(rs, pg[i], pg[j])
                 PROVE  FALSE
      OBVIOUS
    <2>1. pg[i] \in rs /\ place[pg[i]] = i /\ pg[j] \in rs /\ place[pg[j]] = j /\ i # j
      BY <1>1, <1>9
    <2>2. Before(rs, pg[j], pg[i])
      BY <2>1, BeforeOrder
    <2>3. i \in Nat /\ j \in Nat /\ j < i
      BY <1>1, <1>3, <2>1, <2>2
    <2> QED
      BY <2>3
  <1> QED
    BY <1>1, <1>10, <1>11, <1>12

CountOf(pg, b, n) == Cardinality({i \in 1 .. n : pg[i].board = b})

(* A board with rows to come has had as many as its next row's rank says, and no other
   board has had a row of a higher rank. *)
LEMMA BoardsTakeTurns ==
  ASSUME NEW rs, Sortable(rs), NEW n \in 1 .. Cardinality(rs), NEW b, NEW c,
         CountOf(InterleaveByBoard(rs), c, n) # CountOf(InterleaveByBoard(rs), c, Cardinality(rs))
  PROVE  CountOf(InterleaveByBoard(rs), b, n) <= CountOf(InterleaveByBoard(rs), c, n) + 1
  <1> DEFINE pg == InterleaveByBoard(rs)
             len == Cardinality(rs)
             Of(d, m) == {i \in 1 .. m : pg[i].board = d}
  <1>1. /\ len \in Nat /\ n \in Nat /\ n <= len /\ pg \in [1 .. len -> rs]
        /\ \A r \in rs : \E i \in 1 .. len : pg[i] = r
        /\ \A i, j \in 1 .. len : i < j => Before(rs, pg[i], pg[j])
    BY PageInOrder
  <1>2. \A d : IsFiniteSet(Of(d, n)) /\ Cardinality(Of(d, n)) \in Nat
               /\ CountOf(pg, d, n) = Cardinality(Of(d, n))
    <2> TAKE d
    <2>1. IsFiniteSet(1 .. n)
      <3> HIDE DEF len
      <3> QED
        BY <1>1, FS_Interval
    <2>2. Of(d, n) \subseteq 1 .. n
      OBVIOUS
    <2>3. CountOf(pg, d, n) = Cardinality(Of(d, n))
      BY DEF CountOf
    <2> HIDE DEF Of, pg
    <2> QED
      BY <2>1, <2>2, <2>3, FS_Subset, FS_CardinalityType
  <1> HIDE DEF pg, len
  <1>3. \E k \in 1 .. len : k > n /\ pg[k].board = c
    <2> SUFFICES ASSUME \A k \in 1 .. len : k > n => pg[k].board # c PROVE FALSE
      OBVIOUS
    <2>1. Of(c, len) = Of(c, n)
      BY <1>1
    <2> QED
      BY <2>1 DEF CountOf, pg, len
  <1>4. PICK k \in 1 .. len : /\ k > n /\ pg[k].board = c
                              /\ \A j \in 1 .. len : j > n /\ pg[j].board = c => k <= j
    <2> DEFINE T == {j \in 1 .. len : j > n /\ pg[j].board = c}
    <2>1. T \subseteq Nat /\ T # {}
      BY <1>1, <1>3
    <2>2. PICK m \in T : \A j \in T : m <= j
      BY <2>1, Least
    <2> QED
      BY <2>2
  <1> DEFINE r == pg[k]
             rank == Rank(rs, r)
  <1>5. r \in rs /\ r.board = c /\ rank \in Nat
    BY <1>1, <1>4, RankFacts
  <1>6. rank <= Cardinality(Of(c, n))
    <2> DEFINE newer == {q \in rs : q.board = r.board /\ Newer(q, r)}
               at == [q \in newer |-> CHOOSE i \in 1 .. len : pg[i] = q]
    <2>1. ASSUME NEW q \in newer
          PROVE  at[q] \in Of(c, n) /\ pg[at[q]] = q
      <3>1. at[q] \in 1 .. len /\ pg[at[q]] = q
        BY <1>1
      <3>2. Rank(rs, q) < rank /\ q \in rs /\ q.board = c /\ Rank(rs, q) \in Nat
        BY <1>5, RankFacts
      <3>3. ~Before(rs, r, q) /\ q # r
        BY <1>5, <3>2 DEF Before
      <3>4. at[q] < k
        <4>1. at[q] = k \/ at[q] < k \/ k < at[q]
          BY <1>1, <3>1
        <4>2. at[q] # k
          BY <3>1, <3>3
        <4>3. ~(k < at[q])
          BY <1>1, <3>1, <3>3
        <4> QED
          BY <4>1, <4>2, <4>3
      <3>5. ~(at[q] > n)
        BY <1>1, <1>4, <3>1, <3>2, <3>4
      <3> QED
        BY <1>1, <3>1, <3>2, <3>5
    <2>2. at \in Injection(newer, Of(c, n))
      BY <2>1 DEF Injection, IsInjective
    <2>3. Cardinality(newer) <= Cardinality(Of(c, n))
      <3> HIDE DEF newer, at, Of
      <3> QED
        BY <1>2, <2>2, FS_Injection
    <2> QED
      BY <2>3 DEF Rank
  <1>7. Cardinality(Of(b, n)) <= rank + 1
    <2> DEFINE ranks == [i \in Of(b, n) |-> Rank(rs, pg[i])]
    <2>1. ASSUME NEW i \in Of(b, n)
          PROVE  pg[i] \in rs /\ pg[i].board = b /\ Rank(rs, pg[i]) \in 0 .. rank /\ i \in 1 .. len
      <3>1. i \in 1 .. len /\ i < k
        BY <1>1, <1>4
      <3>2. pg[i] \in rs /\ Before(rs, pg[i], r)
        BY <1>1, <1>4, <3>1
      <3>3. Rank(rs, pg[i]) \in Nat
        BY <3>2, RankFacts
      <3>4. Rank(rs, pg[i]) <= rank
        BY <1>5, <3>2, <3>3 DEF Before
      <3> QED
        BY <1>5, <3>1, <3>2, <3>3, <3>4
    <2>2. \A i, j \in Of(b, n) : Rank(rs, pg[i]) = Rank(rs, pg[j]) => i = j
      <3> SUFFICES ASSUME NEW i \in Of(b, n), NEW j \in Of(b, n), Rank(rs, pg[i]) = Rank(rs, pg[j]), i # j
                   PROVE  FALSE
        OBVIOUS
      <3>1. pg[i] = pg[j] /\ pg[i] \in rs /\ i \in 1 .. len /\ j \in 1 .. len
        BY <2>1, RankFacts
      <3>2. Before(rs, pg[i], pg[j]) \/ Before(rs, pg[j], pg[i])
        <4>1. i < j \/ j < i
          BY <1>1, <3>1
        <4> QED
          BY <1>1, <3>1, <4>1
      <3> QED
        BY <3>1, <3>2, BeforeOrder
    <2>3. ranks \in Injection(Of(b, n), 0 .. rank)
      BY <2>1, <2>2 DEF Injection, IsInjective
    <2>4. IsFiniteSet(0 .. rank) /\ Cardinality(0 .. rank) = rank + 1
      <3> HIDE DEF rank
      <3>1. 0 \in Int /\ rank \in Int /\ ~(0 > rank) /\ rank - 0 + 1 = rank + 1
        BY <1>5
      <3> QED
        BY <3>1, FS_Interval
    <2> HIDE DEF ranks, Of, rank
    <2> QED
      BY <2>3, <2>4, FS_Injection
  <1> HIDE DEF Of, rank
  <1> QED
    BY <1>2, <1>5, <1>6, <1>7 DEF pg

Fair(pg) ==
    /\ \A n \in 1 .. Len(pg), b, c \in Board :
           CountOf(pg, b, n) > CountOf(pg, c, n) + 1 => CountOf(pg, c, n) = CountOf(pg, c, Len(pg))
    /\ \A i, j \in DOMAIN pg :
           i < j /\ pg[i].board = pg[j].board => Newer(pg[i], pg[j])

LEMMA PageIsFair ==
  ASSUME NEW rs, Sortable(rs)
  PROVE  Fair(InterleaveByBoard(rs))
  <1> DEFINE pg == InterleaveByBoard(rs)
             len == Cardinality(rs)
  <1>1. /\ len \in Nat /\ pg \in [1 .. len -> rs] /\ Len(pg) = len
        /\ \A i, j \in 1 .. len : i < j => Before(rs, pg[i], pg[j])
    BY PageInOrder
  <1>2. ASSUME NEW n \in 1 .. len, NEW b, NEW c, CountOf(pg, b, n) > CountOf(pg, c, n) + 1,
               CountOf(pg, c, n) # CountOf(pg, c, len)
        PROVE  FALSE
    <2>1. \A d : CountOf(pg, d, n) \in Nat
      <3> TAKE d
      <3>1. IsFiniteSet(1 .. n)
        BY <1>1, FS_Interval
      <3>2. {i \in 1 .. n : pg[i].board = d} \subseteq 1 .. n
        OBVIOUS
      <3> QED
        BY <3>1, <3>2, FS_Subset, FS_CardinalityType DEF CountOf
    <2>2. CountOf(pg, b, n) <= CountOf(pg, c, n) + 1
      BY <1>2, BoardsTakeTurns
    <2> HIDE DEF pg
    <2> QED
      BY <1>2, <2>1, <2>2
  <1>3. ASSUME NEW i \in 1 .. len, NEW j \in 1 .. len, i < j, pg[i].board = pg[j].board
        PROVE  Newer(pg[i], pg[j])
    <2>1. pg[i] \in rs /\ pg[j] \in rs /\ Before(rs, pg[i], pg[j])
      BY <1>1, <1>3
    <2>2. pg[i] # pg[j]
      BY <2>1, BeforeOrder
    <2>3. ~Newer(pg[j], pg[i])
      <3>1. Rank(rs, pg[i]) \in Nat /\ Rank(rs, pg[j]) \in Nat
        BY <2>1, RankFacts
      <3>2. Newer(pg[j], pg[i]) => Rank(rs, pg[j]) < Rank(rs, pg[i])
        BY <1>3, <2>1, RankFacts
      <3>3. Newer(pg[j], pg[i]) => ~Newer(pg[i], pg[j])
        BY <2>1, NewerOrder
      <3> QED
        BY <2>1, <3>1, <3>2, <3>3 DEF Before
    <2> QED
      BY <2>1, <2>2, <2>3, NewerOrder
  <1>4. DOMAIN pg = 1 .. len
    BY <1>1
  <1> HIDE DEF pg, len
  <1> QED
    BY <1>1, <1>2, <1>3, <1>4 DEF Fair, pg

-----------------------------------------------------------------------------
(* The invariant.                                                          *)

Shown == InFeed(rows, sourced, sfw)
Posts == {r \in rows : ~r.error}

(* A post has one row without an error, and a row with an error has its kind. *)
Rows ==
    /\ rows \subseteq Row /\ IsFiniteSet(rows) /\ clock \in Nat
    /\ \A q, r \in rows : ~q.error /\ ~r.error /\ q.uri = r.uri => q = r
    /\ sourced \subseteq {r.uri : r \in rows}
    /\ sfw \in BOOLEAN /\ walking \in BOOLEAN /\ cursor \in (Nat \X Nat) \cup {None}

(* What a walk has seen is not after its cursor, whether or not it is in the feed now: it
   may come back; what it owes is in the feed after its cursor. *)
Walk ==
    /\ again = {}
    /\ seen \subseteq {r.uri : r \in rows}
    /\ owed \subseteq {r.uri : r \in rows}
    /\ walking =>
         /\ \A r \in Following(Posts, cursor) : r.uri \notin seen
         /\ \A u \in owed : \E r \in Following(Shown, cursor) : r.uri = u
    /\ ~walking => owed = {}

IInv == Rows /\ Walk

LEMMA InitIInv == Init => IInv
  <1> SUFFICES ASSUME Init PROVE Rows /\ Walk
    BY DEF IInv
  <1>1. Rows
    BY FS_EmptySet DEF Init, Rows
  <1>2. Walk
    BY DEF Init, Walk
  <1> QED
    BY <1>1, <1>2

(* The bot's steps disturb no walk when they add only posts that it has not seen. *)
LEMMA WalkKeeps ==
  ASSUME Walk, UNCHANGED reader, rows \subseteq rows', Shown \subseteq Shown',
         \A r \in Posts' \ Posts : r.uri \notin seen
  PROVE  Walk'
  <1>1. UNCHANGED <<walking, cursor, seen, again, owed>>
    BY DEF reader
  <1>2. again' = {} /\ seen' \subseteq {r.uri : r \in rows'} /\ owed' \subseteq {r.uri : r \in rows'}
    BY <1>1 DEF Walk
  <1>3. ASSUME walking', NEW r \in Following(Posts', cursor')
        PROVE  r.uri \notin seen'
    <2>1. r \in Posts => r \in Following(Posts, cursor)
      BY <1>1, <1>3 DEF Following
    <2>2. r \in Posts'
      BY <1>3 DEF Following
    <2> QED
      BY <1>1, <1>3, <2>1, <2>2 DEF Walk
  <1>4. Following(Shown, cursor) \subseteq Following(Shown', cursor')
    BY <1>1 DEF Following
  <1>5. walking' => \A u \in owed' : \E r \in Following(Shown', cursor') : r.uri = u
    BY <1>1, <1>4 DEF Walk
  <1>6. ~walking' => owed' = {}
    BY <1>1 DEF Walk
  <1> QED
    BY <1>2, <1>3, <1>5, <1>6 DEF Walk

(* Rows that are added after a walk began are new to it. *)
LEMMA RecordKeeps == ASSUME IInv, Record PROVE IInv'
  <1>1. PICK r \in [at : Now, uri : 1 .. MaxRows, board : Board, repost : BOOLEAN, error : {FALSE}] :
             /\ \A q \in rows : q.uri # r.uri
             /\ rows' = rows \cup {r} /\ clock' = r.at
             /\ sourced' \in {sourced, IF r.repost THEN sourced \cup {r.uri} ELSE sourced}
    BY DEF Record
  <1> USE DEF IInv
  <1>2. Rows'
    <2>1. r \in Row /\ r.at \in Nat /\ ~r.error
      <3>1. Now \subseteq Nat /\ 1 .. MaxRows \subseteq Nat
        BY FeedReaderAssumption DEF Now, Rows
      <3> QED
        BY <3>1 DEF Row
    <2>2. IsFiniteSet(rows')
      BY <1>1, FS_AddElement DEF Rows
    <2> QED
      BY <1>1, <2>1, <2>2 DEF Rows, Record, reader
  <1>3. Shown \subseteq Shown' /\ Posts' \subseteq Posts \cup {r} /\ rows \subseteq rows'
    BY <1>1, <1>2 DEF Shown, InFeed, Posts, Record, reader, Rows
  <1>4. UNCHANGED reader /\ r.uri \notin seen
    BY <1>1 DEF Record, Walk
  <1>5. Walk'
    BY <1>3, <1>4, WalkKeeps DEF Walk
  <1> QED
    BY <1>2, <1>5

(* A row with an error is in no feed. *)
LEMMA RecordDuplicateKeeps == ASSUME IInv, RecordDuplicate PROVE IInv'
  <1> USE DEF IInv
  <1>1. PICK q \in rows, now \in Now, b \in Board :
             /\ rows' = rows \cup {[q EXCEPT !.at = now, !.board = b, !.error = TRUE]}
             /\ clock' = now
    BY DEF RecordDuplicate
  <1> DEFINE r == [q EXCEPT !.at = now, !.board = b, !.error = TRUE]
  <1>2. r \in Row /\ r.error /\ now \in Nat /\ r.uri = q.uri
    <2>1. now \in Nat /\ q \in Row
      BY FeedReaderAssumption DEF Rows, Now
    <2> QED
      BY <2>1 DEF Row
  <1>3. UNCHANGED <<sourced, reader>>
    BY DEF RecordDuplicate
  <1>4. Rows'
    <2>1. IsFiniteSet(rows')
      BY <1>1, FS_AddElement DEF Rows
    <2>2. \A p \in rows' : p.error \/ p \in rows
      BY <1>1, <1>2
    <2> HIDE DEF r
    <2> QED
      BY <1>1, <1>2, <1>3, <2>1, <2>2 DEF Rows, reader, r
  <1>5. Shown' = Shown /\ Posts' = Posts /\ rows \subseteq rows'
    BY <1>1, <1>2, <1>3 DEF Shown, InFeed, Posts, reader
  <1>6. Walk'
    BY <1>3, <1>5, WalkKeeps
  <1> QED
    BY <1>4, <1>6

LEMMA BackfillKeeps == ASSUME IInv, Backfill PROVE IInv'
  <1> USE DEF IInv
  <1>1. PICK r \in rows : r.repost /\ r.uri \notin sourced /\ sourced' = sourced \cup {r.uri}
    BY DEF Backfill
  <1>2. UNCHANGED <<rows, clock, reader>>
    BY DEF Backfill
  <1>3. Rows'
    BY <1>1, <1>2 DEF Rows, reader
  <1>4. Shown \subseteq Shown' /\ Posts' = Posts
    BY <1>1, <1>2 DEF Shown, InFeed, Posts, reader
  <1>5. Walk'
    BY <1>2, <1>4, WalkKeeps
  <1> QED
    BY <1>3, <1>5

(* A repost that leaves the feed is owed no more, and may come back when it was seen. *)
LEMMA ReresolveKeeps == ASSUME IInv, Reresolve PROVE IInv'
  <1> USE DEF IInv
  <1>1. PICK r \in rows :
             /\ r.repost /\ ~r.error
             /\ \/ sourced' = sourced \cup {r.uri} /\ UNCHANGED owed
                \/ sourced' = sourced \ {r.uri} /\ owed' = owed \ {r.uri}
    BY DEF Reresolve
  <1>2. UNCHANGED <<rows, clock, sfw, walking, cursor, page, seen, again>>
    BY DEF Reresolve
  <1>3. Rows'
    BY <1>1, <1>2 DEF Rows
  <1>4. Posts' = Posts
    BY <1>2 DEF Posts
  <1>5. CASE sourced' = sourced \cup {r.uri} /\ UNCHANGED owed
    <2>1. Shown \subseteq Shown' /\ UNCHANGED reader
      BY <1>2, <1>5 DEF Shown, InFeed, reader
    <2> QED
      BY <1>2, <1>3, <1>4, <2>1, WalkKeeps
  <1>6. CASE sourced' = sourced \ {r.uri} /\ owed' = owed \ {r.uri}
    <2>1. \A p \in Shown : p.uri # r.uri => p \in Shown'
      BY <1>2, <1>6 DEF Shown, InFeed
    <2>2. \A p \in Following(Shown, cursor) : p.uri # r.uri => p \in Following(Shown', cursor')
      BY <1>2, <2>1 DEF Following
    <2>3. again' = {} /\ seen' \subseteq {p.uri : p \in rows'} /\ owed' \subseteq {p.uri : p \in rows'}
      BY <1>2, <1>6 DEF Walk
    <2>4. walking' => \A p \in Following(Posts', cursor') : p.uri \notin seen'
      BY <1>2, <1>4 DEF Walk
    <2>5. walking' => \A u \in owed' : \E p \in Following(Shown', cursor') : p.uri = u
      BY <1>2, <1>6, <2>2 DEF Walk
    <2>6. ~walking' => owed' = {}
      BY <1>2, <1>6 DEF Walk
    <2> QED
      BY <1>3, <2>3, <2>4, <2>5, <2>6 DEF Walk
  <1> QED
    BY <1>1, <1>5, <1>6

LEMMA OpenKeeps == ASSUME IInv, Open PROVE IInv'
  <1> USE DEF IInv
  <1>1. Rows'
    BY DEF Open, Rows, bot
  <1>2. /\ Following(Shown', cursor') = Shown' /\ owed' = {r.uri : r \in Shown'}
        /\ Shown' \subseteq rows'
    BY DEF Open, Following, Shown, InFeed, bot
  <1>3. walking' /\ seen' = {} /\ again' = {}
    BY DEF Open
  <1>4. Walk'
    BY <1>2, <1>3 DEF Walk
  <1> QED
    BY <1>1, <1>4

(* A page: rows that were not seen, down to its floor, or all that are left. *)
LEMMA ReadKeeps == ASSUME IInv, Read PROVE IInv'
  <1> USE DEF IInv
  <1> DEFINE rest == Following(Shown, cursor)
  <1>1. PICK limit \in 1 .. MaxLimit :
             LET got  == Newest(rest, limit)
                 uris == {r.uri : r \in got}
             IN  /\ IF got # rest
                    THEN cursor' = Floor(got) /\ seen' = seen \cup uris /\ UNCHANGED walking
                    ELSE cursor' = None /\ seen' = {} /\ walking' = FALSE
                 /\ again' = again \cup (seen \cap uris) /\ owed' = owed \ uris
    BY DEF Read, Shown
  <1> DEFINE got == Newest(rest, limit)
             uris == {r.uri : r \in got}
  <1>2. walking /\ UNCHANGED <<bot, sfw>>
    BY DEF Read
  <1>3. rest \subseteq Row /\ IsFiniteSet(rest) /\ limit \in Nat \ {0}
    <2>1. rest \subseteq rows /\ limit \in Nat \ {0}
      BY FeedReaderAssumption DEF Following, Shown, InFeed
    <2> QED
      BY <2>1, FS_Subset DEF Rows
  <1>4. \A q, r \in Shown : q.uri = r.uri => q = r
    BY DEF Shown, InFeed, Rows
  <1>5. got \subseteq rest /\ rest \subseteq Shown
    BY DEF Newest, Following
  <1>6. seen \cap uris = {}
    <2>1. got \subseteq Following(Posts, cursor)
      BY <1>5 DEF Following, Shown, Posts, InFeed
    <2> QED
      BY <1>2, <2>1 DEF Walk
  <1>7. Shown' = Shown /\ Posts' = Posts /\ rows' = rows
    BY <1>2 DEF Shown, Posts, bot
  <1>8. again' = {} /\ seen' \subseteq {r.uri : r \in rows'} /\ owed' \subseteq {r.uri : r \in rows'}
    <2>1. got \subseteq rows
      BY <1>5 DEF Shown, InFeed
    <2> HIDE DEF got
    <2> QED
      BY <1>1, <1>2, <1>6, <1>7, <2>1 DEF Walk, got
  <1>9. CASE got = rest
    <2>1. cursor' = None /\ walking' = FALSE /\ seen' = {} /\ owed' = owed \ {r.uri : r \in rest}
      BY <1>1, <1>9
    <2>2. owed' = {}
      BY <1>2, <2>1 DEF Walk
    <2>3. Rows'
      BY <1>2, <2>1 DEF Rows, bot
    <2> QED
      BY <1>8, <2>1, <2>2, <2>3 DEF Walk
  <1>10. CASE got # rest
    <2>1. got # {} /\ \A c \in got, d \in rest \ got : Newer(c, d)
      BY <1>3, <1>5, <1>10, PageOfNewest
    <2>2. PICK f \in got : Floor(got) = Key(f) /\ \A q \in got : q = f \/ Newer(q, f)
      BY <1>3, <1>4, <1>5, <2>1, FloorIsOldest
    <2>3. cursor' = Key(f) /\ walking' /\ seen' = seen \cup uris /\ owed' = owed \ uris
      BY <1>1, <1>2, <1>10, <2>2
    <2>4. Key(f) \in Nat \X Nat /\ cursor' # None
      BY <1>3, <1>5, <2>3, FeedReaderAssumption DEF Key, Row
    <2>5. Following(Shown', cursor') = {r \in Shown : Older(Key(r), Key(f))}
      BY <1>7, <2>3, <2>4 DEF Following
    <2>6. ASSUME NEW r \in Following(Posts', cursor')
          PROVE  r \in Following(Posts, cursor) /\ Older(Key(r), Key(f))
      <3>1. r \in Posts /\ Older(Key(r), Key(f))
        BY <1>7, <2>3, <2>4, <2>6 DEF Following
      <3>2. cursor # None => Older(Key(f), cursor)
        BY <1>5 DEF Following
      <3>3. cursor # None => cursor \in Nat \X Nat
        BY DEF Rows
      <3>4. Key(r) \in Nat \X Nat
        BY <3>1 DEF Posts, Rows, Row, Key
      <3>5. cursor # None => Older(Key(r), cursor)
        BY <2>4, <3>1, <3>2, <3>3, <3>4 DEF Older
      <3> QED
        BY <3>1, <3>5 DEF Following
    <2>7. \A r \in Following(Posts', cursor') : r \notin got
      <3> SUFFICES ASSUME NEW r \in got, Older(Key(r), Key(f)) PROVE FALSE
        BY <2>6
      <3>1. r \in Row /\ f \in Row
        BY <1>3, <1>5
      <3> QED
        BY <2>2, <3>1 DEF Newer, Older, Key, Row
    <2>8. ASSUME NEW r \in Following(Posts', cursor')
          PROVE  r.uri \notin seen'
      <3>1. r \in Posts /\ r.uri \notin seen /\ r \notin got
        BY <1>2, <2>6, <2>7 DEF Walk, Following
      <3>2. got \subseteq Posts
        BY <1>5 DEF Shown, InFeed, Posts
      <3>3. \A q \in Posts : q.uri = r.uri => q = r
        BY <3>1 DEF Posts, Rows
      <3> QED
        BY <2>3, <3>1, <3>2, <3>3
    <2>9. \A u \in owed' : \E r \in Following(Shown', cursor') : r.uri = u
      <3> SUFFICES ASSUME NEW u \in owed, u \notin uris
                   PROVE  \E r \in Following(Shown', cursor') : r.uri = u
        BY <2>3
      <3>1. PICK r \in rest : r.uri = u
        BY <1>2 DEF Walk
      <3>2. r \notin got
        BY <3>1
      <3>3. Older(Key(r), Key(f))
        BY <2>1, <3>2 DEF Newer
      <3> QED
        BY <1>5, <2>5, <3>1, <3>3
    <2>10. Rows'
      BY <1>2, <2>3, <2>4 DEF Rows, bot
    <2> QED
      BY <1>8, <2>3, <2>8, <2>9, <2>10 DEF Walk
  <1> QED
    BY <1>9, <1>10

LEMMA NextIInv == IInv /\ [Next]_vars => IInv'
  <1> SUFFICES ASSUME IInv, [Next]_vars PROVE IInv'
    OBVIOUS
  <1>1. CASE UNCHANGED vars
    BY <1>1 DEF IInv, Rows, Walk, Shown, Posts, Following, vars, bot, reader
  <1> QED
    BY <1>1, RecordKeeps, RecordDuplicateKeeps, BackfillKeeps, ReresolveKeeps, OpenKeeps, ReadKeeps DEF Next

(* The types of the variables, and that no two rows of a feed are of one post. *)
THEOREM SpecTypeOK == Spec => []TypeOK
  <1>1. IInv => TypeOK
    BY DEF IInv, Rows, Walk, TypeOK, Shown, InFeed
  <1> QED
    BY InitIInv, NextIInv, <1>1, PTL DEF Spec

(* A walk through the pages of the feed meets no post twice (feedgen/queries.py). *)
THEOREM SpecNoneTwice == Spec => []NoneTwice
  <1>1. IInv => NoneTwice
    BY DEF IInv, Walk, NoneTwice
  <1> QED
    BY InitIInv, NextIInv, <1>1, PTL DEF Spec

(* A walk that has ended has met every post that was in the feed from its beginning on. *)
THEOREM SpecNoneSkipped == Spec => []NoneSkipped
  <1>1. IInv => NoneSkipped
    BY DEF IInv, Walk, NoneSkipped
  <1> QED
    BY InitIInv, NextIInv, <1>1, PTL DEF Spec

LEMMA FairPageIsFair == FairPage <=> Fair(page)
  BY DEF FairPage, Fair, Count, CountOf

LEMMA PageStaysFair == IInv /\ FairPage /\ [Next]_vars => FairPage'
  <1> SUFFICES ASSUME IInv, FairPage, [Next]_vars PROVE Fair(page')
    BY FairPageIsFair DEF FairPage, Fair, Count, CountOf
  <1>1. CASE UNCHANGED page
    BY <1>1, FairPageIsFair
  <1>2. CASE Open
    BY <1>2 DEF Open, Fair
  <1>3. CASE Read
    <2>1. PICK limit \in 1 .. MaxLimit :
              page' = InterleaveByBoard(Newest(Following(InFeed(rows, sourced, sfw), cursor), limit))
      BY <1>3 DEF Read
    <2> DEFINE got == Newest(Following(InFeed(rows, sourced, sfw), cursor), limit)
    <2>2. got \subseteq rows /\ \A r \in got : ~r.error
      BY DEF Newest, Following, InFeed
    <2> HIDE DEF got
    <2>3. IsFiniteSet(got)
      BY <2>2, FS_Subset DEF IInv, Rows
    <2>4. Sortable(got)
      BY <2>2, <2>3 DEF IInv, Rows, Sortable
    <2> QED
      BY <2>1, <2>4, PageIsFair DEF got
  <1> QED
    BY <1>1, <1>2, <1>3 DEF Next, Record, RecordDuplicate, Backfill, Reresolve, vars, reader

(* At no place of a page one board is two posts ahead of another that still has some on it,
   and each board's posts come newest first, however many boards and rows there are
   (interleave_by_board). *)
THEOREM SpecFairPage == Spec => []FairPage
  <1>1. Init => FairPage
    BY DEF Init, FairPage
  <1> QED
    BY InitIInv, NextIInv, PageStaysFair, <1>1, PTL DEF Spec
=============================================================================
