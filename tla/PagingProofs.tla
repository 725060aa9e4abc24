----------------------------- MODULE PagingProofs -----------------------------
(***************************************************************************)
(* Proofs about Paging, for any number of rows, any page size and any      *)
(* number of changes: types, that a row which stays in the table is missed *)
(* only on account of a deletion, and that a row is returned again only on *)
(* account of an insertion.                                                *)
(*                                                                         *)
(* The lemmas count rows by their places: a stretch of n places holds n     *)
(* rows if the table reaches beyond it, and never more; an insertion moves  *)
(* rows back, and a deletion of the first k rows moves the others k         *)
(* forward.                                                                 *)
(***************************************************************************)
EXTENDS Paging, FiniteSetTheorems, FunctionTheorems, TLAPS

\* Position in the table S.
Place(S, r) == Cardinality({q \in S : q <= r})

\* The rows of S at the n places after the first a.
Stretch(S, a, n) == {r \in S : Place(S, r) > a /\ Place(S, r) <= a + n}

-----------------------------------------------------------------------------
(* Counting rows.                                                           *)

LEMMA RowsFinite ==
  ASSUME NEW S, S \subseteq Rows
  PROVE  /\ IsFiniteSet(S)
         /\ Cardinality(S) \in Nat
         /\ Cardinality(S) <= NRows
  <1>1. IsFiniteSet(Rows) /\ Cardinality(Rows) = NRows
    BY FS_Interval, PagingAssumption DEF Rows
  <1>2. IsFiniteSet(S) /\ Cardinality(S) <= Cardinality(Rows)
    BY <1>1, FS_Subset
  <1>3. Cardinality(S) \in Nat
    BY <1>2, FS_CardinalityType
  <1> QED
    BY <1>1, <1>2, <1>3

LEMMA SmallerSet ==
  ASSUME NEW S, NEW T, T \subseteq Rows, S \subseteq T
  PROVE  Cardinality(S) <= Cardinality(T)
  BY RowsFinite, FS_Subset

LEMMA UnionBound ==
  ASSUME NEW S, NEW T, S \subseteq Rows, T \subseteq Rows
  PROVE  Cardinality(S \cup T) <= Cardinality(S) + Cardinality(T)
  <1>1. Cardinality(S \cup T) = Cardinality(S) + Cardinality(T) - Cardinality(S \cap T)
    BY RowsFinite, FS_Union
  <1>2. /\ Cardinality(S) \in Nat
        /\ Cardinality(T) \in Nat
        /\ Cardinality(S \cap T) \in Nat
    <2>1. S \cap T \subseteq Rows
      OBVIOUS
    <2> QED
      BY <2>1, RowsFinite
  <1> QED
    BY <1>1, <1>2

LEMMA PlaceType ==
  ASSUME NEW S, S \subseteq Rows, NEW r
  PROVE  Place(S, r) \in Nat /\ Place(S, r) <= NRows
  <1>1. {q \in S : q <= r} \subseteq Rows
    OBVIOUS
  <1> QED
    BY <1>1, RowsFinite DEF Place

\* Rows have different places.
LEMMA PlaceIncreases ==
  ASSUME NEW S, S \subseteq Rows, NEW x \in S, NEW y \in S, x < y
  PROVE  Place(S, x) < Place(S, y)
  <1> DEFINE X == {q \in S : q <= x}
             Y == {q \in S : q <= y}
  <1>1. X \subseteq Rows /\ Y \subseteq Rows
    OBVIOUS
  <1>2. x \in Int /\ y \in Int /\ \A q \in S : q \in Int
    BY PagingAssumption DEF Rows
  <1>3. y \notin X /\ X \cup {y} \subseteq Y
    <2>1. ~(y <= x) /\ y <= y
      BY <1>2
    <2>2. \A q \in S : q <= x => q <= y
      BY <1>2
    <2> QED
      BY <2>1, <2>2
  <1>4. Cardinality(X \cup {y}) = Cardinality(X) + 1
    <2>1. IsFiniteSet(X)
      BY <1>1, RowsFinite
    <2> QED
      BY <2>1, <1>3, FS_AddElement
  <1>5. Cardinality(X \cup {y}) <= Cardinality(Y)
    BY <1>1, <1>3, SmallerSet
  <1>6. Cardinality(X) \in Nat /\ Cardinality(Y) \in Nat
    BY <1>1, RowsFinite
  <1>7. Cardinality(X) < Cardinality(Y)
    BY <1>4, <1>5, <1>6
  <1> QED
    BY <1>7 DEF Place

\* Every row of a table has a place in it.
LEMMA PlacePositive ==
  ASSUME NEW S, S \subseteq Rows, NEW r \in S
  PROVE  Place(S, r) > 0
  <1>1. {q \in S : q <= r} \subseteq Rows
    OBVIOUS
  <1>2. r \in Int
    BY PagingAssumption DEF Rows
  <1>3. r <= r
    BY <1>2
  <1>4. {r} \subseteq {q \in S : q <= r}
    BY <1>3
  <1>5. Cardinality({r}) = 1
    BY FS_Singleton
  <1>6. Cardinality({r}) <= Place(S, r)
    BY <1>1, <1>4, SmallerSet DEF Place
  <1> QED
    BY <1>5, <1>6, PlaceType

LEMMA StretchType ==
  ASSUME NEW S, S \subseteq Rows, NEW a, NEW n
  PROVE  /\ Stretch(S, a, n) \subseteq Rows
         /\ IsFiniteSet(Stretch(S, a, n))
         /\ Cardinality(Stretch(S, a, n)) \in Nat
  <1>1. Stretch(S, a, n) \subseteq Rows
    BY DEF Stretch
  <1> QED
    BY <1>1, RowsFinite

\* n places hold n rows at the most: they would have to share one otherwise.
LEMMA StretchBound ==
  ASSUME NEW S, S \subseteq Rows, NEW a \in Nat, NEW n \in Nat
  PROVE  Cardinality(Stretch(S, a, n)) <= n
  <1> DEFINE W == Stretch(S, a, n)
             T == (a + 1)..(a + n)
             f == [r \in W |-> Place(S, r)]
  <1>1. IsFiniteSet(T) /\ Cardinality(T) = n
    BY FS_Interval
  <1>2. IsFiniteSet(W) /\ Cardinality(W) \in Nat
    BY StretchType
  <1>3. f \in [W -> T]
    <2>1. \A r \in W : Place(S, r) \in T
      BY PlaceType DEF Stretch
    <2> QED
      BY <2>1
  <1>4. \A x, y \in W : f[x] = f[y] => x = y
    <2> SUFFICES ASSUME NEW x \in W, NEW y \in W, f[x] = f[y], x # y
                 PROVE  FALSE
      OBVIOUS
    <2>1. x \in S /\ y \in S
      BY DEF Stretch
    <2>2. x \in Int /\ y \in Int
      BY <2>1, PagingAssumption DEF Rows
    <2>3. x < y \/ y < x
      BY <2>2
    <2>4. Place(S, x) < Place(S, y) \/ Place(S, y) < Place(S, x)
      BY <2>1, <2>3, PlaceIncreases
    <2>5. Place(S, x) \in Nat /\ Place(S, y) \in Nat
      BY PlaceType
    <2>6. Place(S, x) = Place(S, y)
      OBVIOUS
    <2> QED
      BY <2>4, <2>5, <2>6
  <1> HIDE DEF W, T, f
  <1>5. ~(Cardinality(T) < Cardinality(W))
    BY <1>1, <1>2, <1>3, <1>4, FS_PigeonHole
  <1>6. Cardinality(W) <= n
    BY <1>1, <1>2, <1>5
  <1> QED
    BY <1>6 DEF W

\* They hold n rows when some row is at the last of them or beyond.
LEMMA StretchFull ==
  ASSUME NEW S, S \subseteq Rows, NEW a \in Nat, NEW n \in Nat,
         NEW r \in S, Place(S, r) >= a + n
  PROVE  Cardinality(Stretch(S, a, n)) >= n
  <1> DEFINE P == {q \in S : q <= r}
             p == Place(S, r)
             before == Stretch(S, 0, a)
             inside == Stretch(S, a, n)
             behind == Stretch(S, a + n, p - (a + n))
  <1>1. p \in Nat /\ p = Cardinality(P) /\ p - (a + n) \in Nat
    <2>1. p \in Nat
      BY PlaceType
    <2>2. p = Cardinality(P)
      BY DEF Place
    <2>3. p >= a + n
      OBVIOUS
    <2> HIDE DEF p
    <2>4. p - (a + n) \in Nat
      BY <2>1, <2>3
    <2> QED
      BY <2>1, <2>2, <2>4
  <1>2. P \subseteq before \cup inside \cup behind
    <2> SUFFICES ASSUME NEW q \in P
                 PROVE  q \in before \/ q \in inside \/ q \in behind
      OBVIOUS
    <2>1. q \in Int /\ r \in Int
      BY PagingAssumption DEF Rows
    <2>2. Place(S, q) \in Nat
      BY PlaceType
    <2>3. q = r \/ q < r
      BY <2>1
    <2>4. Place(S, q) <= p
      BY <2>3, <2>2, <1>1, PlaceIncreases
    <2>5. Place(S, q) > 0
      BY PlacePositive
    <2> QED
      BY <2>2, <2>4, <2>5, <1>1 DEF Stretch
  <1>3. /\ before \subseteq Rows /\ inside \subseteq Rows /\ behind \subseteq Rows
        /\ Cardinality(before) \in Nat
        /\ Cardinality(inside) \in Nat
        /\ Cardinality(behind) \in Nat
    BY StretchType
  <1>4. Cardinality(before) <= a
    BY StretchBound
  <1>5. Cardinality(behind) <= p - (a + n)
    BY <1>1, StretchBound
  <1> HIDE DEF P, p, before, inside, behind
  <1>6. Cardinality(P) <= Cardinality(before \cup inside \cup behind)
    BY <1>2, <1>3, SmallerSet
  <1>7. /\ Cardinality(before \cup inside \cup behind)
              <= Cardinality(before \cup inside) + Cardinality(behind)
        /\ Cardinality(before \cup inside) <= Cardinality(before) + Cardinality(inside)
    BY <1>3, UnionBound
  <1>8. /\ Cardinality(before \cup inside) \in Nat
        /\ Cardinality(before \cup inside \cup behind) \in Nat
    BY <1>3, RowsFinite
  <1>9. Cardinality(inside) >= n
    BY <1>1, <1>3, <1>4, <1>5, <1>6, <1>7, <1>8
  <1> QED
    BY <1>9 DEF inside

\* An insertion never moves a row forward.
LEMMA PlaceAfterInsertion ==
  ASSUME NEW S, NEW T, T \subseteq Rows, S \subseteq T, NEW r
  PROVE  Place(S, r) <= Place(T, r)
  <1>1. {q \in S : q <= r} \subseteq {q \in T : q <= r}
    OBVIOUS
  <1>2. {q \in T : q <= r} \subseteq Rows
    OBVIOUS
  <1> QED
    BY <1>1, <1>2, SmallerSet DEF Place

\* The deletion of the first rows moves the others forward by their number.
LEMMA PlaceAfterDeletion ==
  ASSUME NEW S, S \subseteq Rows, NEW cutoff \in Rows, NEW r \in S, r > cutoff
  PROVE  LET old == {q \in S : q <= cutoff}
         IN  Place(S, r) = Place(S \ old, r) + Cardinality(old)
  <1> DEFINE old == {q \in S : q <= cutoff}
             rest == {q \in S \ old : q <= r}
             all == {q \in S : q <= r}
  <1>1. r \in Int /\ cutoff \in Int /\ \A q \in S : q \in Int
    BY PagingAssumption DEF Rows
  <1>2. all = rest \cup old /\ rest \cap old = {}
    <2>1. \A q \in S : q <= cutoff => q <= r
      BY <1>1
    <2> QED
      BY <2>1
  <1>3. old \subseteq Rows /\ rest \subseteq Rows
    OBVIOUS
  <1>4. /\ IsFiniteSet(old) /\ IsFiniteSet(rest)
        /\ Cardinality(old) \in Nat /\ Cardinality(rest) \in Nat
    BY <1>3, RowsFinite
  <1>5. Cardinality(rest \cup old)
            = Cardinality(rest) + Cardinality(old) - Cardinality(rest \cap old)
    BY <1>4, FS_Union
  <1>6. Cardinality(rest \cap old) = 0
    BY <1>2, FS_EmptySet
  <1>7. Cardinality(all) = Cardinality(rest) + Cardinality(old)
    <2> HIDE DEF old, rest, all
    <2> QED
      BY <1>2, <1>4, <1>5, <1>6
  <1> QED
    BY <1>7 DEF Place

-----------------------------------------------------------------------------
(* The invariant.                                                           *)

IndInv == TypeOK /\ MissedByDeletionsOnly

LEMMA InitInv == Init => IndInv
  <1> SUFFICES ASSUME Init PROVE IndInv
    OBVIOUS
  <1> USE PagingAssumption DEF Init
  <1>1. TypeOK
    BY DEF TypeOK
  <1>2. Missed = {}
    <2> SUFFICES ASSUME NEW r \in steady, Position(r) <= offset
                 PROVE  FALSE
      BY DEF Missed
    <2>1. {r} \subseteq {q \in stored : q <= r}
      BY DEF Rows
    <2>2. {q \in stored : q <= r} \subseteq Rows
      OBVIOUS
    <2>3. Cardinality({r}) <= Position(r)
      BY <2>1, <2>2, SmallerSet DEF Position
    <2>4. Cardinality({r}) = 1
      BY FS_Singleton
    <2>5. Position(r) \in Nat
      BY <2>2, RowsFinite DEF Position
    <2> QED
      BY <2>3, <2>4, <2>5
  <1>3. MissedByDeletionsOnly
    BY <1>2, FS_EmptySet DEF MissedByDeletionsOnly
  <1> QED
    BY <1>1, <1>3 DEF IndInv

\* A page that has more behind it does not reach the end of the rows.
LEMMA MoreMeansRoom ==
  ASSUME TypeOK, HasMore
  PROVE  offset + limit \in 0..NRows
  <1> USE PagingAssumption DEF TypeOK
  <1> DEFINE wide == Stretch(stored, offset, limit + 1)
             page == Stretch(stored, offset, limit)
  <1>1. wide = EventsInWindow(limit + 1)
    BY DEF EventsInWindow, Stretch, Place, Position
  <1>2. Cardinality(wide) > limit
    BY <1>1 DEF HasMore
  <1>3. PICK r \in wide : r \notin page
    <2> SUFFICES ASSUME wide \subseteq page PROVE FALSE
      OBVIOUS
    <2>1. page \subseteq Rows /\ Cardinality(page) \in Nat /\ Cardinality(wide) \in Nat
      BY StretchType
    <2>2. Cardinality(wide) <= Cardinality(page)
      BY <2>1, SmallerSet
    <2>3. Cardinality(page) <= limit
      BY StretchBound
    <2> HIDE DEF wide, page
    <2> QED
      BY <1>2, <2>1, <2>2, <2>3
  <1>4. Place(stored, r) \in Nat /\ Place(stored, r) <= NRows
    BY PlaceType
  <1>5. r \in stored /\ Place(stored, r) > offset /\ ~(Place(stored, r) <= offset + limit)
    BY <1>3, <1>4 DEF Stretch
  <1> QED
    BY <1>4, <1>5

\* A row passed by a query is returned by it, or was passed before.
LEMMA QueryInv == IndInv /\ Query => IndInv'
  <1> SUFFICES ASSUME IndInv, Query PROVE IndInv'
    OBVIOUS
  <1> USE PagingAssumption DEF Query
  <1>0. TypeOK /\ MissedByDeletionsOnly
    BY DEF IndInv
  <1>1. TypeOK'
    <2>1. offset' \in 0..NRows
      BY <1>0, MoreMeansRoom DEF TypeOK, NextOffset
    <2>2. returned' \in [Rows -> 0..MaxReturned]
      BY <1>0 DEF TypeOK
    <2>3. reading' \in BOOLEAN
      BY DEF HasMore
    <2> QED
      BY <1>0, <2>1, <2>2, <2>3 DEF TypeOK
  <1>2. Missed' \subseteq Missed
    <2> SUFFICES ASSUME NEW r \in Missed' PROVE r \in Missed
      OBVIOUS
    <2>1. /\ r \in steady /\ r \in stored /\ r \in Rows
          /\ returned'[r] = 0
          /\ ~reading' \/ Position(r)' <= offset'
      BY <1>0 DEF Missed, TypeOK
    <2>2. Position(r)' = Position(r) /\ Position(r) = Place(stored, r)
      BY DEF Position, Place
    <2>3. Position(r) \in Nat /\ offset \in Nat /\ limit \in Nat
      BY <2>2, <1>0, PlaceType DEF TypeOK
    <2>4. returned[r] = 0 /\ r \notin Page
      BY <2>1, <1>0 DEF TypeOK
    <2>5. Position(r) <= offset \/ Position(r) > offset + limit
      BY <2>1, <2>3, <2>4 DEF Page, EventsInWindow
    <2>6. ~(Position(r) > offset + limit)
      <3> SUFFICES ASSUME Position(r) > offset + limit PROVE FALSE
        OBVIOUS
      <3>1. HasMore
        <4>1. Place(stored, r) >= offset + (limit + 1)
          BY <2>2, <2>3
        <4>2. Cardinality(Stretch(stored, offset, limit + 1)) >= limit + 1
          BY <4>1, <2>1, <2>3, <1>0, StretchFull DEF TypeOK
        <4>3. Stretch(stored, offset, limit + 1) = EventsInWindow(limit + 1)
          BY DEF EventsInWindow, Stretch, Place, Position
        <4>4. Cardinality(Stretch(stored, offset, limit + 1)) \in Nat
          BY <1>0, StretchType DEF TypeOK
        <4> QED
          BY <4>2, <4>3, <4>4, <2>3 DEF HasMore
      <3>2. offset' = offset + limit /\ reading'
        BY <3>1 DEF NextOffset
      <3> QED
        BY <3>2, <2>1, <2>2, <2>3
    <2> QED
      BY <2>1, <2>4, <2>5, <2>6 DEF Missed
  <1>3. MissedByDeletionsOnly'
    <2>1. Missed \subseteq Rows
      BY <1>0 DEF Missed, TypeOK
    <2>2. Missed' \subseteq Rows
      BY <1>2, <2>1
    <2>3. /\ Cardinality(Missed') <= Cardinality(Missed)
          /\ Cardinality(Missed') \in Nat /\ Cardinality(Missed) \in Nat
      BY <1>2, <2>1, <2>2, SmallerSet, RowsFinite
    <2> QED
      BY <2>3, <1>0 DEF MissedByDeletionsOnly, TypeOK
  <1> QED
    BY <1>1, <1>3 DEF IndInv

\* Rows that move back are not passed.
LEMMA StoreInv == IndInv /\ StoreEvents => IndInv'
  <1> SUFFICES ASSUME IndInv, StoreEvents PROVE IndInv'
    OBVIOUS
  <1> USE PagingAssumption DEF StoreEvents
  <1>0. TypeOK /\ MissedByDeletionsOnly
    BY DEF IndInv
  <1>1. PICK batch \in SUBSET (Rows \ stored) :
            /\ stored' = stored \cup batch
            /\ inserted' = inserted + Cardinality(batch)
    OBVIOUS
  <1>2. TypeOK'
    <2>1. Cardinality(batch) \in Nat
      BY RowsFinite
    <2> QED
      BY <1>0, <1>1, <2>1 DEF TypeOK
  <1>3. Missed' \subseteq Missed
    <2> SUFFICES ASSUME NEW r \in Missed' PROVE r \in Missed
      OBVIOUS
    <2>1. r \in steady /\ returned[r] = 0 /\ reading /\ Position(r)' <= offset
      BY DEF Missed
    <2>2. Position(r) = Place(stored, r) /\ Position(r)' = Place(stored', r)
      BY DEF Position, Place
    <2>3. Place(stored, r) <= Place(stored', r)
      BY <1>0, <1>1, PlaceAfterInsertion DEF TypeOK
    <2>4. Place(stored, r) \in Nat /\ Place(stored', r) \in Nat
      BY <1>0, <1>1, PlaceType DEF TypeOK
    <2>5. Position(r) <= offset
      BY <2>1, <2>2, <2>3, <2>4, <1>0 DEF TypeOK
    <2> QED
      BY <2>1, <2>5 DEF Missed
  <1>4. MissedByDeletionsOnly'
    <2>1. Missed \subseteq Rows
      BY <1>0 DEF Missed, TypeOK
    <2>2. Missed' \subseteq Rows
      BY <1>3, <2>1
    <2>3. /\ Cardinality(Missed') <= Cardinality(Missed)
          /\ Cardinality(Missed') \in Nat /\ Cardinality(Missed) \in Nat
      BY <1>3, <2>1, <2>2, SmallerSet, RowsFinite
    <2> QED
      BY <2>3, <1>0 DEF MissedByDeletionsOnly, TypeOK
  <1> QED
    BY <1>2, <1>4 DEF IndInv

\* The rows that move over the offset were at the places just behind it, one
\* place for each row deleted.
LEMMA RetentionInv == IndInv /\ ApplyRetention => IndInv'
  <1> SUFFICES ASSUME IndInv, ApplyRetention PROVE IndInv'
    OBVIOUS
  <1> USE PagingAssumption DEF ApplyRetention
  <1>0. TypeOK /\ MissedByDeletionsOnly
    BY DEF IndInv
  <1>1. PICK cutoff \in Rows :
            LET old == {r \in stored : r <= cutoff}
            IN  /\ stored' = stored \ old
                /\ steady' = steady \ old
                /\ removed' = removed + Cardinality(old)
    OBVIOUS
  <1> DEFINE old == {r \in stored : r <= cutoff}
             k == Cardinality(old)
             over == Stretch(stored, offset, k)
  <1>2. old \subseteq Rows /\ k \in Nat
    <2>1. old \subseteq Rows
      BY <1>0 DEF TypeOK
    <2> QED
      BY <2>1, RowsFinite
  <1>3. /\ stored' = stored \ old
        /\ steady' = steady \ old
        /\ removed' = removed + k
    BY <1>1
  <1>4. TypeOK'
    <2> HIDE DEF old, k
    <2> QED
      BY <1>0, <1>2, <1>3 DEF TypeOK
  <1>5. Missed' \subseteq Missed \cup over
    <2> SUFFICES ASSUME NEW r \in Missed' PROVE r \in Missed \cup over
      OBVIOUS
    <2>1. /\ r \in steady \ old /\ r \in stored /\ r \in Rows
          /\ returned[r] = 0 /\ reading /\ Position(r)' <= offset
      BY <1>0, <1>3 DEF Missed, TypeOK
    <2>2. /\ Position(r) = Place(stored, r)
          /\ Position(r)' = Place(stored \ old, r)
      BY <1>3 DEF Position, Place
    <2>3. r > cutoff
      BY <2>1 DEF Rows
    <2>4. Place(stored, r) = Place(stored \ old, r) + k
      BY <2>1, <2>3, <1>0, PlaceAfterDeletion DEF TypeOK
    <2>5. Place(stored, r) \in Nat /\ Place(stored \ old, r) \in Nat
      BY <1>0, PlaceType DEF TypeOK
    <2>6. Place(stored, r) <= offset + k
      <3> HIDE DEF old, k
      <3> QED
        BY <2>1, <2>2, <2>4, <2>5, <1>0, <1>2 DEF TypeOK
    <2>7. CASE Place(stored, r) <= offset
      BY <2>7, <2>1, <2>2 DEF Missed
    <2>8. CASE Place(stored, r) > offset
      BY <2>8, <2>6, <2>1 DEF Stretch
    <2> QED
      BY <2>5, <2>7, <2>8, <1>0 DEF TypeOK
  <1>6. MissedByDeletionsOnly'
    <2>1. Missed \subseteq Rows /\ over \subseteq Rows
      BY <1>0, StretchType DEF Missed, TypeOK
    <2>2. Cardinality(over) <= k
      <3> HIDE DEF k
      <3> QED
        BY <1>0, <1>2, StretchBound DEF TypeOK
    <2> HIDE DEF old, k, over
    <2>3. Missed' \subseteq Rows /\ Missed \cup over \subseteq Rows
      BY <1>5, <2>1
    <2>4. Cardinality(Missed') <= Cardinality(Missed \cup over)
      BY <1>5, <2>3, SmallerSet
    <2>5. Cardinality(Missed \cup over) <= Cardinality(Missed) + Cardinality(over)
      BY <2>1, UnionBound
    <2>6. /\ Cardinality(Missed') \in Nat /\ Cardinality(Missed) \in Nat
          /\ Cardinality(over) \in Nat /\ Cardinality(Missed \cup over) \in Nat
      BY <2>1, <2>3, RowsFinite
    <2> QED
      BY <2>2, <2>4, <2>5, <2>6, <1>0, <1>2, <1>3 DEF MissedByDeletionsOnly, TypeOK
  <1> QED
    BY <1>4, <1>6 DEF IndInv

LEMMA StutterInv == IndInv /\ UNCHANGED vars => IndInv'
  BY DEF IndInv, TypeOK, MissedByDeletionsOnly, Missed, Position, vars

-----------------------------------------------------------------------------
(* Repeats.  The rows that may be returned again are those that lie ahead   *)
(* of the offset and were returned before: a page makes repeats of those    *)
(* among its rows, and only an insertion pushes returned rows ahead.        *)

\* The rows the reading has returned and will meet again.
Ahead == {r \in stored : reading /\ returned[r] >= 1 /\ Position(r) > offset}

RepeatInv == Cardinality(Repeats) + Cardinality(Ahead) <= inserted

LEMMA RepeatsFinite ==
  ASSUME NEW S, S \subseteq Rows \X (2..MaxReturned)
  PROVE  IsFiniteSet(S) /\ Cardinality(S) \in Nat
  <1>1. IsFiniteSet(Rows) /\ IsFiniteSet(2..MaxReturned)
    BY FS_Interval, PagingAssumption DEF Rows
  <1>2. IsFiniteSet(Rows \X (2..MaxReturned))
    BY <1>1, FS_Product
  <1> QED
    BY <1>2, FS_Subset, FS_CardinalityType

LEMMA AheadType ==
  ASSUME TypeOK
  PROVE  Ahead \subseteq Rows /\ IsFiniteSet(Ahead) /\ Cardinality(Ahead) \in Nat
  <1>1. Ahead \subseteq Rows
    BY DEF Ahead, TypeOK
  <1> QED
    BY <1>1, RowsFinite

LEMMA InitRepeat == Init => RepeatInv
  <1> SUFFICES ASSUME Init PROVE RepeatInv
    OBVIOUS
  <1>1. Repeats = {}
    <2> SUFFICES ASSUME NEW p \in Repeats PROVE FALSE
      OBVIOUS
    <2>1. p[1] \in Rows /\ p[2] \in 2..MaxReturned /\ p[2] <= returned[p[1]]
      BY DEF Repeats
    <2>2. returned[p[1]] = 0
      BY <2>1 DEF Init
    <2> QED
      BY <2>1, <2>2, PagingAssumption
  <1>2. Ahead = {}
    <2> SUFFICES ASSUME NEW r \in Ahead PROVE FALSE
      OBVIOUS
    <2>1. r \in Rows /\ returned[r] >= 1
      BY DEF Ahead, Init
    <2> QED
      BY <2>1 DEF Init
  <1>3. inserted = 0
    BY DEF Init
  <1> QED
    BY <1>1, <1>2, <1>3, FS_EmptySet DEF RepeatInv

\* The rows of a page that were returned before are no longer ahead.
LEMMA QueryRepeat == TypeOK /\ RepeatInv /\ Query => RepeatInv'
  <1> SUFFICES ASSUME TypeOK, RepeatInv, Query PROVE RepeatInv'
    OBVIOUS
  <1> DEFINE again == {r \in Page : returned[r] >= 1}
             new == {<<r, returned[r] + 1>> : r \in again}
             capped == {p \in new : p[2] <= MaxReturned}
             left == Ahead \ again
  <1>1. /\ Page \subseteq stored /\ stored \subseteq Rows
        /\ \A r \in Page : Position(r) > offset
        /\ \A r \in Page : Position(r) <= offset + limit
        /\ \A r \in stored \ Page : ~(Position(r) > offset /\ Position(r) <= offset + limit)
    BY DEF Page, EventsInWindow, TypeOK
  <1>2. /\ returned \in [Rows -> 0..MaxReturned] /\ MaxReturned \in Nat
        /\ offset \in Nat /\ limit \in Nat
    BY PagingAssumption DEF TypeOK
  <1>3. again \subseteq Ahead
    BY <1>1 DEF Ahead, Query
  <1>4. again \subseteq Rows /\ left \subseteq Rows /\ Ahead = again \cup left
    BY <1>3, AheadType
  <1>5. Cardinality(Ahead) = Cardinality(again) + Cardinality(left)
    <2>1. again \cap left = {}
      OBVIOUS
    <2>2. IsFiniteSet(again) /\ IsFiniteSet(left)
      BY <1>4, RowsFinite
    <2>3. Cardinality(again) \in Nat /\ Cardinality(left) \in Nat
      BY <1>4, RowsFinite
    <2> HIDE DEF again, left
    <2> QED
      BY <1>4, <2>1, <2>2, <2>3, FS_Union, FS_EmptySet
  <1>6. Repeats' \subseteq Repeats \cup capped
    <2> SUFFICES ASSUME NEW p \in Repeats', p \notin Repeats PROVE p \in capped
      OBVIOUS
    <2>1. /\ p \in Rows \X (2..MaxReturned)
          /\ p[2] <= returned'[p[1]] /\ ~(p[2] <= returned[p[1]])
      BY DEF Repeats
    <2>2. p = <<p[1], p[2]>> /\ p[1] \in Rows /\ p[2] \in 2..MaxReturned
      BY <2>1
    <2>3. returned'[p[1]] = IF p[1] \in Page /\ returned[p[1]] < MaxReturned
                            THEN returned[p[1]] + 1 ELSE returned[p[1]]
      BY <2>2 DEF Query
    <2>4. p[1] \in Page /\ returned'[p[1]] = returned[p[1]] + 1
      BY <2>1, <2>3
    <2>5. returned[p[1]] \in Nat
      BY <2>2, <1>2
    <2>6. p[2] = returned[p[1]] + 1 /\ returned[p[1]] >= 1 /\ p[2] <= MaxReturned
      BY <2>1, <2>2, <2>4, <2>5
    <2>7. p[1] \in again
      BY <2>4, <2>6
    <2>8. p = <<p[1], returned[p[1]] + 1>>
      BY <2>2, <2>6
    <2>9. p \in new
      BY <2>7, <2>8
    <2> QED
      BY <2>6, <2>9
  <1>7. Repeats \subseteq Rows \X (2..MaxReturned) /\ capped \subseteq Rows \X (2..MaxReturned)
    <2>1. Repeats \subseteq Rows \X (2..MaxReturned)
      BY DEF Repeats
    <2>2. ASSUME NEW p \in capped PROVE p \in Rows \X (2..MaxReturned)
      <3>1. PICK r \in again : p = <<r, returned[r] + 1>>
        OBVIOUS
      <3>2. r \in Rows /\ returned[r] >= 1 /\ p[2] = returned[r] + 1 /\ p[2] <= MaxReturned
        BY <3>1, <1>4
      <3>3. returned[r] + 1 \in 2..MaxReturned
        BY <3>2, <1>2
      <3> QED
        BY <3>1, <3>2, <3>3
    <2> QED
      BY <2>1, <2>2
  <1>8. Cardinality(capped) <= Cardinality(again)
    <2> DEFINE f == [r \in again |-> <<r, returned[r] + 1>>]
    <2>1. IsFiniteSet(again)
      BY <1>4, RowsFinite
    <2>2. /\ IsFiniteSet(new)
          /\ Cardinality(new) <= Cardinality(again)
      <3>1. new = {f[r] : r \in again}
        OBVIOUS
      <3>2. f \in [again -> new] /\ \A p \in new : \E r \in again : f[r] = p
        OBVIOUS
      <3>3. f \in Surjection(again, new)
        BY <3>2, Fun_IsSurj
      <3> HIDE DEF again, new, f
      <3> QED
        BY <2>1, <3>3, FS_Surjection
    <2>3. capped \subseteq new
      OBVIOUS
    <2>4. IsFiniteSet(capped) /\ Cardinality(capped) <= Cardinality(new)
      <3> HIDE DEF capped, new
      <3> QED
        BY <2>2, <2>3, FS_Subset
    <2>5. Cardinality(capped) \in Nat /\ Cardinality(new) \in Nat /\ Cardinality(again) \in Nat
      BY <2>1, <2>2, <2>4, FS_CardinalityType
    <2> HIDE DEF again, new, capped
    <2> QED
      BY <2>2, <2>4, <2>5
  <1>9. Ahead' \subseteq left
    <2> SUFFICES ASSUME NEW r \in Ahead' PROVE r \in left
      OBVIOUS
    <2>1. /\ r \in stored /\ r \in Rows /\ reading' /\ returned'[r] >= 1
          /\ Position(r)' > offset' /\ Position(r)' = Position(r)
      BY <1>1 DEF Ahead, Query, Position
    <2>2. offset' = offset + limit /\ reading
      BY <2>1 DEF Query, NextOffset
    <2>3. Position(r) \in Nat
      BY <1>1, PlaceType DEF Place, Position
    <2>4. r \notin Page /\ Position(r) > offset
      BY <2>1, <2>2, <2>3, <1>1, <1>2
    <2>5. returned'[r] = returned[r]
      BY <2>1, <2>4 DEF Query
    <2> QED
      BY <2>1, <2>2, <2>4, <2>5 DEF Ahead
  <1>10. Cardinality(Ahead') <= Cardinality(left)
    BY <1>4, <1>9, SmallerSet
  <1>11. Cardinality(Repeats') <= Cardinality(Repeats) + Cardinality(capped)
    <2>1. Repeats \cup capped \subseteq Rows \X (2..MaxReturned)
      BY <1>7
    <2>2. /\ IsFiniteSet(Repeats \cup capped) /\ Cardinality(Repeats \cup capped) \in Nat
          /\ IsFiniteSet(Repeats) /\ Cardinality(Repeats) \in Nat
          /\ IsFiniteSet(capped) /\ Cardinality(capped) \in Nat
          /\ Cardinality(Repeats \cap capped) \in Nat
      <3>1. Repeats \cap capped \subseteq Rows \X (2..MaxReturned)
        BY <1>7
      <3> HIDE DEF capped
      <3> QED
        BY <2>1, <1>7, <3>1, RepeatsFinite
    <2> HIDE DEF capped
    <2>3. Cardinality(Repeats') <= Cardinality(Repeats \cup capped)
      BY <1>6, <2>2, FS_Subset
    <2>4. Cardinality(Repeats \cup capped)
             = Cardinality(Repeats) + Cardinality(capped) - Cardinality(Repeats \cap capped)
      BY <2>2, FS_Union
    <2>5. Cardinality(Repeats') \in Nat
      BY <1>6, <2>2, FS_Subset, FS_CardinalityType
    <2> QED
      BY <2>2, <2>3, <2>4, <2>5
  <1>12. /\ Cardinality(Repeats) \in Nat /\ Cardinality(Repeats') \in Nat
         /\ Cardinality(capped) \in Nat /\ Cardinality(again) \in Nat
         /\ Cardinality(left) \in Nat /\ Cardinality(Ahead) \in Nat
         /\ Cardinality(Ahead') \in Nat
    <2>1. Repeats' \subseteq Rows \X (2..MaxReturned)
      BY <1>6, <1>7
    <2>2. Ahead' \subseteq Rows
      BY <1>4, <1>9
    <2> HIDE DEF capped, again, left
    <2> QED
      BY <1>4, <1>7, <2>1, <2>2, RepeatsFinite, RowsFinite, AheadType
  <1>13. inserted' = inserted /\ inserted \in Nat
    BY DEF Query, TypeOK
  <1> HIDE DEF again, new, capped, left
  <1> QED
    BY <1>5, <1>8, <1>10, <1>11, <1>12, <1>13 DEF RepeatInv

\* Behind the offset the batch and the rows that were there share no more
\* places than before: what it pushes ahead is at most as many rows as it has.
LEMMA StoreRepeat == TypeOK /\ RepeatInv /\ StoreEvents => RepeatInv'
  <1> SUFFICES ASSUME TypeOK, RepeatInv, StoreEvents PROVE RepeatInv'
    OBVIOUS
  <1>1. PICK batch \in SUBSET (Rows \ stored) :
            /\ stored' = stored \cup batch
            /\ inserted' = inserted + Cardinality(batch)
    BY DEF StoreEvents
  <1>2. stored \subseteq Rows /\ stored' \subseteq Rows /\ offset \in Nat /\ batch \subseteq Rows
    BY <1>1 DEF TypeOK
  <1>3. /\ offset' = offset /\ reading' = reading /\ reading
        /\ returned' = returned /\ Repeats' = Repeats
    BY DEF StoreEvents, Repeats
  <1> DEFINE B == Stretch(stored, 0, offset)
             C == Stretch(stored', 0, offset)
             pushed == (batch \cup B) \ C
  <1>4. \A r : /\ Position(r) = Place(stored, r) /\ Place(stored, r) \in Nat
               /\ Position(r)' = Place(stored', r) /\ Place(stored', r) \in Nat
               /\ Place(stored, r) <= Place(stored', r)
    BY <1>1, <1>2, PlaceType, PlaceAfterInsertion DEF Place, Position
  <1>5. \A r \in stored' : Place(stored', r) > 0
    BY <1>2, PlacePositive
  <1>6. \A r \in stored : Place(stored, r) > 0
    BY <1>2, PlacePositive
  <1>7. C \subseteq batch \cup B
    <2> SUFFICES ASSUME NEW r \in C, r \notin batch PROVE r \in B
      OBVIOUS
    <2>1. r \in stored /\ Place(stored', r) <= offset
      BY <1>1, <1>2 DEF Stretch
    <2>2. Place(stored, r) > 0 /\ Place(stored, r) <= offset
      BY <2>1, <1>2, <1>4, <1>6
    <2> QED
      BY <2>1, <2>2, <1>2 DEF Stretch
  <1>8. Ahead' \subseteq Ahead \cup pushed
    <2> SUFFICES ASSUME NEW r \in Ahead', r \notin Ahead PROVE r \in pushed
      OBVIOUS
    <2>1. /\ r \in stored' /\ returned[r] >= 1 /\ Place(stored', r) > offset
      BY <1>3, <1>4 DEF Ahead
    <2>2. r \notin C
      BY <2>1, <1>2, <1>4 DEF Stretch
    <2>3. r \in stored => r \in B
      <3> SUFFICES ASSUME r \in stored PROVE r \in B
        OBVIOUS
      <3>1. ~(Position(r) > offset)
        BY <2>1, <1>3 DEF Ahead
      <3> QED
        BY <3>1, <1>2, <1>4, <1>6 DEF Stretch
    <2> QED
      BY <2>1, <2>2, <2>3, <1>1
  <1>9. B \subseteq Rows /\ C \subseteq Rows /\ Cardinality(B) <= offset
    BY <1>2, StretchType, StretchBound
  <1>10. /\ Cardinality(B) \in Nat /\ Cardinality(C) \in Nat /\ Cardinality(batch) \in Nat
         /\ Cardinality(Ahead) \in Nat /\ Ahead \subseteq Rows
    BY <1>2, <1>9, RowsFinite, AheadType
  <1>11. Ahead' \subseteq Rows
    BY <1>2 DEF Ahead
  <1>12. Cardinality(Ahead') <= Cardinality(Ahead) + Cardinality(batch)
    <2>1. CASE \E r \in stored' : Place(stored', r) >= offset
      <3>1. Cardinality(C) >= offset
        <4>1. PICK r \in stored' : Place(stored', r) >= offset
          BY <2>1
        <4>2. Place(stored', r) >= 0 + offset
          BY <4>1, <1>2
        <4> QED
          BY <4>1, <4>2, <1>2, StretchFull
      <3>2. Cardinality(batch \cup B) <= Cardinality(batch) + Cardinality(B)
        BY <1>2, <1>9, UnionBound
      <3> HIDE DEF B, C
      <3>3. batch \cup B = pushed \cup C /\ pushed \cap C = {} /\ pushed \subseteq Rows
        BY <1>7, <1>2, <1>9
      <3> HIDE DEF pushed
      <3>4. Cardinality(pushed \cup C) = Cardinality(pushed) + Cardinality(C)
        <4>1. IsFiniteSet(pushed) /\ IsFiniteSet(C)
          BY <3>3, <1>9, RowsFinite
        <4>2. Cardinality(pushed) \in Nat
          BY <3>3, RowsFinite
        <4>3. Cardinality(pushed \cap C) = 0
          BY <3>3, FS_EmptySet
        <4>4. Cardinality(pushed \cup C)
                 = Cardinality(pushed) + Cardinality(C) - Cardinality(pushed \cap C)
          BY <4>1, FS_Union
        <4> QED
          BY <4>2, <4>3, <4>4, <1>10
      <3>5. Cardinality(Ahead \cup pushed) <= Cardinality(Ahead) + Cardinality(pushed)
        BY <3>3, <1>10, UnionBound
      <3>6. Cardinality(Ahead') <= Cardinality(Ahead \cup pushed)
        BY <1>8, <1>10, <3>3, SmallerSet
      <3>7. /\ Cardinality(pushed) \in Nat /\ Cardinality(Ahead') \in Nat
            /\ Cardinality(Ahead \cup pushed) \in Nat
            /\ Cardinality(batch \cup B) \in Nat
        BY <3>3, <1>2, <1>9, <1>10, <1>11, RowsFinite
      <3>8. Cardinality(batch \cup B) = Cardinality(pushed) + Cardinality(C)
        BY <3>3, <3>4
      <3> QED
        BY <3>1, <3>2, <3>5, <3>6, <3>7, <3>8, <1>2, <1>9, <1>10
    <2>2. CASE \A r \in stored' : ~(Place(stored', r) >= offset)
      <3>1. Ahead' = {}
        BY <2>2, <1>2, <1>3, <1>4 DEF Ahead
      <3> QED
        BY <3>1, <1>10, FS_EmptySet
    <2> QED
      BY <2>1, <2>2
  <1>13. Cardinality(Ahead') \in Nat /\ Cardinality(Repeats) \in Nat /\ inserted \in Nat
    <2>1. Repeats \subseteq Rows \X (2..MaxReturned)
      BY DEF Repeats
    <2> QED
      BY <1>11, <2>1, RowsFinite, RepeatsFinite DEF TypeOK
  <1> HIDE DEF B, C, pushed
  <1> QED
    BY <1>1, <1>3, <1>10, <1>12, <1>13 DEF RepeatInv

\* A deletion brings no row back ahead.
LEMMA RetentionRepeat == TypeOK /\ RepeatInv /\ ApplyRetention => RepeatInv'
  <1> SUFFICES ASSUME TypeOK, RepeatInv, ApplyRetention PROVE RepeatInv'
    OBVIOUS
  <1>1. /\ stored' \subseteq stored /\ offset' = offset /\ reading' = reading
        /\ returned' = returned /\ inserted' = inserted /\ Repeats' = Repeats
    BY DEF ApplyRetention, Repeats
  <1>2. stored \subseteq Rows /\ stored' \subseteq Rows /\ offset \in Nat /\ inserted \in Nat
    BY <1>1 DEF TypeOK
  <1>3. Ahead' \subseteq Ahead
    <2> SUFFICES ASSUME NEW r \in Ahead' PROVE r \in Ahead
      OBVIOUS
    <2>1. r \in stored /\ reading /\ returned[r] >= 1 /\ Position(r)' > offset
      BY <1>1 DEF Ahead
    <2>2. /\ Position(r) = Place(stored, r) /\ Place(stored, r) \in Nat
          /\ Position(r)' = Place(stored', r) /\ Place(stored', r) \in Nat
          /\ Place(stored', r) <= Place(stored, r)
      BY <1>1, <1>2, PlaceType, PlaceAfterInsertion DEF Place, Position
    <2> QED
      BY <2>1, <2>2, <1>2 DEF Ahead
  <1>4. Cardinality(Ahead') <= Cardinality(Ahead)
    BY <1>3, AheadType, SmallerSet
  <1>5. /\ Cardinality(Ahead) \in Nat /\ Cardinality(Ahead') \in Nat
        /\ Cardinality(Repeats) \in Nat
    <2>1. Ahead' \subseteq Rows /\ Repeats \subseteq Rows \X (2..MaxReturned)
      BY <1>3, AheadType DEF Repeats
    <2> QED
      BY <2>1, AheadType, RowsFinite, RepeatsFinite
  <1> QED
    BY <1>1, <1>2, <1>4, <1>5 DEF RepeatInv

LEMMA StutterRepeat == RepeatInv /\ UNCHANGED vars => RepeatInv'
  BY DEF RepeatInv, Repeats, Ahead, Position, vars

-----------------------------------------------------------------------------
(* The theorems.                                                            *)

\* The invariant holds in every state of every reading.
THEOREM Invariance == Spec => []IndInv
  <1>1. IndInv /\ [Next]_vars => IndInv'
    BY QueryInv, StoreInv, RetentionInv, StutterInv DEF Next, Done
  <1> QED
    BY <1>1, InitInv, PTL DEF Spec

\* Every variable of the paged reading stays within its type; in particular the
\* offset a client is given never lies beyond the rows that can exist.
THEOREM TypeCorrect == Spec => []TypeOK
  <1>1. IndInv => TypeOK
    BY DEF IndInv
  <1> QED
    BY <1>1, Invariance, PTL

\* Whatever batches and retention do between the pages, a row that is there
\* throughout is missed only for a deleted one: next_offset and the extra row of
\* query_phone_events leave none out by themselves.
THEOREM MissedForDeletions == Spec => []MissedByDeletionsOnly
  <1>1. IndInv => MissedByDeletionsOnly
    BY DEF IndInv
  <1> QED
    BY <1>1, Invariance, PTL

\* Repeats are paid for by insertions, in every state of every reading.
THEOREM RepeatInvariance == Spec => []RepeatInv
  <1>1. TypeOK /\ RepeatInv /\ [Next]_vars => RepeatInv'
    BY QueryRepeat, StoreRepeat, RetentionRepeat, StutterRepeat DEF Next, Done
  <1> QED
    BY <1>1, InitRepeat, TypeCorrect, PTL DEF Spec

\* Whatever batches and retention do between the pages, a row is returned again
\* only for an inserted one: the pages of query_phone_events do not overlap by
\* themselves, and deletions never make them.
THEOREM RepeatedForInsertions == Spec => []RepeatedByInsertionsOnly
  <1>1. TypeOK /\ RepeatInv => RepeatedByInsertionsOnly
    <2> SUFFICES ASSUME TypeOK, RepeatInv PROVE RepeatedByInsertionsOnly
      OBVIOUS
    <2>1. Repeats \subseteq Rows \X (2..MaxReturned)
      BY DEF Repeats
    <2>2. Cardinality(Ahead) \in Nat /\ Cardinality(Repeats) \in Nat /\ inserted \in Nat
      BY <2>1, AheadType, RepeatsFinite DEF TypeOK
    <2> QED
      BY <2>2 DEF RepeatInv, RepeatedByInsertionsOnly
  <1> QED
    BY <1>1, RepeatInvariance, TypeCorrect, PTL
=============================================================================
