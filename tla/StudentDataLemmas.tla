------------------------- MODULE StudentDataLemmas -------------------------
(***************************************************************************)
(* Facts about the queries and the partial update, for every table.        *)
(***************************************************************************)
EXTENDS StudentData, FiniteSetTheorems, TLAPS

\* A table is a function on some of the ids.
LEMMA TableFacts ==
    ASSUME NEW t \in Tables
    PROVE  /\ DOMAIN t \subseteq Ids
           /\ \A i \in DOMAIN t : t[i] \in Student
           /\ t = [i \in DOMAIN t |-> t[i]]
<1>1. PICK S \in SUBSET Ids : t \in [S -> Student]
  BY DEF Tables
<1> QED
  BY <1>1

\* A function on some of the ids whose values are students is a table.
LEMMA TableIntro ==
    ASSUME NEW S \in SUBSET Ids, NEW t \in [S -> Student]
    PROVE  t \in Tables
BY DEF Tables

\* What apply makes of a student is a student (UpdateStudentRequest.apply).
LEMMA ApplyIsStudent ==
    ASSUME NEW patch \in Patch, NEW student \in Student
    PROVE  apply(patch, student) \in Student
<1>1. /\ OrElse(patch.cpf, student.cpf) \in CPFs
      /\ OrElse(patch.info, student.info) \in Infos
      /\ OrElse(patch.active, student.active) \in BOOLEAN
  BY DEF OrElse, Patch, Student, Maybe
<1> QED
  BY <1>1 DEF apply, Student

\* COUNT is a number: the table is finite.
LEMMA CountRowsType ==
    ASSUME NEW t \in Tables, NEW params \in ListParams
    PROVE  CountRows(t, params) \in Nat
<1>1. IsFiniteSet(Filtered(t, params))
  <2>1. Filtered(t, params) \subseteq Ids
    BY TableFacts DEF Filtered
  <2> QED
    BY <2>1, IdsAssumption, FS_Subset
<1> QED
  BY <1>1, FS_CardinalityType DEF CountRows

\* SELECT answers some of the rows, unchanged.
LEMMA FindRowsType ==
    ASSUME NEW t \in Tables, NEW params \in ListParams
    PROVE  FindRows(t, params) \in Tables
<1> DEFINE matching == Filtered(t, params)
           S == {j \in matching : /\ params.offset <= Position(matching, j)
                                  /\ Position(matching, j) < params.offset + params.limit}
<1>1. FindRows(t, params) = [i \in S |-> t[i]]
  BY DEF FindRows
<1>2. S \subseteq DOMAIN t
  BY DEF Filtered
<1> HIDE DEF S
<1>3. [i \in S |-> t[i]] \in [S -> Student]
  BY <1>2, TableFacts
<1>4. S \in SUBSET Ids
  BY <1>2, TableFacts
<1> QED
  BY <1>1, <1>3, <1>4, TableIntro

\* A listing is a page.
LEMMA ListingIsPage ==
    ASSUME NEW t \in Tables, NEW params \in ListParams
    PROVE  Listing(t, params) \in Page
BY CountRowsType, FindRowsType DEF Listing, Page

-----------------------------------------------------------------------------
(***************************************************************************)
(* Where a row comes in a listing: after the matching rows with a smaller  *)
(* id (ORDER BY id ASC, student.go:46).                                    *)
(***************************************************************************)
LEMMA PositionType ==
    ASSUME NEW S \in SUBSET Ids, NEW i
    PROVE  IsFiniteSet({j \in S : j < i}) /\ Position(S, i) \in Nat
<1>1. {j \in S : j < i} \in SUBSET Ids
  OBVIOUS
<1>2. IsFiniteSet({j \in S : j < i})
  BY <1>1, IdsAssumption, FS_Subset
<1> QED
  BY <1>2, FS_CardinalityType DEF Position

\* The total of a listing is beyond the position of each of its rows.
LEMMA PositionBound ==
    ASSUME NEW S \in SUBSET Ids, NEW i \in S
    PROVE  Cardinality(S) \in Nat /\ Position(S, i) < Cardinality(S)
<1> DEFINE T == {j \in S : j < i}
<1>1. IsFiniteSet(S) /\ Cardinality(S) \in Nat
  BY IdsAssumption, FS_Subset, FS_CardinalityType
<1>2. T \in SUBSET S /\ T # S
  <2>1. i \in Nat /\ ~(i < i)
    BY IdsAssumption
  <2> QED
    BY <2>1
<1>3. Cardinality(T) <= Cardinality(S) /\ Cardinality(T) # Cardinality(S)
  BY <1>1, <1>2, FS_Subset
<1> QED
  BY <1>1, <1>3, PositionType DEF Position

\* A row that comes after another has a higher position.
LEMMA PositionGrows ==
    ASSUME NEW S \in SUBSET Ids, NEW i \in S, NEW j \in S, i < j
    PROVE  Position(S, i) < Position(S, j)
<1> DEFINE A == {h \in S : h < i}
           B == {h \in S : h < j}
<1>1. A \in SUBSET B /\ A # B
  <2>1. \A h \in S : h < i => h < j
    BY IdsAssumption
  <2>2. i \in B /\ i \notin A
    BY IdsAssumption
  <2> QED
    BY <2>1, <2>2
<1>2. IsFiniteSet(B)
  BY PositionType
<1>3. Cardinality(A) <= Cardinality(B) /\ Cardinality(A) # Cardinality(B)
  BY <1>1, <1>2, FS_Subset
<1>4. Position(S, i) = Cardinality(A) /\ Position(S, j) = Cardinality(B)
  BY DEF Position
<1>5. Position(S, i) \in Nat /\ Position(S, j) \in Nat
  BY PositionType
<1> HIDE DEF A, B
<1> QED
  BY <1>3, <1>4, <1>5

\* No position of a listing is empty.
LEMMA PositionsAreFilled ==
    ASSUME NEW S \in SUBSET Ids, NEW p \in 0 .. Cardinality(S) - 1
    PROVE  \E i \in S : Position(S, i) = p
<1> DEFINE n == Cardinality(S)
           T == 0 .. n - 1
           f == [i \in S |-> Position(S, i)]
<1>1. IsFiniteSet(S) /\ n \in Nat
  BY IdsAssumption, FS_Subset, FS_CardinalityType
<1> HIDE DEF n
<1>2. IsFiniteSet(T) /\ Cardinality(T) = n
  <2>1. IsFiniteSet(T) /\ Cardinality(T) = IF 0 > n - 1 THEN 0 ELSE n - 1 - 0 + 1
    BY <1>1, FS_Interval
  <2> QED
    BY <1>1, <2>1
<1>3. ASSUME NEW i \in S PROVE Position(S, i) \in T
  <2>1. Position(S, i) \in Nat /\ Position(S, i) < n
    BY PositionType, PositionBound DEF n
  <2> QED
    BY <1>1, <2>1
<1>4. \A i, j \in S : Position(S, i) = Position(S, j) => i = j
  <2> SUFFICES ASSUME NEW i \in S, NEW j \in S, i # j PROVE Position(S, i) # Position(S, j)
    OBVIOUS
  <2>1. i < j \/ j < i
    BY IdsAssumption
  <2>2. Position(S, i) \in Nat /\ Position(S, j) \in Nat
    BY PositionType
  <2> QED
    BY <2>1, <2>2, PositionGrows
<1> HIDE DEF T
<1>5. f \in Injection(S, T)
  BY <1>3, <1>4 DEF Injection, IsInjective
<1>6. f \in Surjection(S, T)
  <2> HIDE DEF f
  <2> QED
    BY <1>2, <1>5, FS_Injection DEF n
<1>7. p \in T
  BY DEF T, n
<1> QED
  BY <1>6, <1>7 DEF Surjection

\* A row at position k or later comes after k rows of the positions below k.
LEMMA RowsBefore ==
    ASSUME NEW S \in SUBSET Ids, NEW k \in Nat, NEW i \in S, k <= Position(S, i)
    PROVE  LET first == {j \in S : Position(S, j) < k}
           IN  /\ IsFiniteSet(first) /\ k <= Cardinality(first)
               /\ \A j \in first : j < i
<1> DEFINE first == {j \in S : Position(S, j) < k}
           T == 0 .. k - 1
           f == [j \in first |-> Position(S, j)]
<1>1. IsFiniteSet(first) /\ Cardinality(first) \in Nat
  <2>1. first \subseteq Ids
    OBVIOUS
  <2> HIDE DEF first
  <2> QED
    BY <2>1, IdsAssumption, FS_Subset, FS_CardinalityType
<1>2. \A j \in first : j < i
  <2> SUFFICES ASSUME NEW j \in S, Position(S, j) < k, ~(j < i) PROVE FALSE
    OBVIOUS
  <2>1. Position(S, i) \in Nat /\ Position(S, j) \in Nat
    BY PositionType
  <2>2. i < j
    BY <2>1, IdsAssumption
  <2>3. Position(S, i) < Position(S, j)
    BY <2>2, PositionGrows
  <2> QED
    BY <2>1, <2>3
<1>3. \A p \in T : \E j \in first : Position(S, j) = p
  <2> SUFFICES ASSUME NEW p \in T PROVE \E j \in S : Position(S, j) = p
    OBVIOUS
  <2>1. Cardinality(S) \in Nat /\ Position(S, i) \in Nat /\ Position(S, i) < Cardinality(S)
    BY PositionType, PositionBound
  <2> QED
    BY <2>1, PositionsAreFilled
<1>4. ASSUME NEW j \in first PROVE Position(S, j) \in T
  <2>1. Position(S, j) \in Nat /\ Position(S, j) < k
    BY PositionType
  <2> QED
    BY <2>1
<1>5. Cardinality(T) = k
  <2>1. Cardinality(T) = IF 0 > k - 1 THEN 0 ELSE k - 1 - 0 + 1
    BY FS_Interval
  <2> QED
    BY <2>1
<1> HIDE DEF first, T
<1>6. f \in Surjection(first, T)
  BY <1>3, <1>4 DEF Surjection
<1>7. Cardinality(T) <= Cardinality(first)
  <2> HIDE DEF f
  <2> QED
    BY <1>1, <1>6, FS_Surjection
<1> QED
  BY <1>1, <1>2, <1>5, <1>7 DEF first

\* A row stays at position k or later where the rows of the positions below
\* k stay.
LEMMA RowStaysBeyond ==
    ASSUME NEW S \in SUBSET Ids, NEW T \in SUBSET Ids, NEW k \in Nat, NEW i \in S,
           k <= Position(S, i), {j \in S : Position(S, j) < k} \subseteq T
    PROVE  k <= Position(T, i)
<1> DEFINE first == {j \in S : Position(S, j) < k}
           below == {j \in T : j < i}
<1>1. k <= Cardinality(first) /\ first \subseteq below
  BY RowsBefore
<1>2. IsFiniteSet(below) /\ Position(T, i) \in Nat
  BY PositionType
<1>3. IsFiniteSet(first) /\ Cardinality(first) \in Nat
  BY RowsBefore, FS_CardinalityType
<1>4. Cardinality(below) = Position(T, i)
  BY DEF Position
<1> HIDE DEF first, below
<1>5. Cardinality(first) <= Cardinality(below)
  BY <1>1, <1>2, FS_Subset
<1> QED
  BY <1>1, <1>2, <1>3, <1>4, <1>5

\* LIMIT and OFFSET: the rows on a page are those at its positions.
LEMMA RowsOnPage ==
    ASSUME NEW t, NEW params
    PROVE  DOMAIN FindRows(t, params) =
              {i \in Filtered(t, params) :
                  /\ params.offset <= Position(Filtered(t, params), i)
                  /\ Position(Filtered(t, params), i) < params.offset + params.limit}
BY DEF FindRows
=============================================================================
