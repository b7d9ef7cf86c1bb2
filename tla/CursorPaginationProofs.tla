----------------------- MODULE CursorPaginationProofs ------------------------
(***************************************************************************)
(* Theorems of CursorPagination for every page size and every table.       *)
(***************************************************************************)
EXTENDS CursorPagination, FiniteSetTheorems, TLAPS

-----------------------------------------------------------------------------
\* The order of the rows is total and strict, and a cursor's filter is its
\* converse.
LEMMA BeforeIsOrder ==
  ASSUME NEW x \in Rows, NEW y \in Rows, NEW z \in Rows
  PROVE  /\ ~ Before(x, x)
         /\ Before(x, y) /\ Before(y, z) => Before(x, z)
         /\ x = y \/ Before(x, y) \/ Before(y, x)
         /\ After(x, y) <=> Before(y, x)
<1>1. x.createdAt = y.createdAt /\ x.id = y.id => x = y
  BY DEF Rows
<1>2. \A w \in {x, y, z} : w.createdAt \in Nat /\ w.id \in Nat
  BY PaginationAssumption DEF PaginationAssumption, Rows
<1>3. After(x, y) <=> Before(y, x)
  BY <1>2 DEF After, Before
<1> QED
  BY <1>1, <1>2, <1>3 DEF Before

LEMMA RowsAreFinite ==
  ASSUME NEW S \in SUBSET Rows
  PROVE  IsFiniteSet(S) /\ Cardinality(S) \in Nat
<1>1. IsFiniteSet(S)
  BY CursorAssumption, FS_Subset DEF CursorAssumption
<1> QED
  BY <1>1, FS_CardinalityType

\* The rows of S that come before x, and those that come behind it.
Ahead(x, S) == {y \in S : Before(y, x)}
Behind(x, S) == {y \in S : Before(x, y)}

\* A family of sets of rows has a smallest one.
LEMMA SmallestSet ==
  ASSUME NEW F \in SUBSET SUBSET Rows, F # {}
  PROVE  \E T \in F : \A U \in F : U \subseteq T => U = T
<1>1. IsWellFoundedOn(StrictSubsetOrdering(Rows), SUBSET Rows)
  <2>1. FiniteSubsetsOf(Rows) = SUBSET Rows
    BY CursorAssumption, FS_FiniteSubsetsOfFinite DEF CursorAssumption
  <2>2. IsWellFoundedOn(StrictSubsetOrdering(Rows), FiniteSubsetsOf(Rows))
    BY FS_StrictSubsetOrderingWellFounded
  <2> QED
    BY <2>1, <2>2
<1>2. PICK T \in F : \A U \in F : <<U, T>> \notin StrictSubsetOrdering(Rows)
  BY <1>1, WFMin
<1> QED
  BY <1>2 DEF StrictSubsetOrdering

\* Rows that are listed have a first and a last one.
LEMMA FirstRow ==
  ASSUME NEW S \in SUBSET Rows, S # {}
  PROVE  \E x \in S : Ahead(x, S) = {}
<1> DEFINE F == {Ahead(x, S) : x \in S}
<1>1. F \in SUBSET SUBSET Rows /\ F # {}
  BY DEF Ahead
<1>2. PICK T \in F : \A U \in F : U \subseteq T => U = T
  BY <1>1, SmallestSet
<1>3. PICK x \in S : T = Ahead(x, S)
  OBVIOUS
<1>4. ASSUME NEW y \in Ahead(x, S) PROVE FALSE
  <2>1. Ahead(y, S) \subseteq Ahead(x, S) /\ y \notin Ahead(y, S)
    BY BeforeIsOrder DEF Ahead
  <2> QED
    BY <1>2, <1>3, <1>4, <2>1 DEF Ahead
<1> QED
  BY <1>4

LEMMA LastRow ==
  ASSUME NEW S \in SUBSET Rows, S # {}
  PROVE  Last(S) \in S /\ \A y \in S : y = Last(S) \/ Before(y, Last(S))
<1> DEFINE F == {Behind(x, S) : x \in S}
<1>1. F \in SUBSET SUBSET Rows /\ F # {}
  BY DEF Behind
<1>2. PICK T \in F : \A U \in F : U \subseteq T => U = T
  BY <1>1, SmallestSet
<1>3. PICK x \in S : T = Behind(x, S)
  OBVIOUS
<1>4. ASSUME NEW y \in Behind(x, S) PROVE FALSE
  <2>1. Behind(y, S) \subseteq Behind(x, S) /\ y \notin Behind(y, S)
    BY BeforeIsOrder DEF Behind
  <2> QED
    BY <1>2, <1>3, <1>4, <2>1 DEF Behind
<1>5. \A y \in S : x = y \/ Before(y, x)
  BY <1>4, BeforeIsOrder DEF Behind
<1> QED
  BY <1>5 DEF Last

-----------------------------------------------------------------------------
\* take n: the rows that have fewer than n before them.
LEMMA FirstInRows ==
  ASSUME NEW n \in Nat, NEW S \in SUBSET Rows
  PROVE  First(n, S) \in SUBSET S
BY DEF First

\* A row that stands before a taken one is taken.
LEMMA FirstIsInitial ==
  ASSUME NEW n \in Nat, NEW S \in SUBSET Rows,
         NEW p \in First(n, S), NEW x \in S, Before(x, p)
  PROVE  x \in First(n, S)
<1>1. Ahead(x, S) \subseteq Ahead(p, S) /\ Ahead(p, S) \in SUBSET Rows
  BY BeforeIsOrder DEF Ahead, First
<1>2. Cardinality(Ahead(x, S)) <= Cardinality(Ahead(p, S))
  BY <1>1, RowsAreFinite, FS_Subset
<1>3. Cardinality(Ahead(x, S)) \in Nat /\ Cardinality(Ahead(p, S)) \in Nat
  BY <1>1, RowsAreFinite
<1>4. Cardinality(Ahead(p, S)) < n
  BY DEF First, Ahead
<1>5. Cardinality(Ahead(x, S)) < n
  BY <1>2, <1>3, <1>4
<1> QED
  BY <1>5 DEF First, Ahead

\* Where there is a row, one is taken.
LEMMA FirstTakesSome ==
  ASSUME NEW n \in Nat \ {0}, NEW S \in SUBSET Rows, S # {}
  PROVE  First(n, S) # {}
<1>1. PICK x \in S : Ahead(x, S) = {}
  BY FirstRow
<1>2. Cardinality(Ahead(x, S)) = 0
  BY <1>1, FS_EmptySet
<1> QED
  BY <1>2 DEF First, Ahead

\* No more rows than there are places: all are taken.
LEMMA FirstTakesAll ==
  ASSUME NEW n \in Nat, NEW S \in SUBSET Rows, Cardinality(S) <= n
  PROVE  First(n, S) = S
<1> SUFFICES ASSUME NEW x \in S PROVE Cardinality(Ahead(x, S)) < n
  BY DEF First, Ahead
<1>1. IsFiniteSet(S) /\ Cardinality(S) \in Nat
  BY RowsAreFinite
<1>2. Ahead(x, S) \subseteq S \ {x}
  BY BeforeIsOrder DEF Ahead
<1>3. IsFiniteSet(S \ {x}) /\ Cardinality(S \ {x}) = Cardinality(S) - 1
  BY <1>1, FS_RemoveElement
<1>4. Cardinality(Ahead(x, S)) <= Cardinality(S \ {x})
  BY <1>2, <1>3, FS_Subset
<1>5. Ahead(x, S) \in SUBSET Rows /\ Cardinality(Ahead(x, S)) \in Nat
  BY <1>2, RowsAreFinite
<1> QED
  BY <1>1, <1>3, <1>4, <1>5

\* Places left over: all rows were taken.
LEMMA FirstTakesEnough ==
  ASSUME NEW n \in Nat, NEW S \in SUBSET Rows, Cardinality(First(n, S)) < n
  PROVE  First(n, S) = S
<1> SUFFICES ASSUME S \ First(n, S) # {} PROVE FALSE
  BY FirstInRows
<1>1. PICK x \in S \ First(n, S) : Ahead(x, S \ First(n, S)) = {}
  BY FirstRow
<1>2. Ahead(x, S) \subseteq First(n, S)
  BY <1>1 DEF Ahead
<1>3. First(n, S) \in SUBSET Rows /\ Ahead(x, S) \in SUBSET Rows
  BY FirstInRows DEF Ahead
<1>4. Cardinality(Ahead(x, S)) <= Cardinality(First(n, S))
  BY <1>2, <1>3, RowsAreFinite, FS_Subset
<1>5. ~ (Cardinality(Ahead(x, S)) < n)
  BY DEF First, Ahead
<1>6. Cardinality(Ahead(x, S)) \in Nat /\ Cardinality(First(n, S)) \in Nat
  BY <1>3, RowsAreFinite
<1> QED
  BY <1>4, <1>5, <1>6

-----------------------------------------------------------------------------
\* What a scan relies on while other clients change the table: the client got
\* nothing that stands behind its cursor, and what was listed all along and
\* stands before it.
ScanInv ==
  /\ steady \subseteq listed
  /\ listed \subseteq Rows
  /\ seen \subseteq Rows
  /\ state \in {"new", "more", "end"}
  /\ state = "new" => cursor = NoCursor /\ seen = {}
  /\ state = "more" =>
       /\ cursor \in Rows
       /\ \A x \in seen : ~ After(x, cursor)
       /\ \A x \in steady : x \in seen \/ After(x, cursor)
  /\ NoRowTwice
  /\ NothingSkipped

LEMMA InitInv == Init => ScanInv
<1>1. Cardinality({}) = 0
  BY FS_EmptySet
<1> QED
  BY <1>1 DEF Init, ScanInv, NoRowTwice, NothingSkipped

\* The rows a request of the client may return.
Rest == {x \in listed : cursor = NoCursor \/ After(x, cursor)}
Page == First(Limit, findMany(cursor))
MorePages == Cardinality(findMany(cursor)) > Limit

\* A page is the front of the rest, and the last page all of it.
LEMMA PageIsFront ==
  ASSUME ScanInv
  PROVE  /\ Page \subseteq Rest
         /\ ~ MorePages => Page = Rest
         /\ MorePages =>
              /\ Last(Page) \in Page
              /\ \A x \in Page : x = Last(Page) \/ Before(x, Last(Page))
              /\ \A x \in Rest \ Page : Before(Last(Page), x)
<1> DEFINE rows == findMany(cursor)
<1>1. Limit \in Nat \ {0} /\ Limit + 1 \in Nat
  BY PaginationAssumption DEF PaginationAssumption
<1>2. Rest \in SUBSET Rows /\ rows = First(Limit + 1, Rest)
  BY DEF ScanInv, Rest, findMany
<1>3. rows \in SUBSET Rest /\ rows \in SUBSET Rows /\ Cardinality(rows) \in Nat
  <2>1. rows \in SUBSET Rest
    BY <1>1, <1>2, FirstInRows
  <2> QED
    BY <1>2, <2>1, RowsAreFinite
<1>4. Page \in SUBSET rows
  BY <1>1, <1>3, FirstInRows DEF Page
<1>5. ASSUME ~ MorePages PROVE Page = Rest
  <2>1. Cardinality(rows) <= Limit /\ Cardinality(rows) < Limit + 1
    BY <1>1, <1>3, <1>5 DEF MorePages
  <2>2. rows = Rest
    BY <1>1, <1>2, <2>1, FirstTakesEnough
  <2>3. Page = rows
    BY <1>1, <1>3, <2>1, FirstTakesAll DEF Page
  <2> QED
    BY <2>2, <2>3
<1>6. ASSUME MorePages PROVE Page # {}
  <2>1. rows # {}
    BY <1>1, <1>6, FS_EmptySet DEF MorePages
  <2> QED
    BY <1>1, <1>3, <2>1, FirstTakesSome DEF Page
<1>7. ASSUME MorePages
      PROVE  Last(Page) \in Page /\ \A x \in Page : x = Last(Page) \/ Before(x, Last(Page))
  BY <1>3, <1>4, <1>6, <1>7, LastRow
<1>8. ASSUME MorePages, NEW x \in Rest \ Page PROVE Before(Last(Page), x)
  <2>1. Last(Page) \in Page /\ Last(Page) \in rows
    BY <1>4, <1>7, <1>8
  <2>2. ASSUME Before(x, Last(Page)) PROVE FALSE
    <3>1. x \in rows
      BY <1>1, <1>2, <2>1, <2>2, FirstIsInitial
    <3>2. x \in Page
      BY <1>1, <1>3, <2>1, <2>2, <3>1, FirstIsInitial DEF Page
    <3> QED
      BY <3>2, <1>8
  <2> QED
    BY <1>2, <1>3, <1>8, <2>1, <2>2, BeforeIsOrder
<1> QED
  BY <1>3, <1>4, <1>5, <1>7, <1>8

\* A page repeats nothing, so the count of the rows it brings is theirs.
LEMMA PageIsNew ==
  ASSUME ScanInv, state # "end"
  PROVE  /\ Page \cap seen = {}
         /\ Page \in SUBSET Rows
         /\ Cardinality(seen \cup Page) = Cardinality(seen) + Cardinality(Page)
         /\ Cardinality(seen) <= Cardinality(Rows)
<1>1. Page \cap seen = {}
  BY PageIsFront, CursorAssumption DEF ScanInv, Rest, CursorAssumption
<1>2. Page \in SUBSET Rows /\ seen \in SUBSET Rows
  BY PageIsFront DEF ScanInv, Rest
<1>3. IsFiniteSet(Page) /\ IsFiniteSet(seen) /\ Cardinality(Page) \in Nat /\ Cardinality(seen) \in Nat
  BY <1>2, RowsAreFinite
<1>4. Cardinality(seen \cup Page) =
        Cardinality(seen) + Cardinality(Page) - Cardinality(seen \cap Page)
  BY <1>3, FS_Union
<1>5. seen \cap Page = {} /\ Cardinality({}) = 0
  BY <1>1, FS_EmptySet
<1>6. Cardinality(seen \cap Page) = 0
  BY <1>5, Zenon
<1>7. Cardinality(seen \cup Page) = Cardinality(seen) + Cardinality(Page)
  BY <1>3, <1>4, <1>6
<1>8. Cardinality(seen) <= Cardinality(Rows)
  BY <1>2, CursorAssumption, FS_Subset DEF CursorAssumption
<1> QED
  BY <1>1, <1>2, <1>7, <1>8

LEMMA ListStep ==
  ASSUME ScanInv, list
  PROVE  ScanInv'
<1>1. /\ state # "end"
      /\ seen' = seen \cup Page
      /\ served' = IF served > Cardinality(Rows) THEN served ELSE served + Cardinality(Page)
      /\ cursor' = nextCursor(MorePages, Page)
      /\ state' = IF MorePages THEN "more" ELSE "end"
      /\ UNCHANGED <<listed, steady>>
  BY DEF list, Page, MorePages
<1>2. \A x \in steady : x \in seen \/ x \in Rest
  BY <1>1 DEF ScanInv, Rest
<1>3. NoRowTwice'
  <2>1. Cardinality(seen) \in Nat /\ Cardinality(Rows) \in Nat
    BY RowsAreFinite DEF ScanInv
  <2> QED
    BY <1>1, <2>1, PageIsNew DEF ScanInv, NoRowTwice
<1>4. seen' \subseteq Rows
  BY <1>1, PageIsNew DEF ScanInv
<1>5. CASE MorePages
  <2>1. cursor' = Last(Page) /\ state' = "more" /\ Last(Page) \in Page /\ Last(Page) \in Rows
    BY <1>1, <1>5, PageIsFront, PageIsNew DEF nextCursor
  <2>2. ASSUME NEW x \in seen PROVE ~ After(x, Last(Page))
    <3>1. state = "more" /\ cursor \in Rows /\ ~ After(x, cursor) /\ After(Last(Page), cursor)
      BY <1>1, <2>1, PageIsFront, CursorAssumption DEF ScanInv, Rest, CursorAssumption
    <3> QED
      BY <2>1, <3>1, BeforeIsOrder DEF ScanInv
  <2>3. ASSUME NEW x \in Page PROVE ~ After(x, Last(Page))
    BY <1>5, <2>1, PageIsFront, PageIsNew, <1>1, BeforeIsOrder
  <2>4. ASSUME NEW x \in steady PROVE x \in seen' \/ After(x, Last(Page))
    <3>1. x \in Rows
      BY DEF ScanInv
    <3> QED
      BY <1>1, <1>2, <1>5, <2>1, <3>1, PageIsFront, BeforeIsOrder
  <2> QED
    BY <1>1, <1>3, <1>4, <2>1, <2>2, <2>3, <2>4 DEF ScanInv, NothingSkipped
<1>6. CASE ~ MorePages
  BY <1>1, <1>2, <1>3, <1>4, <1>6, PageIsFront DEF ScanInv, NothingSkipped
<1> QED
  BY <1>5, <1>6

LEMMA InvStep == ScanInv /\ [Next]_vars => ScanInv'
<1> SUFFICES ASSUME ScanInv, [Next]_vars PROVE ScanInv'
  OBVIOUS
<1>1. CASE UNCHANGED vars
  BY <1>1 DEF vars, ScanInv, NoRowTwice, NothingSkipped
<1>2. ASSUME NEW x \in Rows, Enter(x) \/ Leave(x) PROVE ScanInv'
  BY <1>2 DEF Enter, Leave, ScanInv, NoRowTwice, NothingSkipped
<1> QED
  BY <1>1, <1>2, ListStep DEF Next

LEMMA InvAlways == Spec => []ScanInv
BY InitInv, InvStep, PTL DEF Spec

\* No row is listed twice in one scan, however rows are inserted, changed and
\* removed between its pages and whatever the page size.
THEOREM NoRepetition == Spec => []NoRowTwice
<1>1. ScanInv => NoRowTwice
  BY DEF ScanInv
<1> QED
  BY <1>1, InvAlways, PTL

\* A scan that came to its end has listed every row that was there all along.
THEOREM NothingMissed == Spec => []NothingSkipped
<1>1. ScanInv => NothingSkipped
  BY DEF ScanInv
<1> QED
  BY <1>1, InvAlways, PTL
=============================================================================
