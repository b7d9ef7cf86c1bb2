-------------------------- MODULE CursorPagination ---------------------------
(***************************************************************************)
(* Keyset pagination as listJobs, listWebhooks, listWebhookDeliveries and  *)
(* listFiles share it: a client follows nextCursor from page to page while *)
(* other clients insert, change and remove rows.                           *)
(*                                                                         *)
(* A row is its sort key, createdAt and id.  createdAt comes from the      *)
(* database clock and may be equal for several rows; a row may become      *)
(* visible after a younger one.                                            *)
(***************************************************************************)
EXTENDS Naturals, FiniteSets

CONSTANTS
  Times,        \* values of createdAt
  Ids,          \* values of id
  Limit,        \* the page size
  NoCursor      \* the first request, or a last page's nextCursor

ASSUME PaginationAssumption ==
  /\ Times \subseteq Nat
  /\ Ids \subseteq Nat
  /\ Limit \in Nat \ {0}

Rows == [createdAt : Times, id : Ids]

ASSUME CursorAssumption == NoCursor \notin Rows /\ IsFiniteSet(Rows)

VARIABLES
  listed,   \* the rows that exist and match the filter
  cursor,   \* the cursor of the client's next request
  state,    \* is the scan new, under way or at its end
  seen,     \* the rows the client got
  served,   \* how many rows the client got, repetitions included; it stops
            \* counting beyond the number of all rows
  steady    \* the rows that were listed all through the scan (history)

vars == <<listed, cursor, state, seen, served, steady>>

Init ==
  /\ listed \in SUBSET Rows
  /\ cursor = NoCursor
  /\ state = "new"
  /\ seen = {}
  /\ served = 0
  /\ steady = listed

\* createdAt < cursor.createdAt OR createdAt = cursor.createdAt AND id < cursor.id,
\* and two forms that mistreat rows of equal age.
OlderOnly(x, c) == x.createdAt < c.createdAt
OlderOrEqual(x, c) == x.createdAt <= c.createdAt
After(x, c) ==
  \/ x.createdAt < c.createdAt
  \/ x.createdAt = c.createdAt /\ x.id < c.id

\* orderBy createdAt desc, id desc.
Before(x, y) ==
  \/ x.createdAt > y.createdAt
  \/ x.createdAt = y.createdAt /\ x.id > y.id

\* take n.
First(n, S) == {x \in S : Cardinality({y \in S : Before(y, x)}) < n}

Last(S) == CHOOSE x \in S : \A y \in S : x = y \/ Before(y, x)

nextCursor(more, page) == IF more THEN Last(page) ELSE NoCursor

findMany(c) == First(Limit + 1, {x \in listed : c = NoCursor \/ After(x, c)})

\* One request of the client.
list ==
  LET rows == findMany(cursor)
      hasNextPage == Cardinality(rows) > Limit
      page == First(Limit, rows)
  IN
  /\ state # "end"
  /\ seen' = seen \cup page
  /\ served' = IF served > Cardinality(Rows) THEN served ELSE served + Cardinality(page)
  /\ cursor' = nextCursor(hasNextPage, page)
  /\ state' = IF hasNextPage THEN "more" ELSE "end"
  /\ UNCHANGED <<listed, steady>>

\* A row is inserted, or starts to match the filter.
Enter(x) ==
  /\ x \notin listed
  /\ listed' = listed \cup {x}
  /\ UNCHANGED <<cursor, state, seen, served, steady>>

\* A row is deleted, or does not match the filter any more.
Leave(x) ==
  /\ x \in listed
  /\ listed' = listed \ {x}
  /\ steady' = steady \ {x}
  /\ UNCHANGED <<cursor, state, seen, served>>

Next == list \/ \E x \in Rows : Enter(x) \/ Leave(x)

Spec == Init /\ [][Next]_vars

FairSpec == Spec /\ WF_vars(list)

-----------------------------------------------------------------------------
\* No row is listed twice in one scan, although rows come and go meanwhile.
NoRowTwice == served = Cardinality(seen)

\* A scan that came to its end has listed every row that was there all along.
NothingSkipped == state = "end" => steady \subseteq seen

\* Pages shrink the rest of the table, so a scan ends although rows are
\* inserted all the time.
ScanEnds == <>(state = "end")
=============================================================================
