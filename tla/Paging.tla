------------------------------ MODULE Paging -------------------------------
(***************************************************************************)
(* One page of a list: the order and the cursor of list_items, as          *)
(* operators.  Rows are a sequence, their ids the positions; a row has a   *)
(* `published` date or None, and the date it was `fetched`.                *)
(***************************************************************************)
EXTENDS Naturals, FiniteSets, SequencesExt

CONSTANTS
  Limit,  \* rows to a page
  None

\* COALESCE(published_at, fetched_at)
TimeOf(row) == IF row.published # None THEN row.published ELSE row.fetched

\* Newest first, the later of two at the same time before the other.
Precedes(rows, i, j) ==
  \/ TimeOf(rows[i]) > TimeOf(rows[j])
  \/ TimeOf(rows[i]) = TimeOf(rows[j]) /\ i > j

\* cursor_for: the empty string, which is before every date, for an undated row.
CursorFor(rows, i) ==
  [ts |-> IF rows[i].published # None THEN rows[i].published ELSE 0, id |-> i]

\* Mutant: the cursor goes by the date alone.
AfterCursorByDate(rows, i, cursor) ==
  cursor = None \/ TimeOf(rows[i]) < cursor.ts

\* (COALESCE(published_at, fetched_at), id) < (cursor)
AfterCursor(rows, i, cursor) ==
  \/ cursor = None
  \/ TimeOf(rows[i]) < cursor.ts
  \/ TimeOf(rows[i]) = cursor.ts /\ i < cursor.id

\* Each row of the page is the first of those that are left.
InOrder(rows, rest, page) ==
  \A n \in DOMAIN page :
    LET left == rest \ {page[m] : m \in 1..(n - 1)}
    IN /\ page[n] \in left
       /\ \A i \in left \ {page[n]} : Precedes(rows, page[n], i)

\* A page of the rows in `view`.
PageAfter(rows, view, cursor) ==
  LET rest == {i \in view : AfterCursor(rows, i, cursor)}
      size == IF Cardinality(rest) < Limit THEN Cardinality(rest) ELSE Limit
  IN CHOOSE page \in [1..size -> rest] : InOrder(rows, rest, page)

\* The handler: a short page is the last one.
NextCursor(rows, page) ==
  IF Len(page) = Limit THEN CursorFor(rows, Last(page)) ELSE None
=============================================================================
