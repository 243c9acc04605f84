------------------------------ MODULE Listings ------------------------------
(***************************************************************************)
(* The console walks the executions and the audit log page by page, newest *)
(* first, while rows are written and a demo workspace is reset.  A page of *)
(* executions continues before the createdAt of the last row shown, a page *)
(* of the audit log after the last row itself, which is looked up twice,   *)
(* each time by a query of its own.                                        *)
(*                                                                         *)
(* The time of a row is read before its transaction commits, so that it    *)
(* may be seen after a row with a later one; Skew bounds by how much.      *)
(***************************************************************************)
EXTENDS Integers, FiniteSets, Sequences, SequencesExt

CONSTANTS
  RowIds,    \* ids, random numbers in the code
  PageLimit, \* the limit the console asks for, 100
  MaxPages,  \* the pages the console asks for, 4
  Skew,      \* bound: how late a row may be seen
  MaxClock,  \* bound: the clock
  None

Row == [id : RowIds, at : 0..MaxClock]

ListingsAssumption ==
  /\ RowIds \subseteq Nat
  /\ {PageLimit, MaxPages} \subseteq Nat \ {0}
  /\ {Skew, MaxClock} \subseteq Nat
  /\ None \notin RowIds \cup Nat \cup Row

VARIABLES
  list,    \* "executions" or "audit"
  rows,    \* the workspace's rows
  clock,   \* the time
  unused,  \* ids no row has had
  walk,    \* where the console stands: "idle", "ask", "checked", "found", "done" or "failed"
  cursor,  \* the cursor of the next page
  place,   \* the row the cursor was looked up as, None if it was not there
  pages,   \* pages shown
  shown,   \* the rows shown, in order
  lasts,   \* history: the last row of each page
  since,   \* history: the rows that were there throughout the walk
  wasReset \* history: the workspace was reset during the walk

vars == <<list, rows, clock, unused, walk, cursor, place, pages, shown, lasts, since, wasReset>>
walking == <<walk, cursor, place, pages, shown, lasts>>

Init ==
  /\ list \in {"executions", "audit"}
  /\ rows = {} /\ clock = 0 /\ unused = RowIds
  /\ walk = "idle" /\ cursor = None /\ place = None /\ pages = 0
  /\ shown = <<>> /\ lasts = {} /\ since = {} /\ wasReset = FALSE

Insert(id, at) ==
  /\ id \in unused /\ at \in (clock - Skew)..clock /\ at >= 0
  /\ unused' = unused \ {id}
  /\ rows' = rows \cup {[id |-> id, at |-> at]}
  /\ UNCHANGED <<list, clock, walking, since, wasReset>>

Tick ==
  /\ clock < MaxClock /\ clock' = clock + 1
  /\ UNCHANGED <<list, rows, unused, walking, since, wasReset>>

\* deleteDemoMutableState: every execution and every entry of the audit log goes.
Reset ==
  /\ rows # {}
  /\ rows' = {} /\ since' = {}
  /\ wasReset' = (wasReset \/ walk \notin {"idle", "done", "failed"})
  /\ UNCHANGED <<list, clock, unused, walking>>

---------------------------------------------------------------------------
\* orderBy createdAt and id, both descending
Newer(r, s) == r.at > s.at \/ (r.at = s.at /\ r.id > s.id)
Sorted(S) ==
  CHOOSE s \in [1..Cardinality(S) -> S] :
    \A i, j \in 1..Cardinality(S) : i < j => Newer(s[i], s[j])

\* Seeded regression: the audit log continues by the time alone.
BeforeTime(r, s) == r.at < s.at
\* listForWorkspace: what comes after the cursor's row
AfterPlace(r, s) == r.at < s.at \/ (r.at = s.at /\ r.id < s.id)

\* The rows a query for one row more than the limit has to choose from.
Matching ==
  IF list = "executions"
  THEN {r \in rows : cursor = None \/ r.at < cursor}
  ELSE {r \in rows : place = None \/ AfterPlace(r, place)}

StartWalk ==
  /\ walk = "idle"
  /\ walk' = "ask" /\ since' = rows
  /\ UNCHANGED <<list, rows, clock, unused, cursor, place, pages, shown, lasts, wasReset>>

RowsWithId(id) == {r \in rows : r.id = id}

\* ListAuditLogsUseCase: a cursor that is no row of the workspace is refused.
CheckCursor ==
  /\ walk = "ask" /\ list = "audit" /\ cursor # None
  /\ walk' = IF RowsWithId(cursor) = {} THEN "failed" ELSE "checked"
  /\ UNCHANGED <<list, rows, clock, unused, cursor, place, pages, shown, lasts, since, wasReset>>

\* listForWorkspace: a row that is gone by now reads as no cursor.
FindCursor ==
  /\ walk = "checked"
  /\ walk' = "found"
  /\ IF RowsWithId(cursor) = {} THEN place' = None ELSE place' \in RowsWithId(cursor)
  /\ UNCHANGED <<list, rows, clock, unused, cursor, pages, shown, lasts, since, wasReset>>

\* The page is read and answered; the console appends it, and goes on while there is more.
Page ==
  LET records == Sorted(Matching)
      hasMore == Len(records) > PageLimit
      items == IF hasMore THEN SubSeq(records, 1, PageLimit) ELSE records IN
  /\ \/ walk = "ask" /\ (list = "executions" \/ cursor = None)
     \/ walk = "found"
  /\ shown' = shown \o items
  /\ pages' = pages + 1
  /\ place' = None
  /\ IF hasMore /\ pages' < MaxPages
     THEN /\ walk' = "ask"
          /\ cursor' = IF list = "executions" THEN Last(items).at ELSE Last(items).id
     ELSE walk' = "done" /\ cursor' = None
  /\ lasts' = IF hasMore THEN lasts \cup {Last(items)} ELSE lasts
  /\ UNCHANGED <<list, rows, clock, unused, since, wasReset>>

Next ==
  \/ \E id \in RowIds, at \in 0..MaxClock : Insert(id, at)
  \/ Tick \/ Reset
  \/ StartWalk \/ CheckCursor \/ FindCursor \/ Page

Spec == Init /\ [][Next]_vars

---------------------------------------------------------------------------
\* Whatever is written or reset during a walk, it shows no row twice; it shows them newest
\* first, unless the workspace is reset; and it shows every row that is there from its first
\* page to its last. The exceptions to that: rows older than the last page the console asks
\* for, and executions that were created in the same millisecond as the last one of a page.
ListedOnce ==
  /\ \A i, j \in DOMAIN shown :
       i < j => shown[i] # shown[j] /\ (wasReset \/ Newer(shown[i], shown[j]))
  /\ walk = "done" =>
       \A r \in since \ Range(shown) :
         \/ pages = MaxPages /\ ~Newer(r, Last(shown))
         \/ list = "executions" /\ \E s \in lasts : s.at = r.at
=============================================================================
