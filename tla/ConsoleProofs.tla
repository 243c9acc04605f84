--------------------------- MODULE ConsoleProofs ---------------------------
(***************************************************************************)
(* What the console shows and keeps, proved for every number of accounts,  *)
(* of calls under way, of runs, of rows, of steps and of keys: the steps   *)
(* are those of the run they are shown under, a walk through a list shows  *)
(* a row once, a draft stays acceptable, a session is not given up without *)
(* a cause, and the console and the API understand each other.             *)
(***************************************************************************)
EXTENDS ControlPlane, FiniteSetTheorems, SequenceTheorems, TLAPS

---------------------------------------------------------------------------
(***************************************************************************)
(* The runs: answers cross, but the steps that are held are the selected   *)
(* run's, or their answer is known to have crossed.                        *)
(***************************************************************************)

\* The steps held, whether the run is listed or not.
StepsInv == shownSteps # None => shownSteps = selected \/ crossed

LEMMA StepsInit == Init => StepsInv
BY DEF Init, WebConsole!Init, StepsInv

\* What leaves what is shown alone or clears it.
LEMMA ElsewhereKeepsSteps ==
  ASSUME StepsInv, UNCHANGED WebConsole!shown \/ WebConsole!SignedOut
  PROVE  StepsInv'
BY DEF StepsInv, WebConsole!shown, WebConsole!SignedOut, WebConsole!Cleared

LEMMA StepsStep == ASSUME StepsInv, WebConsole!Next PROVE StepsInv'
<1>1. ASSUME NEW a \in Accounts, WebConsole!RunStarts(a) PROVE StepsInv'
  BY <1>1, ElsewhereKeepsSteps DEF WebConsole!RunStarts
<1>2. CASE WebConsole!SignOut BY <1>2, ElsewhereKeepsSteps DEF WebConsole!SignOut
<1>3. ASSUME NEW c \in Calls, NEW a \in Accounts, WebConsole!Login(c, a) PROVE StepsInv'
  BY <1>3, ElsewhereKeepsSteps DEF WebConsole!Login
<1>4. ASSUME NEW c \in Calls, NEW e \in WebConsole!Runs, WebConsole!SelectExecution(c, e)
      PROVE  StepsInv'
  BY <1>4 DEF StepsInv, WebConsole!SelectExecution
<1>5. ASSUME NEW c \in Calls, NEW e, WebConsole!RefreshRuns(c, e) PROVE StepsInv'
  BY <1>5, ElsewhereKeepsSteps DEF WebConsole!RefreshRuns
<1>6. ASSUME NEW c \in Calls,
             \/ WebConsole!Reload(c) \/ WebConsole!RefreshSteps(c)
             \/ WebConsole!RunWorkflowCheck(c) \/ WebConsole!ResetDemo(c)
             \/ WebConsole!LoginAnswered(c) \/ WebConsole!ResetAnswered(c)
             \/ WebConsole!LoadServed(c) \/ WebConsole!RefreshServed(c)
             \/ WebConsole!RunServed(c) \/ WebConsole!CallFails(c)
      PROVE  StepsInv'
  BY <1>6, ElsewhereKeepsSteps
  DEF WebConsole!Reload, WebConsole!RefreshSteps, WebConsole!RunWorkflowCheck,
      WebConsole!ResetDemo, WebConsole!LoginAnswered, WebConsole!ResetAnswered,
      WebConsole!LoadServed, WebConsole!RefreshServed, WebConsole!RunServed,
      WebConsole!CallFails
<1>7. ASSUME NEW c \in Calls, WebConsole!LoadAnswered(c) PROVE StepsInv'
  BY <1>7 DEF StepsInv, WebConsole!LoadAnswered
<1>8. ASSUME NEW c \in Calls, WebConsole!PairAnswered(c) PROVE StepsInv'
  BY <1>8 DEF StepsInv, WebConsole!PairAnswered
<1>9. ASSUME NEW c \in Calls, WebConsole!SelectAnswered(c) PROVE StepsInv'
  BY <1>9 DEF StepsInv, WebConsole!SelectAnswered
<1>10. ASSUME NEW c \in Calls, WebConsole!StepsAnswered(c) PROVE StepsInv'
  BY <1>10 DEF StepsInv, WebConsole!StepsAnswered, WebConsole!Taken
<1>11. ASSUME NEW c \in Calls, WebConsole!Unauthorized(c) PROVE StepsInv'
  BY <1>11, ElsewhereKeepsSteps DEF WebConsole!Unauthorized
<1>. QED
  BY <1>1, <1>2, <1>3, <1>4, <1>5, <1>6, <1>7, <1>8, <1>9, <1>10, <1>11 DEF WebConsole!Next

\* Under a run that is listed the console shows that run's steps, however answers, polls and
\* sessions overlap, but for the answer to a selection that had moved on (selectExecution,
\* refreshExecutionData, refreshSelectedExecutionSteps).
THEOREM StepsAlwaysBelong == Spec => []StepsBelongToShownRun
<1>1. Init => StepsInv BY StepsInit
<1>2. (Only("console") /\ WebConsole!Next) \/ UNCHANGED console \/ ~[Next]_vars
  BY DEF Next, Only, vars
<1>3. StepsInv /\ UNCHANGED console => StepsInv' BY DEF StepsInv, console
<1>4. StepsInv /\ [Next]_vars => StepsInv' BY <1>2, <1>3, StepsStep
<1>5. StepsInv => StepsBelongToShownRun
  BY DEF StepsInv, StepsBelongToShownRun, WebConsole!StepsBelongToShownRun, WebConsole!Shown
<1>. QED BY <1>1, <1>4, <1>5, PTL DEF Spec

---------------------------------------------------------------------------
(***************************************************************************)
(* What is in an order can be put in a sequence.                           *)
(***************************************************************************)

\* R orders S: of two members one comes first.
Orders(R, S) ==
  /\ \A r \in S : <<r, r>> \notin R
  /\ \A r, q \in S : r # q => <<r, q>> \in R \/ <<q, r>> \in R
  /\ \A r, q, t \in S : <<r, q>> \in R /\ <<q, t>> \in R => <<r, t>> \in R

\* s has the members of S, n of them, in that order.
Sorts(s, n, R, S) ==
  s \in [1..n -> S] /\ \A i, j \in 1..n : i < j => <<s[i], s[j]>> \in R
\* s has every member of S, and none twice.
EachOnce(s, n, S) ==
  /\ \A i, j \in 1..n : s[i] = s[j] => i = j
  /\ \A r \in S : \E i \in 1..n : s[i] = r

\* A finite set can be sorted: every member goes where as many come before it.
LEMMA SortedExists ==
  ASSUME NEW S, IsFiniteSet(S), NEW R, Orders(R, S)
  PROVE  \E s : Sorts(s, Cardinality(S), R, S)
<1>. DEFINE n == Cardinality(S)
            Upto(r) == {x \in S : x = r \/ <<x, r>> \in R}
            rank == [r \in S |-> Cardinality(Upto(r))]
<1>1. n \in Nat BY FS_CardinalityType
<1>2. ASSUME NEW r \in S PROVE rank[r] \in 1..n
  <2>1. Upto(r) \in SUBSET S OBVIOUS
  <2>2. IsFiniteSet(Upto(r)) /\ Cardinality(Upto(r)) <= n BY <2>1, FS_Subset
  <2>3. Cardinality(Upto(r)) \in Nat BY <2>2, FS_CardinalityType
  <2>4. Upto(r) # {} OBVIOUS
  <2>5. Cardinality(Upto(r)) # 0 BY <2>2, <2>4, FS_EmptySet
  <2>. QED BY <1>1, <2>2, <2>3, <2>5
<1>3. ASSUME NEW r \in S, NEW q \in S, <<r, q>> \in R PROVE rank[r] < rank[q]
  <2>1. Upto(q) \in SUBSET S /\ Upto(r) \in SUBSET Upto(q) /\ q \notin Upto(r) /\ q \in Upto(q)
    BY <1>3 DEF Orders
  <2>2. IsFiniteSet(Upto(q)) BY <2>1, FS_Subset
  <2>3. /\ Cardinality(Upto(r)) <= Cardinality(Upto(q))
        /\ Cardinality(Upto(q)) = Cardinality(Upto(r)) => Upto(q) = Upto(r)
    BY <2>1, <2>2, FS_Subset
  <2>4. Cardinality(Upto(r)) # Cardinality(Upto(q)) BY <2>1, <2>3
  <2>. QED BY <1>1, <1>2, <2>3, <2>4
<1>4. rank \in Injection(S, 1..n)
  <2>1. rank \in [S -> 1..n] BY <1>2
  <2>2. ASSUME NEW r \in S, NEW q \in S, r # q PROVE rank[r] # rank[q]
    <3>1. <<r, q>> \in R \/ <<q, r>> \in R BY <2>2 DEF Orders
    <3>2. rank[r] < rank[q] \/ rank[q] < rank[r] BY <1>3, <3>1
    <3>. QED BY <1>1, <1>2, <3>2
  <2>. QED BY <2>1, <2>2 DEF Injection, IsInjective
<1>5. IsFiniteSet(1..n) /\ Cardinality(1..n) = n BY <1>1, FS_Interval
<1>6. rank \in Surjection(S, 1..n) BY <1>4, <1>5, FS_Injection
<1>. HIDE DEF rank, n
<1>7. \A i \in 1..n : \E r \in S : rank[r] = i BY <1>6 DEF Surjection
<1>8. PICK s : s = [i \in 1..n |-> CHOOSE r \in S : rank[r] = i] OBVIOUS
<1>9. ASSUME NEW i \in 1..n PROVE s[i] \in S /\ rank[s[i]] = i BY <1>7, <1>8, <1>9
<1>10. ASSUME NEW i \in 1..n, NEW j \in 1..n, i < j PROVE <<s[i], s[j]>> \in R
  <2>1. s[i] # s[j] /\ ~(rank[s[j]] < rank[s[i]]) BY <1>1, <1>9, <1>10
  <2>. QED BY <1>3, <1>9, <2>1 DEF Orders
<1>11. s \in [1..n -> S] BY <1>8, <1>9
<1>. QED BY <1>10, <1>11 DEF n, Sorts

\* Sorted, it has every member once.
LEMMA SortedIsAll ==
  ASSUME NEW S, IsFiniteSet(S), NEW R, Orders(R, S), NEW n, n = Cardinality(S),
         NEW s, Sorts(s, n, R, S)
  PROVE  EachOnce(s, n, S)
<1>1. n \in Nat BY FS_CardinalityType
<1>2. ASSUME NEW i \in 1..n, NEW j \in 1..n, i # j PROVE s[i] # s[j]
  <2>1. i < j \/ j < i BY <1>1, <1>2
  <2>. QED BY <2>1 DEF Orders, Sorts
<1>3. s \in Injection(1..n, S) BY <1>2 DEF Sorts, Injection, IsInjective
<1>4. IsFiniteSet(1..n) /\ Cardinality(1..n) = n BY <1>1, FS_Interval
<1>5. s \in Surjection(1..n, S) BY <1>3, <1>4, FS_Injection
<1>. QED BY <1>2, <1>5 DEF Surjection, EachOnce

---------------------------------------------------------------------------
(***************************************************************************)
(* The lists: a page is sorted, whatever rows it is read from.             *)
(***************************************************************************)

\* Times and ids are numbers, and no two of the rows share an id.
Rows(S) ==
  /\ \A r \in S : r.id \in Nat /\ r.at \in Nat
  /\ \A r, q \in S : r.id = q.id => r = q

\* Newest first is a strict order, and of two rows one comes first.
LEMMA NewerOrders ==
  ASSUME NEW S, Rows(S)
  PROVE  /\ \A r \in S : ~Lists!Newer(r, r)
         /\ \A r, q \in S : r # q => Lists!Newer(r, q) \/ Lists!Newer(q, r)
         /\ \A r, q \in S : Lists!Newer(r, q) => ~Lists!Newer(q, r)
         /\ \A r, q, t \in S : Lists!Newer(r, q) /\ Lists!Newer(q, t) => Lists!Newer(r, t)
BY DEF Rows, Lists!Newer

\* So the rows that a page is read from come sorted, each of them once.
LEMMA SortedIs ==
  ASSUME NEW S, IsFiniteSet(S), Rows(S)
  PROVE  /\ Cardinality(S) \in Nat
         /\ Lists!Sorted(S) \in [1..Cardinality(S) -> S]
         /\ \A i, j \in 1..Cardinality(S) :
              i < j => Lists!Newer(Lists!Sorted(S)[i], Lists!Sorted(S)[j])
         /\ \A r \in S : \E i \in 1..Cardinality(S) : Lists!Sorted(S)[i] = r
<1>1. PICK n : n = Cardinality(S) OBVIOUS
<1>2. PICK s : s = Lists!Sorted(S) OBVIOUS
<1>3. PICK R : R = {p \in S \X S : Lists!Newer(p[1], p[2])} OBVIOUS
<1>4. \A r, q \in S : <<r, q>> \in R <=> Lists!Newer(r, q) BY <1>3
<1>5. Orders(R, S) BY <1>4, NewerOrders DEF Orders
<1>6. n \in Nat BY <1>1, FS_CardinalityType
<1>7. s \in [1..n -> S] /\ \A i, j \in 1..n : i < j => Lists!Newer(s[i], s[j])
  <2>1. \E t : Sorts(t, n, R, S) BY <1>1, <1>5, SortedExists
  <2>2. \E t \in [1..n -> S] : \A i, j \in 1..n : i < j => Lists!Newer(t[i], t[j])
    BY <1>4, <2>1 DEF Sorts
  <2>3. Lists!Cardinality(S) = n BY <1>1 DEF Lists!Cardinality, Cardinality
  <2>4. s = CHOOSE t \in [1..n -> S] : \A i, j \in 1..n : i < j => Lists!Newer(t[i], t[j])
    BY <1>2, <2>3 DEF Lists!Sorted
  <2>. QED BY <2>2, <2>4
<1>8. Sorts(s, n, R, S) BY <1>4, <1>7 DEF Sorts
<1>9. EachOnce(s, n, S) BY <1>1, <1>5, <1>8, SortedIsAll
<1>. QED BY <1>1, <1>2, <1>6, <1>7, <1>9 DEF EachOnce

---------------------------------------------------------------------------
(***************************************************************************)
(* The walk: what a page is told by its cursor, and what that leaves of    *)
(* the rows that are shown and of those that are still to come.            *)
(***************************************************************************)

Seen(s) == {s[i] : i \in 1..Len(s)}
LastShown == shown[Len(shown)]
Underway == {"ask", "checked", "found"}
Left == since \ Seen(shown)
ByTime(r) == list = "executions" /\ \E s \in lasts : s.at = r.at

\* The rows there are and the rows shown are rows, and no new one has an id of theirs.
RowsInv ==
  /\ IsFiniteSet(listRows) /\ listRows \subseteq Lists!Row /\ shown \in Seq(Lists!Row)
  /\ Rows(listRows \cup Seen(shown))
  /\ \A r \in listRows \cup Seen(shown) : r.id \notin unused
  /\ since \subseteq listRows
\* Where the walk stands.
WalkInv ==
  /\ list \in {"executions", "audit"}
  /\ walk \in Underway \cup {"idle", "done", "failed"}
  /\ list = "executions" => walk \notin {"checked", "found"}
  /\ pages \in Nat
  /\ walk \in Underway \cup {"idle"} => pages < MaxPages
  /\ walk = "idle" => shown = <<>> /\ cursor = None /\ ~wasReset
  /\ walk \in Underway /\ cursor = None => walk = "ask" /\ shown = <<>>
  /\ walk # "found" => place = None
  /\ wasReset => since = {}
\* The cursor names the last row shown; of the rows shown that are still there, none comes
\* after that one; and a cursor that is not found has none of them before it.
CursorInv ==
  walk \in Underway /\ cursor # None =>
    /\ shown # <<>>
    /\ list = "executions" =>
         /\ cursor = LastShown.at /\ LastShown \in lasts
         /\ \A r \in Seen(shown) : r.at >= cursor
    /\ list = "audit" =>
         /\ cursor = LastShown.id
         /\ \A r \in listRows \cap Seen(shown) :
              LastShown \in listRows /\ (r = LastShown \/ Lists!Newer(r, LastShown))
         /\ ~wasReset => Seen(shown) \subseteq listRows
         /\ walk = "found" =>
              \/ place = LastShown
              \/ place = None /\ wasReset /\ listRows \cap Seen(shown) = {}
\* What ListedOnce says of the rows shown, and of those that are not.
ShownInv ==
  \A i, j \in 1..Len(shown) :
    i < j => shown[i] # shown[j] /\ (wasReset \/ Lists!Newer(shown[i], shown[j]))
LeftInv ==
  /\ walk \in Underway /\ cursor # None =>
       \A r \in Left : Lists!Newer(LastShown, r) \/ ByTime(r)
  /\ walk = "done" =>
       \A r \in Left : (pages = MaxPages /\ ~Lists!Newer(r, LastShown)) \/ ByTime(r)
ListingInv == RowsInv /\ WalkInv /\ CursorInv /\ ShownInv /\ LeftInv

LEMMA ListingImplies == ListingInv => Lists!ListedOnce
<1>. SUFFICES ASSUME ListingInv PROVE Lists!ListedOnce OBVIOUS
<1>1. shown \in Seq(Lists!Row) BY DEF ListingInv, RowsInv
<1>2. DOMAIN shown = 1..Len(shown) BY <1>1
<1>3. Lists!Range(shown) = Seen(shown) BY <1>2 DEF Lists!Range, Seen
<1>4. Lists!Last(shown) = LastShown BY DEF Lists!Last, LastShown
<1>5. \A i, j \in DOMAIN shown :
        i < j => shown[i] # shown[j] /\ (wasReset \/ Lists!Newer(shown[i], shown[j]))
  BY <1>2 DEF ListingInv, ShownInv
<1>6. walk = "done" =>
        \A r \in since \ Lists!Range(shown) :
          \/ pages = MaxPages /\ ~Lists!Newer(r, Lists!Last(shown))
          \/ list = "executions" /\ \E s \in lasts : s.at = r.at
  BY <1>3, <1>4 DEF ListingInv, LeftInv, Left, ByTime
<1>. QED BY <1>5, <1>6 DEF Lists!ListedOnce

LEMMA ListingInit == Init => ListingInv
<1>. SUFFICES ASSUME Init PROVE ListingInv OBVIOUS
<1>1. list \in {"executions", "audit"} BY DEF Init, Lists!Init
<1>2. /\ listRows = {} /\ walk = "idle" /\ cursor = None /\ place = None /\ pages = 0
      /\ shown = <<>> /\ lasts = {} /\ since = {} /\ wasReset = FALSE
  BY DEF Init, Lists!Init
<1>3. 0 < MaxPages BY ControlPlaneAssumption DEF Lists!ListingsAssumption
<1>4. Seen(<<>>) = {} BY DEF Seen
<1>. QED
  BY <1>1, <1>2, <1>3, <1>4, FS_EmptySet
  DEF ListingInv, RowsInv, Rows, WalkInv, CursorInv, ShownInv, LeftInv, Left, Underway

LEMMA LastIsShown ==
  ASSUME ListingInv, shown # <<>>
  PROVE  LastShown \in Seen(shown) /\ LastShown \in Lists!Row /\ LastShown # None
<1>1. shown \in Seq(Lists!Row) BY DEF ListingInv, RowsInv
<1>2. Len(shown) \in Nat /\ Len(shown) # 0 BY <1>1
<1>3. LastShown \in Seen(shown) /\ LastShown \in Lists!Row
  BY <1>1, <1>2 DEF Seen, LastShown
<1>. QED BY <1>3, ControlPlaneAssumption DEF Lists!ListingsAssumption

\* A row is written under an id that no row had.
LEMMA InsertKeepsListing ==
  ASSUME ListingInv, NEW id_ \in RowIds, NEW at_ \in 0..MaxClock, Lists!Insert(id_, at_)
  PROVE  ListingInv'
<1>1. /\ id_ \in Nat /\ at_ \in Nat
  BY ControlPlaneAssumption DEF Lists!ListingsAssumption
<1>2. PICK new : new = [id |-> id_, at |-> at_] OBVIOUS
<1>3. new \in Lists!Row /\ new.id = id_ /\ new.at = at_ BY <1>2 DEF Lists!Row
<1>4. /\ id_ \in unused /\ unused' = unused \ {id_} /\ listRows' = listRows \cup {new}
      /\ UNCHANGED <<list, walk, cursor, place, pages, shown, lasts, since, wasReset>>
  BY <1>2 DEF Lists!Insert, Lists!walking
<1>5. Seen(shown)' = Seen(shown) /\ LastShown' = LastShown
  BY <1>4 DEF Seen, LastShown
<1>6. new \notin listRows /\ new \notin Seen(shown)
  BY <1>3, <1>4 DEF ListingInv, RowsInv
<1>7. RowsInv'
  <2>1. IsFiniteSet(listRows') BY <1>4, FS_AddElement DEF ListingInv, RowsInv
  <2>2. Rows((listRows \cup {new}) \cup Seen(shown))
    BY <1>1, <1>3, <1>4 DEF ListingInv, RowsInv, Rows
  <2>. QED BY <1>3, <1>4, <1>5, <2>1, <2>2 DEF ListingInv, RowsInv
<1>8. CursorInv'
  <2>1. listRows' \cap Seen(shown) = listRows \cap Seen(shown) BY <1>4, <1>6
  <2>. QED BY <1>4, <1>5, <2>1 DEF ListingInv, CursorInv
<1>. QED
  BY <1>4, <1>5, <1>7, <1>8
  DEF ListingInv, WalkInv, ShownInv, LeftInv, Left, ByTime

LEMMA ResetKeepsListing == ASSUME ListingInv, Lists!Reset PROVE ListingInv'
<1>1. /\ listRows' = {} /\ since' = {}
      /\ wasReset' = (wasReset \/ walk \notin {"idle", "done", "failed"})
      /\ UNCHANGED <<list, unused, walk, cursor, place, pages, shown, lasts>>
  BY DEF Lists!Reset, Lists!walking
<1>2. Seen(shown)' = Seen(shown) /\ LastShown' = LastShown
  BY <1>1 DEF Seen, LastShown
<1>3. RowsInv' BY <1>1, <1>2, FS_EmptySet DEF ListingInv, RowsInv, Rows
<1>4. WalkInv' BY <1>1 DEF ListingInv, WalkInv
<1>5. CursorInv' BY <1>1, <1>2 DEF ListingInv, WalkInv, CursorInv, Underway
<1>. QED
  BY <1>1, <1>2, <1>3, <1>4, <1>5 DEF ListingInv, ShownInv, LeftInv, Left

LEMMA WalkKeepsListing ==
  ASSUME ListingInv, Lists!Tick \/ Lists!StartWalk \/ Lists!CheckCursor \/ Lists!FindCursor
  PROVE  ListingInv'
<1>1. /\ UNCHANGED <<list, listRows, unused, cursor, pages, shown, lasts, wasReset>>
  BY DEF Lists!Tick, Lists!StartWalk, Lists!CheckCursor, Lists!FindCursor, Lists!walking
<1>2. Seen(shown)' = Seen(shown) /\ LastShown' = LastShown
  BY <1>1 DEF Seen, LastShown
<1>3. CASE Lists!Tick
  BY <1>1, <1>2, <1>3
  DEF ListingInv, RowsInv, WalkInv, CursorInv, ShownInv, LeftInv, Left, ByTime, Lists!Tick,
      Lists!walking
<1>4. CASE Lists!StartWalk
  BY <1>1, <1>2, <1>4
  DEF ListingInv, RowsInv, WalkInv, CursorInv, ShownInv, LeftInv, Left, ByTime, Underway,
      Lists!StartWalk
<1>5. CASE Lists!CheckCursor
  BY <1>1, <1>2, <1>5
  DEF ListingInv, RowsInv, WalkInv, CursorInv, ShownInv, LeftInv, Left, ByTime, Underway,
      Lists!CheckCursor
<1>6. CASE Lists!FindCursor
  <2>1. walk = "checked" /\ walk' = "found" /\ UNCHANGED since
    BY <1>6 DEF Lists!FindCursor
  <2>2. cursor # None /\ list = "audit" /\ cursor = LastShown.id /\ shown # <<>>
    BY <2>1 DEF ListingInv, WalkInv, CursorInv, Underway
  <2>3. LastShown \in Seen(shown) BY <2>2, LastIsShown
  <2>4. CASE Lists!RowsWithId(cursor) = {}
    <3>1. LastShown \notin listRows BY <2>2, <2>4 DEF Lists!RowsWithId
    <3>2. listRows \cap Seen(shown) = {}
      BY <2>1, <2>2, <3>1 DEF ListingInv, CursorInv, Underway
    <3>3. wasReset BY <2>1, <2>2, <2>3, <3>1 DEF ListingInv, CursorInv, Underway
    <3>4. place' = None BY <1>6, <2>4 DEF Lists!FindCursor
    <3>5. CursorInv' BY <1>1, <1>2, <2>1, <2>2, <3>2, <3>3, <3>4
      DEF ListingInv, CursorInv, Underway
    <3>. QED BY <1>1, <1>2, <2>1, <2>2, <3>5
      DEF ListingInv, RowsInv, WalkInv, ShownInv, LeftInv, Left, ByTime, Underway
  <2>5. CASE Lists!RowsWithId(cursor) # {}
    <3>1. place' \in listRows /\ place'.id = cursor
      BY <1>6, <2>5 DEF Lists!FindCursor, Lists!RowsWithId
    <3>2. place' = LastShown BY <2>2, <2>3, <3>1 DEF ListingInv, RowsInv, Rows
    <3>3. CursorInv' BY <1>1, <1>2, <2>1, <2>2, <3>2 DEF ListingInv, CursorInv, Underway
    <3>. QED BY <1>1, <1>2, <2>1, <2>2, <3>3
      DEF ListingInv, RowsInv, WalkInv, ShownInv, LeftInv, Left, ByTime, Underway
  <2>. QED BY <2>4, <2>5
<1>. QED BY <1>3, <1>4, <1>5, <1>6

\* What is read for a page: rows that match, sorted, and all of them or the first ones.
PageOf(items, more) ==
  /\ items \in Seq(Lists!Matching)
  /\ \A i, j \in 1..Len(items) : i < j => Lists!Newer(items[i], items[j])
  /\ more =>
       /\ items # <<>>
       /\ \A r \in Lists!Matching \ Seen(items) : Lists!Newer(items[Len(items)], r)
  /\ ~more => Lists!Matching \subseteq Seen(items)

\* What the console makes of it.
Taking(items, more) ==
  /\ shown' = shown \o items
  /\ IF more /\ pages' < MaxPages
     THEN /\ walk' = "ask"
          /\ cursor' = IF list = "executions" THEN items[Len(items)].at
                       ELSE items[Len(items)].id
     ELSE walk' = "done" /\ cursor' = None
  /\ lasts' = IF more THEN lasts \cup {items[Len(items)]} ELSE lasts

LEMMA PageReads ==
  ASSUME ListingInv, Lists!Page
  PROVE  \E items : \E more \in BOOLEAN : PageOf(items, more) /\ Taking(items, more)
<1>1. PICK M : M = Lists!Matching OBVIOUS
<1>2. PICK s : s = Lists!Sorted(M) OBVIOUS
<1>3. PICK n : n = Cardinality(M) OBVIOUS
<1>4. M \subseteq listRows BY <1>1 DEF Lists!Matching
<1>5. IsFiniteSet(M) /\ Rows(M)
  BY <1>4, FS_Subset DEF ListingInv, RowsInv, Rows
<1>6. /\ n \in Nat /\ s \in [1..n -> M]
      /\ \A i, j \in 1..n : i < j => Lists!Newer(s[i], s[j])
      /\ \A r \in M : \E i \in 1..n : s[i] = r
  BY <1>2, <1>3, <1>5, SortedIs
<1>7. s \in Seq(M) /\ Len(s) = n BY <1>6
<1>8. PageLimit \in Nat /\ PageLimit > 0
  BY ControlPlaneAssumption DEF Lists!ListingsAssumption
<1>9. PICK more : more = (Len(s) > PageLimit) OBVIOUS
<1>10. PICK items : items = IF more THEN SubSeq(s, 1, PageLimit) ELSE s OBVIOUS
<1>11. Lists!Last(items) = items[Len(items)] BY DEF Lists!Last
<1>12. Taking(items, more)
  BY <1>1, <1>2, <1>9, <1>10, <1>11 DEF Lists!Page, Taking
<1>13. more \in BOOLEAN BY <1>9
<1>14. PageOf(items, more)
  <2>1. CASE more
    <3>1. n > PageLimit /\ items = SubSeq(s, 1, PageLimit) BY <1>7, <1>9, <1>10, <2>1
    <3>2. /\ Len(items) = PageLimit /\ items \in Seq(M)
          /\ \A i \in 1..PageLimit : items[i] = s[i]
      BY <1>6, <1>7, <1>8, <3>1
    <3>3. ASSUME NEW r \in M \ Seen(items) PROVE Lists!Newer(items[PageLimit], r)
      <4>1. PICK i \in 1..n : s[i] = r BY <1>6
      <4>2. i > PageLimit BY <1>6, <1>8, <3>2, <3>3, <4>1 DEF Seen
      <4>3. Lists!Newer(s[PageLimit], s[i]) BY <1>6, <1>8, <3>1, <4>2
      <4>. QED BY <1>8, <3>2, <4>1, <4>3
    <3>4. \A i, j \in 1..PageLimit : i < j => Lists!Newer(items[i], items[j])
      BY <1>6, <1>8, <3>1, <3>2
    <3>. QED BY <1>1, <1>8, <2>1, <3>2, <3>3, <3>4 DEF PageOf
  <2>2. CASE ~more
    <3>1. items = s BY <1>10, <2>2
    <3>2. M \subseteq Seen(items) BY <1>6, <1>7, <3>1 DEF Seen
    <3>. QED BY <1>1, <1>6, <1>7, <2>2, <3>1, <3>2 DEF PageOf
  <2>. QED BY <1>13, <2>1, <2>2
<1>. QED BY <1>12, <1>13, <1>14

\* No row of the page was shown; what was shown comes before it, unless the workspace was
\* reset; and executions continue before the cursor.
LEMMA PageContinues ==
  ASSUME ListingInv, walk \in Underway, NEW q \in Lists!Matching,
         list = "executions" \/ cursor = None \/ walk = "found"
  PROVE  /\ q \in listRows /\ q \notin Seen(shown)
         /\ ~wasReset => \A r \in Seen(shown) : Lists!Newer(r, q)
         /\ list = "executions" => \A r \in Seen(shown) : q.at < r.at
<1>1. q \in listRows BY DEF Lists!Matching
<1>2. CASE cursor = None BY <1>1, <1>2 DEF ListingInv, WalkInv, Seen
<1>3. CASE cursor # None /\ list = "executions"
  <2>1. ASSUME NEW r \in Seen(shown) PROVE q.at < r.at
    <3>1. q.at < cursor BY <1>3 DEF Lists!Matching
    <3>2. r.at >= cursor /\ cursor = LastShown.at BY <1>3 DEF ListingInv, CursorInv
    <3>3. LastShown \in Seen(shown) BY <1>3, LastIsShown DEF ListingInv, CursorInv
    <3>4. q.at \in Nat /\ r.at \in Nat /\ cursor \in Nat
      BY <1>1, <3>2, <3>3 DEF ListingInv, RowsInv, Rows
    <3>. QED BY <3>1, <3>2, <3>4
  <2>2. q \notin Seen(shown)
    <3>1. q.at \in Nat BY <1>1 DEF ListingInv, RowsInv, Rows
    <3>. QED BY <2>1, <3>1
  <2>3. \A r \in Seen(shown) : Lists!Newer(r, q)
    <3>1. ASSUME NEW r \in Seen(shown) PROVE Lists!Newer(r, q)
      <4>1. q.at \in Nat /\ r.at \in Nat BY <1>1 DEF ListingInv, RowsInv, Rows
      <4>. QED BY <2>1, <4>1 DEF Lists!Newer
    <3>. QED BY <3>1
  <2>. QED BY <1>1, <2>1, <2>2, <2>3
<1>4. CASE cursor # None /\ list = "audit" /\ place = None
  <2>1. LastShown # None BY <1>4, LastIsShown DEF ListingInv, CursorInv
  <2>. QED BY <1>1, <1>4, <2>1 DEF ListingInv, CursorInv
<1>5. CASE cursor # None /\ list = "audit" /\ place # None
  <2>1. walk = "found" /\ place = LastShown BY <1>5 DEF ListingInv, WalkInv, CursorInv
  <2>2. Lists!AfterPlace(q, LastShown) BY <1>5, <2>1 DEF Lists!Matching
  <2>3. LastShown \in Seen(shown) BY <1>5, LastIsShown DEF ListingInv, CursorInv
  <2>4. Lists!Newer(LastShown, q) /\ ~Lists!Newer(q, LastShown) /\ q # LastShown
    <3>1. /\ q.id \in Nat /\ q.at \in Nat /\ LastShown.id \in Nat /\ LastShown.at \in Nat
      BY <1>1, <2>3 DEF ListingInv, RowsInv, Rows
    <3>. QED BY <2>2, <3>1 DEF Lists!AfterPlace, Lists!Newer
  <2>5. q \notin Seen(shown) BY <1>1, <1>5, <2>4 DEF ListingInv, CursorInv
  <2>6. ASSUME ~wasReset, NEW r \in Seen(shown) PROVE Lists!Newer(r, q)
    <3>1. r = LastShown \/ Lists!Newer(r, LastShown)
      BY <1>5, <2>6 DEF ListingInv, CursorInv
    <3>2. Rows(listRows \cup Seen(shown)) BY DEF ListingInv, RowsInv
    <3>. QED BY <1>1, <2>3, <2>4, <3>1, <3>2, NewerOrders
  <2>. QED BY <1>1, <1>5, <2>5, <2>6
<1>. QED BY <1>2, <1>3, <1>4, <1>5 DEF ListingInv, WalkInv

\* A page appended to what was shown.
LEMMA AppendedPage ==
  ASSUME ListingInv, NEW items, NEW more \in BOOLEAN, PageOf(items, more), Taking(items, more)
  PROVE  /\ items \in Seq(Lists!Row) /\ Seen(items) \subseteq Lists!Matching
         /\ shown' \in Seq(Lists!Row) /\ Seen(shown)' = Seen(shown) \cup Seen(items)
         /\ Len(shown') = Len(shown) + Len(items)
         /\ \A i \in 1..Len(shown') :
              shown'[i] = IF i <= Len(shown) THEN shown[i] ELSE items[i - Len(shown)]
         /\ items # <<>> =>
              /\ LastShown' = items[Len(items)] /\ items[Len(items)] \in Seen(items)
              /\ \A q \in Seen(items) :
                   q = items[Len(items)] \/ Lists!Newer(q, items[Len(items)])
<1>1. shown \in Seq(Lists!Row) /\ listRows \subseteq Lists!Row BY DEF ListingInv, RowsInv
<1>2. items \in Seq(Lists!Matching) BY DEF PageOf
<1>3. Lists!Matching \subseteq listRows BY DEF Lists!Matching
<1>4. /\ items \in Seq(Lists!Row) /\ Len(items) \in Nat /\ Len(shown) \in Nat
      /\ \A i \in 1..Len(items) : items[i] \in Lists!Matching
  BY <1>1, <1>2, <1>3
<1>5. shown' = shown \o items BY DEF Taking
<1>6. /\ shown' \in Seq(Lists!Row) /\ Len(shown') = Len(shown) + Len(items)
      /\ \A i \in 1..Len(shown') :
           shown'[i] = IF i <= Len(shown) THEN shown[i] ELSE items[i - Len(shown)]
  BY <1>1, <1>4, <1>5
<1>7. Seen(shown)' = Seen(shown) \cup Seen(items)
  <2>1. ASSUME NEW r \in Seen(shown)' PROVE r \in Seen(shown) \cup Seen(items)
    <3>1. PICK i \in 1..Len(shown') : r = shown'[i] BY <2>1 DEF Seen
    <3>2. CASE i <= Len(shown) BY <1>4, <1>6, <3>1, <3>2 DEF Seen
    <3>3. CASE i > Len(shown)
      <4>1. i - Len(shown) \in 1..Len(items) /\ r = items[i - Len(shown)]
        BY <1>4, <1>6, <3>1, <3>3
      <4>. QED BY <4>1 DEF Seen
    <3>. QED BY <1>4, <3>1, <3>2, <3>3
  <2>2. ASSUME NEW r \in Seen(shown) PROVE r \in Seen(shown)'
    <3>1. PICK i \in 1..Len(shown) : r = shown[i] BY <2>2 DEF Seen
    <3>2. i \in 1..Len(shown') /\ r = shown'[i] BY <1>4, <1>6, <3>1
    <3>. QED BY <3>2 DEF Seen
  <2>3. ASSUME NEW r \in Seen(items) PROVE r \in Seen(shown)'
    <3>1. PICK i \in 1..Len(items) : r = items[i] BY <2>3 DEF Seen
    <3>2. i + Len(shown) \in 1..Len(shown') /\ r = shown'[i + Len(shown)]
      BY <1>4, <1>6, <3>1
    <3>. QED BY <3>2 DEF Seen
  <2>. QED BY <2>1, <2>2, <2>3
<1>8. ASSUME items # <<>>
      PROVE  /\ LastShown' = items[Len(items)] /\ items[Len(items)] \in Seen(items)
             /\ \A q \in Seen(items) :
                  q = items[Len(items)] \/ Lists!Newer(q, items[Len(items)])
  <2>1. Len(items) # 0 BY <1>4, <1>8
  <2>2. LastShown' = items[Len(items)] BY <1>4, <1>6, <2>1 DEF LastShown
  <2>3. items[Len(items)] \in Seen(items) BY <1>4, <2>1 DEF Seen
  <2>4. ASSUME NEW q \in Seen(items)
        PROVE  q = items[Len(items)] \/ Lists!Newer(q, items[Len(items)])
    <3>1. PICK i \in 1..Len(items) : q = items[i] BY <2>4 DEF Seen
    <3>2. i < Len(items) \/ i = Len(items) BY <1>4, <3>1
    <3>. QED BY <1>4, <2>1, <3>1, <3>2 DEF PageOf
  <2>. QED BY <2>2, <2>3, <2>4
<1>9. Seen(items) \subseteq Lists!Matching BY <1>4 DEF Seen
<1>. QED BY <1>4, <1>6, <1>7, <1>8, <1>9

LEMMA PageKeepsListing == ASSUME ListingInv, Lists!Page PROVE ListingInv'
<1>1. PICK items : \E more \in BOOLEAN : PageOf(items, more) /\ Taking(items, more)
  BY PageReads
<1>2. PICK more \in BOOLEAN : PageOf(items, more) /\ Taking(items, more) BY <1>1
<1>3. /\ walk \in Underway /\ (list = "executions" \/ cursor = None \/ walk = "found")
      /\ pages' = pages + 1 /\ place' = None
      /\ UNCHANGED <<list, listRows, unused, since, wasReset>>
  BY DEF Lists!Page, Underway
<1>4. /\ items \in Seq(Lists!Row) /\ Seen(items) \subseteq Lists!Matching
      /\ shown' \in Seq(Lists!Row) /\ Seen(shown)' = Seen(shown) \cup Seen(items)
      /\ Len(shown') = Len(shown) + Len(items)
      /\ \A i \in 1..Len(shown') :
           shown'[i] = IF i <= Len(shown) THEN shown[i] ELSE items[i - Len(shown)]
  BY <1>2, AppendedPage
<1>5. PICK last : last = items[Len(items)] OBVIOUS
<1>6. more =>
        /\ items # <<>> /\ LastShown' = last /\ last \in Seen(items)
        /\ \A q \in Seen(items) : q = last \/ Lists!Newer(q, last)
        /\ \A r \in Lists!Matching \ Seen(items) : Lists!Newer(last, r)
  BY <1>2, <1>5, AppendedPage DEF PageOf
<1>7. ~more => Lists!Matching \subseteq Seen(items) BY <1>2 DEF PageOf
<1>8. \A q \in Lists!Matching :
        /\ q \in listRows /\ q \notin Seen(shown)
        /\ ~wasReset => \A r \in Seen(shown) : Lists!Newer(r, q)
        /\ list = "executions" => \A r \in Seen(shown) : q.at < r.at
  BY <1>3, PageContinues
<1>9. RowsInv'
  <2>1. Seen(shown)' \subseteq listRows \cup Seen(shown) BY <1>4, <1>8
  <2>2. listRows' \cup Seen(shown)' = listRows \cup Seen(shown) BY <1>3, <2>1, <1>4
  <2>. QED BY <1>3, <1>4, <2>2 DEF ListingInv, RowsInv, Rows
<1>10. /\ pages \in Nat /\ pages < MaxPages /\ MaxPages \in Nat
  BY <1>3, ControlPlaneAssumption DEF ListingInv, WalkInv, Lists!ListingsAssumption
<1>11. \/ /\ more /\ walk' = "ask" /\ pages' < MaxPages
          /\ cursor' = IF list = "executions" THEN last.at ELSE last.id
       \/ /\ walk' = "done" /\ cursor' = None /\ (more => pages' = MaxPages)
  BY <1>2, <1>3, <1>5, <1>10 DEF Taking
<1>12. more => last \in Lists!Row /\ last.at \in Nat /\ last.id \in RowIds
  <2>1. last \in Lists!Row => last.at \in Nat /\ last.id \in RowIds
    BY ControlPlaneAssumption DEF Lists!ListingsAssumption, Lists!Row
  <2>. QED BY <1>6, <1>4, <1>8, <2>1 DEF ListingInv, RowsInv
<1>13. WalkInv'
  <2>1. walk' = "ask" => cursor' # None
    BY <1>11, <1>12, ControlPlaneAssumption DEF Lists!ListingsAssumption
  <2>. QED BY <1>3, <1>10, <1>11, <2>1 DEF ListingInv, WalkInv, Underway
<1>14. lasts' = IF more THEN lasts \cup {last} ELSE lasts BY <1>2, <1>5 DEF Taking
<1>15. CursorInv'
  <2>. SUFFICES ASSUME walk' = "ask" PROVE CursorInv'
    BY <1>11 DEF CursorInv, Underway
  <2>1. /\ more /\ cursor' = IF list = "executions" THEN last.at ELSE last.id
        /\ LastShown' = last /\ last \in Seen(items) /\ last \in Lists!Matching
    BY <1>4, <1>6, <1>11
  <2>2. shown' # <<>> BY <1>4, <1>6, <2>1
  <2>3. CASE list = "executions"
    <3>1. ASSUME NEW r \in Seen(shown)' PROVE r.at >= last.at
      <4>1. r.at \in Nat /\ last.at \in Nat
        BY <1>4, <1>8, <2>1, <3>1 DEF ListingInv, RowsInv, Rows
      <4>2. CASE r \in Seen(shown) BY <1>8, <2>1, <2>3, <4>1, <4>2
      <4>3. CASE r \in Seen(items) BY <1>6, <2>1, <4>1, <4>3 DEF Lists!Newer
      <4>. QED BY <1>4, <4>2, <4>3
    <3>. QED BY <1>3, <1>14, <2>1, <2>2, <2>3, <3>1 DEF CursorInv
  <2>4. CASE list = "audit"
    <3>1. last \in listRows BY <1>8, <2>1
    <3>2. ASSUME NEW r \in listRows \cap (Seen(shown) \cup Seen(items))
          PROVE  r = last \/ Lists!Newer(r, last)
      <4>1. CASE r \in Seen(items) BY <1>6, <2>1, <4>1
      <4>2. CASE r \in Seen(shown)
        <5>1. shown # <<>>
          <6>1. shown = <<>> => Seen(shown) = {} BY DEF Seen
          <6>. QED BY <4>2, <6>1
        <5>2. cursor # None BY <1>3, <5>1 DEF ListingInv, WalkInv
        <5>3. walk = "found" BY <1>3, <2>4, <5>2
        <5>4. /\ place = LastShown /\ (r = LastShown \/ Lists!Newer(r, LastShown))
              /\ LastShown \in listRows /\ place # None
          BY <1>3, <2>4, <3>2, <4>2, <5>1, <5>2, <5>3, LastIsShown DEF ListingInv, CursorInv
        <5>5. Lists!AfterPlace(last, LastShown) BY <2>1, <2>4, <5>4 DEF Lists!Matching
        <5>6. /\ LastShown.at \in Nat /\ LastShown.id \in Nat /\ last.at \in Nat
              /\ last.id \in Nat
          BY <3>1, <5>4 DEF ListingInv, RowsInv, Rows
        <5>7. Lists!Newer(LastShown, last) BY <5>5, <5>6 DEF Lists!AfterPlace, Lists!Newer
        <5>8. Rows(listRows) BY DEF ListingInv, RowsInv, Rows
        <5>. QED BY <3>1, <3>2, <5>4, <5>7, <5>8, NewerOrders
      <4>. QED BY <3>2, <4>1, <4>2
    <3>3. ~wasReset => Seen(shown)' \subseteq listRows
      <4>1. ~wasReset => Seen(shown) \subseteq listRows
        <5>1. shown = <<>> => Seen(shown) = {} BY DEF Seen
        <5>. QED BY <1>3, <2>4, <5>1 DEF ListingInv, WalkInv, CursorInv
      <4>. QED BY <1>4, <1>8, <4>1
    <3>. QED BY <1>3, <1>4, <2>1, <2>2, <2>4, <3>1, <3>2, <3>3 DEF CursorInv
  <2>. QED BY <2>3, <2>4 DEF ListingInv, WalkInv
<1>16. ShownInv'
  <2>1. Len(shown) \in Nat /\ Len(items) \in Nat BY <1>4 DEF ListingInv, RowsInv
  <2>2. ASSUME NEW i \in 1..Len(shown'), NEW j \in 1..Len(shown'), i < j
        PROVE  shown'[i] # shown'[j] /\ (wasReset \/ Lists!Newer(shown'[i], shown'[j]))
    <3>1. CASE j <= Len(shown)
      BY <1>4, <2>1, <2>2, <3>1 DEF ListingInv, ShownInv
    <3>2. CASE i <= Len(shown) /\ j > Len(shown)
      <4>1. /\ shown'[i] = shown[i] /\ shown[i] \in Seen(shown)
            /\ shown'[j] = items[j - Len(shown)] /\ j - Len(shown) \in 1..Len(items)
        BY <1>4, <2>1, <2>2, <3>2 DEF Seen
      <4>2. items[j - Len(shown)] \in Lists!Matching BY <1>4, <4>1 DEF Seen
      <4>. QED BY <1>8, <4>1, <4>2
    <3>3. CASE i > Len(shown)
      <4>1. /\ i - Len(shown) \in 1..Len(items) /\ j - Len(shown) \in 1..Len(items)
            /\ i - Len(shown) < j - Len(shown)
            /\ shown'[i] = items[i - Len(shown)] /\ shown'[j] = items[j - Len(shown)]
        BY <1>4, <2>1, <2>2, <3>3
      <4>2. Lists!Newer(shown'[i], shown'[j]) BY <1>2, <4>1 DEF PageOf
      <4>3. /\ shown'[i] \in listRows /\ shown'[j] \in listRows
        <5>1. shown'[i] \in Seen(items) /\ shown'[j] \in Seen(items) BY <4>1 DEF Seen
        <5>. QED BY <1>4, <1>8, <5>1
      <4>4. Rows(listRows) BY DEF ListingInv, RowsInv, Rows
      <4>. QED BY <4>2, <4>3, <4>4, NewerOrders
    <3>. QED BY <2>1, <2>2, <3>1, <3>2, <3>3
  <2>. QED BY <1>3, <2>2 DEF ShownInv
<1>17. ASSUME NEW r \in since \ Seen(shown)'
       PROVE  ByTime(r)' \/ (more /\ Lists!Newer(last, r))
  <2>1. r \in listRows /\ r \in Left
    BY <1>4, <1>17 DEF ListingInv, RowsInv, Left
  <2>2. ByTime(r) => ByTime(r)' BY <1>3, <1>14 DEF ByTime
  <2>3. CASE r \in Lists!Matching BY <1>4, <1>6, <1>7, <1>17, <2>3
  <2>4. CASE r \notin Lists!Matching
    <3>1. cursor # None
      BY <1>3, <2>1, <2>4 DEF Lists!Matching, ListingInv, WalkInv
    <3>2. Lists!Newer(LastShown, r) \/ ByTime(r)
      BY <1>3, <2>1, <3>1 DEF ListingInv, LeftInv
    <3>3. LastShown \in Seen(shown) /\ LastShown # None
      BY <1>3, <3>1, LastIsShown DEF ListingInv, CursorInv
    <3>4. /\ r.at \in Nat /\ r.id \in Nat /\ LastShown.at \in Nat /\ LastShown.id \in Nat
      BY <2>1, <3>3 DEF ListingInv, RowsInv, Rows
    <3>5. CASE list = "executions" /\ Lists!Newer(LastShown, r)
      <4>1. cursor = LastShown.at /\ LastShown \in lasts /\ ~(r.at < cursor)
        BY <1>3, <2>1, <2>4, <3>1, <3>5 DEF ListingInv, CursorInv, Lists!Matching
      <4>2. LastShown.at = r.at BY <3>4, <3>5, <4>1 DEF Lists!Newer
      <4>. QED BY <2>2, <3>5, <4>1, <4>2 DEF ByTime
    <3>6. CASE list = "audit" /\ Lists!Newer(LastShown, r)
      <4>1. place # None /\ ~Lists!AfterPlace(r, place)
        BY <2>1, <2>4, <3>6 DEF Lists!Matching
      <4>2. place = LastShown
        BY <1>3, <3>1, <3>6, <4>1 DEF ListingInv, WalkInv, CursorInv
      <4>. QED BY <3>4, <3>6, <4>1, <4>2 DEF Lists!AfterPlace, Lists!Newer
    <3>. QED BY <2>2, <3>2, <3>5, <3>6 DEF ListingInv, WalkInv
  <2>. QED BY <2>3, <2>4
<1>18. LeftInv'
  <2>1. CASE walk' = "ask"
    <3>1. more /\ LastShown' = last BY <1>6, <1>11, <2>1
    <3>. QED BY <1>3, <1>17, <2>1, <3>1 DEF LeftInv, Left
  <2>2. CASE walk' = "done"
    <3>1. ASSUME NEW r \in since \ Seen(shown)', more, Lists!Newer(last, r)
          PROVE  pages' = MaxPages /\ ~Lists!Newer(r, LastShown')
      <4>1. LastShown' = last /\ pages' = MaxPages BY <1>6, <1>11, <2>2, <3>1
      <4>2. r \in listRows /\ last \in listRows /\ Rows(listRows)
        BY <1>4, <1>6, <1>8, <3>1 DEF ListingInv, RowsInv, Rows
      <4>. QED BY <3>1, <4>1, <4>2, NewerOrders
    <3>. QED BY <1>3, <1>17, <2>2, <3>1 DEF LeftInv, Left, Underway
  <2>. QED BY <1>11, <2>1, <2>2
<1>. QED BY <1>9, <1>13, <1>15, <1>16, <1>18 DEF ListingInv

\* Whatever is written or reset during a walk, it shows no row twice and shows them newest
\* first unless the workspace is reset; and it shows every row that is there throughout, but
\* for rows older than its last page and executions of the same millisecond as the last one
\* of a page (listForWorkspace, ListAuditLogsUseCase, the console's loop over the pages).
THEOREM WalksShowRowsOnce == Spec => []ListedOnce
<1>1. Init => ListingInv BY ListingInit
<1>2. (Only("listing") /\ Lists!Next) \/ UNCHANGED listing \/ ~[Next]_vars
  BY DEF Next, Only, vars
<1>3. ASSUME ListingInv, UNCHANGED listing PROVE ListingInv'
  <2>1. UNCHANGED <<list, listRows, listClock, unused, walk, cursor, place, pages, shown, lasts,
                    since, wasReset>>
    BY <1>3 DEF listing
  <2>2. Seen(shown)' = Seen(shown) /\ LastShown' = LastShown BY <2>1 DEF Seen, LastShown
  <2>. QED BY <1>3, <2>1, <2>2
    DEF ListingInv, RowsInv, WalkInv, CursorInv, ShownInv, LeftInv, Left, ByTime
<1>4. ASSUME ListingInv, Lists!Next PROVE ListingInv'
  BY <1>4, InsertKeepsListing, ResetKeepsListing, WalkKeepsListing, PageKeepsListing
  DEF Lists!Next
<1>5. ListingInv /\ [Next]_vars => ListingInv' BY <1>2, <1>3, <1>4
<1>6. ListingInv => ListedOnce BY ListingImplies DEF ListedOnce
<1>. QED BY <1>1, <1>5, <1>6, PTL DEF Spec

---------------------------------------------------------------------------
(***************************************************************************)
(* The builder: what an edit leaves is a definition the API accepts.       *)
(***************************************************************************)

\* A sequence of steps the API accepts but for its length: no key is used twice, the entry
\* is a step, and routes lead to steps.
Coherent(s, e) ==
  /\ s \in Seq(Builder!Step) /\ s # <<>>
  /\ \A i, j \in 1..Len(s) : s[i].key = s[j].key => i = j
  /\ \E i \in 1..Len(s) : s[i].key = e
  /\ \A i \in 1..Len(s), x \in StepRoutes :
       s[i].routes[x] = None \/ \E j \in 1..Len(s) : s[j].key = s[i].routes[x]
BuilderInv == keyTaken \/ Coherent(draft, entry)

LEMMA KeysOfSteps ==
  ASSUME NEW s \in Seq(Builder!Step)
  PROVE  DOMAIN s = 1..Len(s) /\ Builder!KeysOf(s) = {s[i].key : i \in 1..Len(s)}
<1>1. DOMAIN s = 1..Len(s) OBVIOUS
<1>. QED BY <1>1 DEF Builder!KeysOf

LEMMA CoherentIsAcceptable ==
  ASSUME NEW s, NEW e, Coherent(s, e), Len(s) <= StepLimit PROVE Builder!Acceptable(s, e)
<1>1. s \in Seq(Builder!Step) /\ Len(s) \in Nat /\ Len(s) # 0 BY DEF Coherent
<1>2. DOMAIN s = 1..Len(s) /\ Builder!KeysOf(s) = {s[i].key : i \in 1..Len(s)}
  BY <1>1, KeysOfSteps
<1>3. Len(s) \in 1..StepLimit
  BY <1>1, ControlPlaneAssumption DEF Builder!WorkflowBuilderAssumption
<1>4. Builder!TargetsKnown(s)
  <2>1. ASSUME NEW i \in 1..Len(s), NEW k \in Builder!Range(s[i].routes), k # None
        PROVE  k \in Builder!KeysOf(s)
    <3>1. s[i] \in Builder!Step BY <1>1
    <3>2. DOMAIN s[i].routes = StepRoutes BY <3>1 DEF Builder!Step
    <3>3. PICK x \in StepRoutes : s[i].routes[x] = k BY <2>1, <3>2 DEF Builder!Range
    <3>. QED BY <1>2, <2>1, <3>3 DEF Coherent
  <2>. QED BY <1>2, <2>1 DEF Builder!TargetsKnown, Builder!TargetsOf
<1>. QED BY <1>2, <1>3, <1>4 DEF Coherent, Builder!Acceptable

\* defaultDefinition is one.
LEMMA BuilderInit == Init => BuilderInv
<1>. SUFFICES ASSUME Init PROVE Coherent(draft, entry) BY DEF BuilderInv
<1>1. PICK r1 : r1 = [Builder!NoRoutes EXCEPT !["onSuccess"] = <<"notify_team", 0>>] OBVIOUS
<1>2. PICK s1 : s1 = [key |-> <<"qualify_lead", 0>>, type |-> "condition", routes |-> r1]
  OBVIOUS
<1>3. PICK s2 : s2 = [key |-> <<"notify_team", 0>>, type |-> "notification",
                      routes |-> Builder!NoRoutes]
  OBVIOUS
<1>4. draft = <<s1, s2>> /\ entry = <<"qualify_lead", 0>>
  BY <1>1, <1>2, <1>3 DEF Init, Builder!Init
<1>5. /\ "onSuccess" \in StepRoutes /\ {"condition", "notification"} \subseteq Types
      /\ MaxSteps \in Nat
  BY ControlPlaneAssumption DEF Builder!WorkflowBuilderAssumption
<1>6. {<<"qualify_lead", 0>>, <<"notify_team", 0>>} \subseteq Builder!Keys
  BY <1>5 DEF Builder!Keys, Builder!Numbers
<1>7. /\ Builder!NoRoutes \in [StepRoutes -> Builder!Keys \cup {None}]
      /\ r1 \in [StepRoutes -> Builder!Keys \cup {None}]
      /\ \A x \in StepRoutes : r1[x] \in {None, <<"notify_team", 0>>}
      /\ \A x \in StepRoutes : Builder!NoRoutes[x] = None
  BY <1>1, <1>5, <1>6 DEF Builder!NoRoutes
<1>8. s1 \in Builder!Step /\ s2 \in Builder!Step
  BY <1>2, <1>3, <1>5, <1>6, <1>7 DEF Builder!Step
<1>9. s1.key # s2.key BY <1>2, <1>3
<1>10. /\ draft \in Seq(Builder!Step) /\ Len(draft) = 2 /\ draft[1] = s1 /\ draft[2] = s2
  BY <1>4, <1>8
<1>11. \A i \in 1..Len(draft), x \in StepRoutes :
         draft[i].routes[x] = None \/ draft[2].key = draft[i].routes[x]
  <2>1. \A x \in StepRoutes : s1.routes[x] \in {None, s2.key} /\ s2.routes[x] = None
    BY <1>2, <1>3, <1>7
  <2>. QED BY <1>10, <2>1
<1>. QED BY <1>2, <1>4, <1>9, <1>10, <1>11 DEF Coherent

\* A route that is set is the only change to its step.
SetsRoute(r, s, x, k) ==
  /\ r \in Builder!Step /\ r.key = s.key
  /\ \A y \in StepRoutes : r.routes[y] = IF y = x THEN k ELSE s.routes[y]

LEMMA RouteSet ==
  ASSUME NEW s \in Builder!Step, NEW x \in StepRoutes, NEW k \in Builder!Keys \cup {None},
         NEW r, r = [s EXCEPT !.routes[x] = k]
  PROVE  SetsRoute(r, s, x, k)
<1>1. PICK f : f = [s.routes EXCEPT ![x] = k] OBVIOUS
<1>2. s.routes \in [StepRoutes -> Builder!Keys \cup {None}] BY DEF Builder!Step
<1>3. /\ f \in [StepRoutes -> Builder!Keys \cup {None}]
      /\ \A y \in StepRoutes : f[y] = IF y = x THEN k ELSE s.routes[y]
  BY <1>1, <1>2
<1>4. r = [s EXCEPT !.routes = f] BY <1>1
<1>5. r \in Builder!Step /\ r.key = s.key /\ r.routes = f BY <1>3, <1>4 DEF Builder!Step
<1>. QED BY <1>3, <1>5 DEF SetsRoute

\* An edit that keeps the keys, and sets routes to steps only, keeps the rest.
LEMMA KeysKept ==
  ASSUME NEW s, NEW e, Coherent(s, e), NEW t \in Seq(Builder!Step), Len(t) = Len(s),
         \A i \in 1..Len(s) : t[i].key = s[i].key,
         \A i \in 1..Len(s), x \in StepRoutes :
           t[i].routes[x] = None \/ \E j \in 1..Len(s) : s[j].key = t[i].routes[x]
  PROVE  Coherent(t, e)
<1>1. t # <<>>
  <2>1. s \in Seq(Builder!Step) /\ Len(s) # 0 BY DEF Coherent
  <2>. QED BY <2>1
<1>2. \A i, j \in 1..Len(t) : t[i].key = t[j].key => i = j BY DEF Coherent
<1>3. \E i \in 1..Len(t) : t[i].key = e BY DEF Coherent
<1>4. ASSUME NEW i \in 1..Len(t), NEW x \in StepRoutes
      PROVE  t[i].routes[x] = None \/ \E j \in 1..Len(t) : t[j].key = t[i].routes[x]
  OBVIOUS
<1>. QED BY <1>1, <1>2, <1>3, <1>4 DEF Coherent

\* The steps with the key of the i-th are that one, and it is replaced.
LEMMA ReplacedKeeps ==
  ASSUME Coherent(draft, entry), NEW i \in 1..Len(draft), NEW r \in Builder!Step,
         r.key = draft[i].key, draft' = Builder!Replaced(draft[i].key, r), UNCHANGED entry,
         \A x \in StepRoutes : r.routes[x] = None
                                 \/ \E j \in 1..Len(draft) : draft[j].key = r.routes[x]
  PROVE  Coherent(draft', entry')
<1>1. draft \in Seq(Builder!Step) /\ Len(draft) \in Nat /\ DOMAIN draft = 1..Len(draft)
  BY DEF Coherent
<1>2. draft' = [j \in 1..Len(draft) |-> IF draft[j].key = draft[i].key THEN r ELSE draft[j]]
  BY <1>1 DEF Builder!Replaced
<1>3. \A j \in 1..Len(draft) : draft[j] \in Builder!Step BY <1>1
<1>4. /\ draft' \in Seq(Builder!Step) /\ Len(draft') = Len(draft)
      /\ \A j \in 1..Len(draft) :
           draft'[j] = IF draft[j].key = draft[i].key THEN r ELSE draft[j]
  BY <1>1, <1>2, <1>3
<1>5. \A j \in 1..Len(draft) : draft'[j].key = draft[j].key BY <1>4
<1>6. \A j \in 1..Len(draft), x \in StepRoutes :
        \/ draft'[j].routes[x] = None
        \/ \E n \in 1..Len(draft) : draft[n].key = draft'[j].routes[x]
  BY <1>4 DEF Coherent
<1>7. Coherent(draft', entry) BY <1>4, <1>5, <1>6, KeysKept
<1>. QED BY <1>7

LEMMA ChangesKeep ==
  ASSUME Coherent(draft, entry), NEW i \in DOMAIN draft,
         \/ \E t \in Types : Builder!ChangeType(i, t)
         \/ \E x \in StepRoutes, k \in Builder!KeysOf(draft) \cup {None} :
              Builder!SetTarget(i, x, k)
         \/ \E x, y \in Builder!Branches : Builder!RenameBranch(i, x, y)
  PROVE  Coherent(draft', entry')
<1>1. draft \in Seq(Builder!Step) BY DEF Coherent
<1>2. /\ DOMAIN draft = 1..Len(draft) /\ i \in 1..Len(draft) /\ draft[i] \in Builder!Step
      /\ Builder!KeysOf(draft) = {draft[j].key : j \in 1..Len(draft)}
  BY <1>1, KeysOfSteps
<1>3. Builder!KeysOf(draft) \subseteq Builder!Keys
  <2>1. ASSUME NEW j \in 1..Len(draft) PROVE draft[j].key \in Builder!Keys
    <3>1. draft[j] \in Builder!Step BY <1>1
    <3>. QED BY <3>1 DEF Builder!Step
  <2>. QED BY <1>2, <2>1
<1>4. \A x \in StepRoutes : draft[i].routes[x] = None
                              \/ \E j \in 1..Len(draft) : draft[j].key = draft[i].routes[x]
  BY <1>2 DEF Coherent
<1>5. ASSUME NEW t \in Types, Builder!ChangeType(i, t) PROVE Coherent(draft', entry')
  <2>1. PICK r : r = [draft[i] EXCEPT !.type = t] OBVIOUS
  <2>2. r \in Builder!Step /\ r.key = draft[i].key /\ r.routes = draft[i].routes
    BY <1>2, <2>1 DEF Builder!Step
  <2>3. draft' = Builder!Replaced(draft[i].key, r) /\ UNCHANGED entry
    BY <1>5, <2>1 DEF Builder!ChangeType
  <2>. QED BY <1>2, <1>4, <2>2, <2>3, ReplacedKeeps
<1>6. ASSUME NEW x \in StepRoutes, NEW k \in Builder!KeysOf(draft) \cup {None},
             Builder!SetTarget(i, x, k)
      PROVE  Coherent(draft', entry')
  <2>1. PICK r : r = [draft[i] EXCEPT !.routes[x] = k] OBVIOUS
  <2>2. /\ r \in Builder!Step /\ r.key = draft[i].key
        /\ \A y \in StepRoutes : r.routes[y] = IF y = x THEN k ELSE draft[i].routes[y]
    <3>1. k \in Builder!Keys \cup {None} BY <1>3
    <3>2. SetsRoute(r, draft[i], x, k) BY <1>2, <2>1, <3>1, RouteSet
    <3>. QED BY <3>2 DEF SetsRoute
  <2>3. draft' = Builder!Replaced(draft[i].key, r) /\ UNCHANGED entry
    BY <1>6, <2>1 DEF Builder!SetTarget
  <2>4. k = None \/ \E j \in 1..Len(draft) : draft[j].key = k BY <1>2
  <2>. QED BY <1>2, <1>4, <2>2, <2>3, <2>4, ReplacedKeeps
<1>7. ASSUME NEW x \in Builder!Branches, NEW y \in Builder!Branches,
             Builder!RenameBranch(i, x, y)
      PROVE  Coherent(draft', entry')
  <2>1. x \in StepRoutes /\ y \in StepRoutes /\ draft[i].routes[x] \in Builder!Keys \cup {None}
    BY <1>2 DEF Builder!Branches, Builder!Step
  <2>2. PICK q : q = [draft[i] EXCEPT !.routes[y] = draft[i].routes[x]] OBVIOUS
  <2>3. /\ q \in Builder!Step /\ q.key = draft[i].key
        /\ \A z \in StepRoutes :
             q.routes[z] = IF z = y THEN draft[i].routes[x] ELSE draft[i].routes[z]
    BY <1>2, <2>1, <2>2, RouteSet DEF SetsRoute
  <2>4. PICK r : r = [q EXCEPT !.routes[x] = None] OBVIOUS
  <2>5. /\ r \in Builder!Step /\ r.key = q.key
        /\ \A z \in StepRoutes : r.routes[z] = IF z = x THEN None ELSE q.routes[z]
    BY <2>1, <2>3, <2>4, RouteSet DEF SetsRoute
  <2>6. draft' = Builder!Replaced(draft[i].key, r) /\ UNCHANGED entry
    <3>1. draft' = Builder!Replaced(draft[i].key,
                     [draft[i] EXCEPT !.routes[y] = draft[i].routes[x], !.routes[x] = None])
      BY <1>7 DEF Builder!RenameBranch
    <3>. QED BY <1>7, <2>2, <2>4, <3>1 DEF Builder!RenameBranch
  <2>7. \A z \in StepRoutes : r.routes[z] = None
                                \/ \E j \in 1..Len(draft) : draft[j].key = r.routes[z]
    BY <1>4, <2>1, <2>3, <2>5
  <2>. QED BY <1>2, <2>3, <2>5, <2>6, <2>7, ReplacedKeeps
<1>. QED BY <1>5, <1>6, <1>7

\* A step that is added under a new key, without routes, keeps the rest.
LEMMA AddedKeeps ==
  ASSUME NEW t, Coherent(t, entry), NEW s \in Builder!Step,
         s.key \notin Builder!KeysOf(t), s.routes = Builder!NoRoutes
  PROVE  Coherent(Append(t, s), entry)
<1>1. t \in Seq(Builder!Step) /\ Len(t) \in Nat BY DEF Coherent
<1>2. Builder!KeysOf(t) = {t[i].key : i \in 1..Len(t)} BY <1>1, KeysOfSteps
<1>3. PICK u : u = Append(t, s) OBVIOUS
<1>4. /\ u \in Seq(Builder!Step) /\ u # <<>> /\ Len(u) = Len(t) + 1
      /\ \A i \in 1..Len(t) : u[i] = t[i]
      /\ u[Len(t) + 1] = s
      /\ \A i \in 1..Len(u) : i \in 1..Len(t) \/ i = Len(t) + 1
      /\ 1..Len(t) \subseteq 1..Len(u)
  BY <1>1, <1>3
<1>5. \A i, j \in 1..Len(u) : u[i].key = u[j].key => i = j
  BY <1>2, <1>4 DEF Coherent
<1>6. \E i \in 1..Len(u) : u[i].key = entry BY <1>4 DEF Coherent
<1>7. ASSUME NEW i \in 1..Len(u), NEW x \in StepRoutes
      PROVE  u[i].routes[x] = None \/ \E j \in 1..Len(u) : u[j].key = u[i].routes[x]
  <2>1. CASE i \in 1..Len(t)
    <3>1. t[i].routes[x] = None \/ \E j \in 1..Len(t) : t[j].key = t[i].routes[x]
      BY <2>1 DEF Coherent
    <3>. QED BY <1>4, <2>1, <3>1
  <2>2. CASE i = Len(t) + 1 BY <1>4, <2>2 DEF Builder!NoRoutes
  <2>. QED BY <1>4, <2>1, <2>2
<1>. QED BY <1>3, <1>4, <1>5, <1>6, <1>7 DEF Coherent

LEMMA NewSteps ==
  ASSUME NEW t \in Types, NEW n \in Builder!Numbers, NEW s, s = Builder!NewStep(t, n)
  PROVE  s \in Builder!Step /\ s.key = <<t, n>> /\ s.routes = Builder!NoRoutes
<1>1. Builder!NoRoutes \in [StepRoutes -> Builder!Keys \cup {None}] BY DEF Builder!NoRoutes
<1>2. <<t, n>> \in Builder!Keys BY DEF Builder!Keys
<1>. QED BY <1>1, <1>2 DEF Builder!NewStep, Builder!Step

LEMMA DuplicateKeeps ==
  ASSUME Coherent(draft, entry), NEW i \in DOMAIN draft, Builder!DuplicateStep(i)
  PROVE  Coherent(draft', entry')
<1>1. draft \in Seq(Builder!Step) /\ draft[i] \in Builder!Step /\ Len(draft) \in Nat
  BY DEF Coherent
<1>2. MaxSteps \in Nat BY ControlPlaneAssumption DEF Builder!WorkflowBuilderAssumption
<1>3. PICK n \in (Len(draft) + 1)..(2 * MaxSteps) :
        /\ <<draft[i].type, n>> \notin Builder!KeysOf(draft)
        /\ draft' = Append(draft, Builder!NewStep(draft[i].type, n))
  BY DEF Builder!DuplicateStep
<1>4. n \in Builder!Numbers BY <1>1, <1>2, <1>3 DEF Builder!Numbers
<1>5. draft[i].type \in Types BY <1>1 DEF Builder!Step
<1>6. PICK s : s = Builder!NewStep(draft[i].type, n) OBVIOUS
<1>7. s \in Builder!Step /\ s.key = <<draft[i].type, n>> /\ s.routes = Builder!NoRoutes
  BY <1>4, <1>5, <1>6, NewSteps
<1>8. draft' = Append(draft, s) /\ entry' = entry BY <1>3, <1>6 DEF Builder!DuplicateStep
<1>9. Coherent(Append(draft, s), entry) BY <1>3, <1>7, AddedKeeps
<1>. QED BY <1>8, <1>9

\* The key the new step gets is in use, and keyTaken says so, or the draft stays coherent:
\* the last step has been led to a step that is there once the new one is appended.
LEMMA AppendKeeps ==
  ASSUME Coherent(draft, entry), NEW t \in Types, Builder!AppendStep(t) PROVE BuilderInv'
<1>. DEFINE k == <<t, Len(draft) + 1>>
<1>1. /\ draft \in Seq(Builder!Step) /\ Len(draft) \in Nat /\ Len(draft) # 0
      /\ draft # <<>> /\ DOMAIN draft = 1..Len(draft)
  BY DEF Coherent
<1>2. Len(draft) < MaxSteps /\ MaxSteps \in Nat
  BY ControlPlaneAssumption DEF Builder!WorkflowBuilderAssumption, Builder!AppendStep
<1>3. Len(draft) + 1 \in Builder!Numbers BY <1>1, <1>2 DEF Builder!Numbers
<1>4. PICK s : s = Builder!NewStep(t, Len(draft) + 1) OBVIOUS
<1>5. s \in Builder!Step /\ s.key = k /\ s.routes = Builder!NoRoutes
  BY <1>3, <1>4, NewSteps
<1>6. PICK m : m = draft[Len(draft)].key OBVIOUS
<1>7. PICK u : u = [j \in DOMAIN draft |->
                      IF draft[j].key = m
                      THEN [draft[j] EXCEPT !.routes["onSuccess"] = s.key] ELSE draft[j]]
  OBVIOUS
<1>8. /\ draft' = Append(u, s) /\ entry' = entry
      /\ keyTaken' = (keyTaken \/ s.key \in Builder!KeysOf(draft))
  BY <1>1, <1>4, <1>6, <1>7 DEF Builder!AppendStep
<1>9. "onSuccess" \in StepRoutes
  BY ControlPlaneAssumption DEF Builder!WorkflowBuilderAssumption
<1>10. s.key \in Builder!Keys BY <1>5 DEF Builder!Step
<1>11. ASSUME NEW j \in 1..Len(draft)
       PROVE  /\ u[j] \in Builder!Step /\ u[j].key = draft[j].key
              /\ \A x \in StepRoutes : u[j].routes[x] \in {draft[j].routes[x], k}
  <2>1. draft[j] \in Builder!Step BY <1>1
  <2>2. CASE draft[j].key = m
    <3>1. u[j] = [draft[j] EXCEPT !.routes["onSuccess"] = s.key] BY <1>1, <1>7, <2>2
    <3>2. PICK r : r = u[j] OBVIOUS
    <3>3. PICK d \in Builder!Step : d = draft[j] BY <2>1
    <3>4. s.key \in Builder!Keys \cup {None} BY <1>10
    <3>5. r = [d EXCEPT !.routes["onSuccess"] = s.key] BY <3>1, <3>2, <3>3
    <3>6. SetsRoute(r, d, "onSuccess", s.key) BY <1>9, <3>4, <3>5, RouteSet
    <3>. QED BY <1>5, <3>2, <3>3, <3>6 DEF SetsRoute
  <2>3. CASE draft[j].key # m
    <3>1. u[j] = draft[j] BY <1>1, <1>7, <2>3
    <3>. QED BY <2>1, <3>1
  <2>. QED BY <2>2, <2>3
<1>12. u \in Seq(Builder!Step) /\ Len(u) = Len(draft) BY <1>1, <1>7, <1>11
<1>13. PICK v : v = Append(u, s) OBVIOUS
<1>14. /\ v \in Seq(Builder!Step) /\ v # <<>> /\ Len(v) = Len(draft) + 1
       /\ \A j \in 1..Len(draft) : v[j] = u[j] /\ j \in 1..Len(v)
       /\ v[Len(draft) + 1] = s /\ Len(draft) + 1 \in 1..Len(v)
       /\ \A j \in 1..Len(v) : j \in 1..Len(draft) \/ j = Len(draft) + 1
  BY <1>1, <1>5, <1>12, <1>13
<1>15. ASSUME s.key \notin Builder!KeysOf(draft) PROVE Coherent(v, entry)
  <2>1. \A j \in 1..Len(draft) : draft[j].key # s.key BY <1>1, <1>15, KeysOfSteps
  <2>2. \A i, j \in 1..Len(v) : v[i].key = v[j].key => i = j
    BY <1>11, <1>14, <2>1 DEF Coherent
  <2>3. \E j \in 1..Len(v) : v[j].key = entry BY <1>11, <1>14 DEF Coherent
  <2>4. ASSUME NEW i \in 1..Len(v), NEW x \in StepRoutes
        PROVE  v[i].routes[x] = None \/ \E j \in 1..Len(v) : v[j].key = v[i].routes[x]
    <3>1. CASE i \in 1..Len(draft)
      <4>1. v[i].routes[x] \in {draft[i].routes[x], k} BY <1>11, <1>14, <3>1
      <4>2. draft[i].routes[x] = None
              \/ \E j \in 1..Len(draft) : draft[j].key = draft[i].routes[x]
        BY <3>1 DEF Coherent
      <4>3. CASE v[i].routes[x] = k BY <1>5, <1>14, <4>3
      <4>4. CASE v[i].routes[x] = draft[i].routes[x] BY <1>11, <1>14, <4>2, <4>4
      <4>. QED BY <4>1, <4>3, <4>4
    <3>2. CASE i = Len(draft) + 1 BY <1>5, <1>14, <3>2 DEF Builder!NoRoutes
    <3>. QED BY <1>14, <3>1, <3>2
  <2>. QED BY <1>14, <2>2, <2>3, <2>4 DEF Coherent
<1>. QED BY <1>8, <1>13, <1>15 DEF BuilderInv

\* Without a key, the draft has its other steps, each of them once.
LEMMA WithoutIs ==
  ASSUME draft \in Seq(Builder!Step), NEW w
  PROVE  \E n \in Nat : \E f \in [1..n -> 1..Len(draft)] :
           /\ Builder!Without(w) = [i \in 1..n |-> draft[f[i]]]
           /\ \A i \in 1..n : draft[f[i]].key # w
           /\ \A i, j \in 1..n : f[i] = f[j] => i = j
           /\ \A m \in 1..Len(draft) : draft[m].key # w => \E i \in 1..n : f[i] = m
<1>1. Len(draft) \in Nat /\ DOMAIN draft = 1..Len(draft) OBVIOUS
<1>2. PICK S : S = {i \in DOMAIN draft : draft[i].key # w} OBVIOUS
<1>3. S \subseteq 1..Len(draft) /\ S \subseteq Nat BY <1>1, <1>2
<1>4. IsFiniteSet(S)
  <2>1. IsFiniteSet(1..Len(draft)) BY <1>1, FS_Interval
  <2>. QED BY <1>3, <2>1, FS_Subset
<1>5. PICK n : n = Cardinality(S) OBVIOUS
<1>6. n \in Nat BY <1>4, <1>5, FS_CardinalityType
<1>7. PICK R : R = {p \in S \X S : p[1] < p[2]} OBVIOUS
<1>8. \A i, j \in S : <<i, j>> \in R <=> i < j BY <1>7
<1>9. Orders(R, S) BY <1>3, <1>8 DEF Orders
<1>10. \E g \in [1..n -> S] : \A i, j \in 1..n : i < j => g[i] < g[j]
  <2>1. \E g : Sorts(g, n, R, S) BY <1>4, <1>5, <1>9, SortedExists
  <2>. QED BY <1>8, <2>1 DEF Sorts
<1>11. PICK f : f = Builder!InOrder(S) OBVIOUS
<1>12. f \in [1..n -> S] /\ \A i, j \in 1..n : i < j => f[i] < f[j]
  <2>1. Builder!Cardinality(S) = n BY <1>5 DEF Builder!Cardinality, Cardinality
  <2>2. f = CHOOSE g \in [1..n -> S] : \A i, j \in 1..n : i < j => g[i] < g[j]
    BY <1>11, <2>1 DEF Builder!InOrder
  <2>. QED BY <1>10, <2>2
<1>13. Sorts(f, n, R, S) BY <1>8, <1>12 DEF Sorts
<1>14. EachOnce(f, n, S) BY <1>4, <1>5, <1>9, <1>13, SortedIsAll
<1>15. Builder!Without(w) = [i \in 1..n |-> draft[f[i]]]
  <2>1. DOMAIN f = 1..n BY <1>12
  <2>2. f = Builder!InOrder({i \in DOMAIN draft : draft[i].key # w}) BY <1>2, <1>11
  <2>. QED BY <2>1, <2>2 DEF Builder!Without
<1>16. f \in [1..n -> 1..Len(draft)] BY <1>3, <1>12
<1>17. \A i \in 1..n : draft[f[i]].key # w BY <1>2, <1>12
<1>18. \A m \in 1..Len(draft) : draft[m].key # w => \E i \in 1..n : f[i] = m
  BY <1>1, <1>2, <1>14 DEF EachOnce
<1>19. \A i, j \in 1..n : f[i] = f[j] => i = j BY <1>14 DEF EachOnce
<1>. QED BY <1>6, <1>15, <1>16, <1>17, <1>18, <1>19

\* A step leaves with the routes that led to it, and the entry goes to one that stays.
LEMMA DeleteKeeps ==
  ASSUME Coherent(draft, entry), NEW w, Builder!DeleteStep(w)
  PROVE  Coherent(draft', entry')
<1>1. draft \in Seq(Builder!Step) /\ Len(draft) \in Nat /\ Len(draft) > 1
  BY DEF Coherent, Builder!DeleteStep
<1>20. PICK n \in Nat : \E f \in [1..n -> 1..Len(draft)] :
        /\ Builder!Without(w) = [i \in 1..n |-> draft[f[i]]]
        /\ \A i \in 1..n : draft[f[i]].key # w
        /\ \A i, j \in 1..n : f[i] = f[j] => i = j
        /\ \A m \in 1..Len(draft) : draft[m].key # w => \E i \in 1..n : f[i] = m
  BY <1>1, WithoutIs
<1>2. PICK f \in [1..n -> 1..Len(draft)] :
        /\ Builder!Without(w) = [i \in 1..n |-> draft[f[i]]]
        /\ \A i \in 1..n : draft[f[i]].key # w
        /\ \A i, j \in 1..n : f[i] = f[j] => i = j
        /\ \A m \in 1..Len(draft) : draft[m].key # w => \E i \in 1..n : f[i] = m
  BY <1>20
<1>3. PICK k : k = Builder!Without(w) OBVIOUS
<1>4. DOMAIN k = 1..n /\ \A i \in 1..n : k[i] = draft[f[i]] BY <1>2, <1>3
<1>5. PICK c : c = [i \in DOMAIN k |->
                      [k[i] EXCEPT !.routes = Builder!SanitizedRoutes(k[i].routes, w)]]
  OBVIOUS
<1>6. draft' = c /\ entry' = IF entry = w /\ c # <<>> THEN c[1].key ELSE entry
  BY <1>3, <1>5 DEF Builder!DeleteStep
<1>7. ASSUME NEW i \in 1..n
      PROVE  /\ c[i] \in Builder!Step /\ c[i].key = draft[f[i]].key
             /\ \A x \in StepRoutes :
                  c[i].routes[x] = IF draft[f[i]].routes[x] = w THEN None
                                   ELSE draft[f[i]].routes[x]
  <2>1. PICK d \in Builder!Step : d = draft[f[i]] BY <1>1, <1>2
  <2>2. PICK g : g = Builder!SanitizedRoutes(d.routes, w) OBVIOUS
  <2>3. g = [x \in StepRoutes |-> IF d.routes[x] = w THEN None ELSE d.routes[x]]
    BY <2>2 DEF Builder!SanitizedRoutes
  <2>4. d.routes \in [StepRoutes -> Builder!Keys \cup {None}] BY DEF Builder!Step
  <2>5. g \in [StepRoutes -> Builder!Keys \cup {None}] BY <2>3, <2>4
  <2>6. c[i] = [d EXCEPT !.routes = g] BY <1>4, <1>5, <2>1, <2>2
  <2>7. c[i] \in Builder!Step /\ c[i].key = d.key /\ c[i].routes = g
    BY <2>5, <2>6 DEF Builder!Step
  <2>. QED BY <2>1, <2>3, <2>7
<1>8. c \in Seq(Builder!Step) /\ Len(c) = n
  <2>1. c \in [1..n -> Builder!Step]
    <3>1. c = [i \in 1..n |-> c[i]] BY <1>4, <1>5
    <3>. QED BY <1>7, <3>1
  <2>. QED BY <1>2, <2>1
<1>9. \A m \in 1..Len(draft) : draft[m].key # w => \E i \in 1..n : c[i].key = draft[m].key
  BY <1>2, <1>7
<1>10. n # 0
  <2>1. 1 \in 1..Len(draft) /\ 2 \in 1..Len(draft) BY <1>1
  <2>2. draft[1].key # draft[2].key BY <2>1 DEF Coherent
  <2>3. draft[1].key # w \/ draft[2].key # w BY <2>2
  <2>4. \E i \in 1..n : TRUE BY <1>9, <2>1, <2>3
  <2>. QED BY <2>4
<1>11. c # <<>> BY <1>8, <1>10
<1>12. \A i, j \in 1..n : c[i].key = c[j].key => i = j BY <1>2, <1>7 DEF Coherent
<1>13. \E i \in 1..n : c[i].key = entry'
  <2>1. CASE entry = w
    <3>1. entry' = c[1].key /\ 1 \in 1..n BY <1>2, <1>6, <1>10, <1>11, <2>1
    <3>. QED BY <3>1
  <2>2. CASE entry # w
    <3>1. entry' = entry BY <1>6, <2>2
    <3>2. PICK m \in 1..Len(draft) : draft[m].key = entry BY DEF Coherent
    <3>. QED BY <1>9, <2>2, <3>1, <3>2
  <2>. QED BY <2>1, <2>2
<1>14. ASSUME NEW i \in 1..n, NEW x \in StepRoutes
       PROVE  c[i].routes[x] = None \/ \E j \in 1..n : c[j].key = c[i].routes[x]
  <2>1. PICK m \in 1..Len(draft) : m = f[i] BY <1>2
  <2>2. draft[m].routes[x] = None
          \/ \E q \in 1..Len(draft) : draft[q].key = draft[m].routes[x]
    BY DEF Coherent
  <2>3. c[i].routes[x] = IF draft[m].routes[x] = w THEN None ELSE draft[m].routes[x]
    BY <1>7, <2>1
  <2>. QED BY <1>9, <2>2, <2>3
<1>15. /\ \A i, j \in 1..Len(c) : c[i].key = c[j].key => i = j
       /\ \E i \in 1..Len(c) : c[i].key = entry'
       /\ \A i \in 1..Len(c), x \in StepRoutes :
            c[i].routes[x] = None \/ \E j \in 1..Len(c) : c[j].key = c[i].routes[x]
  BY <1>8, <1>12, <1>13, <1>14
<1>. QED BY <1>6, <1>8, <1>11, <1>15 DEF Coherent

LEMMA BuilderStep == ASSUME BuilderInv, Builder!Next PROVE BuilderInv'
<1>1. CASE keyTaken
  <2>1. keyTaken'
    BY <1>1 DEF Builder!Next, Builder!AppendStep, Builder!DeleteStep, Builder!DuplicateStep,
       Builder!ChangeType, Builder!SetTarget, Builder!RenameBranch
  <2>. QED BY <2>1 DEF BuilderInv
<1>2. CASE Coherent(draft, entry)
  <2>1. ASSUME NEW t \in Types, Builder!AppendStep(t) PROVE BuilderInv'
    BY <1>2, <2>1, AppendKeeps
  <2>2. ASSUME NEW w \in Builder!KeysOf(draft), Builder!DeleteStep(w) PROVE BuilderInv'
    <3>1. Coherent(draft', entry') BY <1>2, <2>2, DeleteKeeps
    <3>. QED BY <3>1 DEF BuilderInv
  <2>3. ASSUME NEW i \in DOMAIN draft, Builder!DuplicateStep(i) PROVE BuilderInv'
    BY <1>2, <2>3, DuplicateKeeps DEF BuilderInv
  <2>4. ASSUME NEW i \in DOMAIN draft,
               \/ \E t \in Types : Builder!ChangeType(i, t)
               \/ \E x \in StepRoutes, k \in Builder!KeysOf(draft) \cup {None} :
                    Builder!SetTarget(i, x, k)
               \/ \E x, y \in Builder!Branches : Builder!RenameBranch(i, x, y)
        PROVE  BuilderInv'
    BY <1>2, <2>4, ChangesKeep DEF BuilderInv
  <2>. QED BY <2>1, <2>2, <2>3, <2>4 DEF Builder!Next
<1>. QED BY <1>1, <1>2 DEF BuilderInv

\* Whatever the order of edits, the draft that results is one the API accepts, unless a
\* step was appended under a key in use or there are more steps than the API admits.
THEOREM EditsAlwaysAcceptable == Spec => []EditsStayAcceptable
<1>1. Init => BuilderInv BY BuilderInit
<1>2. (Only("builder") /\ Builder!Next) \/ UNCHANGED Builder!vars \/ ~[Next]_vars
  BY DEF Next, Only, vars, builder, Builder!vars
<1>3. BuilderInv /\ UNCHANGED Builder!vars => BuilderInv'
  BY DEF BuilderInv, Builder!vars
<1>4. BuilderInv /\ [Next]_vars => BuilderInv' BY <1>2, <1>3, BuilderStep
<1>5. BuilderInv => EditsStayAcceptable
  <2>1. SUFFICES ASSUME Coherent(draft, entry), ~(Len(draft) > StepLimit)
                 PROVE  Builder!Acceptable(draft, entry)
    BY DEF BuilderInv, EditsStayAcceptable, Builder!EditsStayAcceptable
  <2>2. Len(draft) \in Nat BY <2>1 DEF Coherent
  <2>3. StepLimit \in Nat BY ControlPlaneAssumption DEF Builder!WorkflowBuilderAssumption
  <2>4. Len(draft) <= StepLimit BY <2>1, <2>2, <2>3
  <2>. QED BY <2>1, <2>4, CoherentIsAcceptable
<1>. QED BY <1>1, <1>4, <1>5, PTL DEF Spec

---------------------------------------------------------------------------
(***************************************************************************)
(* The sessions of the console, first the tables: the routes a call meets  *)
(* want no other header than the one it shows.                             *)
(***************************************************************************)
SignInCalls == {"register", "seedDemo", "login"}

\* What the path of a route tells of its guard.
PathTellsGuard(r) ==
  /\ r.guard \in {"open", "session", "key"}
  /\ r.guard = "key" =>
       \/ r.path[1] = "automation"
       \/ r.method = "GET" /\ r.path[1] = "api-keys" /\ Len(r.path) = 2
  /\ r.path[1] \in {"automation", "*"} => r.guard = "key"
  /\ Len(r.path) = 2 /\ r.path[1] = "auth" /\ r.path[2] \in {"register", "login", "*"} =>
       r.guard = "open"
  /\ Len(r.path) = 2 /\ r.path[1] = "demo" /\ r.path[2] \in {"seed", "*"} => r.guard = "open"

LEMMA PathsTellGuards == ASSUME NEW r \in Routes PROVE PathTellsGuard(r)
<1>1. CASE r \in AuthRoutes \cup WorkspaceRoutes
  BY <1>1 DEF AuthRoutes, WorkspaceRoutes, Route, PathTellsGuard
<1>2. CASE r \in WorkflowRoutes \cup SecretRoutes
  BY <1>2 DEF WorkflowRoutes, SecretRoutes, Route, PathTellsGuard
<1>3. CASE r \in CredentialRoutes
  <2>. DEFINE path == <<"workflows", "*", "connector-credentials">>
  <2>1. (path \o <<"*">>)[1] = "workflows"
    OBVIOUS
  <2>2. r.guard = "session" /\ r.path[1] = "workflows"
    BY <1>3, <2>1 DEF CredentialRoutes, Route
  <2>. QED BY <2>2 DEF PathTellsGuard
<1>4. CASE r \in ExecutionRoutes \cup AutomationRoutes \cup HookRoutes \cup KeyRoutes
  BY <1>4 DEF ExecutionRoutes, AutomationRoutes, HookRoutes, KeyRoutes, Route, PathTellsGuard
<1>5. CASE r \in UsageRoutes \cup AuditRoutes \cup BillingRoutes \cup DemoRoutes
  BY <1>5 DEF UsageRoutes, AuditRoutes, BillingRoutes, DemoRoutes, Route, PathTellsGuard
<1>. QED BY <1>1, <1>2, <1>3, <1>4, <1>5 DEF Routes

\* What a call of the client shows, and where it goes.
CallShows(c, call) ==
  /\ 1 \in DOMAIN call.path
  /\ \/ /\ "session" \in call.shows /\ call.path[1] # "automation"
        /\ ~(call.method = "GET" /\ call.path[1] = "api-keys" /\ Len(call.path) = 2)
     \/ c \in Dealings!KeyGuarded /\ "key" \in call.shows /\ call.path[1] = "automation"
     \/ call.path \in {<<"auth", "register">>, <<"auth", "login">>, <<"demo", "seed">>}

LEMMA CallsShow == ASSUME NEW c \in DOMAIN ClientCalls PROVE CallShows(c, ClientCalls[c])
<1>1. CASE c \in DOMAIN AccountCalls
  <2>1. ClientCalls[c] = AccountCalls[c]
    BY <1>1 DEF ClientCalls, AccountCalls, WorkflowCalls, SecretCalls, RunCalls, KeyCalls
  <2>. QED BY <1>1, <2>1 DEF AccountCalls, Open, Post, Get, Request, CallShows
<1>2. CASE c \in DOMAIN WorkflowCalls
  <2>1. ClientCalls[c] = WorkflowCalls[c]
    BY <1>2 DEF ClientCalls, AccountCalls, WorkflowCalls, SecretCalls, RunCalls, KeyCalls
  <2>. QED BY <1>2, <2>1 DEF WorkflowCalls, Post, Get, Request, CallShows
<1>3. CASE c \in DOMAIN SecretCalls
  <2>. DEFINE credentials == <<"workflows", "id", "connector-credentials">>
  <2>1. ClientCalls[c] = SecretCalls[c]
    BY <1>3 DEF ClientCalls, AccountCalls, WorkflowCalls, SecretCalls, RunCalls, KeyCalls
  <2>2. (credentials \o <<"name">>)[1] = "workflows" /\ 1 \in DOMAIN (credentials \o <<"name">>)
    OBVIOUS
  <2>3. "session" \in SecretCalls[c].shows
        /\ SecretCalls[c].path[1] = "workflows" /\ 1 \in DOMAIN SecretCalls[c].path
    BY <1>3, <2>2 DEF SecretCalls, Post, Get, Delete, Request
  <2>. QED BY <2>1, <2>3 DEF CallShows
<1>4. CASE c \in DOMAIN RunCalls
  <2>1. ClientCalls[c] = RunCalls[c]
    BY <1>4 DEF ClientCalls, AccountCalls, WorkflowCalls, SecretCalls, RunCalls, KeyCalls
  <2>. QED BY <1>4, <2>1 DEF RunCalls, Post, Get, Request, CallShows
<1>5. CASE c \in DOMAIN KeyCalls
  <2>1. ClientCalls[c] = KeyCalls[c]
    BY <1>5 DEF ClientCalls, AccountCalls, WorkflowCalls, SecretCalls, RunCalls, KeyCalls
  <2>. QED BY <1>5, <2>1 DEF KeyCalls, Post, Get, Delete, Request, CallShows,
                             Dealings!KeyGuarded
<1>. QED BY <1>1, <1>2, <1>3, <1>4, <1>5 DEF ClientCalls

\* A call that is behind a guard shows what the guard wants.
LEMMA GuardsAreServed ==
  ASSUME NEW c \in DOMAIN ClientCalls, NEW r \in RoutesMet[c]
  PROVE  /\ r.guard \in {"open", "session", "key"}
         /\ r.guard = "session" => "session" \in ClientCalls[c].shows
         /\ r.guard = "key" => c \in Dealings!KeyGuarded /\ "key" \in ClientCalls[c].shows
<1>. DEFINE call == ClientCalls[c]
<1>1. r \in Routes /\ Len(r.path) = Len(call.path)
      /\ r.method = call.method
      /\ \A i \in DOMAIN call.path : r.path[i] \in {call.path[i], "*"}
  BY DEF RoutesMet, Served
<1>2. PathTellsGuard(r) BY <1>1, PathsTellGuards
<1>3. CallShows(c, call) BY CallsShow
<1>4. CASE call.path \in {<<"auth", "register">>, <<"auth", "login">>, <<"demo", "seed">>}
  <2>1. r.path[1] \in {call.path[1], "*"} /\ r.path[2] \in {call.path[2], "*"} /\ Len(r.path) = 2
    BY <1>1, <1>4
  <2>. QED BY <1>2, <1>4, <2>1 DEF PathTellsGuard
<1>5. CASE call.path \notin {<<"auth", "register">>, <<"auth", "login">>, <<"demo", "seed">>}
  <2>1. r.path[1] \in {call.path[1], "*"}
    BY <1>1, <1>3 DEF CallShows
  <2>. QED BY <1>1, <1>2, <1>3, <1>5, <2>1 DEF PathTellsGuard, CallShows
<1>. QED BY <1>4, <1>5

---------------------------------------------------------------------------
(***************************************************************************)
(* The calls that are still to be made.  A session is given up in the      *)
(* course of an operation, so the invariant says of its calls which are    *)
(* ahead of which.                                                         *)
(***************************************************************************)
Pending == [call : DOMAIN ClientCalls, safe : BOOLEAN]
CallsIn(ops) == {ops[i].call : i \in DOMAIN ops}
AllSafe(ops) == \A i \in DOMAIN ops : ops[i].safe

\* The reset of a demo comes first, and the workspace is loaded after it.
ResetThenLoad(ops) ==
  \A i \in DOMAIN ops : ops[i].call = "resetDemo" => i = 1 /\ Tail(ops) = Dealings!Load

\* A call that shows a key comes after its creation, unless there is one.
KeyComesFirst(ops, k) ==
  \A i \in DOMAIN ops :
    ops[i].call \in Dealings!KeyGuarded =>
      k # None \/ \E j \in 1..(i - 1) : ops[j].call = "createApiKey" /\ ~ops[j].safe

\* The calls are known, and no sign-in is among them.
Ordinary(ops) == ops \in Seq(Pending) /\ CallsIn(ops) \cap SignInCalls = {}

LEMMA CallNames ==
  /\ {"login", "register", "seedDemo", "logout", "currentWorkspace", "listWorkspaces",
      "updateWorkspaceName", "resetDemo", "listWorkflows", "getWorkflow", "createWorkflow",
      "updateDraftWorkflow", "publishWorkflow", "testWorkflow", "listSecrets", "saveSecret",
      "deleteSecret", "listCredentials", "saveCredential", "deleteCredential",
      "listExecutions", "listExecutionSteps", "retryExecution", "usage", "audit",
      "listApiKeys", "createApiKey", "revokeApiKey", "automationContract",
      "executeAutomation", "checkout", "portal"} \subseteq DOMAIN ClientCalls
  /\ Dealings!OnWorkflow =
       {"getWorkflow", "updateDraftWorkflow", "publishWorkflow", "testWorkflow",
        "automationContract", "executeAutomation", "listSecrets", "saveSecret",
        "deleteSecret", "listCredentials", "saveCredential", "deleteCredential"}
<1>1. DOMAIN AccountCalls =
        {"seedDemo", "register", "login", "logout", "currentWorkspace", "listWorkspaces",
         "updateWorkspaceName", "resetDemo"}
  BY DEF AccountCalls
<1>2. DOMAIN WorkflowCalls =
        {"listWorkflows", "getWorkflow", "createWorkflow", "updateDraftWorkflow",
         "publishWorkflow", "testWorkflow"}
  BY DEF WorkflowCalls
<1>3. DOMAIN SecretCalls =
        {"listSecrets", "saveSecret", "deleteSecret", "listCredentials", "saveCredential",
         "deleteCredential"}
  BY DEF SecretCalls
<1>4. DOMAIN RunCalls =
        {"listExecutions", "listExecutionSteps", "retryExecution", "usage", "audit"}
  BY DEF RunCalls
<1>5. DOMAIN KeyCalls =
        {"listApiKeys", "createApiKey", "revokeApiKey", "automationContract",
         "executeAutomation", "checkout", "portal"}
  BY DEF KeyCalls
<1>6. DOMAIN ClientCalls =
        DOMAIN AccountCalls \cup DOMAIN WorkflowCalls \cup DOMAIN SecretCalls
          \cup DOMAIN RunCalls \cup DOMAIN KeyCalls
  BY DEF ClientCalls
<1>7. DOMAIN Dealings!SecretCalls = DOMAIN SecretCalls
  BY <1>3 DEF Dealings!SecretCalls
<1>8. Dealings!OnWorkflow =
        {"getWorkflow", "updateDraftWorkflow", "publishWorkflow", "testWorkflow",
         "automationContract", "executeAutomation", "listSecrets", "saveSecret",
         "deleteSecret", "listCredentials", "saveCredential", "deleteCredential"}
  BY <1>3, <1>7 DEF Dealings!OnWorkflow, Dealings!KeyGuarded
<1>. QED BY <1>1, <1>2, <1>3, <1>4, <1>5, <1>6, <1>8

\* Two sequences of calls, one after the other.
LEMMA CallsJoined ==
  ASSUME NEW front \in Seq(Pending), NEW back \in Seq(Pending)
  PROVE  /\ front \o back \in Seq(Pending)
         /\ CallsIn(front \o back) = CallsIn(front) \cup CallsIn(back)
         /\ AllSafe(front) /\ AllSafe(back) => AllSafe(front \o back)
<1>. DEFINE both == front \o back
<1>1. /\ both \in Seq(Pending) /\ Len(both) = Len(front) + Len(back)
      /\ \A i \in 1..Len(front) : both[i] = front[i]
      /\ \A i \in 1..Len(back) : both[Len(front) + i] = back[i]
  OBVIOUS
<1>2. DOMAIN front = 1..Len(front) /\ DOMAIN back = 1..Len(back) /\ DOMAIN both = 1..Len(both)
      /\ Len(front) \in Nat /\ Len(back) \in Nat
  BY <1>1
<1>3. ASSUME NEW i \in DOMAIN both
      PROVE  \/ i \in DOMAIN front /\ both[i] = front[i]
             \/ i - Len(front) \in DOMAIN back /\ both[i] = back[i - Len(front)]
  <2>1. CASE i <= Len(front) BY <1>1, <1>2, <2>1
  <2>2. CASE i > Len(front)
    <3>1. i - Len(front) \in 1..Len(back) /\ Len(front) + (i - Len(front)) = i
      BY <1>1, <1>2, <2>2
    <3>. QED BY <1>1, <1>2, <3>1
  <2>. QED BY <1>2, <2>1, <2>2
<1>4. CallsIn(both) \subseteq CallsIn(front) \cup CallsIn(back)
  BY <1>3 DEF CallsIn
<1>5. CallsIn(front) \subseteq CallsIn(both)
  BY <1>1, <1>2 DEF CallsIn
<1>6. CallsIn(back) \subseteq CallsIn(both)
  <2>1. ASSUME NEW i \in DOMAIN back PROVE back[i].call \in CallsIn(both)
    <3>1. Len(front) + i \in DOMAIN both /\ both[Len(front) + i] = back[i]
      BY <1>1, <1>2
    <3>. QED BY <3>1 DEF CallsIn
  <2>. QED BY <2>1 DEF CallsIn
<1>7. AllSafe(front) /\ AllSafe(back) => AllSafe(both)
  BY <1>3 DEF AllSafe
<1>. QED BY <1>1, <1>4, <1>5, <1>6, <1>7

\* What is left once the first call is done.
LEMMA CallsLeft ==
  ASSUME NEW ops \in Seq(Pending), ops # <<>>
  PROVE  /\ Tail(ops) \in Seq(Pending) /\ Head(ops) = ops[1] /\ ops[1] \in Pending
         /\ 1 \in DOMAIN ops
         /\ Len(ops) \in Nat \ {0} /\ DOMAIN ops = 1..Len(ops)
         /\ DOMAIN Tail(ops) = 1..(Len(ops) - 1)
         /\ \A i \in 1..(Len(ops) - 1) : Tail(ops)[i] = ops[i + 1] /\ i + 1 \in DOMAIN ops
         /\ CallsIn(ops) = {Head(ops).call} \cup CallsIn(Tail(ops))
         /\ AllSafe(ops) => AllSafe(Tail(ops))
<1>1. /\ Tail(ops) \in Seq(Pending) /\ Head(ops) = ops[1] /\ ops[1] \in Pending
      /\ 1 \in DOMAIN ops
      /\ Len(ops) \in Nat \ {0} /\ DOMAIN ops = 1..Len(ops)
      /\ DOMAIN Tail(ops) = 1..(Len(ops) - 1)
      /\ \A i \in 1..(Len(ops) - 1) : Tail(ops)[i] = ops[i + 1] /\ i + 1 \in DOMAIN ops
  OBVIOUS
<1>2. \A i \in DOMAIN ops : i = 1 \/ (i - 1 \in 1..(Len(ops) - 1) /\ (i - 1) + 1 = i)
  BY <1>1
<1>3. CallsIn(ops) \subseteq {Head(ops).call} \cup CallsIn(Tail(ops))
  <2>1. ASSUME NEW i \in DOMAIN ops
        PROVE  ops[i].call \in {Head(ops).call} \cup CallsIn(Tail(ops))
    <3>1. CASE i = 1 BY <1>1, <3>1
    <3>2. CASE i # 1
      <4>1. i - 1 \in DOMAIN Tail(ops) /\ Tail(ops)[i - 1] = ops[i]
        BY <1>1, <1>2, <3>2
      <4>. QED BY <4>1 DEF CallsIn
    <3>. QED BY <3>1, <3>2
  <2>. QED BY <2>1 DEF CallsIn
<1>4. {Head(ops).call} \cup CallsIn(Tail(ops)) \subseteq CallsIn(ops)
  BY <1>1 DEF CallsIn
<1>5. AllSafe(ops) => AllSafe(Tail(ops))
  BY <1>1 DEF AllSafe
<1>. QED BY <1>1, <1>3, <1>4, <1>5

LEMMA MadeSafely ==
  ASSUME NEW names \in Seq(DOMAIN ClientCalls)
  PROVE  /\ Dealings!Safely(names) \in Seq(Pending)
         /\ Len(Dealings!Safely(names)) = Len(names)
         /\ DOMAIN Dealings!Safely(names) = 1..Len(names)
         /\ \A i \in 1..Len(names) : Dealings!Safely(names)[i] = [call |-> names[i], safe |-> TRUE]
         /\ CallsIn(Dealings!Safely(names)) = {names[i] : i \in 1..Len(names)}
         /\ AllSafe(Dealings!Safely(names))
<1>. DEFINE ops == [i \in 1..Len(names) |-> [call |-> names[i], safe |-> TRUE]]
<1>1. DOMAIN names = 1..Len(names) /\ Len(names) \in Nat
      /\ \A i \in 1..Len(names) : names[i] \in DOMAIN ClientCalls
  OBVIOUS
<1>2. Dealings!Safely(names) = ops BY <1>1 DEF Dealings!Safely
<1>3. ops \in [1..Len(names) -> Pending] BY <1>1 DEF Pending
<1>. HIDE DEF ops
<1>4. ops \in Seq(Pending) /\ Len(ops) = Len(names) BY <1>1, <1>3
<1>5. DOMAIN ops = 1..Len(names) BY <1>3
<1>6. \A i \in 1..Len(names) : ops[i] = [call |-> names[i], safe |-> TRUE] BY DEF ops
<1>. QED BY <1>2, <1>4, <1>5, <1>6 DEF CallsIn, AllSafe

LEMMA MadeSurely ==
  ASSUME NEW names \in Seq(DOMAIN ClientCalls)
  PROVE  /\ Dealings!Surely(names) \in Seq(Pending)
         /\ Len(Dealings!Surely(names)) = Len(names)
         /\ DOMAIN Dealings!Surely(names) = 1..Len(names)
         /\ \A i \in 1..Len(names) : Dealings!Surely(names)[i] = [call |-> names[i], safe |-> FALSE]
         /\ CallsIn(Dealings!Surely(names)) = {names[i] : i \in 1..Len(names)}
<1>. DEFINE ops == [i \in 1..Len(names) |-> [call |-> names[i], safe |-> FALSE]]
<1>1. DOMAIN names = 1..Len(names) /\ Len(names) \in Nat
      /\ \A i \in 1..Len(names) : names[i] \in DOMAIN ClientCalls
  OBVIOUS
<1>2. Dealings!Surely(names) = ops BY <1>1 DEF Dealings!Surely
<1>3. ops \in [1..Len(names) -> Pending] BY <1>1 DEF Pending
<1>. HIDE DEF ops
<1>4. ops \in Seq(Pending) /\ Len(ops) = Len(names) BY <1>1, <1>3
<1>5. DOMAIN ops = 1..Len(names) BY <1>3
<1>6. \A i \in 1..Len(names) : ops[i] = [call |-> names[i], safe |-> FALSE] BY DEF ops
<1>. QED BY <1>2, <1>4, <1>5, <1>6 DEF CallsIn

LEMMA LoadIs ==
  /\ Dealings!Load \in Seq(Pending) /\ AllSafe(Dealings!Load)
  /\ CallsIn(Dealings!Load) =
       {"currentWorkspace", "listWorkspaces", "listWorkflows", "listExecutions", "listApiKeys",
        "usage", "audit"}
<1>. DEFINE names == <<"currentWorkspace", "listWorkspaces", "listWorkflows", "listExecutions",
                       "listApiKeys", "usage", "audit">>
<1>1. names \in Seq(DOMAIN ClientCalls) BY CallNames
<1>2. {names[i] : i \in 1..Len(names)} =
        {"currentWorkspace", "listWorkspaces", "listWorkflows", "listExecutions", "listApiKeys",
         "usage", "audit"}
  OBVIOUS
<1>. HIDE DEF names
<1>3. Dealings!Load = Dealings!Safely(names) BY DEF Dealings!Load, names
<1>. QED BY <1>1, <1>2, <1>3, MadeSafely

LEMMA SecretListsAre ==
  /\ Dealings!SecretLists \in Seq(Pending) /\ AllSafe(Dealings!SecretLists)
  /\ CallsIn(Dealings!SecretLists) = {"listSecrets", "listCredentials"}
<1>. DEFINE names == <<"listSecrets", "listCredentials">>
<1>1. names \in Seq(DOMAIN ClientCalls) BY CallNames
<1>2. {names[i] : i \in 1..Len(names)} = {"listSecrets", "listCredentials"} OBVIOUS
<1>. HIDE DEF names
<1>3. Dealings!SecretLists = Dealings!Safely(names) BY DEF Dealings!SecretLists, names
<1>. QED BY <1>1, <1>2, <1>3, MadeSafely

LEMMA RunsAre ==
  /\ Dealings!Runs \in Seq(Pending)
  /\ CallsIn(Dealings!Runs) = {"listExecutions", "usage", "audit", "listExecutionSteps"}
<1>. DEFINE names == <<"listExecutions", "usage", "audit", "listExecutionSteps">>
<1>1. names \in Seq(DOMAIN ClientCalls) BY CallNames
<1>2. {names[i] : i \in 1..Len(names)} =
        {"listExecutions", "usage", "audit", "listExecutionSteps"}
  OBVIOUS
<1>. HIDE DEF names
<1>3. Dealings!Runs = Dealings!Safely(names) BY DEF Dealings!Runs, names
<1>. QED BY <1>1, <1>2, <1>3, MadeSafely

\* Calls of which none resets the demo, and none shows a key.
LEMMA NoResetNoKey ==
  ASSUME NEW ops, NEW k
  PROVE  /\ "resetDemo" \notin CallsIn(ops) => ResetThenLoad(ops)
         /\ CallsIn(ops) \cap Dealings!KeyGuarded = {} => KeyComesFirst(ops, k)
BY DEF CallsIn, ResetThenLoad, KeyComesFirst

\* More calls after the first ones.
LEMMA KeyStillFirst ==
  ASSUME NEW front \in Seq(Pending), NEW back \in Seq(Pending), NEW k,
         KeyComesFirst(front, k), CallsIn(back) \cap Dealings!KeyGuarded = {}
  PROVE  KeyComesFirst(front \o back, k)
<1>. DEFINE both == front \o back
<1>1. /\ Len(both) = Len(front) + Len(back) /\ Len(front) \in Nat /\ Len(back) \in Nat
      /\ DOMAIN both = 1..Len(both) /\ DOMAIN front = 1..Len(front)
      /\ DOMAIN back = 1..Len(back)
      /\ \A i \in 1..Len(front) : both[i] = front[i]
      /\ \A i \in 1..Len(back) : both[Len(front) + i] = back[i]
  OBVIOUS
<1>2. ASSUME NEW i \in DOMAIN both, both[i].call \in Dealings!KeyGuarded, k = None
      PROVE  \E j \in 1..(i - 1) : both[j].call = "createApiKey" /\ ~both[j].safe
  <2>1. i <= Len(front)
    <3>1. SUFFICES ASSUME i > Len(front) PROVE FALSE
      BY <1>1
    <3>2. i - Len(front) \in DOMAIN back /\ both[i] = back[i - Len(front)]
      <4>1. i - Len(front) \in 1..Len(back) /\ Len(front) + (i - Len(front)) = i
        BY <1>1, <3>1
      <4>. QED BY <1>1, <4>1
    <3>. QED BY <1>2, <3>2 DEF CallsIn
  <2>2. PICK j \in 1..(i - 1) : front[j].call = "createApiKey" /\ ~front[j].safe
    BY <1>1, <1>2, <2>1 DEF KeyComesFirst
  <2>3. j \in 1..Len(front) BY <1>1, <2>1, <2>2
  <2>. QED BY <1>1, <2>2, <2>3
<1>. QED BY <1>2 DEF KeyComesFirst

LEMMA EmptyCalls ==
  ASSUME NEW ops \in Seq(Pending)
  PROVE  (ops = <<>> <=> Len(ops) = 0) /\ Len(ops) \in Nat
<1>1. Len(<<>>) = 0 BY EmptySeq
<1>2. ops # <<>> => Len(ops) \in Nat \ {0} BY EmptySeq
<1>3. Len(ops) \in Nat BY <1>1, <1>2
<1>. QED BY <1>1, <1>2, <1>3

LEMMA TailJoined ==
  ASSUME NEW front \in Seq(Pending), NEW back \in Seq(Pending), front # <<>>
  PROVE  Tail(front \o back) = Tail(front) \o back /\ Head(front \o back) = Head(front)
         /\ front \o back # <<>>
<1>. DEFINE both == front \o back
<1>1. /\ both \in Seq(Pending) /\ Len(both) = Len(front) + Len(back)
      /\ Len(front) \in Nat \ {0} /\ Len(back) \in Nat
      /\ \A i \in 1..(Len(front) + Len(back)) :
           both[i] = IF i <= Len(front) THEN front[i] ELSE back[i - Len(front)]
  BY EmptyCalls, ConcatProperties
<1>2. both # <<>> /\ both[1] = front[1]
  <2>1. both[1] = front[1] BY <1>1
  <2>2. Len(both) # 0 BY <1>1
  <2>. HIDE DEF both
  <2>. QED BY <1>1, <2>1, <2>2, EmptyCalls
<1>3. /\ Tail(both) \in Seq(Pending) /\ Len(Tail(both)) = (Len(front) - 1) + Len(back)
      /\ \A i \in 1..((Len(front) - 1) + Len(back)) : Tail(both)[i] = both[i + 1]
  <2>. HIDE DEF both
  <2>. QED BY <1>1, <1>2, HeadTailProperties
<1>4. /\ Tail(front) \in Seq(Pending) /\ Len(Tail(front)) = Len(front) - 1
      /\ \A i \in 1..(Len(front) - 1) : Tail(front)[i] = front[i + 1]
  BY <1>1, HeadTailProperties
<1>5. /\ Tail(front) \o back \in Seq(Pending)
      /\ Len(Tail(front) \o back) = (Len(front) - 1) + Len(back)
      /\ \A i \in 1..((Len(front) - 1) + Len(back)) :
           (Tail(front) \o back)[i] =
             IF i <= Len(front) - 1 THEN Tail(front)[i] ELSE back[i - (Len(front) - 1)]
  BY <1>4, ConcatProperties
<1>. HIDE DEF both
<1>6. ASSUME NEW i \in 1..((Len(front) - 1) + Len(back))
      PROVE  Tail(both)[i] = (Tail(front) \o back)[i]
  <2>1. CASE i <= Len(front) - 1
    <3>1. i \in 1..(Len(front) - 1) /\ i + 1 \in 1..(Len(front) + Len(back)) BY <1>1, <2>1
    <3>2. Tail(both)[i] = front[i + 1] BY <1>1, <1>3, <2>1, <3>1
    <3>. QED BY <1>4, <1>5, <2>1, <3>1, <3>2
  <2>2. CASE i > Len(front) - 1
    <3>1. i + 1 \in 1..(Len(front) + Len(back)) /\ ~(i + 1 <= Len(front))
          /\ ~(i <= Len(front) - 1) /\ (i + 1) - Len(front) = i - (Len(front) - 1)
      BY <1>1, <2>2
    <3>. QED BY <1>1, <1>3, <1>5, <3>1
  <2>. QED BY <1>1, <2>1, <2>2
<1>7. Tail(both) = Tail(front) \o back
  BY <1>3, <1>5, <1>6, SeqEqual
<1>8. Head(both) = Head(front)
  <2>1. Head(both) = both[1] /\ Head(front) = front[1] BY <1>1, <1>2
  <2>. QED BY <1>2, <2>1
<1>. QED BY <1>2, <1>7, <1>8 DEF both

LEMMA OneCallLeft ==
  ASSUME NEW ops \in Seq(Pending), Len(ops) = 1
  PROVE  ops # <<>> /\ Tail(ops) = <<>>
<1>1. ops # <<>> BY EmptyCalls
<1>2. Tail(ops) \in Seq(Pending) /\ Len(Tail(ops)) = 0
  BY <1>1, HeadTailProperties
<1>. QED BY <1>1, <1>2, EmptyCalls

LEMMA NoCallsBefore ==
  ASSUME NEW ops \in Seq(Pending) PROVE <<>> \o ops = ops
BY ConcatEmptySeq

Logins == {<<"login">>, <<"register", "login">>, <<"seedDemo", "login">>}

LEMMA LoginsAre ==
  ASSUME NEW names \in Logins
  PROVE  /\ names \in Seq(DOMAIN ClientCalls) /\ Len(names) \in {1, 2}
         /\ names[1] \in SignInCalls
         /\ {names[i] : i \in 1..Len(names)} \subseteq SignInCalls
         /\ \/ names = <<"login">>
            \/ Len(names) = 2 /\ names[1] # "login" /\ names[2] = "login"
<1>1. "login" \in DOMAIN ClientCalls /\ "register" \in DOMAIN ClientCalls
      /\ "seedDemo" \in DOMAIN ClientCalls
  BY CallNames
<1>2. CASE names = <<"login">> BY <1>1, <1>2 DEF SignInCalls
<1>3. CASE names = <<"register", "login">> BY <1>1, <1>3 DEF SignInCalls
<1>4. CASE names = <<"seedDemo", "login">> BY <1>1, <1>4 DEF SignInCalls
<1>. QED BY <1>2, <1>3, <1>4 DEF Logins

\* The operations before a session there is: each begins with a call that must succeed.
LEMMA SignInsAre ==
  ASSUME NEW ops \in Dealings!SignIns
  PROVE  /\ ops \in Seq(Pending) /\ ops # <<>>
         /\ ~Head(ops).safe /\ Head(ops).call \in SignInCalls
         /\ IF Head(ops).call = "login" THEN Tail(ops) = Dealings!Load
            ELSE Tail(ops) \in Dealings!SignIns
         /\ CallsIn(ops) \cap Dealings!OnWorkflow = {}
         /\ CallsIn(ops) \cap Dealings!KeyGuarded = {}
<1>1. PICK names \in Logins : ops = Dealings!Surely(names) \o Dealings!Load
  BY DEF Dealings!SignIns, Logins
<1>. DEFINE opening == Dealings!Surely(names)
<1>2. /\ names \in Seq(DOMAIN ClientCalls) /\ Len(names) \in {1, 2}
      /\ names[1] \in SignInCalls
      /\ {names[i] : i \in 1..Len(names)} \subseteq SignInCalls
  BY LoginsAre
<1>3. opening \in Seq(Pending) /\ Len(opening) = Len(names)
      /\ opening[1] = [call |-> names[1], safe |-> FALSE]
      /\ CallsIn(opening) \subseteq SignInCalls
  BY <1>2, MadeSurely
<1>. HIDE DEF opening
<1>4. /\ ops \in Seq(Pending) /\ ops # <<>> /\ Tail(ops) = Tail(opening) \o Dealings!Load
      /\ Head(ops) = opening[1] /\ CallsIn(ops) = CallsIn(opening) \cup CallsIn(Dealings!Load)
  <2>1. ops = opening \o Dealings!Load BY <1>1 DEF opening
  <2>2. opening # <<>> /\ Head(opening) = opening[1] BY <1>2, <1>3, EmptyCalls
  <2>. QED BY <1>3, <2>1, <2>2, TailJoined, CallsJoined, LoadIs
<1>5. CallsIn(ops) \cap Dealings!OnWorkflow = {}
      /\ CallsIn(ops) \cap Dealings!KeyGuarded = {}
  BY <1>3, <1>4, LoadIs, CallNames DEF SignInCalls, Dealings!KeyGuarded
<1>6. CASE names = <<"login">>
  <2>1. Len(names) = 1 /\ names[1] = "login" BY <1>6
  <2>2. Tail(ops) = Dealings!Load BY <1>3, <1>4, <2>1, OneCallLeft, NoCallsBefore, LoadIs
  <2>. QED BY <1>3, <1>4, <1>5, <2>1, <2>2 DEF SignInCalls
<1>7. CASE Len(names) = 2 /\ names[1] # "login" /\ names[2] = "login"
  <2>. DEFINE lone == <<"login">>
              rest == Dealings!Surely(lone)
  <2>1. lone \in Seq(DOMAIN ClientCalls) /\ Len(lone) = 1 /\ lone[1] = "login"
        /\ lone \in Logins
    BY LoginsAre DEF Logins
  <2>. HIDE DEF lone
  <2>2. rest \in Seq(Pending) /\ Len(rest) = 1 /\ rest[1] = [call |-> "login", safe |-> FALSE]
    BY <2>1, MadeSurely
  <2>3. opening[2] = [call |-> "login", safe |-> FALSE]
    BY <1>2, <1>7, MadeSurely DEF opening
  <2>. HIDE DEF rest
  <2>4. opening # <<>>
    <3>1. Len(opening) = 2 BY <1>3, <1>7
    <3>2. opening = <<>> <=> Len(opening) = 0 BY <1>3, EmptyCalls
    <3>. QED BY <3>1, <3>2
  <2>5. Tail(opening) \in Seq(Pending) /\ Len(Tail(opening)) = 1 /\ Tail(opening)[1] = rest[1]
    <3>1. /\ Tail(opening) \in Seq(Pending) /\ Len(Tail(opening)) = Len(opening) - 1
          /\ \A i \in 1..Len(Tail(opening)) : Tail(opening)[i] = opening[i + 1]
      BY <1>3, <2>4, HeadTailProperties
    <3>2. Len(Tail(opening)) = 1 /\ 1 \in 1..1 BY <1>3, <1>7, <3>1
    <3>3. Tail(opening)[1] = opening[1 + 1] BY <3>1, <3>2
    <3>4. 1 + 1 = 2 OBVIOUS
    <3>5. Tail(opening)[1] = opening[2] BY <3>3, <3>4, Zenon
    <3>. QED BY <2>2, <2>3, <3>1, <3>2, <3>5
  <2>6. Tail(opening) = rest
    <3>1. \A i \in 1..Len(rest) : i = 1 BY <2>2
    <3>. QED BY <2>2, <2>5, <3>1, SeqEqual
  <2>7. Tail(ops) \in Dealings!SignIns
    BY <1>4, <2>1, <2>6 DEF rest, Dealings!SignIns, Logins
  <2>8. Head(ops).call # "login" BY <1>3, <1>4, <1>7
  <2>. QED BY <1>2, <1>3, <1>4, <1>5, <2>7, <2>8
<1>. QED BY <1>6, <1>7, LoginsAre

\* The calls of an operation that is begun with a session: none signs in, the workspace is
\* loaded after a reset, and a key is there before a call that shows it.
Workable(ops, k) ==
  /\ ops \in Seq(Pending) /\ CallsIn(ops) \cap SignInCalls = {}
  /\ ResetThenLoad(ops) /\ KeyComesFirst(ops, k)

\* An operation of given calls, and of more that neither reset the demo nor show a key.
LEMMA PlainIsWorkable ==
  ASSUME NEW names \in Seq(DOMAIN ClientCalls), NEW k,
         {names[i] : i \in 1..Len(names)} \cap
           (SignInCalls \cup Dealings!KeyGuarded \cup {"resetDemo"}) = {}
  PROVE  Workable(Dealings!Surely(names), k) /\ Workable(Dealings!Safely(names), k)
BY MadeSurely, MadeSafely, NoResetNoKey DEF Workable

LEMMA MoreIsWorkable ==
  ASSUME NEW k, NEW front, Workable(front, k), "resetDemo" \notin CallsIn(front),
         NEW back \in Seq(Pending),
         CallsIn(back) \cap (SignInCalls \cup Dealings!KeyGuarded \cup {"resetDemo"}) = {}
  PROVE  Workable(front \o back, k)
<1>1. front \o back \in Seq(Pending) /\ CallsIn(front \o back) = CallsIn(front) \cup CallsIn(back)
  BY CallsJoined DEF Workable
<1>2. ResetThenLoad(front \o back) BY <1>1, NoResetNoKey
<1>3. KeyComesFirst(front \o back, k) BY KeyStillFirst DEF Workable
<1>. QED BY <1>1, <1>2, <1>3 DEF Workable

\* The calls that work with a key: it is created unless the latest one is still known.
LEMMA KeyedIsWorkable ==
  ASSUME NEW calling \in Dealings!Prepared, NEW shows \in Dealings!KeyGuarded,
         NEW then \in {"listExecutions", "listWorkflows"}
  PROVE  LET ops == Dealings!Surely(calling \o Dealings!WithKey \o <<shows, then>>) IN
         Workable(ops, latest) /\ "resetDemo" \notin CallsIn(ops)
<1>. DEFINE Known == DOMAIN ClientCalls
            before == calling \o Dealings!WithKey
            ending == <<shows, then>>
            names == before \o ending
            ops == Dealings!Surely(names)
            early == {"updateDraftWorkflow", "publishWorkflow", "createApiKey"}
<1>1. /\ calling \in Seq(Known)
      /\ \A i \in 1..Len(calling) : calling[i] \in early
  <2>1. "updateDraftWorkflow" \in Known /\ "publishWorkflow" \in Known BY CallNames
  <2>2. CASE calling = <<>> BY <2>2
  <2>3. CASE calling = <<"updateDraftWorkflow", "publishWorkflow">> BY <2>1, <2>3
  <2>. QED BY <2>2, <2>3 DEF Dealings!Prepared
<1>2. /\ Dealings!WithKey \in Seq(Known)
      /\ \A i \in 1..Len(Dealings!WithKey) : Dealings!WithKey[i] = "createApiKey"
      /\ latest = None => Len(Dealings!WithKey) = 1
  <2>1. "createApiKey" \in Known BY CallNames
  <2>2. CASE latest = None BY <2>1, <2>2 DEF Dealings!WithKey
  <2>3. CASE latest # None BY <2>3 DEF Dealings!WithKey
  <2>. QED BY <2>2, <2>3
<1>3. shows \in {"automationContract", "executeAutomation"} BY DEF Dealings!KeyGuarded
<1>4. ending \in Seq(Known) /\ Len(ending) = 2 /\ ending[1] = shows /\ ending[2] = then
  <2>1. shows \in Known /\ then \in Known BY <1>3, CallNames
  <2>. QED BY <2>1
<1>. HIDE DEF Known, ending
<1>5. /\ before \in Seq(Known) /\ Len(before) \in Nat
      /\ \A i \in 1..Len(before) : before[i] \in early
      /\ latest = None => \E i \in 1..Len(before) : before[i] = "createApiKey"
  <2>1. /\ before \in Seq(Known) /\ Len(before) = Len(calling) + Len(Dealings!WithKey)
        /\ Len(calling) \in Nat /\ Len(Dealings!WithKey) \in Nat
        /\ \A i \in 1..(Len(calling) + Len(Dealings!WithKey)) :
             before[i] = IF i <= Len(calling) THEN calling[i]
                         ELSE Dealings!WithKey[i - Len(calling)]
    BY <1>1, <1>2, ConcatProperties, LenProperties
  <2>. HIDE DEF before
  <2>2. ASSUME NEW i \in 1..Len(before), i > Len(calling) PROVE before[i] = "createApiKey"
    <3>1. i - Len(calling) \in 1..Len(Dealings!WithKey) BY <2>1, <2>2
    <3>. QED BY <1>2, <2>1, <2>2, <3>1
  <2>3. ASSUME NEW i \in 1..Len(before), i <= Len(calling) PROVE before[i] \in early
    BY <1>1, <2>1, <2>3
  <2>4. latest = None => Len(calling) + 1 \in 1..Len(before) /\ Len(calling) + 1 > Len(calling)
    <3>1. latest = None => Len(Dealings!WithKey) = 1 BY <1>2
    <3>2. Len(before) = Len(calling) + Len(Dealings!WithKey) /\ Len(calling) \in Nat BY <2>1
    <3>. HIDE DEF before
    <3>. QED BY <3>1, <3>2
  <2>5. Len(before) \in Nat BY <2>1
  <2>6. \A i \in 1..Len(before) : before[i] \in early
    <3>1. \A i \in 1..Len(before) : i <= Len(calling) \/ i > Len(calling) BY <2>1
    <3>. QED BY <2>2, <2>3, <3>1
  <2>. QED BY <2>1, <2>2, <2>4, <2>5, <2>6
<1>. HIDE DEF before
<1>6. /\ names \in Seq(Known) /\ Len(names) = Len(before) + 2
      /\ \A i \in 1..(Len(before) + 2) :
           names[i] = IF i <= Len(before) THEN before[i] ELSE ending[i - Len(before)]
  <2>1. /\ names \in Seq(Known) /\ Len(names) = Len(before) + Len(ending)
        /\ \A i \in 1..(Len(before) + Len(ending)) :
             names[i] = IF i <= Len(before) THEN before[i] ELSE ending[i - Len(before)]
    BY <1>4, <1>5, ConcatProperties
  <2>2. Len(ending) = 2 BY <1>4
  <2>. HIDE DEF names
  <2>. QED BY <2>1, <2>2
<1>. HIDE DEF names
<1>7. ASSUME NEW i \in 1..Len(names)
      PROVE  \/ i \in 1..Len(before) /\ names[i] = before[i] /\ names[i] \in early
             \/ i = Len(before) + 1 /\ names[i] = shows
             \/ i = Len(before) + 2 /\ names[i] = then
  <2>1. CASE i <= Len(before) BY <1>5, <1>6, <2>1
  <2>2. CASE i > Len(before)
    <3>1. \/ i = Len(before) + 1 /\ i - Len(before) = 1
          \/ i = Len(before) + 2 /\ i - Len(before) = 2
      BY <1>5, <1>6, <2>2
    <3>. QED BY <1>4, <1>5, <1>6, <2>2, <3>1
  <2>. QED BY <1>5, <1>6, <2>1, <2>2
<1>8. /\ ops \in Seq(Pending) /\ DOMAIN ops = 1..Len(names)
      /\ \A i \in 1..Len(names) : ops[i].call = names[i] /\ ~ops[i].safe
      /\ CallsIn(ops) \subseteq early \cup {shows, then}
  <2>1. {names[i] : i \in 1..Len(names)} \subseteq early \cup {shows, then} BY <1>7
  <2>2. names \in Seq(DOMAIN ClientCalls) BY <1>6 DEF Known
  <2>3. /\ ops \in Seq(Pending) /\ DOMAIN ops = 1..Len(names)
        /\ \A i \in 1..Len(names) : ops[i] = [call |-> names[i], safe |-> FALSE]
        /\ CallsIn(ops) = {names[i] : i \in 1..Len(names)}
    BY <2>2, MadeSurely
  <2>. HIDE DEF ops
  <2>4. ASSUME NEW i \in 1..Len(names) PROVE ops[i].call = names[i] /\ ~ops[i].safe
    <3>1. ops[i] = [call |-> names[i], safe |-> FALSE] BY <2>3
    <3>. QED BY <3>1
  <2>5. CallsIn(ops) \subseteq early \cup {shows, then}
    <3>. HIDE DEF early
    <3>. QED BY <2>1, <2>3, Zenon
  <2>. QED BY <2>3, <2>4, <2>5
<1>. HIDE DEF ops
<1>9. ResetThenLoad(ops) /\ "resetDemo" \notin CallsIn(ops) /\ CallsIn(ops) \cap SignInCalls = {}
  BY <1>8, <1>3, NoResetNoKey DEF SignInCalls
<1>10. KeyComesFirst(ops, latest)
  <2>1. SUFFICES ASSUME NEW i \in DOMAIN ops, ops[i].call \in Dealings!KeyGuarded, latest = None
                 PROVE  \E j \in 1..(i - 1) : ops[j].call = "createApiKey" /\ ~ops[j].safe
    BY DEF KeyComesFirst
  <2>2. i = Len(before) + 1 BY <1>7, <1>8, <2>1 DEF Dealings!KeyGuarded
  <2>3. PICK j \in 1..Len(before) : before[j] = "createApiKey" BY <1>5, <2>1
  <2>4. j \in 1..(i - 1) /\ j \in 1..Len(names) /\ j <= Len(before)
    BY <1>5, <1>6, <2>2, <2>3
  <2>5. names[j] = "createApiKey" BY <1>5, <1>6, <2>3, <2>4
  <2>. QED BY <1>8, <2>4, <2>5
<1>. QED BY <1>8, <1>9, <1>10 DEF Workable, ops, names, before, ending

\* The calls there is nothing to heed with.
PlainCalls == DOMAIN ClientCalls \ (SignInCalls \cup Dealings!KeyGuarded \cup {"resetDemo"})

LEMMA FewPlainCalls ==
  /\ \A a \in PlainCalls : Workable(Dealings!Surely(<<a>>), latest)
                             /\ Workable(Dealings!Safely(<<a>>), latest)
                             /\ CallsIn(Dealings!Surely(<<a>>)) = {a}
  /\ \A a, b \in PlainCalls : Workable(Dealings!Surely(<<a, b>>), latest)
<1>1. ASSUME NEW a \in PlainCalls, NEW b \in PlainCalls
      PROVE  /\ Workable(Dealings!Surely(<<a>>), latest)
             /\ Workable(Dealings!Safely(<<a>>), latest)
             /\ CallsIn(Dealings!Surely(<<a>>)) = {a}
             /\ Workable(Dealings!Surely(<<a, b>>), latest)
  <2>. DEFINE lone == <<a>>
              pair == <<a, b>>
  <2>1. lone \in Seq(DOMAIN ClientCalls) /\ pair \in Seq(DOMAIN ClientCalls) BY DEF PlainCalls
  <2>2. {lone[i] : i \in 1..Len(lone)} = {a} /\ {pair[i] : i \in 1..Len(pair)} = {a, b}
    OBVIOUS
  <2>. HIDE DEF lone, pair
  <2>3. CallsIn(Dealings!Surely(lone)) = {a} BY <2>1, <2>2, MadeSurely
  <2>4. Workable(Dealings!Surely(lone), latest) /\ Workable(Dealings!Safely(lone), latest)
    BY <2>1, <2>2, PlainIsWorkable DEF PlainCalls
  <2>5. Workable(Dealings!Surely(pair), latest)
    BY <2>1, <2>2, PlainIsWorkable DEF PlainCalls
  <2>. QED BY <2>3, <2>4, <2>5 DEF lone, pair
<1>. QED BY <1>1

LEMMA PlainNames ==
  {"logout", "currentWorkspace", "listWorkspaces", "updateWorkspaceName", "listWorkflows",
   "getWorkflow", "createWorkflow", "updateDraftWorkflow", "publishWorkflow", "testWorkflow",
   "listSecrets", "saveSecret", "deleteSecret", "listCredentials", "saveCredential",
   "deleteCredential", "listExecutions", "listExecutionSteps", "retryExecution", "usage",
   "audit", "listApiKeys", "createApiKey", "revokeApiKey", "checkout", "portal"}
    \subseteq PlainCalls
BY CallNames DEF PlainCalls, SignInCalls, Dealings!KeyGuarded

LEMMA ResetIsWorkable ==
  Workable(Dealings!Surely(<<"resetDemo">>) \o Dealings!Load, latest)
<1>. DEFINE names == <<"resetDemo">>
            front == Dealings!Surely(names)
            ops == front \o Dealings!Load
<1>1. names \in Seq(DOMAIN ClientCalls) /\ Len(names) = 1
      /\ {names[i] : i \in 1..Len(names)} = {"resetDemo"}
  BY CallNames
<1>2. front \in Seq(Pending) /\ Len(front) = 1 /\ CallsIn(front) = {"resetDemo"}
  BY <1>1, MadeSurely
<1>. HIDE DEF front
<1>3. front # <<>> /\ Tail(front) = <<>> BY <1>2, OneCallLeft
<1>4. /\ ops \in Seq(Pending) /\ ops # <<>> /\ Tail(ops) = Dealings!Load
      /\ CallsIn(ops) = {"resetDemo"} \cup CallsIn(Dealings!Load)
  <2>1. ops \in Seq(Pending) /\ CallsIn(ops) = CallsIn(front) \cup CallsIn(Dealings!Load)
    BY <1>2, CallsJoined, LoadIs
  <2>2. ops # <<>> /\ Tail(ops) = Tail(front) \o Dealings!Load
    BY <1>2, <1>3, TailJoined, LoadIs
  <2>3. Tail(front) \o Dealings!Load = Dealings!Load BY <1>3, NoCallsBefore, LoadIs
  <2>. HIDE DEF ops
  <2>. QED BY <1>2, <2>1, <2>2, <2>3
<1>. HIDE DEF ops
<1>5. ASSUME NEW i \in DOMAIN ops, i # 1 PROVE ops[i].call # "resetDemo"
  <2>1. i - 1 \in DOMAIN Tail(ops) /\ Tail(ops)[i - 1] = ops[i]
    <3>1. i - 1 \in 1..(Len(ops) - 1) /\ (i - 1) + 1 = i BY <1>4, <1>5, CallsLeft
    <3>. QED BY <1>4, <3>1, CallsLeft
  <2>2. ops[i].call \in CallsIn(Dealings!Load) BY <1>4, <2>1 DEF CallsIn
  <2>. QED BY <2>2, LoadIs
<1>6. ResetThenLoad(ops) BY <1>4, <1>5 DEF ResetThenLoad
<1>7. CallsIn(ops) \cap SignInCalls = {} /\ CallsIn(ops) \cap Dealings!KeyGuarded = {}
  BY <1>4, LoadIs DEF SignInCalls, Dealings!KeyGuarded
<1>8. KeyComesFirst(ops, latest) BY <1>7, NoResetNoKey
<1>. QED BY <1>4, <1>6, <1>7, <1>8 DEF Workable, ops, front, names

\* Every operation of the pages is workable with the latest key.
LEMMA OperationsAreWorkable ==
  ASSUME NEW ops \in Dealings!Operations PROVE Workable(ops, latest)
<1>1. CASE ops \in Dealings!RunWorkflowCheck
  <2>. DEFINE names == <<"usage", "audit", "listExecutionSteps">>
  <2>1. PICK calling \in Dealings!Prepared :
          ops = Dealings!Surely(calling \o Dealings!WithKey
                                  \o <<"executeAutomation", "listExecutions">>)
                  \o Dealings!Safely(names)
    BY <1>1 DEF Dealings!RunWorkflowCheck
  <2>2. names \in Seq(DOMAIN ClientCalls)
        /\ {names[i] : i \in 1..Len(names)} = {"usage", "audit", "listExecutionSteps"}
    BY CallNames
  <2>. HIDE DEF names
  <2>3. Dealings!Safely(names) \in Seq(Pending)
        /\ CallsIn(Dealings!Safely(names)) = {"usage", "audit", "listExecutionSteps"}
    BY <2>2, MadeSafely
  <2>. QED
    BY <2>1, <2>3, KeyedIsWorkable, MoreIsWorkable DEF SignInCalls, Dealings!KeyGuarded
<1>2. CASE ops \in Dealings!LoadAutomationContract
  <2>1. PICK calling \in Dealings!Prepared :
          ops = Dealings!Surely(calling \o Dealings!WithKey
                                  \o <<"automationContract", "listWorkflows">>)
    BY <1>2 DEF Dealings!LoadAutomationContract
  <2>. QED BY <2>1, KeyedIsWorkable DEF Dealings!KeyGuarded
<1>3. CASE ops = Dealings!Surely(<<"getWorkflow">>) \o Dealings!SecretLists
  <2>1. Workable(Dealings!Surely(<<"getWorkflow">>), latest)
        /\ CallsIn(Dealings!Surely(<<"getWorkflow">>)) = {"getWorkflow"}
    BY FewPlainCalls, PlainNames
  <2>. QED BY <1>3, <2>1, MoreIsWorkable, SecretListsAre DEF SignInCalls, Dealings!KeyGuarded
<1>4. CASE ops \in Dealings!WorkflowOperations \ (Dealings!RunWorkflowCheck
                     \cup Dealings!LoadAutomationContract
                     \cup {Dealings!Surely(<<"getWorkflow">>) \o Dealings!SecretLists})
  BY <1>4, FewPlainCalls, PlainNames DEF Dealings!WorkflowOperations
<1>5. CASE ops = Dealings!Surely(<<"retryExecution">>) \o Dealings!Runs
  <2>1. Workable(Dealings!Surely(<<"retryExecution">>), latest)
        /\ CallsIn(Dealings!Surely(<<"retryExecution">>)) = {"retryExecution"}
    BY FewPlainCalls, PlainNames
  <2>. QED BY <1>5, <2>1, MoreIsWorkable, RunsAre DEF SignInCalls, Dealings!KeyGuarded
<1>6. CASE ops = Dealings!Runs
  BY <1>6, RunsAre, NoResetNoKey DEF Workable, SignInCalls, Dealings!KeyGuarded
<1>7. CASE ops \in {Dealings!Surely(<<"createWorkflow", "listWorkflows">>),
                    Dealings!Surely(<<"listExecutionSteps">>),
                    Dealings!Surely(<<"createApiKey", "listApiKeys">>),
                    Dealings!Surely(<<"updateWorkspaceName">>),
                    Dealings!Surely(<<"checkout">>), Dealings!Surely(<<"portal">>),
                    Dealings!Safely(<<"logout">>),
                    Dealings!Surely(<<"revokeApiKey", "listApiKeys">>)}
  BY <1>7, FewPlainCalls, PlainNames
<1>. QED
  BY <1>1, <1>2, <1>3, <1>4, <1>5, <1>6, <1>7, ResetIsWorkable DEF Dealings!Operations

---------------------------------------------------------------------------
(***************************************************************************)
(* The invariant of the sessions: what the console shows and works with is *)
(* there at the API, unless a key was revoked or another browser acted.    *)
(***************************************************************************)
Standing(k) == k \in live \/ disturbed \/ revoked

\* Without a session there is nothing but a sign-in under way.
AwayInv ==
  ~signedIn => /\ chosen = "none" /\ listed = {} /\ key = None /\ latest = None
               /\ todo \in {<<>>} \cup Dealings!SignIns

\* A workflow that the console's own reset has removed is replaced by the load under way.
StaleInv ==
  chosen = "gone" /\ ~disturbed =>
    /\ "listWorkflows" \in CallsIn(todo) /\ CallsIn(todo) \cap Dealings!OnWorkflow = {}
    /\ AllSafe(todo)

WorkInv ==
  signedIn => CallsIn(todo) \cap SignInCalls = {} /\ ResetThenLoad(todo)

ShownKeysInv ==
  /\ key # None => Standing(key)
  /\ latest # None => Standing(latest)
  /\ \A k \in listed : Standing(k)

SessionInv ==
  /\ todo \in Seq(Pending) /\ KeyComesFirst(todo, key) /\ made \in 0..MaxKeys
  /\ AwayInv /\ StaleInv /\ WorkInv /\ ShownKeysInv
  /\ Dealings!SessionsEndForCause

LEMMA SessionInit == Init => SessionInv
<1>1. MaxKeys \in Nat BY ControlPlaneAssumption DEF Dealings!ConsoleApiAssumption
<1>2. <<>> \in Seq(Pending) /\ KeyComesFirst(<<>>, None) BY DEF KeyComesFirst
<1>. QED
  BY <1>1, <1>2
  DEF Init, Dealings!Init, SessionInv, AwayInv, StaleInv, WorkInv, ShownKeysInv,
      Dealings!SessionsEndForCause

\* Without a session, what is asked is a sign-in that must succeed.
LEMMA AwayAsksToSignIn ==
  ASSUME SessionInv, todo # <<>>
  PROVE  /\ Head(todo) \in Pending /\ Dealings!Asked = Head(todo).call
         /\ Dealings!Asked \in CallsIn(todo)
         /\ ~signedIn => Dealings!Asked \in SignInCalls /\ ~Head(todo).safe
         /\ signedIn => Dealings!Asked \notin SignInCalls
BY CallsLeft, SignInsAre DEF SessionInv, AwayInv, WorkInv, Dealings!Asked

\* The operation goes on.
LEMMA GoOnLeaves ==
  ASSUME todo \in Seq(Pending), todo # <<>>, KeyComesFirst(todo, key), Dealings!GoOn,
         \/ key' # None
         \/ key' = key /\ (Head(todo).safe \/ Dealings!Asked # "createApiKey")
  PROVE  /\ todo' \in Seq(Pending) /\ KeyComesFirst(todo', key')
         /\ CallsIn(Tail(todo)) \subseteq CallsIn(todo')
         /\ CallsIn(todo') \subseteq CallsIn(Tail(todo)) \cup {"listSecrets", "listCredentials"}
         /\ Dealings!Asked # "listWorkflows" => todo' = Tail(todo)
         /\ AllSafe(todo) => AllSafe(todo')
         /\ ResetThenLoad(todo) => ResetThenLoad(todo')
         /\ latest' \in {key', latest}
<1>. DEFINE left == Tail(todo)
<1>1. KeyComesFirst(left, key')
  <2>1. SUFFICES ASSUME NEW i \in DOMAIN left, left[i].call \in Dealings!KeyGuarded, key' = None
                 PROVE  \E j \in 1..(i - 1) : left[j].call = "createApiKey" /\ ~left[j].safe
    BY DEF KeyComesFirst
  <2>2. i \in 1..(Len(todo) - 1) /\ left[i] = todo[i + 1] /\ i + 1 \in DOMAIN todo
    BY CallsLeft
  <2>3. PICK j \in 1..((i + 1) - 1) : todo[j].call = "createApiKey" /\ ~todo[j].safe
    BY <2>1, <2>2 DEF KeyComesFirst
  <2>4. j # 1 BY <2>1, <2>3, CallsLeft DEF Dealings!Asked
  <2>5. j - 1 \in 1..(i - 1) /\ j - 1 \in 1..(Len(todo) - 1) /\ (j - 1) + 1 = j
    BY <2>2, <2>3, <2>4, CallsLeft
  <2>6. left[j - 1] = todo[j] BY <2>5, CallsLeft
  <2>. QED BY <2>3, <2>5, <2>6
<1>2. left \in Seq(Pending) /\ (AllSafe(todo) => AllSafe(left)) BY CallsLeft
<1>3. ResetThenLoad(todo) => "resetDemo" \notin CallsIn(left)
  <2>1. ASSUME ResetThenLoad(todo), NEW i \in DOMAIN left PROVE left[i].call # "resetDemo"
    <3>1. left[i] = todo[i + 1] /\ i + 1 \in DOMAIN todo /\ i + 1 # 1 BY CallsLeft
    <3>. QED BY <2>1, <3>1 DEF ResetThenLoad
  <2>. QED BY <2>1 DEF CallsIn
<1>4. latest' \in {key', latest} BY DEF Dealings!GoOn
<1>. HIDE DEF left
<1>5. CASE todo' = left
  BY <1>1, <1>2, <1>3, <1>4, <1>5, NoResetNoKey DEF left
<1>6. CASE todo' = left \o Dealings!SecretLists /\ Dealings!Asked = "listWorkflows"
  <2>1. KeyComesFirst(todo', key')
    BY <1>1, <1>2, <1>6, KeyStillFirst, SecretListsAre DEF Dealings!KeyGuarded
  <2>2. /\ todo' \in Seq(Pending) /\ CallsIn(todo') = CallsIn(left) \cup CallsIn(Dealings!SecretLists)
        /\ AllSafe(left) /\ AllSafe(Dealings!SecretLists) => AllSafe(todo')
    BY <1>2, <1>6, CallsJoined, SecretListsAre
  <2>. QED BY <1>2, <1>3, <1>4, <1>6, <2>1, <2>2, SecretListsAre, NoResetNoKey DEF left
<1>. QED BY <1>5, <1>6 DEF Dealings!GoOn, Dealings!Asked, left

\* The session is left: there is nothing to be wrong about.
LEMMA LeaveKeepsSessions ==
  ASSUME Dealings!Leave, made' \in 0..MaxKeys, Dealings!SessionsEndForCause'
  PROVE  SessionInv'
<1>1. <<>> \in Seq(Pending) /\ KeyComesFirst(<<>>, None) BY DEF KeyComesFirst
<1>. QED
  BY <1>1 DEF Dealings!Leave, SessionInv, AwayInv, StaleInv, WorkInv, ShownKeysInv

LEMMA BeginKeepsSessions == ASSUME SessionInv, Dealings!Begin PROVE SessionInv'
<1>. USE DEF Dealings!Begin
<1>1. ~(chosen = "gone" /\ ~disturbed) BY DEF SessionInv, StaleInv, CallsIn
<1>2. CASE signedIn
  <2>1. Workable(todo', latest) BY <1>2, OperationsAreWorkable
  <2>. QED
    BY <1>1, <1>2, <2>1
    DEF Workable, SessionInv, AwayInv, StaleInv, WorkInv, ShownKeysInv, Standing,
        Dealings!SessionsEndForCause
<1>3. CASE ~signedIn
  <2>1. todo' \in Dealings!SignIns /\ key' = None BY <1>3 DEF SessionInv, AwayInv
  <2>2. todo' \in Seq(Pending) BY <2>1, SignInsAre
  <2>3. KeyComesFirst(todo', key')
    <3>3. CallsIn(todo') \cap Dealings!KeyGuarded = {} BY <2>1, SignInsAre
    <3>. QED BY <3>3, NoResetNoKey
  <2>. QED
    BY <1>1, <1>3, <2>1, <2>2, <2>3
    DEF SessionInv, AwayInv, StaleInv, WorkInv, ShownKeysInv, Standing,
        Dealings!SessionsEndForCause
<1>. QED BY <1>2, <1>3

LEMMA ReloadKeepsSessions == ASSUME SessionInv, Dealings!Reload PROVE SessionInv'
<1>1. KeyComesFirst(Dealings!Load, None) /\ ResetThenLoad(Dealings!Load)
      /\ CallsIn(Dealings!Load) \cap SignInCalls = {}
  BY LoadIs, NoResetNoKey DEF Dealings!KeyGuarded, SignInCalls
<1>. QED
  BY <1>1, LoadIs
  DEF Dealings!Reload, SessionInv, AwayInv, StaleInv, WorkInv, ShownKeysInv, Standing,
      Dealings!SessionsEndForCause

LEMMA SignedInKeepsSessions ==
  ASSUME SessionInv, todo # <<>>, Dealings!SignedIn PROVE SessionInv'
<1>. USE DEF Dealings!SignedIn
<1>1. ~signedIn /\ Dealings!Asked = "login" /\ Head(todo).call = "login"
  BY AwayAsksToSignIn DEF SignInCalls
<1>2. todo \in Dealings!SignIns /\ Tail(todo) = Dealings!Load
      /\ chosen = "none" /\ listed = {} /\ key = None /\ latest = None
  BY <1>1, SignInsAre DEF SessionInv, AwayInv
<1>3. todo' = Dealings!Load /\ latest' = None /\ key' = None
  BY <1>1, <1>2 DEF Dealings!GoOn
<1>4. KeyComesFirst(Dealings!Load, None) /\ ResetThenLoad(Dealings!Load)
      /\ CallsIn(Dealings!Load) \cap SignInCalls = {}
  BY LoadIs, NoResetNoKey DEF Dealings!KeyGuarded, SignInCalls
<1>. QED
  BY <1>2, <1>3, <1>4, LoadIs
  DEF SessionInv, AwayInv, StaleInv, WorkInv, ShownKeysInv, Standing,
      Dealings!SessionsEndForCause

LEMMA SignedOutKeepsSessions == ASSUME SessionInv, Dealings!SignedOut PROVE SessionInv'
BY LeaveKeepsSessions DEF Dealings!SignedOut, SessionInv, Dealings!SessionsEndForCause

LEMMA KeyCreatedKeepsSessions ==
  ASSUME SessionInv, todo # <<>>, Dealings!KeyCreated PROVE SessionInv'
<1>. USE DEF Dealings!KeyCreated
<1>1. signedIn /\ Dealings!Asked = "createApiKey"
  BY AwayAsksToSignIn DEF SignInCalls
<1>2. made # MaxKeys
  BY <1>1 DEF Dealings!Statuses, Dealings!Verdicts, Dealings!Denied, Dealings!OnWorkflow,
              Dealings!KeyGuarded, SecretCalls
<1>3. MaxKeys \in Nat /\ None \notin 1..MaxKeys
  BY ControlPlaneAssumption DEF Dealings!ConsoleApiAssumption, Dealings!Keys
<1>4. made' \in 0..MaxKeys /\ key' \in live' /\ key' # None /\ live \subseteq live'
  BY <1>2, <1>3 DEF SessionInv
<1>5. /\ todo' \in Seq(Pending) /\ KeyComesFirst(todo', key') /\ todo' = Tail(todo)
      /\ AllSafe(todo) => AllSafe(todo')
      /\ ResetThenLoad(todo) => ResetThenLoad(todo')
      /\ latest' \in {key', latest}
  BY <1>1, <1>4, GoOnLeaves DEF SessionInv
<1>6. CallsIn(todo) = {"createApiKey"} \cup CallsIn(todo')
  BY <1>1, <1>5, CallsLeft DEF SessionInv, Dealings!Asked
<1>7. StaleInv' BY <1>5, <1>6 DEF SessionInv, StaleInv
<1>8. ShownKeysInv' BY <1>4, <1>5 DEF SessionInv, ShownKeysInv, Standing
<1>. QED
  BY <1>1, <1>4, <1>5, <1>6, <1>7, <1>8
  DEF SessionInv, AwayInv, WorkInv, Dealings!SessionsEndForCause

LEMMA KeyRevokedKeepsSessions ==
  ASSUME SessionInv, todo # <<>>, NEW k \in Dealings!Keys, Dealings!KeyRevoked(k)
  PROVE  SessionInv'
<1>. USE DEF Dealings!KeyRevoked
<1>1. signedIn /\ Dealings!Asked = "revokeApiKey"
  BY AwayAsksToSignIn DEF SignInCalls
<1>2. /\ todo' \in Seq(Pending) /\ KeyComesFirst(todo', key') /\ todo' = Tail(todo)
      /\ AllSafe(todo) => AllSafe(todo')
      /\ ResetThenLoad(todo) => ResetThenLoad(todo')
      /\ latest' \in {key', latest}
  BY <1>1, GoOnLeaves DEF SessionInv
<1>3. CallsIn(todo) = {"revokeApiKey"} \cup CallsIn(todo')
  BY <1>1, <1>2, CallsLeft DEF SessionInv, Dealings!Asked
<1>4. StaleInv' BY <1>2, <1>3 DEF SessionInv, StaleInv
<1>5. ShownKeysInv' BY <1>2 DEF SessionInv, ShownKeysInv, Standing
<1>. QED
  BY <1>1, <1>2, <1>3, <1>4, <1>5
  DEF SessionInv, AwayInv, WorkInv, Dealings!SessionsEndForCause

LEMMA AnsweredKeepsSessions ==
  ASSUME SessionInv, todo # <<>>, Dealings!Answered PROVE SessionInv'
<1>. USE DEF Dealings!Answered
<1>1. /\ todo' \in Seq(Pending) /\ KeyComesFirst(todo', key')
      /\ CallsIn(Tail(todo)) \subseteq CallsIn(todo')
      /\ Dealings!Asked # "listWorkflows" => todo' = Tail(todo)
      /\ AllSafe(todo) => AllSafe(todo')
      /\ ResetThenLoad(todo) => ResetThenLoad(todo')
      /\ latest' \in {key', latest}
      /\ CallsIn(todo') \subseteq CallsIn(Tail(todo)) \cup {"listSecrets", "listCredentials"}
  BY GoOnLeaves DEF SessionInv
<1>2. CallsIn(todo) = {Dealings!Asked} \cup CallsIn(Tail(todo))
  BY CallsLeft DEF SessionInv, Dealings!Asked
<1>3. ShownKeysInv'
  BY <1>1 DEF SessionInv, ShownKeysInv, Standing
<1>4. WorkInv'
  BY <1>1, <1>2 DEF SessionInv, WorkInv, SignInCalls
<1>5. CASE Dealings!Asked = "listWorkflows"
  <2>1. signedIn BY <1>5, AwayAsksToSignIn DEF SignInCalls
  <2>2. chosen' # "gone" BY <1>5
  <2>. QED
    BY <1>1, <1>3, <1>4, <2>1, <2>2
    DEF SessionInv, AwayInv, StaleInv, Dealings!SessionsEndForCause
<1>6. CASE Dealings!Asked = "resetDemo"
  <2>1. signedIn BY <1>6, AwayAsksToSignIn DEF SignInCalls
  <2>2. Head(todo).call = "resetDemo" /\ Head(todo) = todo[1] /\ 1 \in DOMAIN todo
    BY <1>6, CallsLeft DEF SessionInv, Dealings!Asked
  <2>3. todo' = Dealings!Load
    BY <1>1, <1>6, <2>1, <2>2 DEF SessionInv, WorkInv, ResetThenLoad
  <2>4. StaleInv' BY <2>3, LoadIs, CallNames DEF StaleInv
  <2>. QED
    BY <1>1, <1>3, <1>4, <2>1, <2>4
    DEF SessionInv, AwayInv, Dealings!SessionsEndForCause
<1>7. CASE Dealings!Asked \notin {"listWorkflows", "resetDemo"}
  <2>1. chosen' = chosen /\ todo' = Tail(todo) BY <1>1, <1>7
  <2>2. StaleInv' BY <1>1, <1>2, <1>7, <2>1 DEF SessionInv, StaleInv
  <2>3. AwayInv'
    <3>1. SUFFICES ASSUME ~signedIn PROVE AwayInv'
      BY DEF AwayInv
    <3>2. Dealings!Asked \in SignInCalls /\ Dealings!Asked = Head(todo).call
      BY <3>1, AwayAsksToSignIn
    <3>3. Head(todo).call # "login" BY <3>2
    <3>4. todo' \in Dealings!SignIns
      BY <2>1, <3>1, <3>3, SignInsAre DEF SessionInv, AwayInv
    <3>5. Dealings!Asked # "listApiKeys" BY <3>2 DEF SignInCalls
    <3>. QED BY <1>1, <2>1, <3>1, <3>4, <3>5 DEF SessionInv, AwayInv
  <2>. QED
    BY <1>1, <1>3, <1>4, <2>2, <2>3 DEF SessionInv, Dealings!SessionsEndForCause
<1>. QED BY <1>5, <1>6, <1>7

\* What ends a session the API honours: the call met a guard or a use case that refuses it,
\* and both look at what the invariant is about.
LEMMA RefusalsHaveCause ==
  ASSUME SessionInv, todo # <<>>, signedIn, holds, ~disturbed, NEW k, Dealings!Revokes(k),
         NEW code \in Dealings!Statuses(k), Dealings!IsAuthenticationError(code)
  PROVE  \/ Dealings!Asked = "resetDemo" /\ ~inDemo
         \/ Dealings!Asked \in Dealings!KeyGuarded \cup {"revokeApiKey"} /\ revoked
<1>. DEFINE asked == Dealings!Asked
            route == CHOOSE r \in RoutesMet[asked] : TRUE
<1>1. asked \in DOMAIN ClientCalls /\ asked \in CallsIn(todo) /\ asked \notin SignInCalls
      /\ Head(todo) = todo[1] /\ 1 \in DOMAIN todo /\ asked = todo[1].call
  BY AwayAsksToSignIn, CallsLeft DEF SessionInv, Pending
<1>2. code \in {401, 403} BY DEF Dealings!IsAuthenticationError
<1>3. RoutesMet[asked] # {} /\ (~Dealings!Admits(route.guard) \/ code \in Dealings!Verdicts(k))
  BY <1>2 DEF Dealings!Statuses, Dealings!Meets
<1>. HIDE DEF asked
<1>4. CASE ~Dealings!Admits(route.guard)
  <2>1. /\ route.guard \in {"open", "session", "key"}
        /\ route.guard = "session" => "session" \in ClientCalls[asked].shows
        /\ route.guard = "key" =>
             asked \in Dealings!KeyGuarded /\ "key" \in ClientCalls[asked].shows
    BY <1>1, <1>3, GuardsAreServed
  <2>. HIDE DEF route
  <2>2. route.guard = "key" /\ key \notin live
    BY <1>4, <2>1 DEF Dealings!Admits, Dealings!Call, asked
  <2>3. key # None
    BY <1>1, <2>1, <2>2 DEF SessionInv, KeyComesFirst
  <2>. QED BY <2>1, <2>2, <2>3 DEF SessionInv, ShownKeysInv, Standing, asked
<1>5. CASE code \in Dealings!Verdicts(k)
  <2>1. Dealings!Denied(k)
    BY <1>1, <1>2, <1>5 DEF Dealings!Verdicts, Dealings!Denied, Dealings!OnWorkflow,
                            Dealings!KeyGuarded, SignInCalls, asked
  <2>2. ~(asked \in Dealings!OnWorkflow /\ chosen = "gone")
    BY <1>1 DEF SessionInv, StaleInv
  <2>3. k \in listed \/ asked # "revokeApiKey" BY DEF Dealings!Revokes, asked
  <2>. QED
    BY <2>1, <2>2, <2>3 DEF Dealings!Denied, SessionInv, ShownKeysInv, Standing, asked
<1>. QED BY <1>3, <1>4, <1>5

LEMMA RefusedKeepsSessions ==
  ASSUME SessionInv, todo # <<>>, NEW k \in Dealings!Keys, Dealings!Refused(k)
  PROVE  SessionInv'
<1>. USE DEF Dealings!Refused
<1>1. PICK code \in Dealings!Statuses(k) : Dealings!IsAuthenticationError(code)
  OBVIOUS
<1>2. Dealings!SessionsEndForCause'
  <2>1. CASE signedIn /\ holds /\ ~disturbed
    BY <1>1, <2>1, RefusalsHaveCause DEF Dealings!SessionsEndForCause
  <2>2. CASE ~(signedIn /\ holds) \/ disturbed
    BY <2>2 DEF SessionInv, Dealings!SessionsEndForCause
  <2>. QED BY <2>1, <2>2
<1>. QED BY <1>2, LeaveKeepsSessions DEF SessionInv

LEMMA FailedKeepsSessions ==
  ASSUME SessionInv, todo # <<>>, NEW k \in Dealings!Keys, Dealings!Failed(k)
  PROVE  SessionInv'
<1>. USE DEF Dealings!Failed
<1>1. CASE Head(todo).safe
  <2>1. signedIn BY <1>1, AwayAsksToSignIn
  <2>2. /\ todo' \in Seq(Pending) /\ KeyComesFirst(todo', key')
        /\ CallsIn(Tail(todo)) \subseteq CallsIn(todo')
        /\ Dealings!Asked # "listWorkflows" => todo' = Tail(todo)
        /\ AllSafe(todo) => AllSafe(todo')
        /\ ResetThenLoad(todo) => ResetThenLoad(todo')
        /\ latest' \in {key', latest}
        /\ CallsIn(todo') \subseteq CallsIn(Tail(todo)) \cup {"listSecrets", "listCredentials"}
    BY <1>1, GoOnLeaves DEF SessionInv
  <2>3. CallsIn(todo) = {Dealings!Asked} \cup CallsIn(Tail(todo))
    BY CallsLeft DEF SessionInv, Dealings!Asked
  <2>4. ShownKeysInv' BY <1>1, <2>2 DEF SessionInv, ShownKeysInv, Standing
  <2>5. WorkInv' BY <1>1, <2>2, <2>3 DEF SessionInv, WorkInv, SignInCalls
  <2>6. StaleInv'
    <3>1. CASE Dealings!Asked = "listWorkflows" BY <1>1, <3>1 DEF StaleInv
    <3>2. CASE Dealings!Asked # "listWorkflows"
      BY <1>1, <2>2, <2>3, <3>2 DEF SessionInv, StaleInv
    <3>. QED BY <3>1, <3>2
  <2>. QED
    BY <2>1, <2>2, <2>4, <2>5, <2>6
    DEF SessionInv, AwayInv, Dealings!SessionsEndForCause
<1>2. CASE ~Head(todo).safe
  <2>1. ~(chosen = "gone" /\ ~disturbed)
    BY <1>2, CallsLeft DEF SessionInv, StaleInv, AllSafe
  <2>2. <<>> \in Seq(Pending) /\ KeyComesFirst(<<>>, key') /\ ResetThenLoad(<<>>)
        /\ CallsIn(<<>>) \cap SignInCalls = {}
    BY DEF KeyComesFirst, ResetThenLoad, CallsIn
  <2>. QED
    BY <1>2, <2>1, <2>2
    DEF SessionInv, AwayInv, StaleInv, WorkInv, ShownKeysInv, Standing,
        Dealings!SessionsEndForCause
<1>. QED BY <1>1, <1>2

LEMMA SessionStep == ASSUME SessionInv, Dealings!Next PROVE SessionInv'
<1>1. CASE Dealings!CallEnds
  BY <1>1, SignedInKeepsSessions, SignedOutKeepsSessions, KeyCreatedKeepsSessions,
     KeyRevokedKeepsSessions, AnsweredKeepsSessions, RefusedKeepsSessions, FailedKeepsSessions
  DEF Dealings!CallEnds
<1>2. CASE Dealings!SessionEnds
  BY <1>2 DEF Dealings!SessionEnds, SessionInv, AwayInv, StaleInv, WorkInv, ShownKeysInv,
              Standing, Dealings!SessionsEndForCause
<1>3. CASE Dealings!ResetElsewhere
  BY <1>3 DEF Dealings!ResetElsewhere, SessionInv, AwayInv, StaleInv, WorkInv, ShownKeysInv,
              Standing, Dealings!SessionsEndForCause
<1>4. ASSUME NEW k \in Dealings!Keys, Dealings!RevokedElsewhere(k) PROVE SessionInv'
  BY <1>4 DEF Dealings!RevokedElsewhere, SessionInv, AwayInv, StaleInv, WorkInv, ShownKeysInv,
              Standing, Dealings!SessionsEndForCause
<1>. QED
  BY <1>1, <1>2, <1>3, <1>4, BeginKeepsSessions, ReloadKeepsSessions DEF Dealings!Next

LEMMA SessionsSound == Spec => []SessionInv
<1>1. Init => SessionInv BY SessionInit
<1>2. (Only("api") /\ Dealings!Next) \/ UNCHANGED api \/ ~[Next]_vars
  BY DEF Next, Only, vars
<1>3. SessionInv /\ UNCHANGED api => SessionInv'
  BY DEF api, SessionInv, AwayInv, StaleInv, WorkInv, ShownKeysInv, Standing,
         Dealings!SessionsEndForCause
<1>4. SessionInv /\ [Next]_vars => SessionInv'
  BY <1>2, <1>3, SessionStep
<1>. QED BY <1>1, <1>4, PTL DEF Spec

\* However many keys there are, and wherever a call fails, the console gives a session up that
\* the API honours only for a reason: while nobody else interferes, the reset of a workspace
\* that is no demo, or a key it revoked itself (isAuthenticationError, guarded,
\* handleAuthenticationFailure).
THEOREM SessionsEndWithCause == Spec => []SessionsEndForCause
<1>1. SessionInv => SessionsEndForCause BY DEF SessionInv, SessionsEndForCause
<1>. QED BY <1>1, SessionsSound, PTL

---------------------------------------------------------------------------
(***************************************************************************)
(* The console and the API understand each other.  The tables first: no    *)
(* two routes serve one request, every route is as documented, and every   *)
(* call of the client has a route that serves it.                          *)
(***************************************************************************)
LEMMA RoutesByName ==
  ASSUME NEW r \in Routes
  PROVE  /\ r.path[1] # "*"
         /\ r.path[1] = "auth" => r \in AuthRoutes
         /\ r.path[1] = "workspaces" => r \in WorkspaceRoutes
         /\ r.path[1] = "workflows" => r \in WorkflowRoutes \cup SecretRoutes \cup CredentialRoutes
         /\ r.path[1] = "executions" => r \in ExecutionRoutes
         /\ r.path[1] = "automation" => r \in AutomationRoutes
         /\ r.path[1] = "hooks" => r \in HookRoutes
         /\ r.path[1] = "api-keys" => r \in KeyRoutes
         /\ r.path[1] = "usage" => r \in UsageRoutes
         /\ r.path[1] = "audit-logs" => r \in AuditRoutes
         /\ r.path[1] = "billing" => r \in BillingRoutes
         /\ r.path[1] = "demo" => r \in DemoRoutes
<1>1. CASE r \in AuthRoutes \cup WorkspaceRoutes
  BY <1>1 DEF AuthRoutes, WorkspaceRoutes, Route
<1>2. CASE r \in WorkflowRoutes \cup SecretRoutes
  BY <1>2 DEF WorkflowRoutes, SecretRoutes, Route
<1>3. CASE r \in CredentialRoutes
  <2>. DEFINE path == <<"workflows", "*", "connector-credentials">>
  <2>1. (path \o <<"*">>)[1] = "workflows"
    OBVIOUS
  <2>2. r.path[1] = "workflows"
    BY <1>3, <2>1 DEF CredentialRoutes, Route
  <2>. QED BY <1>3, <2>2
<1>4. CASE r \in ExecutionRoutes \cup AutomationRoutes \cup HookRoutes \cup KeyRoutes
  BY <1>4 DEF ExecutionRoutes, AutomationRoutes, HookRoutes, KeyRoutes, Route
<1>5. CASE r \in UsageRoutes \cup AuditRoutes \cup BillingRoutes \cup DemoRoutes
  BY <1>5 DEF UsageRoutes, AuditRoutes, BillingRoutes, DemoRoutes, Route
<1>. QED BY <1>1, <1>2, <1>3, <1>4, <1>5 DEF Routes

LEMMA OneMore ==
  ASSUME NEW a, NEW b, NEW c, NEW d
  PROVE  <<a, b, c>> \o <<d>> = <<a, b, c, d>>
<1>. DEFINE p == <<a, b, c>> \o <<d>>
<1>1. p = [i \in 1..4 |-> p[i]] OBVIOUS
<1>2. p[1] = a /\ p[2] = b /\ p[3] = c /\ p[4] = d OBVIOUS
<1>. HIDE DEF p
<1>3. \A i \in 1..4 : p[i] = <<a, b, c, d>>[i] BY <1>2
<1>4. <<a, b, c, d>> = [i \in 1..4 |-> <<a, b, c, d>>[i]] OBVIOUS
<1>5. p = <<a, b, c, d>> BY <1>1, <1>3, <1>4
<1>. QED BY <1>5 DEF p

\* The routes of the credentials, with their paths written out.
LEMMA CredentialPaths ==
  ASSUME NEW r \in CredentialRoutes
  PROVE  LET path == <<"workflows", "*", "connector-credentials">>
             one == <<"workflows", "*", "connector-credentials", "*">>
         IN /\ r.path[1] = "workflows" /\ r.path[2] = "*" /\ r.path[3] = "connector-credentials"
            /\ \/ r = Route("GET", path, "session", {}, ListAnswer(CredentialFields))
               \/ r = Route("POST", path, "session", CredentialBody, CredentialAnswer)
               \/ r = Route("DELETE", one, "session", {}, DeleteAnswer)
<1>. DEFINE path == <<"workflows", "*", "connector-credentials">>
            one == <<"workflows", "*", "connector-credentials", "*">>
<1>1. path \o <<"*">> = one BY OneMore
<1>2. \/ r = Route("GET", path, "session", {}, ListAnswer(CredentialFields))
      \/ r = Route("POST", path, "session", CredentialBody, CredentialAnswer)
      \/ r = Route("DELETE", path \o <<"*">>, "session", {}, DeleteAnswer)
  BY DEF CredentialRoutes
<1>3. \/ r = Route("GET", path, "session", {}, ListAnswer(CredentialFields))
      \/ r = Route("POST", path, "session", CredentialBody, CredentialAnswer)
      \/ r = Route("DELETE", one, "session", {}, DeleteAnswer)
  BY <1>1, <1>2
<1>. QED BY <1>3 DEF Route

LEMMA RouteIs ==
  \A m, p, g, n, a : Route(m, p, g, n, a).method = m /\ Route(m, p, g, n, a).path = p
BY DEF Route

\* Routes that one request might meet.
Alike(r, s) ==
  /\ r.method = s.method /\ Len(r.path) = Len(s.path) /\ r.path[1] = s.path[1]
  /\ Len(r.path) > 1 => r.path[2] = s.path[2] \/ "*" \in {r.path[2], s.path[2]}
  /\ Len(r.path) > 2 => r.path[3] = s.path[3] \/ "*" \in {r.path[3], s.path[3]}

\* No request meets two routes.
LEMMA RoutesAreDisjoint ==
  ASSUME NEW r \in Routes, NEW s \in Routes, Alike(r, s)
  PROVE  r = s
<1>1. CASE r \in AuthRoutes
  <2>1. s \in AuthRoutes
    BY <1>1, RoutesByName DEF AuthRoutes, Route, Alike
  <2>. QED BY RouteIs, <1>1, <2>1 DEF AuthRoutes, Alike
<1>2. CASE r \in WorkspaceRoutes
  <2>1. s \in WorkspaceRoutes
    BY <1>2, RoutesByName DEF WorkspaceRoutes, Route, Alike
  <2>. QED BY RouteIs, <1>2, <2>1, SMTT(60) DEF WorkspaceRoutes, Alike
<1>3. CASE r \in ExecutionRoutes
  <2>1. s \in ExecutionRoutes
    BY <1>3, RoutesByName DEF ExecutionRoutes, Route, Alike
  <2>. QED BY RouteIs, <1>3, <2>1, SMTT(60) DEF ExecutionRoutes, Alike
<1>4. CASE r \in AutomationRoutes \cup UsageRoutes \cup AuditRoutes
  <2>1. s \in AutomationRoutes \cup UsageRoutes \cup AuditRoutes
    BY <1>4, RoutesByName DEF AutomationRoutes, UsageRoutes, AuditRoutes, Route, Alike
  <2>. QED BY RouteIs, <1>4, <2>1 DEF AutomationRoutes, UsageRoutes, AuditRoutes, Alike
<1>5. CASE r \in HookRoutes
  <2>1. s \in HookRoutes
    BY <1>5, RoutesByName DEF HookRoutes, Route, Alike
  <2>. QED BY RouteIs, <1>5, <2>1 DEF HookRoutes, Alike
<1>6. CASE r \in KeyRoutes
  <2>1. s \in KeyRoutes
    BY <1>6, RoutesByName DEF KeyRoutes, Route, Alike
  <2>. QED BY RouteIs, <1>6, <2>1 DEF KeyRoutes, Alike
<1>7. CASE r \in BillingRoutes
  <2>1. s \in BillingRoutes
    BY <1>7, RoutesByName DEF BillingRoutes, Route, Alike
  <2>. QED BY RouteIs, <1>7, <2>1 DEF BillingRoutes, Alike
<1>8. CASE r \in DemoRoutes
  <2>1. s \in DemoRoutes
    BY <1>8, RoutesByName DEF DemoRoutes, Route, Alike
  <2>. QED BY RouteIs, <1>8, <2>1 DEF DemoRoutes, Alike
<1>9. CASE r \in WorkflowRoutes \cup SecretRoutes \cup CredentialRoutes
  <2>1. s.path[1] = "workflows"
    BY <1>9, CredentialPaths DEF WorkflowRoutes, SecretRoutes, Route, Alike
  <2>2. s \in WorkflowRoutes \cup SecretRoutes \cup CredentialRoutes BY <2>1, RoutesByName
  <2>3. CASE r \in WorkflowRoutes /\ s \in WorkflowRoutes
    BY RouteIs, <2>3 DEF WorkflowRoutes, Alike
  <2>4. CASE r \in SecretRoutes /\ s \in SecretRoutes
    BY RouteIs, <2>4 DEF SecretRoutes, Alike
  <2>5. CASE r \in CredentialRoutes /\ s \in CredentialRoutes
    BY RouteIs, <2>5, CredentialPaths DEF Alike
  <2>6. ASSUME NEW x \in WorkflowRoutes, NEW y \in SecretRoutes
        PROVE  ~Alike(x, y) /\ ~Alike(y, x)
    BY DEF WorkflowRoutes, SecretRoutes, Route, Alike
  <2>7. ASSUME NEW x \in WorkflowRoutes \cup SecretRoutes, NEW y \in CredentialRoutes
        PROVE  ~Alike(x, y) /\ ~Alike(y, x)
    BY CredentialPaths DEF WorkflowRoutes, SecretRoutes, Route, Alike
  <2>. QED BY <1>9, <2>2, <2>3, <2>4, <2>5, <2>6, <2>7
<1>. QED BY <1>1, <1>2, <1>3, <1>4, <1>5, <1>6, <1>7, <1>8, <1>9 DEF Routes

\* A document that says of a route what its controller does.
Tells(d, r) ==
  d.method = r.method /\ d.path = r.path /\ r.needs \subseteq d.needs /\ d.answer = r.answer

LEMMA ToldIsDocumented ==
  ASSUME NEW r, NEW d \in Docs, Tells(d, r) PROVE AsDocumented(r)
BY DEF Tells, AsDocumented, Documents

\* The objects in the contract of an automation that no schema describes.
Undescribed ==
  Of("request", {"method", "path", "authentication", "headers", "body"})
    \cup Of("response", {"statusCode", "body"})

\* The schemas that have the fields of the answers under another name.
LEMMA SchemasAreAnswers ==
  /\ currentWorkspaceResponseSchema = CurrentWorkspaceAnswer
  /\ ListAnswer(workspaceSummarySchema) = ListAnswer(Summary)
  /\ ListAnswer(workflowSchema) \cup workflowDefinitionSchema
       = ListAnswer(WorkflowFields) \cup DefinitionFields
  /\ workflowResponseSchema = WorkflowAnswer
  /\ workflowTestResponseSchema = TestAnswer
  /\ workflowSecretSchema = SecretFields /\ connectorCredentialSchema = CredentialFields
  /\ Page(executionSchema) = PageAnswer \cup Of("items", ExecutionFields)
  /\ executionResponseSchema = ExecutionAnswer
  /\ ListAnswer(executionStepSchema) = ListAnswer(StepFields)
  /\ automationContractSchema \cup Undescribed = ContractAnswer
  /\ automationAcceptedSchema = AutomationAnswer
  /\ publicWebhookResponseSchema = HookAnswer
  /\ currentApiKeyResponseSchema = CurrentKeyAnswer
  /\ ListAnswer(apiKeySchema) = ListAnswer(KeyFields)
  /\ Of("answer", {"apiKey", "token"}) \cup Of("apiKey", apiKeySchema) = CreateKeyAnswer
  /\ currentUsageResponseSchema = UsageAnswer
  /\ Page(auditLogSchema) = PageAnswer \cup Of("items", AuditFields)
  /\ Of("answer", billingCheckoutResponseSchema) = CheckoutAnswer
  /\ Of("answer", billingPortalResponseSchema) = PortalAnswer
  /\ Of("answer", stripeWebhookResponseSchema) = StripeAnswer
  /\ demoSeedResponseSchema = DemoAnswer
<1>1. workspaceSummarySchema = Summary
  BY DEF workspaceSummarySchema, Summary, Named
<1>2. currentWorkspaceResponseSchema = CurrentWorkspaceAnswer
  BY DEF currentWorkspaceResponseSchema, CurrentWorkspaceAnswer, workspaceSchema,
         workspaceSummarySchema, Summary, Named
<1>3. workflowSchema = WorkflowFields /\ workflowDefinitionSchema = DefinitionFields
  BY DEF workflowSchema, WorkflowFields, workflowDefinitionSchema, DefinitionFields
<1>4. workflowResponseSchema = WorkflowAnswer
  BY <1>3 DEF workflowResponseSchema, WorkflowAnswer
<1>5. workflowTestResponseSchema = TestAnswer
  <2>1. {"mode", "workflowId", "workflowPublicId", "workspaceId", "workflowVersion",
             "triggerType", "workflowStatus", "entryStepKey", "stepCount", "source",
             "idempotencyKey", "payload", "acceptedAt"}
          = ContractFields \cup {"source", "idempotencyKey", "payload", "acceptedAt"}
    BY DEF ContractFields
  <2>. QED BY <2>1 DEF workflowTestResponseSchema, TestAnswer
<1>6. workflowSecretSchema = SecretFields /\ connectorCredentialSchema = CredentialFields
  BY DEF workflowSecretSchema, connectorCredentialSchema, SecretFields, CredentialFields, Owned
<1>7. executionSchema = ExecutionFields /\ executionStepSchema = StepFields
  BY DEF executionSchema, executionStepSchema, ExecutionFields, StepFields, Timed, Owned
<1>8. \A item : Page(item) = PageAnswer \cup Of("items", item)
  BY DEF Page, PageAnswer, ListAnswer, Of
<1>9. executionResponseSchema = ExecutionAnswer BY <1>7 DEF executionResponseSchema, ExecutionAnswer
<1>10. acceptedSchema = RequestFields BY DEF acceptedSchema, RequestFields, Owned
<1>11. automationAcceptedSchema = AutomationAnswer
  BY <1>9, <1>10 DEF automationAcceptedSchema, AutomationAnswer
<1>12. publicWebhookResponseSchema = HookAnswer
  BY <1>9, <1>10 DEF publicWebhookResponseSchema, HookAnswer
<1>13. apiKeySchema = KeyFields BY DEF apiKeySchema, KeyFields, Named
<1>14. currentApiKeyResponseSchema = CurrentKeyAnswer
  <2>1. {"id", "workspaceId", "name", "prefix", "lastUsedAt"}
          = Named \cup {"workspaceId", "prefix", "lastUsedAt"}
    BY DEF Named
  <2>. QED BY <2>1 DEF currentApiKeyResponseSchema, CurrentKeyAnswer
<1>15. usageTotalsSchema = Totals /\ usagePlanLimitsSchema = PlanLimits
  BY DEF usageTotalsSchema, Totals, usagePlanLimitsSchema, PlanLimits, MeteredCalls
<1>16. currentUsageResponseSchema = UsageAnswer
  BY <1>15 DEF currentUsageResponseSchema, UsageAnswer
<1>17. auditLogSchema = AuditFields BY DEF auditLogSchema, AuditFields
<1>18. Of("answer", billingCheckoutResponseSchema) = CheckoutAnswer
  BY DEF billingCheckoutResponseSchema, CheckoutAnswer, PortalAnswer, Of
<1>19. demoSeedResponseSchema = DemoAnswer
  BY DEF demoSeedResponseSchema, demoStateSchema, demoObjectSchemas, DemoAnswer, UserFields,
         Named, Of
<1>20. /\ Of("answer", billingPortalResponseSchema) = PortalAnswer
       /\ Of("answer", stripeWebhookResponseSchema) = StripeAnswer
  BY DEF billingPortalResponseSchema, stripeWebhookResponseSchema, PortalAnswer, StripeAnswer
<1>21. automationContractSchema \cup Undescribed = ContractAnswer
  <2>1. {"mode", "workflowId", "workflowPublicId", "workspaceId", "workflowVersion",
             "triggerType", "workflowStatus", "entryStepKey", "stepCount", "request",
             "response"} = ContractFields \cup {"request", "response"}
    BY DEF ContractFields
  <2>. QED BY <2>1 DEF automationContractSchema, ContractAnswer, Undescribed
<1>22. Of("answer", {"apiKey", "token"}) \cup Of("apiKey", apiKeySchema) = CreateKeyAnswer
  BY <1>13 DEF CreateKeyAnswer
<1>. QED
  BY <1>1, <1>2, <1>3, <1>4, <1>5, <1>6, <1>7, <1>8, <1>9, <1>11, <1>12, <1>13, <1>14, <1>16,
     <1>17, <1>18, <1>19, <1>20, <1>21, <1>22

\* Their documents tell of most routes exactly what they are.
LEMMA MostAreTold ==
  ASSUME NEW r \in Routes,
         r \notin AuthRoutes, r.path # <<"automation", "contracts", "*">>
  PROVE  AsDocumented(r)
<1>. USE DEF Tells, Route, Doc
<1>1. CASE r \in WorkspaceRoutes
  <2>1. \E d \in WorkspaceDocs : Tells(d, r)
    BY <1>1, SchemasAreAnswers DEF WorkspaceRoutes, WorkspaceDocs, RenameBody
  <2>. QED BY <2>1, ToldIsDocumented DEF Docs
<1>2. CASE r \in WorkflowRoutes
  <2>1. \E d \in WorkflowDocs : Tells(d, r)
    BY <1>2, SchemasAreAnswers DEF WorkflowRoutes, WorkflowDocs, CreateWorkflowBody
  <2>. QED BY <2>1, ToldIsDocumented DEF Docs
<1>3. CASE r \in SecretRoutes \cup CredentialRoutes
  <2>1. \E d \in SecretDocs : Tells(d, r)
    BY <1>3, OneMore, SchemasAreAnswers
    DEF SecretRoutes, CredentialRoutes, SecretDocs, SecretBody, CredentialBody, SecretAnswer,
        CredentialAnswer, DeleteAnswer, deleteResponseSchema
  <2>. QED BY <2>1, ToldIsDocumented DEF Docs
<1>4. CASE r \in ExecutionRoutes
  <2>1. \E d \in ExecutionDocs : Tells(d, r)
    BY <1>4, SchemasAreAnswers DEF ExecutionRoutes, ExecutionDocs
  <2>. QED BY <2>1, ToldIsDocumented DEF Docs
<1>5. CASE r \in AutomationRoutes \cup HookRoutes
  <2>1. \E d \in AutomationDocs : Tells(d, r)
    BY <1>5, SchemasAreAnswers DEF AutomationRoutes, HookRoutes, AutomationDocs
  <2>. QED BY <2>1, ToldIsDocumented DEF Docs
<1>6. CASE r \in KeyRoutes
  <2>1. \E d \in KeyDocs : Tells(d, r)
    BY <1>6, SchemasAreAnswers DEF KeyRoutes, KeyDocs, KeyBody, RevokeKeyAnswer
  <2>. QED BY <2>1, ToldIsDocumented DEF Docs
<1>7. CASE r \in UsageRoutes \cup AuditRoutes
  <2>1. \E d \in ReportDocs : Tells(d, r)
    BY <1>7, SchemasAreAnswers DEF UsageRoutes, AuditRoutes, ReportDocs
  <2>. QED BY <2>1, ToldIsDocumented DEF Docs
<1>8. CASE r \in BillingRoutes
  <2>1. \E d \in BillingDocs : Tells(d, r)
    BY <1>8, SchemasAreAnswers DEF BillingRoutes, BillingDocs, CheckoutBody
  <2>. QED BY <2>1, ToldIsDocumented DEF Docs
<1>9. CASE r \in DemoRoutes
  <2>1. \E d \in DemoDocs : Tells(d, r)
    BY <1>9, SchemasAreAnswers DEF DemoRoutes, DemoDocs
  <2>. QED BY <2>1, ToldIsDocumented DEF Docs
<1>. QED BY <1>1, <1>2, <1>3, <1>4, <1>5, <1>6, <1>7, <1>8, <1>9 DEF Routes

LEMMA ContractTold ==
  ASSUME NEW r \in AutomationRoutes, r.path = <<"automation", "contracts", "*">>
  PROVE  AsDocumented(r)
<1>. DEFINE d == Doc("GET", <<"automation", "contracts", "*">>, {}, automationContractSchema)
<1>1. d \in Docs BY DEF Docs, AutomationDocs
<1>2. r = Route("GET", <<"automation", "contracts", "*">>, "key", {}, ContractAnswer)
  BY DEF AutomationRoutes, Route
<1>3. \A x \in automationContractSchema : x[1] \in {"answer", "contract"}
  BY DEF automationContractSchema, Of
<1>4. \A x \in r.answer \ d.answer : x[1] \in {"request", "response"}
  BY <1>2, SchemasAreAnswers DEF Route, Doc, Of, Undescribed
<1>5. \A x \in r.answer \ d.answer : x[1] \notin {y[1] : y \in d.answer}
  BY <1>3, <1>4 DEF Doc
<1>6. d.answer \subseteq r.answer BY <1>2, SchemasAreAnswers DEF Route, Doc
<1>. QED BY <1>1, <1>2, <1>5, <1>6 DEF AsDocumented, Documents, Route, Doc

\* The record of the workspace is answered with what it carries along.
CarriedAlong == Of("workspace", {"isDemo", "demoSessionId"})
LEMMA AuthTold ==
  ASSUME NEW r \in AuthRoutes, r.path # <<"auth", "login">> PROVE AsDocumented(r)
<1>1. /\ registerUserResponseSchema \subseteq RegisterAnswer
      /\ RegisterAnswer \ registerUserResponseSchema \subseteq CarriedAlong
  BY DEF registerUserResponseSchema, RegisterAnswer, userSchema, UserFields, workspaceSchema,
         Named, CarriedAlong, Of
<1>2. /\ authenticatedUserResponseSchema \subseteq MeAnswer
      /\ MeAnswer \ authenticatedUserResponseSchema \subseteq CarriedAlong
  BY <1>1 DEF authenticatedUserResponseSchema, MeAnswer
<1>3. /\ authenticationResponseSchema \subseteq RefreshAnswer
      /\ RefreshAnswer \ authenticationResponseSchema \subseteq CarriedAlong
  BY <1>2 DEF authenticationResponseSchema, RefreshAnswer, tokensSchema, Tokens
<1>4. \E d \in AuthDocs :
        /\ d.method = r.method /\ d.path = r.path /\ r.needs \subseteq d.needs
        /\ d.answer \subseteq r.answer /\ r.answer \ d.answer \subseteq CarriedAlong
  BY <1>1, <1>2, <1>3
  DEF AuthRoutes, AuthDocs, Route, Doc, RegisterBody, LoginBody, RefreshBody, LogoutBody,
      LogoutAnswer
<1>. QED BY <1>4 DEF AsDocumented, Documents, CarriedAlong, Docs

LEMMA RoutesAsDocumented == AnswersAsDocumented
<1>1. ASSUME NEW r \in Routes, r.path = <<"automation", "contracts", "*">>
      PROVE  r \in AutomationRoutes
  <2>1. r.path[1] = "automation" BY <1>1
  <2>. QED BY <2>1, RoutesByName
<1>. QED BY <1>1, MostAreTold, ContractTold, AuthTold DEF AnswersAsDocumented

\* What the console may miss in an answer.
Excused ==
  {<<"workspace", "isDemo">>} \cup Of("limits", UnsentMeters) \cup Of("used", UnsentMeters)

\* A route that serves the call, wants no field that it does not send, and answers with
\* all that it reads.
Serves(r, call) ==
  /\ r \in Routes /\ Served(r, call.method, call.path)
  /\ DOMAIN call.path = 1..Len(call.path) /\ Len(call.path) \in Nat
  /\ r.needs \subseteq call.body /\ call.reads \ r.answer \subseteq Excused

LEMMA AccountCallsServed ==
  ASSUME NEW c \in DOMAIN AccountCalls PROVE \E r : Serves(r, AccountCalls[c])
<1>. USE DEF Get, Post, Open, Delete, Request, Route, Of
<1>1. CASE c = "seedDemo"
  <2>. DEFINE r == Route("POST", <<"demo", "seed">>, "open", {}, DemoAnswer)
  <2>1. Serves(r, AccountCalls["seedDemo"])
    BY DEF AccountCalls, Serves, Served, Routes, DemoRoutes, DemoAnswer
  <2>. QED BY <1>1, <2>1
<1>2. CASE c = "register"
  <2>. DEFINE r == Route("POST", <<"auth", "register">>, "open", RegisterBody, RegisterAnswer)
  <2>1. Serves(r, AccountCalls["register"])
    BY DEF AccountCalls, Serves, Served, Routes, AuthRoutes, RegisterBody
  <2>. QED BY <1>2, <2>1
<1>3. CASE c = "login"
  <2>. DEFINE r == Route("POST", <<"auth", "login">>, "open", LoginBody, LoginAnswer)
  <2>1. Serves(r, AccountCalls["login"])
    BY DEF AccountCalls, Serves, Served, Routes, AuthRoutes, LoginBody, LoginAnswer,
           RefreshAnswer, MeAnswer, RegisterAnswer, Tokens, UserFields, Named
  <2>. QED BY <1>3, <2>1
<1>4. CASE c = "logout"
  <2>. DEFINE r == Route("POST", <<"auth", "logout">>, "open", LogoutBody, LogoutAnswer)
  <2>1. Serves(r, AccountCalls["logout"])
    BY DEF AccountCalls, Serves, Served, Routes, AuthRoutes, LogoutBody
  <2>. QED BY <1>4, <2>1
<1>5. CASE c = "currentWorkspace"
  <2>. DEFINE r ==
         Route("GET", <<"workspaces", "current">>, "session", {}, CurrentWorkspaceAnswer)
  <2>1. Serves(r, AccountCalls["currentWorkspace"])
    BY DEF AccountCalls, Serves, Served, Routes, WorkspaceRoutes, CurrentWorkspaceAnswer,
           Profile, Summary, Named, Excused
  <2>. QED BY <1>5, <2>1
<1>6. CASE c = "listWorkspaces"
  <2>. DEFINE r == Route("GET", <<"workspaces">>, "session", {}, ListAnswer(Summary))
  <2>1. Serves(r, AccountCalls["listWorkspaces"])
    BY DEF AccountCalls, Serves, Served, Routes, WorkspaceRoutes, ListAnswer, List, Summary,
           Named
  <2>. QED BY <1>6, <2>1
<1>7. CASE c = "updateWorkspaceName"
  <2>. DEFINE r ==
         Route("PATCH", <<"workspaces", "current">>, "session", RenameBody,
               CurrentWorkspaceAnswer)
  <2>1. Serves(r, AccountCalls["updateWorkspaceName"])
    BY DEF AccountCalls, Serves, Served, Routes, WorkspaceRoutes, RenameBody,
           CurrentWorkspaceAnswer, Profile, Summary, Named, Excused
  <2>. QED BY <1>7, <2>1
<1>8. CASE c = "resetDemo"
  <2>. DEFINE r ==
         Route("POST", <<"demo", "reset">>, "session", {},
               DemoAnswer \cup Of("answer", {"reset"}))
  <2>1. Serves(r, AccountCalls["resetDemo"])
    BY DEF AccountCalls, Serves, Served, Routes, DemoRoutes
  <2>. QED BY <1>8, <2>1
<1>. QED BY <1>1, <1>2, <1>3, <1>4, <1>5, <1>6, <1>7, <1>8 DEF AccountCalls

LEMMA WorkflowCallsServed ==
  ASSUME NEW c \in DOMAIN WorkflowCalls PROVE \E r : Serves(r, WorkflowCalls[c])
<1>. USE DEF Get, Post, Open, Delete, Request, Route, Of
<1>1. CASE c = "listWorkflows"
  <2>. DEFINE r ==
         Route("GET", <<"workflows">>, "session", {},
               ListAnswer(WorkflowFields) \cup DefinitionFields)
  <2>1. Serves(r, WorkflowCalls["listWorkflows"])
    BY DEF WorkflowCalls, Serves, Served, Routes, WorkflowRoutes, ListAnswer, List
  <2>. QED BY <1>1, <2>1
<1>2. CASE c = "getWorkflow"
  <2>. DEFINE r == Route("GET", <<"workflows", "*">>, "session", {}, WorkflowAnswer)
  <2>1. Serves(r, WorkflowCalls["getWorkflow"])
    BY DEF WorkflowCalls, Serves, Served, Routes, WorkflowRoutes, WorkflowAnswer, OneWorkflow
  <2>. QED BY <1>2, <2>1
<1>3. CASE c = "createWorkflow"
  <2>. DEFINE r == Route("POST", <<"workflows">>, "session", CreateWorkflowBody, WorkflowAnswer)
  <2>1. Serves(r, WorkflowCalls["createWorkflow"])
    BY DEF WorkflowCalls, Serves, Served, Routes, WorkflowRoutes, CreateWorkflowBody,
           WorkflowAnswer, OneWorkflow
  <2>. QED BY <1>3, <2>1
<1>4. CASE c = "updateDraftWorkflow"
  <2>. DEFINE r == Route("PATCH", <<"workflows", "*">>, "session", {}, WorkflowAnswer)
  <2>1. Serves(r, WorkflowCalls["updateDraftWorkflow"])
    BY DEF WorkflowCalls, Serves, Served, Routes, WorkflowRoutes, WorkflowAnswer, OneWorkflow
  <2>. QED BY <1>4, <2>1
<1>5. CASE c = "publishWorkflow"
  <2>. DEFINE r == Route("POST", <<"workflows", "*", "publish">>, "session", {}, WorkflowAnswer)
  <2>1. Serves(r, WorkflowCalls["publishWorkflow"])
    BY DEF WorkflowCalls, Serves, Served, Routes, WorkflowRoutes, WorkflowAnswer, OneWorkflow
  <2>. QED BY <1>5, <2>1
<1>6. CASE c = "testWorkflow"
  <2>. DEFINE r == Route("POST", <<"workflows", "*", "test">>, "session", {}, TestAnswer)
  <2>1. Serves(r, WorkflowCalls["testWorkflow"])
    BY DEF WorkflowCalls, Serves, Served, Routes, WorkflowRoutes, TestAnswer, ContractFields
  <2>. QED BY <1>6, <2>1
<1>. QED BY <1>1, <1>2, <1>3, <1>4, <1>5, <1>6 DEF WorkflowCalls

LEMMA SecretCallsServed ==
  ASSUME NEW c \in DOMAIN SecretCalls PROVE \E r : Serves(r, SecretCalls[c])
<1>. USE DEF Get, Post, Open, Delete, Request, Route, Of
<1>1. CASE c = "listSecrets"
  <2>. DEFINE r ==
         Route("GET", <<"workflows", "*", "secrets">>, "session", {},
               ListAnswer(SecretFields))
  <2>1. Serves(r, SecretCalls["listSecrets"])
    BY DEF SecretCalls, Serves, Served, Routes, SecretRoutes, ListAnswer, List, SecretFields,
           Secret
  <2>. QED BY <1>1, <2>1
<1>2. CASE c = "saveSecret"
  <2>. DEFINE r ==
         Route("POST", <<"workflows", "*", "secrets">>, "session", SecretBody,
               SecretAnswer)
  <2>1. Serves(r, SecretCalls["saveSecret"])
    BY DEF SecretCalls, Serves, Served, Routes, SecretRoutes, SecretBody
  <2>. QED BY <1>2, <2>1
<1>3. CASE c = "deleteSecret"
  <2>. DEFINE r ==
         Route("DELETE", <<"workflows", "*", "secrets", "*">>, "session", {},
               DeleteAnswer)
  <2>1. Serves(r, SecretCalls["deleteSecret"])
    BY DEF SecretCalls, Serves, Served, Routes, SecretRoutes
  <2>. QED BY <1>3, <2>1
<1>4. CASE c = "listCredentials"
  <2>. DEFINE r ==
         Route("GET", <<"workflows", "*", "connector-credentials">>, "session", {},
               ListAnswer(CredentialFields))
  <2>1. Serves(r, SecretCalls["listCredentials"])
    BY DEF SecretCalls, Serves, Served, Routes, CredentialRoutes, ListAnswer, List,
           CredentialFields, Credential
  <2>. QED BY <1>4, <2>1
<1>5. CASE c = "saveCredential"
  <2>. DEFINE r ==
         Route("POST", <<"workflows", "*", "connector-credentials">>, "session",
               CredentialBody, CredentialAnswer)
  <2>1. Serves(r, SecretCalls["saveCredential"])
    BY DEF SecretCalls, Serves, Served, Routes, CredentialRoutes, CredentialBody
  <2>. QED BY <1>5, <2>1
<1>6. CASE c = "deleteCredential"
  <2>. DEFINE path == <<"workflows", "id", "connector-credentials", "name">>
              r ==
                Route("DELETE", <<"workflows", "*", "connector-credentials", "*">>, "session",
                      {}, DeleteAnswer)
  <2>1. SecretCalls["deleteCredential"] = Delete(path)
    BY OneMore DEF SecretCalls
  <2>2. r \in Routes BY OneMore DEF Routes, CredentialRoutes
  <2>3. Serves(r, Delete(path)) BY <2>2 DEF Serves, Served
  <2>. QED BY <1>6, <2>1, <2>3
<1>. QED BY <1>1, <1>2, <1>3, <1>4, <1>5, <1>6 DEF SecretCalls

LEMMA RunCallsServed ==
  ASSUME NEW c \in DOMAIN RunCalls PROVE \E r : Serves(r, RunCalls[c])
<1>. USE DEF Get, Post, Open, Delete, Request, Route, Of
<1>1. CASE c = "listExecutions"
  <2>. DEFINE r ==
         Route("GET", <<"executions">>, "session", {},
               PageAnswer \cup Of("items", ExecutionFields))
  <2>1. Serves(r, RunCalls["listExecutions"])
    BY DEF RunCalls, Serves, Served, Routes, ExecutionRoutes, PageAnswer, Paged, List, Execution
  <2>. QED BY <1>1, <2>1
<1>2. CASE c = "listExecutionSteps"
  <2>. DEFINE r ==
         Route("GET", <<"executions", "*", "steps">>, "session", {},
               ListAnswer(StepFields))
  <2>1. Serves(r, RunCalls["listExecutionSteps"])
    BY DEF RunCalls, Serves, Served, Routes, ExecutionRoutes, ListAnswer, List, StepFields,
           Timed, Step
  <2>. QED BY <1>2, <2>1
<1>3. CASE c = "retryExecution"
  <2>. DEFINE r == Route("POST", <<"executions", "*", "retry">>, "session", {}, ExecutionAnswer)
  <2>1. Serves(r, RunCalls["retryExecution"])
    BY DEF RunCalls, Serves, Served, Routes, ExecutionRoutes
  <2>. QED BY <1>3, <2>1
<1>4. CASE c = "usage"
  <2>. DEFINE r == Route("GET", <<"usage", "current">>, "session", {}, UsageAnswer)
  <2>1. Serves(r, RunCalls["usage"])
    BY DEF RunCalls, Serves, Served, Routes, UsageRoutes, UsageAnswer, PlanLimits, MeteredCalls,
           Totals, Meters, Excused
  <2>. QED BY <1>4, <2>1
<1>5. CASE c = "audit"
  <2>. DEFINE r ==
         Route("GET", <<"audit-logs">>, "session", {},
               PageAnswer \cup Of("items", AuditFields))
  <2>1. Serves(r, RunCalls["audit"])
    BY DEF RunCalls, Serves, Served, Routes, AuditRoutes, PageAnswer, Paged, List, AuditFields,
           AuditLog
  <2>. QED BY <1>5, <2>1
<1>. QED BY <1>1, <1>2, <1>3, <1>4, <1>5 DEF RunCalls

LEMMA KeyCallsServed ==
  ASSUME NEW c \in DOMAIN KeyCalls PROVE \E r : Serves(r, KeyCalls[c])
<1>. USE DEF Get, Post, Open, Delete, Request, Route, Of
<1>1. CASE c = "listApiKeys"
  <2>. DEFINE r == Route("GET", <<"api-keys">>, "session", {}, ListAnswer(KeyFields))
  <2>1. Serves(r, KeyCalls["listApiKeys"])
    BY DEF KeyCalls, Serves, Served, Routes, KeyRoutes, ListAnswer, List, KeyFields, Named, Key
  <2>. QED BY <1>1, <2>1
<1>2. CASE c = "createApiKey"
  <2>. DEFINE r == Route("POST", <<"api-keys">>, "session", KeyBody, CreateKeyAnswer)
  <2>1. Serves(r, KeyCalls["createApiKey"])
    BY DEF KeyCalls, Serves, Served, Routes, KeyRoutes, KeyBody, CreateKeyAnswer
  <2>. QED BY <1>2, <2>1
<1>3. CASE c = "revokeApiKey"
  <2>. DEFINE r == Route("DELETE", <<"api-keys", "*">>, "session", {}, RevokeKeyAnswer)
  <2>1. Serves(r, KeyCalls["revokeApiKey"])
    BY DEF KeyCalls, Serves, Served, Routes, KeyRoutes
  <2>. QED BY <1>3, <2>1
<1>4. CASE c = "automationContract"
  <2>. DEFINE r == Route("GET", <<"automation", "contracts", "*">>, "key", {}, ContractAnswer)
  <2>1. Serves(r, KeyCalls["automationContract"])
    BY DEF KeyCalls, Serves, Served, Routes, AutomationRoutes, ContractAnswer, ContractFields,
           Contract
  <2>. QED BY <1>4, <2>1
<1>5. CASE c = "executeAutomation"
  <2>. DEFINE r == Route("POST", <<"automation", "execute", "*">>, "key", {}, AutomationAnswer)
  <2>1. Serves(r, KeyCalls["executeAutomation"])
    BY DEF KeyCalls, Serves, Served, Routes, AutomationRoutes, AutomationAnswer,
           ExecutionAnswer, ExecutionFields, RequestFields, Owned, Timed
  <2>. QED BY <1>5, <2>1
<1>6. CASE c = "checkout"
  <2>. DEFINE r ==
         Route("POST", <<"billing", "checkout">>, "session", CheckoutBody,
               CheckoutAnswer)
  <2>1. Serves(r, KeyCalls["checkout"])
    BY DEF KeyCalls, Serves, Served, Routes, BillingRoutes, CheckoutBody, CheckoutAnswer,
           PortalAnswer
  <2>. QED BY <1>6, <2>1
<1>7. CASE c = "portal"
  <2>. DEFINE r == Route("POST", <<"billing", "portal">>, "session", {}, PortalAnswer)
  <2>1. Serves(r, KeyCalls["portal"])
    BY DEF KeyCalls, Serves, Served, Routes, BillingRoutes, PortalAnswer
  <2>. QED BY <1>7, <2>1
<1>. QED BY <1>1, <1>2, <1>3, <1>4, <1>5, <1>6, <1>7 DEF KeyCalls

\* Every call of the client meets one route, which serves it.
LEMMA CallsMeetOneRoute ==
  ASSUME NEW c \in DOMAIN ClientCalls
  PROVE  \E r : RoutesMet[c] = {r} /\ Serves(r, ClientCalls[c])
<1>. DEFINE call == ClientCalls[c]
<1>1. \E r : Serves(r, call)
  <2>1. \/ c \in DOMAIN AccountCalls /\ call = AccountCalls[c]
        \/ c \in DOMAIN WorkflowCalls /\ call = WorkflowCalls[c]
        \/ c \in DOMAIN SecretCalls /\ call = SecretCalls[c]
        \/ c \in DOMAIN RunCalls /\ call = RunCalls[c]
        \/ c \in DOMAIN KeyCalls /\ call = KeyCalls[c]
    BY DEF ClientCalls, AccountCalls, WorkflowCalls, SecretCalls, RunCalls, KeyCalls
  <2>. HIDE DEF call
  <2>. QED
    BY <2>1, AccountCallsServed, WorkflowCallsServed, SecretCallsServed, RunCallsServed,
       KeyCallsServed
<1>2. PICK r : Serves(r, call) BY <1>1
<1>3. ASSUME NEW s \in Routes, Served(s, call.method, call.path) PROVE s = r
  <2>1. 1 \in DOMAIN call.path BY CallsShow DEF CallShows
  <2>2. \A i \in DOMAIN call.path :
          r.path[i] \in {call.path[i], "*"} /\ s.path[i] \in {call.path[i], "*"}
    BY <1>2, <1>3 DEF Serves, Served
  <2>3. r.path[1] = s.path[1] BY <1>2, <1>3, <2>1, <2>2, RoutesByName DEF Serves
  <2>4. Len(r.path) = Len(call.path) /\ Len(s.path) = Len(call.path) /\ r.method = s.method
    BY <1>2, <1>3 DEF Serves, Served
  <2>5. \A i \in DOMAIN call.path : r.path[i] = s.path[i] \/ "*" \in {r.path[i], s.path[i]}
    BY <2>2
  <2>6. (Len(call.path) > 1 => 2 \in DOMAIN call.path)
        /\ (Len(call.path) > 2 => 3 \in DOMAIN call.path)
    BY <1>2 DEF Serves
  <2>7. Alike(r, s) BY <2>3, <2>4, <2>5, <2>6 DEF Alike
  <2>. QED BY <1>2, <1>3, <2>7, RoutesAreDisjoint DEF Serves
<1>4. RoutesMet[c] = {r} BY <1>2, <1>3 DEF RoutesMet, Serves
<1>. QED BY <1>2, <1>4

UnderstoodInv == ~misled /\ lacking \subseteq Excused

\* What the API answers to a call that meets one route: not that the body is wrong.
LEMMA AnswersFit ==
  ASSUME SessionInv, todo # <<>>, NEW k, NEW code \in Dealings!Statuses(k),
         Dealings!Judged(code)
  PROVE  UnderstoodInv'
<1>. DEFINE asked == Dealings!Asked
<1>1. asked \in DOMAIN ClientCalls BY CallsLeft DEF SessionInv, Pending, Dealings!Asked
<1>2. PICK r : RoutesMet[asked] = {r} /\ Serves(r, ClientCalls[asked])
  BY <1>1, CallsMeetOneRoute
<1>. HIDE DEF asked
<1>3. Dealings!Meets = {r} /\ Dealings!TheRoute = r /\ Dealings!Call = ClientCalls[asked]
  BY <1>2 DEF Dealings!Meets, Dealings!TheRoute, Dealings!Call, asked
<1>4. Cardinality(Dealings!Meets) = 1 BY <1>3, FS_Singleton
<1>5. /\ r.needs \subseteq ClientCalls[asked].body
      /\ ClientCalls[asked].reads \ r.answer \subseteq Excused
  BY <1>2 DEF Serves
<1>6. code # 400
  <2>1. code \in {401} \cup Dealings!Verdicts(k) \cup {409, 429, 503}
    <3>1. (CHOOSE x \in {r} : TRUE) = r OBVIOUS
    <3>. QED BY <1>3, <1>5, <3>1 DEF Dealings!Statuses
  <2>2. 400 \notin Dealings!Verdicts(k) BY DEF Dealings!Verdicts
  <2>. QED BY <2>1, <2>2
<1>7. \A S : Dealings!Cardinality(S) = Cardinality(S)
  BY DEF Dealings!Cardinality, Cardinality
<1>8. misled' = (Cardinality(Dealings!Meets) # 1 \/ code = 400)
      /\ lacking' = IF code = 200 THEN ClientCalls[asked].reads \ r.answer ELSE {}
  BY <1>3, <1>7 DEF Dealings!Judged
<1>9. ~misled' BY <1>4, <1>6, <1>8
<1>10. lacking' \subseteq Excused BY <1>5, <1>8
<1>. QED BY <1>9, <1>10 DEF UnderstoodInv

LEMMA UnderstoodStep ==
  ASSUME SessionInv, UnderstoodInv, Dealings!Next PROVE UnderstoodInv'
<1>1. CASE Dealings!CallEnds
  BY <1>1, AnswersFit
  DEF Dealings!CallEnds, Dealings!SignedIn, Dealings!SignedOut, Dealings!KeyCreated,
      Dealings!KeyRevoked, Dealings!Answered, Dealings!Refused, Dealings!Failed
<1>2. CASE UNCHANGED <<lacking, misled>>
  BY <1>2 DEF UnderstoodInv
<1>. QED
  BY <1>1, <1>2
  DEF Dealings!Next, Dealings!Begin, Dealings!Reload, Dealings!SessionEnds,
      Dealings!ResetElsewhere, Dealings!RevokedElsewhere

\* However many keys there are and wherever a call fails: every call that the console makes
\* meets exactly one route, whose body it fills, and finds in the answer what it reads; and
\* every route but the login, whose answer goes beyond its schema, answers what its OpenAPI
\* document says (apiClient, the controllers and their schemas).
THEOREM AnswersAlwaysUnderstood == Spec => []AnswersUnderstood
<1>1. Init => UnderstoodInv BY DEF Init, Dealings!Init, UnderstoodInv
<1>2. (Only("api") /\ Dealings!Next) \/ UNCHANGED api \/ ~[Next]_vars
  BY DEF Next, Only, vars
<1>3. SessionInv /\ UnderstoodInv /\ [Next]_vars => UnderstoodInv'
  <2>1. UnderstoodInv /\ UNCHANGED api => UnderstoodInv' BY DEF api, UnderstoodInv
  <2>. QED BY <1>2, <2>1, UnderstoodStep
<1>4. UnderstoodInv => AnswersUnderstood
  BY RoutesAsDocumented
  DEF UnderstoodInv, Excused, AnswersUnderstood, Dealings!AnswersUnderstood, Of, UnsentMeters,
         Dealings!Of, Dealings!UnsentMeters
<1>. QED BY <1>1, <1>3, <1>4, SessionsSound, PTL DEF Spec
=============================================================================
