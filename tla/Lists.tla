------------------------------- MODULE Lists -------------------------------
(***************************************************************************)
(* The paged lists.  A client walks a list from page 1 until the answer    *)
(* says that there are no more pages, while other requests write the same  *)
(* table.  Each page is two statements at READ COMMITTED, the rows         *)
(* (ORDER BY, skip, take) and their count, with a snapshot each.           *)
(*                                                                         *)
(* Rows are numbered in creation order.  Of a row the model keeps the      *)
(* column the list is sorted by (a greater value comes first) and whether  *)
(* the row passes the filter of the walk.  Nothing is ever deleted.  The   *)
(* createdAt of two rows differ, unless one request made both.             *)
(***************************************************************************)
EXTENDS Naturals, Sequences, FiniteSets

CONSTANTS
    Values,         \* values of the column a list is sorted by
    Limits,         \* page sizes that clients ask for
    MaxRows,        \* bounds: rows, and writes during a walk
    MaxWrites

VARIABLES list, rows, walk

vars == <<list, rows, walk>>

-----------------------------------------------------------------------------
\* byValue: sorted by a column that rows share; total: rows that share it are
\* sorted by createdAt; filterChanges, valueChanges: what an update of a row may
\* change; countsAll: the count has no filter.
ByCreation == [byValue |-> FALSE, total |-> TRUE, filterChanges |-> TRUE,
               valueChanges |-> FALSE, countsAll |-> FALSE]

ByDate == [ByCreation EXCEPT !.byValue = TRUE, !.total = FALSE]

ListCustomers  == ByCreation
ListUsers      == ByCreation
ListDrivers    == ByCreation
ListVehicles   == ByCreation

\* All filters are of columns that are written once.
GetSmsHistory  == [ByCreation EXCEPT !.filterChanges = FALSE, !.countsAll = TRUE]

\* By scheduledAt, which no update changes, and then by createdAt.
ListDeliveries == [ByCreation EXCEPT !.byValue = TRUE]

\* An update of an invoice changes its status, one of a customer the name that
\* is searched for.
ListInvoices   == ByDate
ListPayments   == ByDate

\* The entries of a purchase and of its initial payment have one entryDate, and
\* createdAt is the time of their transaction.
GetCustomerLedger == [ByDate EXCEPT !.filterChanges = FALSE]
ListPurchases     == [ByDate EXCEPT !.filterChanges = FALSE]

\* By name, and names can be changed.
ListProducts   == [ByDate EXCEPT !.valueChanges = TRUE]

Kinds == {ListCustomers, ListUsers, ListDrivers, ListVehicles, GetSmsHistory, ListDeliveries,
          ListInvoices, ListPayments, GetCustomerLedger, ListPurchases, ListProducts}

-----------------------------------------------------------------------------
Row == [value : Values, matches : BOOLEAN]

\* start: the rows of the list when the walk began; seen: the rows shown so far;
\* moved: rows that were changed meanwhile, departures how often a row left its
\* place in the list; tied: rows whose place the order left open.  The last four
\* are for the properties.
Walk == [phase : {"idle", "items", "count", "done"}, limit : Limits, page : 1 .. MaxRows + 1,
         seen : SUBSET (1 .. MaxRows), start : SUBSET (1 .. MaxRows), moved : SUBSET (1 .. MaxRows),
         tied : SUBSET (1 .. MaxRows), departures : 0 .. MaxWrites, writes : 0 .. MaxWrites]

TypeOK ==
    /\ list \in Kinds
    /\ rows \in Seq(Row) /\ Len(rows) <= MaxRows
    /\ walk \in Walk

Matching == {n \in DOMAIN rows : rows[n].matches}

\* The order says that row n comes before row o.
Before(n, o) ==
    \/ rows[n].value > rows[o].value
    \/ rows[n].value = rows[o].value /\ list.total /\ n > o

Tied == {n \in Matching : \E o \in Matching \ {n} : ~Before(n, o) /\ ~Before(o, n)}

\* A set of rows that an execution of the query may put in front of all others.
InFront(front) == \A n \in front, o \in Matching \ front : ~Before(o, n)

-----------------------------------------------------------------------------
Fresh == [phase |-> "idle", limit |-> CHOOSE l \in Limits : TRUE, page |-> 1, seen |-> {},
          start |-> {}, moved |-> {}, tied |-> {}, departures |-> 0, writes |-> 0]

Init ==
    /\ list \in Kinds
    /\ rows = <<>>
    /\ walk = Fresh

\* A write of another request, bounded while a walk is under way.
Writing == walk.phase = "idle" \/ (walk.phase # "done" /\ walk.writes < MaxWrites)

Recorded(moved, departed) ==
    IF walk.phase = "idle" THEN walk
    ELSE [walk EXCEPT !.writes = @ + 1, !.moved = @ \cup moved,
                      !.departures = IF departed THEN @ + 1 ELSE @]

Insert(value, matches) ==
    /\ Writing /\ Len(rows) < MaxRows
    /\ ~list.byValue => value = CHOOSE v \in Values : TRUE
    /\ rows' = Append(rows, [value |-> value, matches |-> matches])
    /\ walk' = Recorded({}, FALSE)
    /\ UNCHANGED list

\* The row leaves the list, or comes (back) into it.
ChangeFilter(n) ==
    /\ Writing /\ list.filterChanges
    /\ rows' = [rows EXCEPT ![n].matches = ~@]
    /\ walk' = Recorded({n}, rows[n].matches)
    /\ UNCHANGED list

ChangeValue(n, value) ==
    /\ Writing /\ list.valueChanges /\ value # rows[n].value
    /\ rows' = [rows EXCEPT ![n].value = value]
    /\ walk' = Recorded({n}, rows[n].matches)
    /\ UNCHANGED list

-----------------------------------------------------------------------------
BeginWalk(limit) ==
    /\ walk.phase = "idle"
    /\ walk' = [Fresh EXCEPT !.phase = "items", !.limit = limit, !.start = Matching]
    /\ UNCHANGED <<list, rows>>

PageFromZero(page, limit) == page * limit  \* mutant: pages counted from 0

Skipped(page, limit) == (page - 1) * limit

Smaller(m, n) == IF m < n THEN m ELSE n

\* findMany: `shown` is the page, after the skipped rows.
ReadItems(shown) ==
    LET size  == Cardinality(Matching)
        skip  == Smaller(Skipped(walk.page, walk.limit), size)
    IN
    /\ walk.phase = "items"
    /\ Cardinality(shown) = Smaller(walk.limit, size - skip)
    /\ \E skipped \in SUBSET (Matching \ shown) :
          /\ Cardinality(skipped) = skip
          /\ InFront(skipped) /\ InFront(skipped \cup shown)
    /\ walk' = [walk EXCEPT !.phase = "count", !.seen = @ \cup shown, !.tied = @ \cup Tied]
    /\ UNCHANGED <<list, rows>>

\* Math.ceil(total / limit)
Pages(total, limit) == (total + limit - 1) \div limit

\* count; the client goes on while there are more pages.
ReadCount ==
    LET total == IF list.countsAll THEN Len(rows) ELSE Cardinality(Matching) IN
    /\ walk.phase = "count"
    /\ walk' = IF walk.page < Pages(total, walk.limit)
               THEN [walk EXCEPT !.phase = "items", !.page = @ + 1]
               ELSE [walk EXCEPT !.phase = "done"]
    /\ UNCHANGED <<list, rows>>

\* What was shown is forgotten.
EndWalk ==
    /\ walk.phase = "done"
    /\ walk' = Fresh
    /\ UNCHANGED <<list, rows>>

Next ==
    \/ \E value \in Values, matches \in BOOLEAN : Insert(value, matches)
    \/ \E n \in DOMAIN rows :
          ChangeFilter(n) \/ \E value \in Values : ChangeValue(n, value)
    \/ \E limit \in Limits : BeginWalk(limit)
    \/ \E shown \in SUBSET Matching : ReadItems(shown)
    \/ ReadCount \/ EndWalk

Spec == Init /\ [][Next]_vars

-----------------------------------------------------------------------------
\* The rows that were in the list from beginning to end and were not shown.
Missed == walk.start \ (walk.seen \cup walk.moved)

\* Whoever reads a list page by page sees every row that stays in it, but for one
\* row, at most, each time another row leaves its place, and for rows whose place
\* the order leaves open.  New rows and the second snapshot of the count make
\* nobody miss anything.
WalkMisses == walk.phase = "done" => Cardinality(Missed \ walk.tied) <= walk.departures
=============================================================================
