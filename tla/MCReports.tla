----------------------------- MODULE MCReports -----------------------------
(***************************************************************************)
(* What is read while others write: the reports, or a walk through a paged *)
(* list.  The two share nothing, and a behavior is one of either.          *)
(*                                                                         *)
(* Reports: one customer with an opening balance or without, two backdated *)
(* invoices up to two months apart, and two payments.  Lists: three rows   *)
(* with two dates or names, pages of one or two rows, two writes during    *)
(* the walk.                                                               *)
(***************************************************************************)
EXTENDS Reports

CONSTANTS Values, Limits, MaxRows, MaxWrites

\* The schemas of the lists accept a limit of 1 at least, and have a default.
ASSUME ListsAssumption ==
    /\ Values \subseteq Nat
    /\ Limits \subseteq Nat \ {0} /\ Limits # {}

VARIABLES part, list, rows, walk

Paged == INSTANCE Lists

pagedVars == <<list, rows, walk>>

readVars == <<part, vars, report, pagedVars>>

ReadInit ==
    /\ part \in {"reports", "lists"}
    /\ ReportsInit
    /\ Paged!Init
    /\ part = "reports" => list = Paged!ListCustomers

ReadNext ==
    \/ part = "reports" /\ ReportsNext /\ UNCHANGED <<part, pagedVars>>
    \/ part = "lists" /\ Paged!Next /\ UNCHANGED <<part, vars, report>>

ReadSpec == ReadInit /\ [][ReadNext]_readVars

MCAmounts == {0, 1, 2}

-----------------------------------------------------------------------------
\* The property of Lists, as it is explained there: reading page by page misses
\* at most one row per row that leaves, and rows without an order.
WalkMisses == Paged!WalkMisses
=============================================================================
