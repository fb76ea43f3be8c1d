------------------------------ MODULE Reports ------------------------------
(***************************************************************************)
(* The due aging report, the report summary and the due on the dashboard,  *)
(* read from the tables of CustomerAccount while its services write them.  *)
(* No report runs in a transaction: each query is a statement that sees    *)
(* what is committed at its moment.  getDueAging reads the customers and   *)
(* then their invoices (an include is a second query); getReportSummary    *)
(* starts its three aggregates at once, and they run in any order.         *)
(*                                                                         *)
(* Dates are days.  The summary is asked for a period that covers every    *)
(* document, as payment dates are not in CustomerAccount.                  *)
(***************************************************************************)
EXTENDS CustomerAccount

CONSTANT MaxMeanwhile   \* bound on the commits while a report is made

ASSUME MeanwhileAssumption == MaxMeanwhile \in Nat

VARIABLE report

Buckets == {"0_30", "31_60", "61_90", "90Plus"}

Bucket(ageDays) ==
    CASE ageDays <= 30                  -> "0_30"
      [] 30 < ageDays /\ ageDays <= 60  -> "31_60"
      [] 60 < ageDays /\ ageDays <= 90  -> "61_90"
      [] OTHER                          -> "90Plus"

Aggregates == {"totalSales", "totalCollections", "totalOutstandingDue"}

-----------------------------------------------------------------------------
ActiveCustomers == {c \in DOMAIN customers : customers[c].status = "ACTIVE"}

\* The customers of the aging report and of the dashboard's due.
InDebt == {c \in ActiveCustomers : customers[c].currentBalance > 0}

SumOf(rows, field, chosen) == SumFunction([n \in chosen |-> rows[n][field]])

InvoiceSum(c, now, bucket) ==
    SumOf(invoices, "currentDue",
          {i \in DOMAIN invoices : /\ invoices[i].customerId = c
                                   /\ invoices[i].currentDue > 0
                                   /\ Bucket(now - invoices[i].invoiceDate) = bucket})

NothingUnallocated(balance, invoiceSum) == 0  \* mutant: the opening balance is not reported

\* What no invoice accounts for counts as young.
Unallocated(balance, invoiceSum) == IF balance > invoiceSum THEN balance - invoiceSum ELSE 0

CustomerAging(c, balance, now) ==
    LET sums == [bucket \in Buckets |-> InvoiceSum(c, now, bucket)]
    IN  [sums EXCEPT !["0_30"] = @ + Unallocated(balance, SumFunction(sums))]

TotalSales == SumOf(invoices, "grandTotal", DOMAIN invoices)

CollectedEver == SumOf(payments, "amount", DOMAIN payments)  \* mutant: no status in the where

TotalCollections ==
    SumOf(payments, "amount", {p \in DOMAIN payments : payments[p].status = "CONFIRMED"})

TotalOutstandingDue == SumOf(customers, "currentBalance", ActiveCustomers)

DueOfAll ==  \* mutant: no status in the where
    SumOf(customers, "currentBalance", {c \in DOMAIN customers : customers[c].currentBalance > 0})

DashboardDue == SumOf(customers, "currentBalance", InDebt)

Aggregate(name) ==
    CASE name = "totalSales"          -> TotalSales
      [] name = "totalCollections"    -> TotalCollections
      [] name = "totalOutstandingDue" -> TotalOutstandingDue

-----------------------------------------------------------------------------
Waiting == [phase |-> "waiting"]

ReportsInit == Init /\ report = Waiting

BeginDueAging ==
    /\ report = Waiting
    /\ report' = [phase |-> "dueAging", commits |-> 0, onlyPayments |-> TRUE,
                  balances |-> [c \in InDebt |-> customers[c].currentBalance]]
    /\ UNCHANGED vars

BeginSummary ==
    /\ report = Waiting
    /\ report' = [phase |-> "summary", commits |-> 0, onlyPayments |-> TRUE, read |-> [name \in {} |-> 0]]
    /\ UNCHANGED vars

ReadAggregate(name) ==
    /\ report.phase = "summary" /\ name \notin DOMAIN report.read
    /\ report' = [report EXCEPT !.read = [other \in DOMAIN @ \cup {name} |->
                                             IF other = name THEN Aggregate(name) ELSE @[other]]]
    /\ UNCHANGED vars

\* Both queries, or all three, were made.
Complete ==
    \/ report.phase = "dueAging"
    \/ report.phase = "summary" /\ DOMAIN report.read = Aggregates

AnswerReport ==
    /\ Complete
    /\ report' = Waiting
    /\ UNCHANGED vars

\* The report does not notice; commits and onlyPayments are there for the
\* properties, no code keeps them.
Meanwhile ==
    /\ report # Waiting /\ report.commits < MaxMeanwhile
    /\ Next
    /\ report' = [report EXCEPT
                     !.commits = @ + 1,
                     !.onlyPayments = @ /\ \A c \in DOMAIN ledger :
                         \A n \in Len(ledger[c]) + 1 .. Len(ledger'[c]) : ledger'[c][n].type = "PAYMENT"]

ReportsNext ==
    \/ BeginDueAging \/ BeginSummary \/ AnswerReport
    \/ \E name \in Aggregates : ReadAggregate(name)
    \/ Meanwhile
    \/ report = Waiting /\ Next /\ UNCHANGED report

ReportsSpec == ReportsInit /\ [][ReportsNext]_<<vars, report>>

-----------------------------------------------------------------------------
ReportDays == {date + age : date \in Dates, age \in {0, 30, 31, 60, 61, 90, 91}}

\* On whichever day the aging report is made: of an invoice of the customer
\* every unpaid part is in the bucket of its age and only what no invoice
\* accounts for is reported younger; the buckets never add up to less than the
\* total due shown beside them, and add up to it exactly if no purchase and no
\* reversal was committed between the two queries.
AgingAddsUp ==
    report.phase = "dueAging" =>
        \A now \in ReportDays : \A c \in DOMAIN report.balances :
            LET aging      == CustomerAging(c, report.balances[c], now)
                Older(age) == SumOf(invoices, "currentDue",
                                    {i \in RowsOf(invoices, c) : now - invoices[i].invoiceDate > age})
            IN
            /\ SumFunction(aging) >= report.balances[c]
            /\ report.onlyPayments => SumFunction(aging) = report.balances[c]
            /\ aging["90Plus"] = Older(90)
            /\ aging["61_90"] + aging["90Plus"] = Older(60)
            /\ aging["31_60"] + aging["61_90"] + aging["90Plus"] = Older(30)

\* Sales, collections and the outstanding due of the summary come from three
\* tables and still balance: what was owed at the start and sold since, less
\* what was collected and not given back, is outstanding or owed by customers
\* that the report leaves out, if nothing was committed while it was made.  It is
\* about the filters of the three queries; a commit in between makes them disagree.
SummaryBalances ==
    report.phase = "summary" /\ Complete /\ report.commits = 0 =>
        SumFunction([c \in DOMAIN customers |-> OpeningBalance(c)])
        + report.read["totalSales"] - report.read["totalCollections"]
            = report.read["totalOutstandingDue"]
              + SumOf(customers, "currentBalance", DOMAIN customers \ ActiveCustomers)

\* The dashboard, which adds up the customers in debt, and the report summary,
\* which adds up all that are active, show the same due: no sequence of
\* payments and reversals leaves a customer with a credit.
DuesAgree == DashboardDue = TotalOutstandingDue
=============================================================================
