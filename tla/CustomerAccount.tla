--------------------------- MODULE CustomerAccount ---------------------------
(***************************************************************************)
(* What the back office promises about a customer's account: the Customer, *)
(* Invoice (one per Purchase), Payment, PaymentAllocation and              *)
(* CustomerLedgerEntry tables, and the five services that write them, each *)
(* as one atomic step.  AccountTransactions shows that the interleaved     *)
(* database transactions implement this.                                   *)
(*                                                                         *)
(* Rows are numbered in creation order, which is their createdAt; amounts  *)
(* are in the smallest currency unit.  A rejected request (a thrown        *)
(* AppError) changes nothing and is a guard that is false here.  The       *)
(* Delivery row createPurchase may add is in module Delivery; VOIDED       *)
(* invoices and deleted customers are left out, no code creates them.      *)
(***************************************************************************)
EXTENDS Integers, Sequences, Functions

CONSTANTS
    Amounts,        \* the money values requests carry
    Dates,          \* the (possibly backdated) invoice dates requests carry
    MaxCustomers,   \* bounds on the number of rows
    MaxInvoices,
    MaxPayments

ASSUME ConstantsAssumption ==
    /\ Amounts \subseteq Nat
    /\ Dates \subseteq Nat
    /\ {MaxCustomers, MaxInvoices, MaxPayments} \subseteq Nat

VARIABLES customers, invoices, payments, ledger

vars == <<customers, invoices, payments, ledger>>

-----------------------------------------------------------------------------
CustomerStatuses == {"ACTIVE", "INACTIVE"}
InvoiceStatuses  == {"UNPAID", "PARTIALLY_PAID", "PAID"}
PaymentStatuses  == {"CONFIRMED", "REVERSED"}
EntryTypes       == {"OPENING_BALANCE", "PURCHASE", "PAYMENT", "REVERSAL"}

CustomerRow == [status : CustomerStatuses, creditLimit : Nat, currentBalance : Int]

InvoiceRow == [customerId : Nat, invoiceDate : Nat, grandTotal : Nat,
               paidAmount : Int, currentDue : Int, status : InvoiceStatuses]

\* The PaymentAllocation rows of a payment: the amount per invoice, 0 for none.
Allocations == [1 .. MaxInvoices -> Nat]

PaymentRow == [customerId : Nat, amount : Nat, status : PaymentStatuses,
               allocations : Allocations]

LedgerRow == [type : EntryTypes, debit : Nat, credit : Nat,
              balanceAfter : Int, sourceId : Nat]

TypeOK ==
    /\ customers \in Seq(CustomerRow)
    /\ invoices \in Seq(InvoiceRow)
    /\ payments \in Seq(PaymentRow)
    /\ ledger \in Seq(Seq(LedgerRow))

-----------------------------------------------------------------------------
InvoiceStatusExclusive(total, paid) ==  \* mutant: gt for gte
    CASE paid <= 0                -> "UNPAID"
      [] paid > 0 /\ paid > total -> "PAID"
      [] OTHER                    -> "PARTIALLY_PAID"

InvoiceStatus(total, paid) ==
    CASE paid <= 0                 -> "UNPAID"
      [] paid > 0 /\ paid >= total -> "PAID"
      [] OTHER                     -> "PARTIALLY_PAID"

NewInvoice(c, date, total, paid) ==
    [customerId |-> c, invoiceDate |-> date, grandTotal |-> total,
     paidAmount |-> paid, currentDue |-> total - paid,
     status |-> InvoiceStatus(total, paid)]

\* The invoice after `amount` more was paid on it; negative on a reversal.
Settle(invoice, amount) ==
    [invoice EXCEPT !.paidAmount = @ + amount,
                    !.currentDue = @ - amount,
                    !.status = InvoiceStatus(invoice.grandTotal, invoice.paidAmount + amount)]

NewPayment(c, amount, plan) ==
    [customerId |-> c, amount |-> amount, status |-> "CONFIRMED", allocations |-> plan]

OnlyTo(invoice, amount) ==
    [i \in 1 .. MaxInvoices |-> IF i = invoice THEN amount ELSE 0]

SettleAll(plan, sign) ==
    [i \in DOMAIN invoices |->
        IF plan[i] > 0 THEN Settle(invoices[i], sign * plan[i]) ELSE invoices[i]]

Debit(type, amount, after, source) ==
    [type |-> type, debit |-> amount, credit |-> 0, balanceAfter |-> after, sourceId |-> source]

Credit(type, amount, after, source) ==
    [type |-> type, debit |-> 0, credit |-> amount, balanceAfter |-> after, sourceId |-> source]

\* The entries of a purchase: its total, then what was paid on the spot.
FinalBalancePostings(previous, net, paid, invoice, payment) ==  \* mutant: runningBalance too early
    <<Debit("PURCHASE", net, previous + net - paid, invoice)>>
    \o IF paid > 0 THEN <<Credit("PAYMENT", paid, previous + net - paid, payment)>> ELSE <<>>

InvoiceSourcePostings(previous, net, paid, invoice, payment) ==  \* mutant: the invoice as source
    <<Debit("PURCHASE", net, previous + net, invoice)>>
    \o IF paid > 0 THEN <<Credit("PAYMENT", paid, previous + net - paid, invoice)>> ELSE <<>>

PurchasePostings(previous, net, paid, invoice, payment) ==
    <<Debit("PURCHASE", net, previous + net, invoice)>>
    \o IF paid > 0 THEN <<Credit("PAYMENT", paid, previous + net - paid, payment)>> ELSE <<>>

NegativeCreditPosting(amount, after, payment) ==  \* mutant: a reversal as a negative credit
    Credit("REVERSAL", 0 - amount, after, payment)

ReversalPosting(amount, after, payment) == Debit("REVERSAL", amount, after, payment)

AlwaysReversible(payment) == TRUE  \* mutant: no PAYMENT_ALREADY_REVERSED

Reversible(payment) == payment.status = "CONFIRMED"

ReversedAndCleared(payment) ==  \* mutant: the allocations are deleted
    [payment EXCEPT !.status = "REVERSED", !.allocations = OnlyTo(0, 0)]

Reversed(payment) == [payment EXCEPT !.status = "REVERSED"]

-----------------------------------------------------------------------------
Init ==
    /\ customers = <<>>
    /\ invoices = <<>>
    /\ payments = <<>>
    /\ ledger = <<>>

CreateCustomer(limit, opening) ==
    /\ Len(customers) < MaxCustomers
    /\ customers' = Append(customers, [status |-> "ACTIVE", creditLimit |-> limit,
                                       currentBalance |-> opening])
    /\ ledger' = Append(ledger, IF opening > 0
                                THEN <<Debit("OPENING_BALANCE", opening, opening, Len(customers) + 1)>>
                                ELSE <<>>)
    /\ UNCHANGED <<invoices, payments>>

\* An omitted field keeps its column, which is the choice of its present value.
UpdateCustomer(c, limit, status) ==
    /\ customers' = [customers EXCEPT ![c].creditLimit = limit, ![c].status = status]
    /\ UNCHANGED <<invoices, payments, ledger>>

PriorBalanceWithinLimit(c, balance) ==  \* mutant: checks the balance before the purchase
    customers[c].creditLimit > 0 => customers[c].currentBalance <= customers[c].creditLimit

WithinCreditLimit(c, balance) ==
    customers[c].creditLimit > 0 => balance <= customers[c].creditLimit

CreatePurchase(c, date, net, paid) ==
    LET previous  == customers[c].currentBalance
        resulting == previous + net - paid
        invoice   == Len(invoices) + 1
        payment   == Len(payments) + 1
    IN
    /\ invoice <= MaxInvoices /\ (paid > 0 => payment <= MaxPayments)
    /\ customers[c].status = "ACTIVE"
    /\ net > 0 /\ paid <= net
    /\ WithinCreditLimit(c, resulting)
    /\ invoices' = Append(invoices, NewInvoice(c, date, net, paid))
    /\ payments' = IF paid > 0
                   THEN Append(payments, NewPayment(c, paid, OnlyTo(invoice, paid)))
                   ELSE payments
    /\ ledger' = [ledger EXCEPT ![c] =
                     @ \o PurchasePostings(previous, net, paid, invoice, payment)]
    /\ customers' = [customers EXCEPT ![c].currentBalance = resulting]

-----------------------------------------------------------------------------
PlanOfAnyCustomer(c, amount, plan) ==  \* mutant: no customerId in the invoice query
    /\ \A i \in {j \in DOMAIN plan : plan[j] > 0} :
          i \in DOMAIN invoices /\ plan[i] <= invoices[i].currentDue
    /\ SumFunction(plan) = amount

\* What an allocation plan must satisfy, whether the client names it or the
\* service works it out (AccountTransactions says which dues the service picks).
ValidPlan(c, amount, plan) ==
    /\ \A i \in {j \in DOMAIN plan : plan[j] > 0} :
          /\ i \in DOMAIN invoices
          /\ invoices[i].customerId = c
          /\ plan[i] <= invoices[i].currentDue
    /\ SumFunction(plan) = amount

Plans(amount) == [1 .. MaxInvoices -> 0 .. amount]

CreatePayment(c, amount, plan) ==
    LET balance == customers[c].currentBalance - amount IN
    /\ Len(payments) < MaxPayments
    /\ customers[c].status = "ACTIVE"
    /\ 0 < amount /\ amount <= customers[c].currentBalance
    /\ ValidPlan(c, amount, plan)
    /\ payments' = Append(payments, NewPayment(c, amount, plan))
    /\ invoices' = SettleAll(plan, 1)
    /\ customers' = [customers EXCEPT ![c].currentBalance = balance]
    /\ ledger' = [ledger EXCEPT ![c] =
                     Append(@, Credit("PAYMENT", amount, balance, Len(payments) + 1))]

ReversePayment(p) ==
    LET c       == payments[p].customerId
        plan    == payments[p].allocations
        balance == customers[c].currentBalance + payments[p].amount
    IN
    /\ Reversible(payments[p])
    /\ payments' = [payments EXCEPT ![p] = Reversed(payments[p])]
    /\ invoices' = SettleAll(plan, -1)
    /\ customers' = [customers EXCEPT ![c].currentBalance = balance]
    /\ ledger' = [ledger EXCEPT ![c] =
                     Append(@, ReversalPosting(payments[p].amount, balance, p))]

Next ==
    \/ \E limit, opening \in Amounts : CreateCustomer(limit, opening)
    \/ \E c \in DOMAIN customers :
          \/ \E limit \in Amounts, status \in CustomerStatuses : UpdateCustomer(c, limit, status)
          \/ \E date \in Dates, net, paid \in Amounts : CreatePurchase(c, date, net, paid)
          \/ \E amount \in Amounts : \E plan \in Plans(amount) : CreatePayment(c, amount, plan)
    \/ \E p \in DOMAIN payments : ReversePayment(p)

Spec == Init /\ [][Next]_vars

-----------------------------------------------------------------------------
RowsOf(rows, c) == {n \in DOMAIN rows : rows[n].customerId = c}

OpeningBalance(c) ==
    IF ledger[c] # <<>> /\ ledger[c][1].type = "OPENING_BALANCE" THEN ledger[c][1].debit ELSE 0

\* The balance column, which every purchase, payment and reversal computes from
\* its previous value, is the opening balance and the unpaid part of every
\* invoice: what the account shows as owed is never more or less than the
\* documents behind it.
BalanceExplained ==
    \A c \in DOMAIN customers :
        customers[c].currentBalance =
            OpeningBalance(c)
            + SumFunction([i \in RowsOf(invoices, c) |-> invoices[i].currentDue])

\* The paid amount of an invoice is what the confirmed payments allocate to it,
\* and what a payment allocates adds up to its amount, on invoices of the payer:
\* reversals give back exactly what was taken, whatever happened in between.
PaidByAllocations ==
    /\ \A i \in DOMAIN invoices :
          invoices[i].paidAmount =
              SumFunction([p \in {q \in DOMAIN payments : payments[q].status = "CONFIRMED"} |->
                              payments[p].allocations[i]])
    /\ \A p \in DOMAIN payments :
          /\ SumFunction(payments[p].allocations) = payments[p].amount
          /\ \A i \in DOMAIN invoices : payments[p].allocations[i] > 0 =>
                invoices[i].customerId = payments[p].customerId

\* Paid and due always split the invoice total, nothing is overpaid, and the
\* status column (which the services recompute at each settlement) tells which
\* of the three cases holds.
InvoiceSettled(invoice) ==
    /\ invoice.paidAmount + invoice.currentDue = invoice.grandTotal
    /\ invoice.currentDue >= 0
    /\ invoice.status = "PAID" <=> invoice.currentDue = 0
    /\ invoice.status = "UNPAID" <=> invoice.paidAmount <= 0

InvoicesSettled == \A i \in DOMAIN invoices : InvoiceSettled(invoices[i])

BalanceBefore(entries, n) == IF n = 1 THEN 0 ELSE entries[n - 1].balanceAfter

\* Each ledger entry carries the balance of the entry before it by its debit or
\* credit, and the last one shows the balance column of the customer, which is
\* never negative: the ledger written by five services reads as one account.
LedgerRunsToBalance ==
    /\ DOMAIN ledger = DOMAIN customers
    /\ \A c \in DOMAIN ledger :
          /\ \A n \in DOMAIN ledger[c] :
                ledger[c][n].balanceAfter =
                    BalanceBefore(ledger[c], n) + ledger[c][n].debit - ledger[c][n].credit
          /\ customers[c].currentBalance = BalanceBefore(ledger[c], Len(ledger[c]) + 1)
          /\ customers[c].currentBalance >= 0

Postings(c, type, source) ==
    {n \in DOMAIN ledger[c] : ledger[c][n].type = type /\ ledger[c][n].sourceId = source}

PostedOnce(c, type, source, amount) ==
    \E n \in DOMAIN ledger[c] :
        /\ Postings(c, type, source) = {n}
        /\ ledger[c][n].debit + ledger[c][n].credit = amount

\* Every invoice and payment has one ledger entry of its amount, a payment has
\* a REVERSAL entry exactly when it is reversed, and there is no other entry:
\* no document is posted twice or left out.
EveryDocumentPostedOnce ==
    /\ \A i \in DOMAIN invoices :
          PostedOnce(invoices[i].customerId, "PURCHASE", i, invoices[i].grandTotal)
    /\ \A p \in DOMAIN payments :
          /\ PostedOnce(payments[p].customerId, "PAYMENT", p, payments[p].amount)
          /\ IF payments[p].status = "REVERSED"
             THEN PostedOnce(payments[p].customerId, "REVERSAL", p, payments[p].amount)
             ELSE Postings(payments[p].customerId, "REVERSAL", p) = {}
    /\ \A c \in DOMAIN ledger : \A n \in DOMAIN ledger[c] :
          CASE ledger[c][n].type = "PURCHASE" -> ledger[c][n].sourceId \in RowsOf(invoices, c)
            [] ledger[c][n].type \in {"PAYMENT", "REVERSAL"} ->
                   ledger[c][n].sourceId \in RowsOf(payments, c)
            [] OTHER -> n = 1 /\ ledger[c][n].sourceId = c

\* A payment keeps its customer, amount and allocations, and goes from confirmed
\* to reversed at most.
PaymentKept(p) ==
    payments'[p] \in {payments[p], [payments[p] EXCEPT !.status = "REVERSED"]}

HistoryStep ==
    /\ \A c \in DOMAIN ledger : \A n \in DOMAIN ledger[c] :
          n \in DOMAIN ledger'[c] /\ ledger'[c][n] = ledger[c][n]
    /\ \A p \in DOMAIN payments : PaymentKept(p)

\* Written history stays: no service deletes or edits a ledger entry, a payment's
\* customer, amount or allocations, or takes a reversal back.
HistoryKept == [][HistoryStep]_vars

CreditLimitStep ==
    \A c \in DOMAIN customers :
        customers'[c].currentBalance > customers[c].currentBalance =>
            \/ customers[c].creditLimit = 0
            \/ customers'[c].currentBalance <= customers[c].creditLimit
            \/ \E p \in RowsOf(payments, c) :
                  payments[p].status = "CONFIRMED" /\ payments'[p].status = "REVERSED"

\* A step that raises the balance of a customer with a credit limit stays within
\* it, or reverses a payment: createPurchase never goes beyond.  Only rises are
\* bound: an opening balance may lie above the limit, and updateCustomer may lower
\* the limit below the balance.
CreditLimitHeld == [][CreditLimitStep]_vars
=============================================================================
