----------------------- MODULE CustomerAccount_proofs -----------------------
(***************************************************************************)
(* Proofs about CustomerAccount for every value of its constants: types,   *)
(* settled invoices, the running ledger, kept history, the credit limit,   *)
(* explained balances, paid amounts, postings.                             *)
(***************************************************************************)
EXTENDS CustomerAccount, SequenceTheorems, FiniteSetTheorems, TLAPS

USE DEF CustomerStatuses, InvoiceStatuses, PaymentStatuses, EntryTypes

(***************************************************************************)
(* Lemmas about the operators the actions are built from.                  *)
(***************************************************************************)
\* The status column of an invoice is one of the three statuses.
LEMMA StatusType ==
    ASSUME NEW total \in Int, NEW paid \in Int
    PROVE  InvoiceStatus(total, paid) \in InvoiceStatuses
<1>1. CASE paid <= 0
  BY <1>1 DEF InvoiceStatus
<1>2. CASE paid > 0 /\ paid >= total
  BY <1>2 DEF InvoiceStatus
<1>3. CASE paid > 0 /\ paid < total
  BY <1>3 DEF InvoiceStatus
<1> QED
  BY <1>1, <1>2, <1>3

\* A settled invoice is an invoice row again.
LEMMA SettleType ==
    ASSUME NEW invoice \in InvoiceRow, NEW amount \in Int
    PROVE  Settle(invoice, amount) \in InvoiceRow
<1>1. InvoiceStatus(invoice.grandTotal, invoice.paidAmount + amount) \in InvoiceStatuses
  BY StatusType DEF InvoiceRow
<1>2. ASSUME NEW paid \in Int, NEW due \in Int, NEW status \in InvoiceStatuses
      PROVE  [invoice EXCEPT !.paidAmount = paid, !.currentDue = due, !.status = status]
                 \in InvoiceRow
  BY DEF InvoiceRow
<1>3. invoice.paidAmount + amount \in Int /\ invoice.currentDue - amount \in Int
  BY DEF InvoiceRow
<1> QED
  BY <1>1, <1>2, <1>3 DEF Settle

\* A function over the positions of a sequence is a sequence of the same length.
LEMMA MapIsSeq ==
    ASSUME NEW S, NEW s, NEW f, DOMAIN s = 1 .. Len(s), Len(s) \in Nat,
           DOMAIN f = DOMAIN s, f = [n \in DOMAIN f |-> f[n]],
           \A n \in DOMAIN s : f[n] \in S
    PROVE  f \in Seq(S) /\ Len(f) = Len(s)
<1>1. f \in [1 .. Len(s) -> S]
  OBVIOUS
<1>2. f \in Seq(S)
  BY <1>1, SeqDef
<1> QED
  BY <1>1, <1>2, LenProperties

\* The table invariant the typing of a step needs besides TypeOK: ids refer to
\* rows that exist, and an allocation never names an invoice beyond the table.
RowsRefer ==
    /\ Len(invoices) <= MaxInvoices
    /\ DOMAIN ledger = DOMAIN customers
    /\ \A p \in DOMAIN payments : payments[p].customerId \in DOMAIN customers

TypeInv == TypeOK /\ RowsRefer

\* Settling along a plan keeps the invoice table an invoice table.
LEMMA SettleAllType ==
    ASSUME TypeInv, NEW plan \in Allocations, NEW sign \in Int, ConstantsAssumption
    PROVE  /\ SettleAll(plan, sign) \in Seq(InvoiceRow)
           /\ Len(SettleAll(plan, sign)) = Len(invoices)
<1> DEFINE f == SettleAll(plan, sign)
<1>1. DOMAIN invoices = 1 .. Len(invoices) /\ Len(invoices) \in Nat
  BY LenProperties DEF TypeInv, TypeOK
<1>2. ASSUME NEW i \in DOMAIN invoices PROVE f[i] \in InvoiceRow
  <2>1. plan[i] \in Nat /\ invoices[i] \in InvoiceRow
    BY <1>1 DEF TypeInv, TypeOK, RowsRefer, Allocations, ConstantsAssumption
  <2>2. sign * plan[i] \in Int
    BY <2>1
  <2>3. Settle(invoices[i], sign * plan[i]) \in InvoiceRow
    BY <2>1, <2>2, SettleType
  <2> QED
    BY <2>1, <2>3 DEF SettleAll
<1>3. DOMAIN f = DOMAIN invoices /\ f = [n \in DOMAIN f |-> f[n]]
  BY DEF SettleAll
<1> QED
  BY <1>1, <1>2, <1>3, MapIsSeq

\* Writing a new balance to a customer row keeps the customer table.
LEMMA BalanceType ==
    ASSUME TypeInv, NEW c \in DOMAIN customers, NEW balance \in Int,
           customers' = [customers EXCEPT ![c].currentBalance = balance]
    PROVE  /\ customers' \in Seq(CustomerRow)
           /\ Len(customers') = Len(customers)
           /\ \A d \in DOMAIN customers :
                 /\ customers'[d].currentBalance =
                       IF d = c THEN balance ELSE customers[d].currentBalance
                 /\ customers'[d].creditLimit = customers[d].creditLimit
<1> DEFINE row == [customers[c] EXCEPT !.currentBalance = balance]
<1>1. c \in 1 .. Len(customers) /\ customers[c] \in CustomerRow
  BY LenProperties DEF TypeInv, TypeOK
<1>2. row \in CustomerRow /\ row.currentBalance = balance /\ row.creditLimit = customers[c].creditLimit
  BY <1>1 DEF CustomerRow
<1>3. customers' = [customers EXCEPT ![c] = row]
  OBVIOUS
<1>4. customers \in Seq(CustomerRow) /\ DOMAIN customers = 1 .. Len(customers)
  BY LenProperties DEF TypeInv, TypeOK
<1> HIDE DEF row
<1> QED
  BY <1>1, <1>2, <1>3, <1>4, ExceptSeq

\* Posting entries to the ledger of one customer keeps the ledger, and every
\* entry that was there.
LEMMA PostingType ==
    ASSUME TypeInv, NEW c \in DOMAIN customers, NEW entries \in Seq(LedgerRow),
           ledger' = [ledger EXCEPT ![c] = ledger[c] \o entries]
    PROVE  /\ ledger' \in Seq(Seq(LedgerRow))
           /\ DOMAIN ledger' = DOMAIN ledger
           /\ \A d \in DOMAIN ledger :
                 ledger'[d] = IF d = c THEN ledger[c] \o entries ELSE ledger[d]
<1>1. /\ ledger \in Seq(Seq(LedgerRow))
      /\ DOMAIN ledger = 1 .. Len(ledger)
      /\ c \in 1 .. Len(ledger)
      /\ ledger[c] \in Seq(LedgerRow)
  BY LenProperties DEF TypeInv, TypeOK, RowsRefer
<1>2. ledger[c] \o entries \in Seq(LedgerRow)
  BY <1>1, ConcatProperties
<1>3. /\ ledger' \in Seq(Seq(LedgerRow))
      /\ Len(ledger') = Len(ledger)
      /\ \A d \in 1 .. Len(ledger) :
            ledger'[d] = IF d = c THEN ledger[c] \o entries ELSE ledger[d]
  BY <1>1, <1>2, ExceptSeq
<1> QED
  BY <1>1, <1>3, LenProperties

\* An appended row is the last one of a table that keeps the others.
LEMMA AppendRow ==
    ASSUME NEW S, NEW s \in Seq(S), NEW e \in S
    PROVE  /\ Append(s, e) \in Seq(S)
           /\ Len(Append(s, e)) = Len(s) + 1
           /\ DOMAIN Append(s, e) = 1 .. Len(s) + 1
           /\ DOMAIN s = 1 .. Len(s)
           /\ \A i \in 1 .. Len(s) : Append(s, e)[i] = s[i]
           /\ Append(s, e)[Len(s) + 1] = e
BY LenProperties, AppendProperties

\* The only row of a sequence of one.
LEMMA OneRow ==
    ASSUME NEW S, NEW e \in S
    PROVE  <<e>> \in Seq(S) /\ Len(<<e>>) = 1 /\ <<e>>[1] = e
OBVIOUS

-----------------------------------------------------------------------------
\* Empty tables are well formed.
LEMMA InitType == Init => TypeInv
<1> SUFFICES ASSUME Init PROVE TypeInv
  OBVIOUS
<1>1. TypeOK
  BY EmptySeq DEF Init, TypeOK
<1>2. RowsRefer
  BY EmptySeq, ConstantsAssumption DEF Init, RowsRefer
<1> QED
  BY <1>1, <1>2 DEF TypeInv

\* A new customer and its opening entry are rows of their tables.
LEMMA CreateCustomerType ==
    ASSUME TypeInv, NEW limit \in Nat, NEW opening \in Nat, CreateCustomer(limit, opening)
    PROVE  TypeInv'
<1> DEFINE row == [status |-> "ACTIVE", creditLimit |-> limit, currentBalance |-> opening]
           entries == IF opening > 0
                      THEN <<Debit("OPENING_BALANCE", opening, opening, Len(customers) + 1)>>
                      ELSE <<>>
<1>1. row \in CustomerRow
  BY DEF CustomerRow
<1>2. Len(customers) + 1 \in Nat
  BY LenProperties DEF TypeInv, TypeOK
<1>3. Debit("OPENING_BALANCE", opening, opening, Len(customers) + 1) \in LedgerRow
  BY <1>2 DEF Debit, LedgerRow
<1>4. entries \in Seq(LedgerRow)
  BY <1>3, EmptySeq
<1>5. customers' = Append(customers, row) /\ ledger' = Append(ledger, entries)
  BY DEF CreateCustomer
<1> HIDE DEF row, entries
<1>6. /\ customers' \in Seq(CustomerRow) /\ ledger' \in Seq(Seq(LedgerRow))
      /\ DOMAIN customers' = 1 .. Len(customers) + 1 /\ DOMAIN customers = 1 .. Len(customers)
      /\ DOMAIN ledger' = 1 .. Len(ledger) + 1 /\ DOMAIN ledger = 1 .. Len(ledger)
  BY <1>1, <1>4, <1>5, AppendRow DEF TypeInv, TypeOK
<1>7. Len(customers) = Len(ledger)
  BY <1>6, LenProperties DEF TypeInv, TypeOK, RowsRefer
<1>8. UNCHANGED <<invoices, payments>>
  BY DEF CreateCustomer
<1>9. TypeOK'
  BY <1>6, <1>8 DEF TypeInv, TypeOK
<1>10. RowsRefer'
  BY <1>6, <1>7, <1>8, LenProperties DEF TypeInv, TypeOK, RowsRefer
<1> QED
  BY <1>9, <1>10 DEF TypeInv

\* A changed limit or status leaves a customer row.
LEMMA UpdateCustomerType ==
    ASSUME TypeInv, NEW c \in DOMAIN customers, NEW limit \in Nat,
           NEW status \in CustomerStatuses, UpdateCustomer(c, limit, status)
    PROVE  /\ TypeInv'
           /\ DOMAIN customers' = DOMAIN customers
           /\ \A d \in DOMAIN customers :
                 customers'[d].currentBalance = customers[d].currentBalance
<1> DEFINE row == [customers[c] EXCEPT !.creditLimit = limit, !.status = status]
<1>1. c \in 1 .. Len(customers) /\ customers[c] \in CustomerRow
      /\ DOMAIN customers = 1 .. Len(customers)
  BY LenProperties DEF TypeInv, TypeOK
<1>2. row \in CustomerRow /\ row.currentBalance = customers[c].currentBalance
  BY <1>1 DEF CustomerRow
<1>3. customers' = [customers EXCEPT ![c] = row]
  BY <1>1, <1>2 DEF UpdateCustomer, TypeInv, TypeOK
<1> HIDE DEF row
<1>4. /\ customers' \in Seq(CustomerRow) /\ Len(customers') = Len(customers)
      /\ \A d \in 1 .. Len(customers) : customers'[d] = IF d = c THEN row ELSE customers[d]
  BY <1>1, <1>2, <1>3, ExceptSeq DEF TypeInv, TypeOK
<1>5. DOMAIN customers' = DOMAIN customers
  BY <1>1, <1>4, LenProperties
<1>6. TypeInv'
  BY <1>4, <1>5 DEF UpdateCustomer, TypeInv, TypeOK, RowsRefer
<1> QED
  BY <1>1, <1>2, <1>4, <1>5, <1>6

\* The entries of a purchase are one or two ledger rows.
LEMMA PurchasePostingsRows ==
    ASSUME NEW previous \in Int, NEW net \in Nat, NEW paid \in Nat,
           NEW invoice \in Nat, NEW payment \in Nat
    PROVE  /\ PurchasePostings(previous, net, paid, invoice, payment) \in Seq(LedgerRow)
           /\ Len(PurchasePostings(previous, net, paid, invoice, payment)) \in {1, 2}
<1> DEFINE first   == Debit("PURCHASE", net, previous + net, invoice)
           second  == Credit("PAYMENT", paid, previous + net - paid, payment)
           entries == PurchasePostings(previous, net, paid, invoice, payment)
<1>1. first \in LedgerRow /\ second \in LedgerRow
  BY DEF Debit, Credit, LedgerRow
<1>2. entries = <<first>> \o IF paid > 0 THEN <<second>> ELSE <<>>
  BY DEF PurchasePostings
<1> HIDE DEF first, second, entries
<1>3. /\ <<first>> \in Seq(LedgerRow) /\ Len(<<first>>) = 1
      /\ <<second>> \in Seq(LedgerRow) /\ Len(<<second>>) = 1
  BY <1>1, OneRow
<1>4. CASE paid > 0
  BY <1>2, <1>3, <1>4, ConcatProperties DEF entries
<1>5. CASE paid = 0
  <2>1. entries = <<first>>
    BY <1>2, <1>3, <1>5, ConcatEmptySeq
  <2> QED
    BY <1>3, <2>1 DEF entries
<1> QED
  BY <1>4, <1>5

\* A new payment row refers to its customer and allocates within the table.
LEMMA NewPaymentType ==
    ASSUME NEW c \in Nat, NEW amount \in Nat, NEW plan \in Allocations
    PROVE  NewPayment(c, amount, plan) \in PaymentRow
BY DEF NewPayment, PaymentRow

\* The allocations of an initial payment are an allocation table.
LEMMA OnlyToType ==
    ASSUME NEW invoice \in Nat, NEW amount \in Nat
    PROVE  OnlyTo(invoice, amount) \in Allocations
BY DEF OnlyTo, Allocations

\* A payment of a known customer, appended, leaves the payments well formed.
LEMMA AppendedPaymentType ==
    ASSUME TypeInv, NEW row \in PaymentRow, row.customerId \in DOMAIN customers
    PROVE  /\ Append(payments, row) \in Seq(PaymentRow)
           /\ \A p \in DOMAIN Append(payments, row) :
                 Append(payments, row)[p].customerId \in DOMAIN customers
<1>1. /\ payments \in Seq(PaymentRow)
      /\ \A p \in DOMAIN payments : payments[p].customerId \in DOMAIN customers
  BY DEF TypeInv, TypeOK, RowsRefer
<1> DEFINE longer == Append(payments, row)
<1>2. /\ longer \in Seq(PaymentRow)
      /\ DOMAIN longer = 1 .. Len(payments) + 1
      /\ DOMAIN payments = 1 .. Len(payments)
      /\ \A p \in 1 .. Len(payments) : longer[p] = payments[p]
      /\ longer[Len(payments) + 1] = row
      /\ Len(payments) \in Nat
  BY <1>1, AppendRow, LenProperties
<1> HIDE DEF longer
<1>3. ASSUME NEW p \in DOMAIN longer
      PROVE  longer[p].customerId \in DOMAIN customers
  <2>1. CASE p = Len(payments) + 1
    BY <1>2, <2>1
  <2>2. CASE p \in 1 .. Len(payments)
    <3>1. payments[p].customerId \in DOMAIN customers
      BY <1>1, <1>2, <2>2
    <3> QED
      BY <1>2, <2>2, <3>1
  <2> QED
    BY <1>2, <2>1, <2>2
<1> QED
  BY <1>2, <1>3 DEF longer

\* A purchase keeps the four tables well formed.
LEMMA CreatePurchaseType ==
    ASSUME TypeInv, NEW c \in DOMAIN customers, NEW date \in Nat, NEW net \in Nat,
           NEW paid \in Nat, CreatePurchase(c, date, net, paid)
    PROVE  TypeInv'
<1> DEFINE previous  == customers[c].currentBalance
           resulting == previous + net - paid
           invoice   == Len(invoices) + 1
           payment   == Len(payments) + 1
           bill      == NewInvoice(c, date, net, paid)
           receipt   == NewPayment(c, paid, OnlyTo(invoice, paid))
           entries   == PurchasePostings(previous, net, paid, invoice, payment)
<1>1. /\ DOMAIN customers = 1 .. Len(customers) /\ c \in Nat /\ customers[c] \in CustomerRow
      /\ Len(invoices) \in Nat /\ Len(payments) \in Nat
  BY LenProperties DEF TypeInv, TypeOK
<1>2. previous \in Int /\ resulting \in Int /\ invoice \in Nat /\ payment \in Nat
  BY <1>1 DEF CustomerRow
<1>3. bill \in InvoiceRow
  BY <1>1, StatusType DEF NewInvoice, InvoiceRow
<1>4. receipt \in PaymentRow /\ receipt.customerId = c
  <2>1. OnlyTo(invoice, paid) \in Allocations
    BY <1>2, OnlyToType
  <2> QED
    BY <1>1, <2>1, NewPaymentType DEF NewPayment
<1>5. entries \in Seq(LedgerRow)
  <2> HIDE DEF previous, invoice, payment
  <2> QED
    BY <1>2, PurchasePostingsRows
<1>6. /\ invoice <= MaxInvoices
      /\ invoices' = Append(invoices, bill)
      /\ payments' = IF paid > 0 THEN Append(payments, receipt) ELSE payments
      /\ ledger' = [ledger EXCEPT ![c] = ledger[c] \o entries]
      /\ customers' = [customers EXCEPT ![c].currentBalance = resulting]
  BY DEF CreatePurchase
<1> HIDE DEF bill, receipt, entries, resulting
<1>7. customers' \in Seq(CustomerRow) /\ Len(customers') = Len(customers)
  BY <1>2, <1>6, BalanceType
<1>8. ledger' \in Seq(Seq(LedgerRow)) /\ DOMAIN ledger' = DOMAIN ledger
  BY <1>5, <1>6, PostingType
<1>9. invoices' \in Seq(InvoiceRow) /\ Len(invoices') <= MaxInvoices
  BY <1>3, <1>6, AppendRow DEF TypeInv, TypeOK
<1>10. /\ payments' \in Seq(PaymentRow)
       /\ \A p \in DOMAIN payments' : payments'[p].customerId \in DOMAIN customers
  <2>1. CASE paid > 0
    <3>1. payments' = Append(payments, receipt)
      BY <1>6, <2>1
    <3>2. receipt.customerId \in DOMAIN customers
      BY <1>4
    <3> QED
      BY <1>4, <3>1, <3>2, AppendedPaymentType
  <2>2. CASE ~(paid > 0)
    <3>1. payments' = payments
      BY <1>6, <2>2
    <3> QED
      BY <3>1 DEF TypeInv, TypeOK, RowsRefer
  <2> QED
    BY <2>1, <2>2
<1>11. DOMAIN customers' = DOMAIN customers
  BY <1>1, <1>7, LenProperties
<1> QED
  BY <1>7, <1>8, <1>9, <1>10, <1>11 DEF TypeInv, TypeOK, RowsRefer

\* A payment keeps the four tables well formed.
LEMMA CreatePaymentType ==
    ASSUME TypeInv, NEW c \in DOMAIN customers, NEW amount \in Nat, NEW plan \in Allocations,
           CreatePayment(c, amount, plan)
    PROVE  TypeInv'
<1> DEFINE balance == customers[c].currentBalance - amount
           receipt == NewPayment(c, amount, plan)
           entry   == Credit("PAYMENT", amount, balance, Len(payments) + 1)
<1>1. /\ DOMAIN customers = 1 .. Len(customers) /\ c \in Nat /\ customers[c] \in CustomerRow
      /\ Len(payments) \in Nat /\ Len(invoices) \in Nat
  BY LenProperties DEF TypeInv, TypeOK
<1>2. balance \in Int
  BY <1>1 DEF CustomerRow
<1>3. receipt \in PaymentRow /\ receipt.customerId = c
  BY <1>1, NewPaymentType DEF NewPayment
<1>4. entry \in LedgerRow
  BY <1>1, <1>2 DEF Credit, LedgerRow
<1>5. ledger[c] \in Seq(LedgerRow)
  BY LenProperties, ElementOfSeq DEF TypeInv, TypeOK, RowsRefer
<1>6. /\ payments' = Append(payments, receipt)
      /\ invoices' = SettleAll(plan, 1)
      /\ customers' = [customers EXCEPT ![c].currentBalance = balance]
      /\ ledger' = [ledger EXCEPT ![c] = Append(ledger[c], entry)]
  BY DEF CreatePayment
<1> HIDE DEF receipt, entry, balance
<1>7. /\ <<entry>> \in Seq(LedgerRow)
      /\ ledger' = [ledger EXCEPT ![c] = ledger[c] \o <<entry>>]
  <2>1. Append(ledger[c], entry) = ledger[c] \o <<entry>>
    BY <1>4, <1>5, <1>6, AppendIsConcat
  <2> QED
    BY <1>4, <1>5, <1>6, <2>1, OneRow
<1>8. customers' \in Seq(CustomerRow) /\ Len(customers') = Len(customers)
  BY <1>2, <1>6, BalanceType
<1>9. ledger' \in Seq(Seq(LedgerRow)) /\ DOMAIN ledger' = DOMAIN ledger
  BY <1>4, <1>7, PostingType
<1>10. invoices' \in Seq(InvoiceRow) /\ Len(invoices') = Len(invoices)
  BY <1>6, SettleAllType, ConstantsAssumption
<1>11. /\ payments' \in Seq(PaymentRow)
       /\ \A p \in DOMAIN payments' : payments'[p].customerId \in DOMAIN customers
  <2>1. receipt.customerId \in DOMAIN customers
    BY <1>3
  <2> QED
    BY <1>3, <1>6, <2>1, AppendedPaymentType
<1>12. DOMAIN customers' = DOMAIN customers
  BY <1>1, <1>8, LenProperties
<1> QED
  BY <1>8, <1>9, <1>10, <1>11, <1>12 DEF TypeInv, TypeOK, RowsRefer

\* A reversal keeps the four tables well formed.
LEMMA ReversePaymentType ==
    ASSUME TypeInv, NEW p \in DOMAIN payments, ReversePayment(p)
    PROVE  TypeInv'
<1> DEFINE c       == payments[p].customerId
           plan    == payments[p].allocations
           balance == customers[c].currentBalance + payments[p].amount
           entry   == ReversalPosting(payments[p].amount, balance, p)
<1>1. /\ DOMAIN customers = 1 .. Len(customers) /\ DOMAIN payments = 1 .. Len(payments)
      /\ Len(invoices) \in Nat /\ p \in Nat /\ payments[p] \in PaymentRow
  BY LenProperties DEF TypeInv, TypeOK
<1>2. c \in DOMAIN customers /\ customers[c] \in CustomerRow /\ plan \in Allocations
  BY <1>1 DEF TypeInv, TypeOK, RowsRefer, PaymentRow
<1>3. balance \in Int /\ entry \in LedgerRow
  BY <1>1, <1>2 DEF CustomerRow, PaymentRow, ReversalPosting, Debit, LedgerRow
<1>4. ledger[c] \in Seq(LedgerRow)
  BY <1>2, LenProperties, ElementOfSeq DEF TypeInv, TypeOK, RowsRefer
<1>5. /\ payments' = [payments EXCEPT ![p] = Reversed(payments[p])]
      /\ invoices' = SettleAll(plan, -1)
      /\ customers' = [customers EXCEPT ![c].currentBalance = balance]
      /\ ledger' = [ledger EXCEPT ![c] = Append(ledger[c], entry)]
  BY DEF ReversePayment
<1>6. Reversed(payments[p]) \in PaymentRow /\ Reversed(payments[p]).customerId = c
  BY <1>1 DEF Reversed, PaymentRow
<1> HIDE DEF entry, balance, plan, c
<1>7. /\ <<entry>> \in Seq(LedgerRow)
      /\ ledger' = [ledger EXCEPT ![c] = ledger[c] \o <<entry>>]
  <2>1. Append(ledger[c], entry) = ledger[c] \o <<entry>>
    BY <1>3, <1>4, <1>5, AppendIsConcat
  <2> QED
    BY <1>3, <1>4, <1>5, <2>1, OneRow
<1>8. customers' \in Seq(CustomerRow) /\ Len(customers') = Len(customers)
  BY <1>2, <1>3, <1>5, BalanceType
<1>9. ledger' \in Seq(Seq(LedgerRow)) /\ DOMAIN ledger' = DOMAIN ledger
  BY <1>2, <1>3, <1>7, PostingType
<1>10. invoices' \in Seq(InvoiceRow) /\ Len(invoices') = Len(invoices)
  BY <1>2, <1>5, SettleAllType, ConstantsAssumption
<1>11. /\ payments' \in Seq(PaymentRow) /\ Len(payments') = Len(payments)
       /\ \A q \in 1 .. Len(payments) :
             payments'[q] = IF q = p THEN Reversed(payments[p]) ELSE payments[q]
  BY <1>1, <1>5, <1>6, ExceptSeq DEF TypeInv, TypeOK
<1>12. \A q \in DOMAIN payments' : payments'[q].customerId \in DOMAIN customers
  BY <1>1, <1>2, <1>6, <1>11, LenProperties DEF TypeInv, RowsRefer
<1>13. DOMAIN customers' = DOMAIN customers
  BY <1>1, <1>8, LenProperties
<1> QED
  BY <1>8, <1>9, <1>10, <1>11, <1>12, <1>13 DEF TypeInv, TypeOK, RowsRefer

\* Every step keeps the tables well formed.
LEMMA NextType == TypeInv /\ [Next]_vars => TypeInv'
<1> SUFFICES ASSUME TypeInv, [Next]_vars PROVE TypeInv'
  OBVIOUS
<1>1. CASE \E limit, opening \in Amounts : CreateCustomer(limit, opening)
  BY <1>1, CreateCustomerType, ConstantsAssumption
<1>2. CASE \E c \in DOMAIN customers : \E limit \in Amounts, status \in CustomerStatuses :
              UpdateCustomer(c, limit, status)
  BY <1>2, UpdateCustomerType, ConstantsAssumption
<1>3. CASE \E c \in DOMAIN customers : \E date \in Dates, net, paid \in Amounts :
              CreatePurchase(c, date, net, paid)
  BY <1>3, CreatePurchaseType, ConstantsAssumption
<1>4. CASE \E c \in DOMAIN customers : \E amount \in Amounts : \E plan \in Plans(amount) :
              CreatePayment(c, amount, plan)
  <2>1. ASSUME NEW amount \in Amounts PROVE Plans(amount) \subseteq Allocations
    BY ConstantsAssumption DEF Plans, Allocations
  <2> QED
    BY <1>4, <2>1, CreatePaymentType, ConstantsAssumption
<1>5. CASE \E p \in DOMAIN payments : ReversePayment(p)
  BY <1>5, ReversePaymentType
<1>6. CASE UNCHANGED vars
  BY <1>6 DEF vars, TypeInv, TypeOK, RowsRefer
<1> QED
  BY <1>1, <1>2, <1>3, <1>4, <1>5, <1>6 DEF Next

\* The tables are well formed in every reachable state.
LEMMA TypeInvariance == Spec => []TypeInv
<1>1. Init => TypeInv
  BY InitType
<1>2. TypeInv /\ [Next]_vars => TypeInv'
  BY NextType
<1> QED
  BY <1>1, <1>2, PTL DEF Spec

(***************************************************************************)
(* Every table holds rows of its type, for every sequence of requests to   *)
(* the five services.                                                      *)
(***************************************************************************)
THEOREM TypeCorrect == Spec => []TypeOK
<1>1. TypeInv => TypeOK
  BY DEF TypeInv
<1> QED
  BY <1>1, TypeInvariance, PTL

-----------------------------------------------------------------------------
\* InvoicesSettled is inductive once totals are known to be positive.
SettledInv ==
    \A i \in DOMAIN invoices : invoices[i].grandTotal > 0 /\ InvoiceSettled(invoices[i])

\* Paying up to the due amount, or giving any amount back, keeps an invoice settled.
LEMMA SettleSound ==
    ASSUME NEW invoice \in InvoiceRow, NEW amount \in Int,
           invoice.grandTotal > 0, InvoiceSettled(invoice), amount <= invoice.currentDue
    PROVE  /\ Settle(invoice, amount).grandTotal > 0
           /\ InvoiceSettled(Settle(invoice, amount))
<1> DEFINE total == invoice.grandTotal
           paid  == invoice.paidAmount + amount
           due   == invoice.currentDue - amount
           done  == Settle(invoice, amount)
<1>1. total \in Nat /\ paid \in Int /\ due \in Int
  BY DEF InvoiceRow
<1>2. /\ done.grandTotal = total /\ done.paidAmount = paid /\ done.currentDue = due
      /\ done.status = InvoiceStatus(total, paid)
  BY DEF Settle, InvoiceRow
<1>3. paid + due = total /\ due >= 0 /\ total > 0
  BY DEF InvoiceSettled, InvoiceRow
<1> HIDE DEF total, paid, due, done
<1>4. /\ InvoiceStatus(total, paid) = "PAID" <=> due = 0
      /\ InvoiceStatus(total, paid) = "UNPAID" <=> paid <= 0
  <2>1. CASE paid <= 0
    BY <1>1, <1>3, <2>1 DEF InvoiceStatus
  <2>2. CASE paid > 0 /\ paid >= total
    BY <1>1, <1>3, <2>2 DEF InvoiceStatus
  <2>3. CASE paid > 0 /\ paid < total
    BY <1>1, <1>3, <2>3 DEF InvoiceStatus
  <2> QED
    BY <1>1, <2>1, <2>2, <2>3
<1>5. done.grandTotal > 0 /\ InvoiceSettled(done)
  BY <1>1, <1>2, <1>3, <1>4 DEF InvoiceSettled
<1> QED
  BY <1>5 DEF done

\* The invoice of a purchase is settled from the start.
LEMMA NewInvoiceSound ==
    ASSUME NEW c \in Nat, NEW date \in Nat, NEW net \in Nat, NEW paid \in Nat,
           net > 0, paid <= net
    PROVE  /\ NewInvoice(c, date, net, paid).grandTotal > 0
           /\ InvoiceSettled(NewInvoice(c, date, net, paid))
<1> DEFINE done == NewInvoice(c, date, net, paid)
<1>1. /\ done.grandTotal = net /\ done.paidAmount = paid /\ done.currentDue = net - paid
      /\ done.status = InvoiceStatus(net, paid)
  BY DEF NewInvoice
<1> HIDE DEF done
<1>2. /\ InvoiceStatus(net, paid) = "PAID" <=> net - paid = 0
      /\ InvoiceStatus(net, paid) = "UNPAID" <=> paid <= 0
  <2>1. CASE paid <= 0
    BY <2>1 DEF InvoiceStatus
  <2>2. CASE paid > 0 /\ paid >= net
    BY <2>2 DEF InvoiceStatus
  <2>3. CASE paid > 0 /\ paid < net
    BY <2>3 DEF InvoiceStatus
  <2> QED
    BY <2>1, <2>2, <2>3
<1>3. done.grandTotal > 0 /\ InvoiceSettled(done)
  BY <1>1, <1>2 DEF InvoiceSettled
<1> QED
  BY <1>3 DEF done

\* Settling along a plan that asks no invoice for more than its due.
LEMMA SettleAllSound ==
    ASSUME TypeInv, SettledInv, NEW plan \in Allocations, NEW sign \in Int,
           \A i \in DOMAIN invoices : plan[i] > 0 => sign * plan[i] <= invoices[i].currentDue,
           invoices' = SettleAll(plan, sign)
    PROVE  SettledInv'
<1>1. DOMAIN invoices = 1 .. Len(invoices) /\ Len(invoices) \in Nat
  BY LenProperties DEF TypeInv, TypeOK
<1>2. DOMAIN invoices' = DOMAIN invoices
  BY DEF SettleAll
<1>3. ASSUME NEW i \in DOMAIN invoices
      PROVE  invoices'[i].grandTotal > 0 /\ InvoiceSettled(invoices'[i])
  <2>1. plan[i] \in Nat /\ invoices[i] \in InvoiceRow
    BY <1>1, ConstantsAssumption DEF TypeInv, TypeOK, RowsRefer, Allocations
  <2>2. invoices[i].grandTotal > 0 /\ InvoiceSettled(invoices[i])
    BY DEF SettledInv
  <2>3. CASE plan[i] > 0
    <3>1. sign * plan[i] \in Int /\ sign * plan[i] <= invoices[i].currentDue
      BY <2>1, <2>3
    <3>2. invoices'[i] = Settle(invoices[i], sign * plan[i])
      BY <2>3 DEF SettleAll
    <3> QED
      BY <2>1, <2>2, <3>1, <3>2, SettleSound
  <2>4. CASE ~(plan[i] > 0)
    BY <2>2, <2>4 DEF SettleAll
  <2> QED
    BY <2>3, <2>4
<1>4. \A i \in DOMAIN invoices' : invoices'[i].grandTotal > 0 /\ InvoiceSettled(invoices'[i])
  BY <1>2, <1>3
<1> QED
  BY <1>4 DEF SettledInv, InvoiceSettled

\* Every step keeps all invoices settled.
LEMMA NextSettled == TypeInv /\ SettledInv /\ [Next]_vars => SettledInv'
<1> SUFFICES ASSUME TypeInv, SettledInv, [Next]_vars PROVE SettledInv'
  OBVIOUS
<1>1. ASSUME UNCHANGED invoices PROVE SettledInv'
  BY <1>1 DEF SettledInv, InvoiceSettled
<1>2. CASE \E limit, opening \in Amounts : CreateCustomer(limit, opening)
  BY <1>1, <1>2 DEF CreateCustomer
<1>3. CASE \E c \in DOMAIN customers : \E limit \in Amounts, status \in CustomerStatuses :
              UpdateCustomer(c, limit, status)
  BY <1>1, <1>3 DEF UpdateCustomer
<1>4. ASSUME NEW c \in DOMAIN customers, NEW date \in Dates, NEW net \in Amounts,
             NEW paid \in Amounts, CreatePurchase(c, date, net, paid)
      PROVE  SettledInv'
  <2> DEFINE bill == NewInvoice(c, date, net, paid)
  <2>1. c \in Nat /\ date \in Nat /\ net \in Nat /\ paid \in Nat
    BY LenProperties, ConstantsAssumption DEF TypeInv, TypeOK
  <2>2. /\ net > 0 /\ paid <= net
        /\ invoices' = Append(invoices, bill)
    BY <1>4 DEF CreatePurchase
  <2>3. bill \in InvoiceRow
    BY <2>1, StatusType DEF NewInvoice, InvoiceRow
  <2>4. bill.grandTotal > 0 /\ InvoiceSettled(bill)
    BY <2>1, <2>2, NewInvoiceSound
  <2> HIDE DEF bill
  <2>5. \A i \in DOMAIN invoices' : invoices'[i].grandTotal > 0 /\ InvoiceSettled(invoices'[i])
    BY <2>2, <2>3, <2>4, AppendRow DEF TypeInv, TypeOK, SettledInv
  <2> QED
    BY <2>5 DEF SettledInv, InvoiceSettled
<1>5. ASSUME NEW c \in DOMAIN customers, NEW amount \in Amounts, NEW plan \in Plans(amount),
             CreatePayment(c, amount, plan)
      PROVE  SettledInv'
  <2>1. plan \in Allocations /\ invoices' = SettleAll(plan, 1)
    BY <1>5, ConstantsAssumption DEF CreatePayment, Plans, Allocations
  <2>2. \A i \in DOMAIN invoices : plan[i] > 0 => 1 * plan[i] <= invoices[i].currentDue
    <3>1. DOMAIN invoices \subseteq DOMAIN plan
      BY <2>1, LenProperties, ConstantsAssumption DEF TypeInv, TypeOK, RowsRefer, Allocations
    <3>2. \A i \in DOMAIN plan : plan[i] \in Nat
      BY <2>1 DEF Allocations
    <3> QED
      BY <1>5, <3>1, <3>2 DEF CreatePayment, ValidPlan
  <2> QED
    BY <2>1, <2>2, SettleAllSound
<1>6. ASSUME NEW p \in DOMAIN payments, ReversePayment(p)
      PROVE  SettledInv'
  <2> DEFINE plan == payments[p].allocations
  <2>1. plan \in Allocations /\ (-1) \in Int
    <3>1. payments[p] \in PaymentRow
      BY LenProperties DEF TypeInv, TypeOK
    <3> QED
      BY <3>1 DEF PaymentRow
  <2>2. invoices' = SettleAll(plan, -1)
    BY <1>6 DEF ReversePayment
  <2> HIDE DEF plan
  <2>3. ASSUME NEW i \in DOMAIN invoices, plan[i] > 0
        PROVE  (-1) * plan[i] <= invoices[i].currentDue
    <3>1. plan[i] \in Nat /\ invoices[i] \in InvoiceRow
      BY <2>1, LenProperties, ConstantsAssumption
         DEF TypeInv, TypeOK, RowsRefer, Allocations
    <3>2. invoices[i].currentDue >= 0
      BY DEF SettledInv, InvoiceSettled
    <3> QED
      BY <3>1, <3>2 DEF InvoiceRow
  <2> QED
    BY <2>1, <2>2, <2>3, SettleAllSound
<1>7. CASE UNCHANGED vars
  BY <1>1, <1>7 DEF vars
<1> QED
  BY <1>2, <1>3, <1>4, <1>5, <1>6, <1>7 DEF Next

(***************************************************************************)
(* Paid and due split every invoice total, no invoice is ever overpaid and *)
(* the status column says which case holds, after any sequence of          *)
(* purchases, payments and reversals.                                      *)
(***************************************************************************)
THEOREM InvoicesStaySettled == Spec => []InvoicesSettled
<1>1. Init => SettledInv
  BY EmptySeq DEF Init, SettledInv
<1>2. TypeInv /\ SettledInv /\ [Next]_vars => SettledInv'
  BY NextSettled
<1>3. SettledInv => InvoicesSettled
  BY DEF SettledInv, InvoicesSettled
<1> QED
  BY <1>1, <1>2, <1>3, TypeInvariance, PTL DEF Spec

-----------------------------------------------------------------------------
\* Where the rows of a sequence are after one or two more were added.
LEMMA ConcatOneOrTwo ==
    ASSUME NEW S, NEW s \in Seq(S), NEW t \in Seq(S), Len(t) \in {1, 2}
    PROVE  /\ Len(s) \in Nat /\ DOMAIN s = 1 .. Len(s)
           /\ s \o t \in Seq(S)
           /\ Len(s \o t) = Len(s) + Len(t) /\ DOMAIN (s \o t) = 1 .. Len(s) + Len(t)
           /\ \A n \in 1 .. Len(s) : (s \o t)[n] = s[n]
           /\ (s \o t)[Len(s) + 1] = t[1]
           /\ Len(t) = 2 => (s \o t)[Len(s) + 2] = t[2]
<1>1. Len(s) \in Nat /\ DOMAIN s = 1 .. Len(s)
  BY LenProperties
<1>2. /\ s \o t \in Seq(S)
      /\ Len(s \o t) = Len(s) + Len(t)
      /\ \A n \in 1 .. Len(s) + Len(t) : (s \o t)[n] =
            IF n <= Len(s) THEN s[n] ELSE t[n - Len(s)]
  BY ConcatProperties
<1>3. DOMAIN (s \o t) = 1 .. Len(s) + Len(t)
  BY <1>2, LenProperties
<1>4. \A n \in 1 .. Len(s) : (s \o t)[n] = s[n]
  BY <1>1, <1>2
<1>5. (s \o t)[Len(s) + 1] = t[1]
  <2>1. Len(t) = 1 \/ Len(t) = 2
    OBVIOUS
  <2> QED
    BY <1>1, <1>2, <2>1
<1>6. ASSUME Len(t) = 2 PROVE (s \o t)[Len(s) + 2] = t[2]
  <2>1. Len(s) + 2 \in 1 .. Len(s) + Len(t) /\ ~(Len(s) + 2 <= Len(s))
    BY <1>1, <1>6
  <2>2. (s \o t)[Len(s) + 2] = t[Len(s) + 2 - Len(s)]
    BY <1>2, <2>1
  <2> QED
    BY <1>1, <2>2
<1> QED
  BY <1>1, <1>2, <1>3, <1>4, <1>5, <1>6

\* Posting one or two entries that run from the customer's balance to a new one,
\* and writing that balance, keeps the ledger running.
LEMMA PostingRuns ==
    ASSUME TypeInv, LedgerRunsToBalance, NEW c \in DOMAIN customers,
           NEW balance \in Int, balance >= 0,
           NEW entries \in Seq(LedgerRow), Len(entries) \in {1, 2},
           entries[1].balanceAfter =
               customers[c].currentBalance + entries[1].debit - entries[1].credit,
           Len(entries) = 2 => entries[2].balanceAfter =
               entries[1].balanceAfter + entries[2].debit - entries[2].credit,
           balance = entries[Len(entries)].balanceAfter,
           customers' = [customers EXCEPT ![c].currentBalance = balance],
           ledger' = [ledger EXCEPT ![c] = ledger[c] \o entries]
    PROVE  LedgerRunsToBalance'
<1> DEFINE L == Len(ledger[c])
<1>1. /\ DOMAIN customers = 1 .. Len(customers)
      /\ Len(customers') = Len(customers) /\ customers' \in Seq(CustomerRow)
      /\ \A d \in DOMAIN customers : customers'[d].currentBalance =
            IF d = c THEN balance ELSE customers[d].currentBalance
  BY BalanceType, LenProperties DEF TypeInv, TypeOK
<1>2. /\ DOMAIN ledger' = DOMAIN ledger
      /\ \A d \in DOMAIN ledger :
            ledger'[d] = IF d = c THEN ledger[c] \o entries ELSE ledger[d]
  BY PostingType
<1>3. DOMAIN customers' = DOMAIN customers /\ DOMAIN ledger = DOMAIN customers
  BY <1>1, LenProperties DEF TypeInv, RowsRefer
<1>4. \A d \in DOMAIN ledger : ledger[d] \in Seq(LedgerRow)
  BY LenProperties, ElementOfSeq DEF TypeInv, TypeOK
<1>5. /\ L \in Nat /\ DOMAIN ledger[c] = 1 .. L
      /\ ledger'[c] \in Seq(LedgerRow)
      /\ Len(ledger'[c]) = L + Len(entries) /\ DOMAIN ledger'[c] = 1 .. L + Len(entries)
      /\ \A n \in 1 .. L : ledger'[c][n] = ledger[c][n]
      /\ ledger'[c][L + 1] = entries[1]
      /\ Len(entries) = 2 => ledger'[c][L + 2] = entries[2]
  <2>1. ledger[c] \in Seq(LedgerRow) /\ ledger'[c] = ledger[c] \o entries
    BY <1>2, <1>3, <1>4
  <2> QED
    BY <2>1, ConcatOneOrTwo
<1>6. customers[c].currentBalance = BalanceBefore(ledger[c], L + 1)
  BY <1>3 DEF LedgerRunsToBalance
<1> HIDE DEF L
<1>7. ASSUME NEW n \in DOMAIN ledger'[c]
      PROVE  ledger'[c][n].balanceAfter =
                 BalanceBefore(ledger'[c], n) + ledger'[c][n].debit - ledger'[c][n].credit
  <2>1. CASE n \in 1 .. L
    <3>1. ledger[c][n].balanceAfter =
              BalanceBefore(ledger[c], n) + ledger[c][n].debit - ledger[c][n].credit
      BY <1>3, <1>5, <2>1 DEF LedgerRunsToBalance
    <3>2. BalanceBefore(ledger'[c], n) = BalanceBefore(ledger[c], n)
      BY <1>5, <2>1 DEF BalanceBefore
    <3> QED
      BY <1>5, <2>1, <3>1, <3>2
  <2>2. CASE n = L + 1
    <3>1. BalanceBefore(ledger'[c], L + 1) = BalanceBefore(ledger[c], L + 1)
      BY <1>5 DEF BalanceBefore
    <3> QED
      BY <1>5, <1>6, <2>2, <3>1
  <2>3. CASE n = L + 2 /\ Len(entries) = 2
    <3>1. BalanceBefore(ledger'[c], L + 2) = entries[1].balanceAfter
      BY <1>5 DEF BalanceBefore
    <3> QED
      BY <1>5, <2>3, <3>1
  <2> QED
    BY <1>5, <2>1, <2>2, <2>3
<1>8. customers'[c].currentBalance = BalanceBefore(ledger'[c], Len(ledger'[c]) + 1)
  <2>1. BalanceBefore(ledger'[c], Len(ledger'[c]) + 1) = ledger'[c][L + Len(entries)].balanceAfter
    <3>1. Len(ledger'[c]) + 1 # 1 /\ Len(ledger'[c]) + 1 - 1 = L + Len(entries)
      BY <1>5
    <3> QED
      BY <3>1 DEF BalanceBefore
  <2>2. ledger'[c][L + Len(entries)] = entries[Len(entries)]
    BY <1>5
  <2> QED
    BY <1>1, <2>1, <2>2
<1>9. ASSUME NEW d \in DOMAIN ledger'
      PROVE  /\ \A n \in DOMAIN ledger'[d] : ledger'[d][n].balanceAfter =
                   BalanceBefore(ledger'[d], n) + ledger'[d][n].debit - ledger'[d][n].credit
             /\ customers'[d].currentBalance = BalanceBefore(ledger'[d], Len(ledger'[d]) + 1)
             /\ customers'[d].currentBalance >= 0
  <2>1. CASE d = c
    BY <1>1, <1>7, <1>8, <2>1
  <2>2. CASE d # c
    <3>1. ledger'[d] = ledger[d] /\ customers'[d].currentBalance = customers[d].currentBalance
          /\ d \in DOMAIN ledger
      BY <1>1, <1>2, <1>3, <2>2
    <3> QED
      BY <3>1 DEF LedgerRunsToBalance
  <2> QED
    BY <2>1, <2>2
<1> QED
  BY <1>2, <1>3, <1>9 DEF LedgerRunsToBalance

\* A payment carries the ledger on by a credit.
LEMMA PaymentRuns ==
    ASSUME TypeInv, LedgerRunsToBalance, NEW c \in DOMAIN customers, NEW amount \in Nat,
           NEW plan, CreatePayment(c, amount, plan)
    PROVE  LedgerRunsToBalance'
<1> DEFINE balance == customers[c].currentBalance - amount
           entry   == Credit("PAYMENT", amount, balance, Len(payments) + 1)
<1>1. customers[c].currentBalance \in Int /\ Len(payments) \in Nat
  <2>1. customers[c] \in CustomerRow /\ Len(payments) \in Nat
    BY LenProperties, ElementOfSeq DEF TypeInv, TypeOK
  <2> QED
    BY <2>1 DEF CustomerRow
<1>2. /\ amount <= customers[c].currentBalance
      /\ customers' = [customers EXCEPT ![c].currentBalance = balance]
      /\ ledger' = [ledger EXCEPT ![c] = Append(ledger[c], entry)]
  BY DEF CreatePayment
<1>3. balance \in Int /\ balance >= 0
  BY <1>1, <1>2
<1>4. /\ entry \in LedgerRow /\ entry.balanceAfter = balance
      /\ entry.debit = 0 /\ entry.credit = amount
  BY <1>1, <1>3 DEF Credit, LedgerRow
<1>5. ledger[c] \in Seq(LedgerRow)
  BY LenProperties, ElementOfSeq DEF TypeInv, TypeOK, RowsRefer
<1>6. balance = customers[c].currentBalance + 0 - amount
  BY <1>1
<1> HIDE DEF balance, entry
<1> DEFINE entries == <<entry>>
<1>7. /\ entries \in Seq(LedgerRow) /\ Len(entries) = 1 /\ entries[1] = entry
  BY <1>4, OneRow
<1>8. ledger' = [ledger EXCEPT ![c] = ledger[c] \o entries]
  BY <1>2, <1>4, <1>5, AppendIsConcat
<1> HIDE DEF entries
<1>9. /\ Len(entries) \in {1, 2} /\ Len(entries) # 2
      /\ entries[1].balanceAfter = customers[c].currentBalance + entries[1].debit - entries[1].credit
      /\ balance = entries[Len(entries)].balanceAfter
  BY <1>4, <1>6, <1>7
<1> QED
  BY <1>2, <1>3, <1>7, <1>8, <1>9, PostingRuns

\* A reversal carries the ledger on by a debit.
LEMMA ReversalRuns ==
    ASSUME TypeInv, LedgerRunsToBalance, NEW p \in DOMAIN payments, ReversePayment(p)
    PROVE  LedgerRunsToBalance'
<1> DEFINE c       == payments[p].customerId
           amount  == payments[p].amount
           balance == customers[c].currentBalance + amount
           entry   == ReversalPosting(amount, balance, p)
<1>1. p \in Nat /\ payments[p] \in PaymentRow
  BY LenProperties DEF TypeInv, TypeOK
<1>2. c \in DOMAIN customers /\ amount \in Nat
  BY <1>1 DEF TypeInv, RowsRefer, PaymentRow
<1>3. customers[c].currentBalance \in Int /\ customers[c].currentBalance >= 0
  <2>1. customers[c] \in CustomerRow
    BY <1>2, LenProperties, ElementOfSeq DEF TypeInv, TypeOK
  <2> QED
    BY <1>2, <2>1 DEF CustomerRow, LedgerRunsToBalance
<1>4. /\ customers' = [customers EXCEPT ![c].currentBalance = balance]
      /\ ledger' = [ledger EXCEPT ![c] = Append(ledger[c], entry)]
  BY DEF ReversePayment
<1>5. balance \in Int /\ balance >= 0
  BY <1>2, <1>3
<1>6. /\ entry \in LedgerRow /\ entry.balanceAfter = balance
      /\ entry.debit = amount /\ entry.credit = 0
  BY <1>1, <1>2, <1>5 DEF ReversalPosting, Debit, LedgerRow
<1>7. ledger[c] \in Seq(LedgerRow)
  BY <1>2, LenProperties, ElementOfSeq DEF TypeInv, TypeOK, RowsRefer
<1>8. balance = customers[c].currentBalance + amount - 0
  BY <1>2, <1>3
<1> HIDE DEF c, amount, balance, entry
<1> DEFINE entries == <<entry>>
<1>9. /\ entries \in Seq(LedgerRow) /\ Len(entries) = 1 /\ entries[1] = entry
  BY <1>6, OneRow
<1>10. ledger' = [ledger EXCEPT ![c] = ledger[c] \o entries]
  BY <1>4, <1>6, <1>7, AppendIsConcat
<1> HIDE DEF entries
<1>11. /\ Len(entries) \in {1, 2} /\ Len(entries) # 2
       /\ entries[1].balanceAfter = customers[c].currentBalance + entries[1].debit - entries[1].credit
       /\ balance = entries[Len(entries)].balanceAfter
  BY <1>6, <1>8, <1>9
<1> QED
  BY <1>2, <1>4, <1>5, <1>9, <1>10, <1>11, PostingRuns

\* A purchase carries the ledger on by one or two entries.
LEMMA PurchaseRuns ==
    ASSUME TypeInv, LedgerRunsToBalance, NEW c \in DOMAIN customers, NEW date \in Nat,
           NEW net \in Nat, NEW paid \in Nat, CreatePurchase(c, date, net, paid)
    PROVE  LedgerRunsToBalance'
<1> DEFINE previous  == customers[c].currentBalance
           resulting == previous + net - paid
           invoice   == Len(invoices) + 1
           payment   == Len(payments) + 1
           entries   == PurchasePostings(previous, net, paid, invoice, payment)
<1>1. previous \in Int /\ previous >= 0
  <2>1. customers[c] \in CustomerRow
    BY LenProperties, ElementOfSeq DEF TypeInv, TypeOK
  <2> QED
    BY <2>1 DEF CustomerRow, LedgerRunsToBalance
<1>2. invoice \in Nat /\ payment \in Nat
  BY LenProperties DEF TypeInv, TypeOK
<1>3. /\ paid <= net
      /\ customers' = [customers EXCEPT ![c].currentBalance = resulting]
      /\ ledger' = [ledger EXCEPT ![c] = ledger[c] \o entries]
  BY DEF CreatePurchase
<1>4. resulting \in Int /\ resulting >= 0
  BY <1>1, <1>3
<1> HIDE DEF entries
<1>5. /\ entries \in Seq(LedgerRow)
      /\ Len(entries) = IF paid > 0 THEN 2 ELSE 1
      /\ entries[1] = Debit("PURCHASE", net, previous + net, invoice)
      /\ paid > 0 => entries[2] = Credit("PAYMENT", paid, resulting, payment)
  <2>1. entries = PurchasePostings(previous, net, paid, invoice, payment)
    BY DEF entries
  <2>2. previous \in Int
    BY <1>1
  <2> HIDE DEF previous, invoice, payment
  <2> DEFINE first  == Debit("PURCHASE", net, previous + net, invoice)
             second == Credit("PAYMENT", paid, resulting, payment)
  <2>3. first \in LedgerRow /\ second \in LedgerRow
    BY <1>2, <1>4, <2>2 DEF Debit, Credit, LedgerRow
  <2>4. entries = <<first>> \o IF paid > 0 THEN <<second>> ELSE <<>>
    BY <2>1 DEF PurchasePostings
  <2> HIDE DEF first, second
  <2>5. /\ <<first>> \in Seq(LedgerRow) /\ Len(<<first>>) = 1 /\ <<first>>[1] = first
        /\ <<second>> \in Seq(LedgerRow) /\ Len(<<second>>) = 1 /\ <<second>>[1] = second
    BY <2>3, OneRow
  <2>6. CASE paid > 0
    BY <2>4, <2>5, <2>6, ConcatProperties DEF first, second
  <2>7. CASE paid = 0
    <3>1. entries = <<first>> /\ ~(paid > 0)
      BY <2>4, <2>5, <2>7, ConcatEmptySeq
    <3> QED
      BY <2>5, <3>1 DEF first
  <2> QED
    BY <2>6, <2>7
<1>6. /\ entries[1].balanceAfter = previous + net
      /\ entries[1].debit = net /\ entries[1].credit = 0
  BY <1>5 DEF Debit
<1>7. paid > 0 => /\ entries[2].balanceAfter = resulting
                  /\ entries[2].debit = 0 /\ entries[2].credit = paid
  BY <1>5 DEF Credit
<1>8. entries[1].balanceAfter = customers[c].currentBalance + entries[1].debit - entries[1].credit
  BY <1>1, <1>6
<1>9. CASE paid > 0
  <2>1. Len(entries) = 2 /\ Len(entries) \in {1, 2}
    BY <1>5, <1>9
  <2>2. entries[2].balanceAfter = entries[1].balanceAfter + entries[2].debit - entries[2].credit
    BY <1>1, <1>6, <1>7, <1>9
  <2>3. resulting = entries[Len(entries)].balanceAfter
    BY <1>7, <1>9, <2>1
  <2> HIDE DEF previous, resulting
  <2> QED
    BY <1>3, <1>4, <1>5, <1>8, <2>1, <2>2, <2>3, PostingRuns
<1>10. CASE paid = 0
  <2>1. Len(entries) = 1 /\ Len(entries) \in {1, 2} /\ Len(entries) # 2
    BY <1>5, <1>10
  <2>2. resulting = entries[Len(entries)].balanceAfter
    BY <1>1, <1>6, <1>10, <2>1
  <2> HIDE DEF previous, resulting
  <2> QED
    BY <1>3, <1>4, <1>5, <1>8, <2>1, <2>2, PostingRuns
<1> QED
  BY <1>9, <1>10

\* The ledger of a new customer starts with its opening balance.
LEMMA OpeningRuns ==
    ASSUME TypeInv, LedgerRunsToBalance, NEW limit \in Nat, NEW opening \in Nat,
           CreateCustomer(limit, opening)
    PROVE  LedgerRunsToBalance'
<1> DEFINE row == [status |-> "ACTIVE", creditLimit |-> limit, currentBalance |-> opening]
           first == Debit("OPENING_BALANCE", opening, opening, Len(customers) + 1)
           entries == IF opening > 0 THEN <<first>> ELSE <<>>
<1>1. /\ customers' = Append(customers, row) /\ ledger' = Append(ledger, entries)
  BY DEF CreateCustomer
<1>2. row \in CustomerRow /\ row.currentBalance = opening
  BY DEF CustomerRow
<1>3. /\ first \in LedgerRow /\ first.balanceAfter = opening
      /\ first.debit = opening /\ first.credit = 0
  <2>1. Len(customers) + 1 \in Nat
    BY LenProperties DEF TypeInv, TypeOK
  <2> QED
    BY <2>1 DEF Debit, LedgerRow
<1> HIDE DEF row, first
<1>4. /\ entries \in Seq(LedgerRow)
      /\ \A n \in DOMAIN entries : entries[n].balanceAfter =
            BalanceBefore(entries, n) + entries[n].debit - entries[n].credit
      /\ opening = BalanceBefore(entries, Len(entries) + 1)
  <2>1. CASE opening > 0
    <3>1. entries = <<first>>
      BY <2>1
    <3>2. entries \in Seq(LedgerRow) /\ Len(entries) = 1 /\ entries[1] = first
      BY <1>3, <3>1, OneRow
    <3>3. DOMAIN entries = {1}
      BY <3>2, LenProperties
    <3> QED
      BY <1>3, <3>2, <3>3 DEF BalanceBefore
  <2>2. CASE opening = 0
    <3>1. entries = <<>> /\ Len(entries) = 0 /\ entries \in Seq(LedgerRow)
      BY <2>2, EmptySeq
    <3> QED
      BY <2>2, <3>1 DEF BalanceBefore
  <2> QED
    BY <2>1, <2>2
<1> HIDE DEF entries
<1>5. /\ DOMAIN customers' = 1 .. Len(customers) + 1 /\ DOMAIN customers = 1 .. Len(customers)
      /\ DOMAIN ledger' = 1 .. Len(ledger) + 1 /\ DOMAIN ledger = 1 .. Len(ledger)
      /\ customers'[Len(customers) + 1] = row /\ ledger'[Len(ledger) + 1] = entries
      /\ \A c \in DOMAIN customers : customers'[c] = customers[c]
      /\ \A c \in DOMAIN ledger : ledger'[c] = ledger[c]
  BY <1>1, <1>2, <1>4, AppendRow DEF TypeInv, TypeOK
<1>6. Len(customers) = Len(ledger) /\ Len(ledger) \in Nat
  BY <1>5, LenProperties DEF TypeInv, TypeOK, RowsRefer
<1>7. ASSUME NEW c \in DOMAIN ledger'
      PROVE  /\ \A n \in DOMAIN ledger'[c] : ledger'[c][n].balanceAfter =
                   BalanceBefore(ledger'[c], n) + ledger'[c][n].debit - ledger'[c][n].credit
             /\ customers'[c].currentBalance = BalanceBefore(ledger'[c], Len(ledger'[c]) + 1)
             /\ customers'[c].currentBalance >= 0
  <2>1. CASE c \in DOMAIN ledger
    <3>1. ledger'[c] = ledger[c] /\ customers'[c] = customers[c]
      BY <1>5, <1>6, <2>1
    <3> QED
      BY <2>1, <3>1 DEF LedgerRunsToBalance
  <2>2. CASE c = Len(ledger) + 1
    <3>1. ledger'[c] = entries /\ customers'[c].currentBalance = opening
      BY <1>2, <1>5, <1>6, <2>2
    <3> QED
      BY <1>4, <3>1
  <2> QED
    BY <1>5, <1>6, <2>1, <2>2
<1> QED
  BY <1>5, <1>6, <1>7 DEF LedgerRunsToBalance

\* Every step keeps the ledger running.
LEMMA NextRuns == TypeInv /\ LedgerRunsToBalance /\ [Next]_vars => LedgerRunsToBalance'
<1> SUFFICES ASSUME TypeInv, LedgerRunsToBalance, [Next]_vars PROVE LedgerRunsToBalance'
  OBVIOUS
<1>1. CASE \E limit, opening \in Amounts : CreateCustomer(limit, opening)
  BY <1>1, OpeningRuns, ConstantsAssumption
<1>2. ASSUME NEW c \in DOMAIN customers, NEW limit \in Amounts, NEW status \in CustomerStatuses,
             UpdateCustomer(c, limit, status)
      PROVE  LedgerRunsToBalance'
  <2>1. /\ DOMAIN customers' = DOMAIN customers
        /\ \A d \in DOMAIN customers : customers'[d].currentBalance = customers[d].currentBalance
    BY <1>2, UpdateCustomerType, ConstantsAssumption
  <2>2. UNCHANGED ledger
    BY <1>2 DEF UpdateCustomer
  <2> QED
    BY <2>1, <2>2 DEF LedgerRunsToBalance
<1>3. CASE \E c \in DOMAIN customers : \E date \in Dates, net, paid \in Amounts :
              CreatePurchase(c, date, net, paid)
  BY <1>3, PurchaseRuns, ConstantsAssumption
<1>4. CASE \E c \in DOMAIN customers : \E amount \in Amounts : \E plan \in Plans(amount) :
              CreatePayment(c, amount, plan)
  BY <1>4, PaymentRuns, ConstantsAssumption
<1>5. CASE \E p \in DOMAIN payments : ReversePayment(p)
  BY <1>5, ReversalRuns
<1>6. CASE UNCHANGED vars
  BY <1>6 DEF vars, LedgerRunsToBalance
<1> QED
  BY <1>1, <1>2, <1>3, <1>4, <1>5, <1>6 DEF Next

(***************************************************************************)
(* The ledger of every customer runs from entry to entry and ends at the   *)
(* balance column, which is never negative.                                *)
(***************************************************************************)
THEOREM LedgerStaysRunning == Spec => []LedgerRunsToBalance
<1>1. Init => LedgerRunsToBalance
  BY DEF Init, LedgerRunsToBalance
<1>2. TypeInv /\ LedgerRunsToBalance /\ [Next]_vars => LedgerRunsToBalance'
  BY NextRuns
<1> QED
  BY <1>1, <1>2, TypeInvariance, PTL DEF Spec

-----------------------------------------------------------------------------
EntriesKept ==
    \A c \in DOMAIN ledger : \A n \in DOMAIN ledger[c] :
        n \in DOMAIN ledger'[c] /\ ledger'[c][n] = ledger[c][n]

PaymentsKept == \A p \in DOMAIN payments : PaymentKept(p)

\* Posting to the ledger of one customer keeps every entry that was there.
LEMMA PostingKeeps ==
    ASSUME TypeInv, NEW c \in DOMAIN customers,
           NEW entries \in Seq(LedgerRow), Len(entries) \in {1, 2},
           ledger' = [ledger EXCEPT ![c] = ledger[c] \o entries]
    PROVE  EntriesKept
<1> SUFFICES ASSUME NEW d \in DOMAIN ledger, NEW n \in DOMAIN ledger[d]
             PROVE  n \in DOMAIN ledger'[d] /\ ledger'[d][n] = ledger[d][n]
  BY DEF EntriesKept
<1>1. ledger'[d] = IF d = c THEN ledger[c] \o entries ELSE ledger[d]
  BY PostingType
<1>2. CASE d = c
  <2>1. ledger[c] \in Seq(LedgerRow)
    BY LenProperties, ElementOfSeq DEF TypeInv, TypeOK, RowsRefer
  <2>2. /\ Len(ledger[c]) \in Nat /\ DOMAIN ledger[c] = 1 .. Len(ledger[c])
        /\ Len(entries) \in Nat
        /\ DOMAIN (ledger[c] \o entries) = 1 .. Len(ledger[c]) + Len(entries)
        /\ \A k \in 1 .. Len(ledger[c]) : (ledger[c] \o entries)[k] = ledger[c][k]
    BY <2>1, ConcatOneOrTwo
  <2>3. n \in 1 .. Len(ledger[c]) /\ n \in 1 .. Len(ledger[c]) + Len(entries)
    BY <1>2, <2>2
  <2> QED
    BY <1>1, <1>2, <2>2, <2>3
<1>3. CASE d # c
  BY <1>1, <1>3
<1> QED
  BY <1>2, <1>3

\* The same for one appended entry.
LEMMA AppendKeeps ==
    ASSUME TypeInv, NEW c \in DOMAIN customers, NEW entry \in LedgerRow,
           ledger' = [ledger EXCEPT ![c] = Append(ledger[c], entry)]
    PROVE  EntriesKept
<1>1. ledger[c] \in Seq(LedgerRow)
  BY LenProperties, ElementOfSeq DEF TypeInv, TypeOK, RowsRefer
<1> DEFINE entries == <<entry>>
<1>2. entries \in Seq(LedgerRow) /\ Len(entries) \in {1, 2}
  BY OneRow
<1>3. ledger' = [ledger EXCEPT ![c] = ledger[c] \o entries]
  BY <1>1, AppendIsConcat
<1> HIDE DEF entries
<1> QED
  BY <1>2, <1>3, PostingKeeps

\* Appending a payment keeps the payments that were there.
LEMMA AppendedPaymentKeeps ==
    ASSUME TypeInv, NEW row \in PaymentRow, payments' = Append(payments, row)
    PROVE  PaymentsKept
<1>1. \A p \in DOMAIN payments : payments'[p] = payments[p]
  BY AppendRow DEF TypeInv, TypeOK
<1> QED
  BY <1>1 DEF PaymentsKept, PaymentKept

\* A new customer leaves what was written.
LEMMA CreateCustomerKeeps ==
    ASSUME TypeInv, NEW limit \in Nat, NEW opening \in Nat, CreateCustomer(limit, opening)
    PROVE  HistoryStep
<1> DEFINE entries == IF opening > 0
                      THEN <<Debit("OPENING_BALANCE", opening, opening, Len(customers) + 1)>>
                      ELSE <<>>
<1>1. entries \in Seq(LedgerRow)
  <2>1. Debit("OPENING_BALANCE", opening, opening, Len(customers) + 1) \in LedgerRow
    BY LenProperties DEF TypeInv, TypeOK, Debit, LedgerRow
  <2> QED
    BY <2>1, EmptySeq, OneRow
<1>2. ledger' = Append(ledger, entries) /\ payments' = payments
  BY DEF CreateCustomer
<1> HIDE DEF entries
<1>3. \A c \in DOMAIN ledger : ledger'[c] = ledger[c]
  BY <1>1, <1>2, AppendRow DEF TypeInv, TypeOK
<1> QED
  BY <1>2, <1>3 DEF HistoryStep, PaymentKept

\* A purchase leaves what was written.
LEMMA CreatePurchaseKeeps ==
    ASSUME TypeInv, NEW c \in DOMAIN customers, NEW date \in Nat, NEW net \in Nat,
           NEW paid \in Nat, CreatePurchase(c, date, net, paid)
    PROVE  HistoryStep
<1> DEFINE previous == customers[c].currentBalance
           invoice  == Len(invoices) + 1
           payment  == Len(payments) + 1
           receipt  == NewPayment(c, paid, OnlyTo(invoice, paid))
           entries  == PurchasePostings(previous, net, paid, invoice, payment)
<1>1. c \in Nat /\ previous \in Int /\ invoice \in Nat /\ payment \in Nat
  <2>1. c \in Nat /\ customers[c] \in CustomerRow
    BY LenProperties, ElementOfSeq DEF TypeInv, TypeOK
  <2> QED
    BY <2>1, LenProperties DEF TypeInv, TypeOK, CustomerRow
<1>2. receipt \in PaymentRow
  BY <1>1, OnlyToType, NewPaymentType
<1>3. /\ payments' = IF paid > 0 THEN Append(payments, receipt) ELSE payments
      /\ ledger' = [ledger EXCEPT ![c] = ledger[c] \o entries]
  BY DEF CreatePurchase
<1>4. entries \in Seq(LedgerRow) /\ Len(entries) \in {1, 2}
  <2> HIDE DEF previous, invoice, payment
  <2> QED
    BY <1>1, PurchasePostingsRows
<1> HIDE DEF receipt, entries
<1>5. EntriesKept
  BY <1>3, <1>4, PostingKeeps
<1>6. PaymentsKept
  <2>1. CASE paid > 0
    BY <1>2, <1>3, <2>1, AppendedPaymentKeeps
  <2>2. CASE ~(paid > 0)
    BY <1>3, <2>2 DEF PaymentsKept, PaymentKept
  <2> QED
    BY <2>1, <2>2
<1> QED
  BY <1>5, <1>6 DEF HistoryStep, EntriesKept, PaymentsKept

\* A payment leaves what was written.
LEMMA CreatePaymentKeeps ==
    ASSUME TypeInv, NEW c \in DOMAIN customers, NEW amount \in Nat, NEW plan \in Allocations,
           CreatePayment(c, amount, plan)
    PROVE  HistoryStep
<1> DEFINE balance == customers[c].currentBalance - amount
           entry   == Credit("PAYMENT", amount, balance, Len(payments) + 1)
           receipt == NewPayment(c, amount, plan)
<1>1. c \in Nat /\ customers[c] \in CustomerRow /\ Len(payments) \in Nat
  BY LenProperties, ElementOfSeq DEF TypeInv, TypeOK
<1>2. entry \in LedgerRow /\ receipt \in PaymentRow
  BY <1>1, NewPaymentType DEF CustomerRow, Credit, LedgerRow
<1>3. /\ payments' = Append(payments, receipt)
      /\ ledger' = [ledger EXCEPT ![c] = Append(ledger[c], entry)]
  BY DEF CreatePayment
<1> HIDE DEF entry, receipt
<1>4. EntriesKept /\ PaymentsKept
  BY <1>2, <1>3, AppendKeeps, AppendedPaymentKeeps
<1> QED
  BY <1>4 DEF HistoryStep, EntriesKept, PaymentsKept

\* A reversal changes no more than the status of its payment.
LEMMA ReversePaymentKeeps ==
    ASSUME TypeInv, NEW p \in DOMAIN payments, ReversePayment(p)
    PROVE  HistoryStep
<1> DEFINE c       == payments[p].customerId
           amount  == payments[p].amount
           balance == customers[c].currentBalance + amount
           entry   == ReversalPosting(amount, balance, p)
<1>1. p \in Nat /\ payments[p] \in PaymentRow
  BY LenProperties DEF TypeInv, TypeOK
<1>2. c \in DOMAIN customers /\ amount \in Nat
  BY <1>1 DEF TypeInv, RowsRefer, PaymentRow
<1>3. customers[c] \in CustomerRow
  BY <1>2, LenProperties, ElementOfSeq DEF TypeInv, TypeOK
<1>4. entry \in LedgerRow
  BY <1>1, <1>2, <1>3 DEF CustomerRow, ReversalPosting, Debit, LedgerRow
<1>5. /\ payments' = [payments EXCEPT ![p] = Reversed(payments[p])]
      /\ ledger' = [ledger EXCEPT ![c] = Append(ledger[c], entry)]
  BY DEF ReversePayment
<1>6. PaymentsKept
  BY <1>5 DEF PaymentsKept, PaymentKept, Reversed
<1> HIDE DEF c, entry
<1>7. EntriesKept
  BY <1>2, <1>4, <1>5, AppendKeeps
<1> QED
  BY <1>6, <1>7 DEF HistoryStep, EntriesKept, PaymentsKept

\* Every step leaves what was written.
LEMMA NextKeeps == TypeInv /\ [Next]_vars => [HistoryStep]_vars
<1> SUFFICES ASSUME TypeInv, Next PROVE HistoryStep
  OBVIOUS
<1>1. CASE \E limit, opening \in Amounts : CreateCustomer(limit, opening)
  BY <1>1, CreateCustomerKeeps, ConstantsAssumption
<1>2. CASE \E c \in DOMAIN customers : \E limit \in Amounts, status \in CustomerStatuses :
              UpdateCustomer(c, limit, status)
  BY <1>2 DEF UpdateCustomer, HistoryStep, PaymentKept
<1>3. CASE \E c \in DOMAIN customers : \E date \in Dates, net, paid \in Amounts :
              CreatePurchase(c, date, net, paid)
  BY <1>3, CreatePurchaseKeeps, ConstantsAssumption
<1>4. CASE \E c \in DOMAIN customers : \E amount \in Amounts : \E plan \in Plans(amount) :
              CreatePayment(c, amount, plan)
  <2>1. ASSUME NEW amount \in Amounts PROVE Plans(amount) \subseteq Allocations
    BY ConstantsAssumption DEF Plans, Allocations
  <2> QED
    BY <1>4, <2>1, CreatePaymentKeeps, ConstantsAssumption
<1>5. CASE \E p \in DOMAIN payments : ReversePayment(p)
  BY <1>5, ReversePaymentKeeps
<1> QED
  BY <1>1, <1>2, <1>3, <1>4, <1>5 DEF Next

(***************************************************************************)
(* No step deletes or edits a ledger entry, changes a payment other than   *)
(* by reversing it, or takes a reversal back.                              *)
(***************************************************************************)
THEOREM HistoryStaysWritten == Spec => HistoryKept
<1>1. TypeInv /\ [Next]_vars => [HistoryStep]_vars
  BY NextKeeps
<1> QED
  BY <1>1, TypeInvariance, PTL DEF Spec, HistoryKept

-----------------------------------------------------------------------------
\* Every step that raises a balance stays within the limit or reverses a payment.
LEMMA NextWithinLimit == TypeInv /\ [Next]_vars => [CreditLimitStep]_vars
<1> SUFFICES ASSUME TypeInv, Next, NEW d \in DOMAIN customers,
                    customers'[d].currentBalance > customers[d].currentBalance
             PROVE  \/ customers[d].creditLimit = 0
                    \/ customers'[d].currentBalance <= customers[d].creditLimit
                    \/ \E p \in RowsOf(payments, d) :
                          payments[p].status = "CONFIRMED" /\ payments'[p].status = "REVERSED"
  BY DEF CreditLimitStep
<1>0. customers[d].currentBalance \in Int /\ customers[d].creditLimit \in Nat
  <2>1. customers[d] \in CustomerRow
    BY LenProperties, ElementOfSeq DEF TypeInv, TypeOK
  <2> QED
    BY <2>1 DEF CustomerRow
<1>1. ASSUME NEW limit \in Amounts, NEW opening \in Amounts, CreateCustomer(limit, opening)
      PROVE  FALSE
  <2> DEFINE row == [status |-> "ACTIVE", creditLimit |-> limit, currentBalance |-> opening]
  <2>1. row \in CustomerRow
    BY ConstantsAssumption DEF CustomerRow
  <2>2. customers' = Append(customers, row)
    BY <1>1 DEF CreateCustomer
  <2> HIDE DEF row
  <2>3. customers'[d] = customers[d]
    BY <2>1, <2>2, AppendRow DEF TypeInv, TypeOK
  <2> QED
    BY <1>0, <2>3
<1>2. ASSUME NEW c \in DOMAIN customers, NEW limit \in Amounts, NEW status \in CustomerStatuses,
             UpdateCustomer(c, limit, status)
      PROVE  FALSE
  <2>1. customers'[d].currentBalance = customers[d].currentBalance
    BY <1>2, UpdateCustomerType, ConstantsAssumption
  <2> QED
    BY <1>0, <2>1
<1>3. ASSUME NEW c \in DOMAIN customers, NEW date \in Dates, NEW net \in Amounts,
             NEW paid \in Amounts, CreatePurchase(c, date, net, paid)
      PROVE  \/ customers[d].creditLimit = 0
             \/ customers'[d].currentBalance <= customers[d].creditLimit
  <2> DEFINE resulting == customers[c].currentBalance + net - paid
  <2>1. /\ customers' = [customers EXCEPT ![c].currentBalance = resulting]
        /\ WithinCreditLimit(c, resulting)
    BY <1>3 DEF CreatePurchase
  <2>2. resulting \in Int
    <3>1. customers[c] \in CustomerRow
      BY LenProperties, ElementOfSeq DEF TypeInv, TypeOK
    <3> QED
      BY <3>1, ConstantsAssumption DEF CustomerRow
  <2> HIDE DEF resulting
  <2>3. customers'[d].currentBalance = IF d = c THEN resulting ELSE customers[d].currentBalance
    BY <2>1, <2>2, BalanceType
  <2>4. d = c /\ customers'[d].currentBalance = resulting
    BY <1>0, <2>3
  <2>5. customers[d].creditLimit > 0 => resulting <= customers[d].creditLimit
    BY <2>1, <2>4 DEF WithinCreditLimit
  <2> QED
    BY <1>0, <2>4, <2>5
<1>4. ASSUME NEW c \in DOMAIN customers, NEW amount \in Amounts, NEW plan \in Plans(amount),
             CreatePayment(c, amount, plan)
      PROVE  FALSE
  <2> DEFINE balance == customers[c].currentBalance - amount
  <2>1. /\ 0 < amount
        /\ customers' = [customers EXCEPT ![c].currentBalance = balance]
    BY <1>4 DEF CreatePayment
  <2>2. balance \in Int /\ balance <= customers[c].currentBalance
    <3>1. customers[c] \in CustomerRow
      BY LenProperties, ElementOfSeq DEF TypeInv, TypeOK
    <3> QED
      BY <2>1, <3>1, ConstantsAssumption DEF CustomerRow
  <2> HIDE DEF balance
  <2>3. customers'[d].currentBalance = IF d = c THEN balance ELSE customers[d].currentBalance
    BY <2>1, <2>2, BalanceType
  <2>4. customers'[d].currentBalance <= customers[d].currentBalance
    BY <1>0, <2>2, <2>3
  <2> QED
    BY <1>0, <2>2, <2>3, <2>4
<1>5. ASSUME NEW p \in DOMAIN payments, ReversePayment(p)
      PROVE  \E q \in RowsOf(payments, d) :
                payments[q].status = "CONFIRMED" /\ payments'[q].status = "REVERSED"
  <2> DEFINE c       == payments[p].customerId
             balance == customers[c].currentBalance + payments[p].amount
  <2>1. payments[p] \in PaymentRow
    BY LenProperties, ElementOfSeq DEF TypeInv, TypeOK
  <2>2. c \in DOMAIN customers
    BY DEF TypeInv, RowsRefer
  <2>3. customers[c] \in CustomerRow
    BY <2>2, LenProperties, ElementOfSeq DEF TypeInv, TypeOK
  <2>4. balance \in Int
    BY <2>1, <2>3 DEF PaymentRow, CustomerRow
  <2>5. customers' = [customers EXCEPT ![c].currentBalance = balance]
    BY <1>5 DEF ReversePayment
  <2>6. payments[p].status = "CONFIRMED" /\ payments'[p] = Reversed(payments[p])
    BY <1>5 DEF ReversePayment, Reversible
  <2>7. payments'[p].status = "REVERSED"
    BY <2>1, <2>6 DEF Reversed, PaymentRow
  <2> HIDE DEF c, balance
  <2>8. customers'[d].currentBalance = IF d = c THEN balance ELSE customers[d].currentBalance
    BY <2>2, <2>4, <2>5, BalanceType
  <2>9. d = c
    BY <1>0, <2>8
  <2> QED
    BY <2>6, <2>7, <2>9 DEF c, RowsOf
<1> QED
  BY <1>1, <1>2, <1>3, <1>4, <1>5 DEF Next

(***************************************************************************)
(* A step that raises a balance stays within the credit limit or reverses  *)
(* a payment, for every limit, amount and sequence of requests.            *)
(***************************************************************************)
THEOREM CreditLimitStaysHeld == Spec => CreditLimitHeld
<1>1. TypeInv /\ [Next]_vars => [CreditLimitStep]_vars
  BY NextWithinLimit
<1> QED
  BY <1>1, TypeInvariance, PTL DEF Spec, CreditLimitHeld

(***************************************************************************)
(* Sums over finite sets. The theorems about folds are proved from the     *)
(* smallest counterexample: a set that fails has a smallest subset that    *)
(* fails, which has an element to take out.                                *)
(***************************************************************************)
\* Natural numbers have a least element.
LEMMA Least ==
    ASSUME NEW T \in SUBSET Nat, T # {}
    PROVE  \E m \in T : \A k \in T : m <= k
<1> DEFINE R == OpToRel(<, Nat)
<1>1. \A k, m \in Nat : k < m => <<k, m>> \in R
  BY DEF OpToRel
<1>2. IsWellFoundedOn(R, Nat)
  BY NatLessThanWellFounded
<1> HIDE DEF R
<1>3. \E m \in T : \A k \in T : ~ (<<k, m>> \in R)
  BY <1>2, WFMin
<1>4. \E m \in T : \A k \in T : ~ (k < m)
  <2>1. PICK m \in T : \A k \in T : ~ (<<k, m>> \in R)
    BY <1>3
  <2>2. ASSUME NEW k \in T PROVE ~ (k < m)
    <3>1. k \in Nat /\ m \in Nat
      OBVIOUS
    <3>2. ~ (<<k, m>> \in R)
      BY <2>1
    <3> QED
      BY <1>1, <3>1, <3>2, Zenon
  <2> QED
    BY <2>2
<1> QED
  BY <1>4

\* Of a collection of finite sets, one has no proper subset in it.
LEMMA Smallest ==
    ASSUME NEW C, C # {}, \A s \in C : IsFiniteSet(s)
    PROVE  \E s \in C : \A t \in SUBSET s : t # s => t \notin C
<1> DEFINE T == {Cardinality(s) : s \in C}
<1>1. T \in SUBSET Nat /\ T # {}
  BY FS_CardinalityType
<1>2. PICK m \in T : \A k \in T : m <= k
  BY <1>1, Least
<1>3. PICK s \in C : m = Cardinality(s)
  BY <1>2
<1>4. ASSUME NEW t \in SUBSET s, t # s, t \in C PROVE FALSE
  <2>1. Cardinality(t) <= Cardinality(s) /\ Cardinality(t) # Cardinality(s)
    BY <1>4, FS_Subset
  <2>2. Cardinality(s) \in Nat /\ Cardinality(t) \in Nat
    BY <1>4, FS_CardinalityType
  <2>3. Cardinality(s) <= Cardinality(t)
    BY <1>2, <1>3, <1>4
  <2> QED
    BY <2>1, <2>2, <2>3
<1> QED
  BY <1>4

\* The fold behind SumFunctionOnSet: which element of a set it takes first, what
\* it makes of it, and the function on subsets that doing so everywhere is.
Chosen(s) == CHOOSE x \in s : TRUE

Step(f, g, s) == IF s = {} THEN 0 ELSE f[Chosen(s)] + g[s \ {Chosen(s)}]

IsFold(f, S, g) == g = [s \in SUBSET S |-> Step(f, g, s)]

\* There is such a function on the subsets of a finite set.
LEMMA FoldExists ==
    ASSUME NEW f, NEW S, IsFiniteSet(S)
    PROVE  \E g : IsFold(f, S, g)
<1> DEFINE Upto(n) == \E g : \A s \in SUBSET S : Cardinality(s) <= n => g[s] = Step(f, g, s)
           C == {n \in Nat : ~ Upto(n)}
<1>1. \A s \in SUBSET S : IsFiniteSet(s) /\ Cardinality(s) \in Nat /\ (Cardinality(s) = 0 <=> s = {})
  BY FS_Subset, FS_CardinalityType, FS_EmptySet
<1>2. \A s \in SUBSET S : s # {} => Chosen(s) \in s
  BY DEF Chosen
<1>3. \A s \in SUBSET S : s # {} =>
         s \ {Chosen(s)} \in SUBSET S /\ Cardinality(s \ {Chosen(s)}) = Cardinality(s) - 1
  BY <1>1, <1>2, FS_RemoveElement
<1>4. Upto(0)
  <2> DEFINE g == [s \in SUBSET S |-> 0]
  <2>1. \A s \in SUBSET S : Cardinality(s) <= 0 => g[s] = Step(f, g, s)
    BY <1>1 DEF Step
  <2> QED
    BY <2>1
<1>5. ASSUME NEW n \in Nat, Upto(n) PROVE Upto(n + 1)
  <2>1. PICK g : \A s \in SUBSET S : Cardinality(s) <= n => g[s] = Step(f, g, s)
    BY <1>5
  <2> DEFINE h == [s \in SUBSET S |-> Step(f, g, s)]
  <2>2. ASSUME NEW s \in SUBSET S, Cardinality(s) <= n + 1
        PROVE  h[s] = Step(f, h, s)
    <3>1. CASE s = {}
      BY <3>1 DEF Step
    <3>2. CASE s # {}
      <4> DEFINE rest == s \ {Chosen(s)}
      <4>1. rest \in SUBSET S /\ Cardinality(rest) <= n
        BY <1>1, <1>3, <2>2, <3>2
      <4>2. h[rest] = g[rest]
        BY <2>1, <4>1
      <4> QED
        BY <3>2, <4>2 DEF Step
    <3> QED
      BY <3>1, <3>2
  <2> QED
    BY <2>2
<1> HIDE DEF Upto
<1>6. \A n \in Nat : Upto(n)
  <2> SUFFICES ASSUME C # {} PROVE FALSE
    OBVIOUS
  <2>1. PICK m \in C : \A k \in C : m <= k
    BY Least
  <2>2. m # 0 /\ m \in Nat
    BY <1>4
  <2>3. m - 1 \in Nat /\ m - 1 \notin C
    BY <2>1, <2>2
  <2>4. Upto((m - 1) + 1)
    BY <1>5, <2>3
  <2> QED
    BY <2>1, <2>2, <2>4
<1>7. PICK g : \A s \in SUBSET S : Cardinality(s) <= Cardinality(S) => g[s] = Step(f, g, s)
  <2>1. Upto(Cardinality(S))
    BY <1>1, <1>6
  <2> QED
    BY <2>1 DEF Upto
<1>8. \A s \in SUBSET S : Cardinality(s) <= Cardinality(S)
  BY FS_Subset
<1> DEFINE h == [s \in SUBSET S |-> Step(f, g, s)]
<1>9. ASSUME NEW s \in SUBSET S PROVE Step(f, g, s) = Step(f, h, s)
  <2>1. CASE s = {}
    BY <2>1 DEF Step
  <2>2. CASE s # {}
    <3>1. h[s \ {Chosen(s)}] = g[s \ {Chosen(s)}]
      BY <1>3, <1>7, <1>8, <2>2
    <3> QED
      BY <2>2, <3>1 DEF Step
  <2> QED
    BY <2>1, <2>2
<1>10. IsFold(f, S, h)
  BY <1>9 DEF IsFold
<1> QED
  BY <1>10

\* A sum is what that function gives for the whole set.
LEMMA SumIs ==
    ASSUME NEW f, NEW S
    PROVE  SumFunctionOnSet(f, S) = (CHOOSE g : IsFold(f, S, g))[S]
BY DEF SumFunctionOnSet, FoldFunctionOnSet, MapThenFoldSet, IsFold, Step, Chosen

\* The functions of two sets agree on the subsets they share.
LEMMA FoldUnique ==
    ASSUME NEW f, NEW S, IsFiniteSet(S), NEW T \in SUBSET S, NEW g, NEW h,
           IsFold(f, S, g), IsFold(f, T, h)
    PROVE  g[T] = h[T]
<1> DEFINE C == {s \in SUBSET T : g[s] # h[s]}
<1> SUFFICES ASSUME C # {} PROVE FALSE
  OBVIOUS
<1>1. \A s \in C : IsFiniteSet(s)
  BY FS_Subset
<1>2. PICK s \in C : \A t \in SUBSET s : t # s => t \notin C
  BY <1>1, Smallest
<1>3. g[s] = Step(f, g, s) /\ h[s] = Step(f, h, s)
  BY DEF IsFold
<1>4. CASE s = {}
  BY <1>3, <1>4 DEF Step
<1>5. CASE s # {}
  <2>1. Chosen(s) \in s
    BY <1>5 DEF Chosen
  <2>2. g[s \ {Chosen(s)}] = h[s \ {Chosen(s)}]
    BY <1>2, <2>1
  <2> QED
    BY <1>3, <1>5, <2>2 DEF Step
<1> QED
  BY <1>4, <1>5

\* The sum takes out the chosen element first.
LEMMA SumStep ==
    ASSUME NEW f, NEW S, IsFiniteSet(S)
    PROVE  /\ S = {} => SumFunctionOnSet(f, S) = 0
           /\ S # {} => /\ Chosen(S) \in S
                        /\ SumFunctionOnSet(f, S) =
                             f[Chosen(S)] + SumFunctionOnSet(f, S \ {Chosen(S)})
<1> DEFINE Fold(T) == CHOOSE g : IsFold(f, T, g)
<1>1. ASSUME NEW T, IsFiniteSet(T)
      PROVE  /\ IsFold(f, T, Fold(T))
             /\ SumFunctionOnSet(f, T) = Fold(T)[T]
  BY <1>1, FoldExists, SumIs
<1> HIDE DEF Fold
<1>2. Fold(S)[S] = Step(f, Fold(S), S)
  <2>1. S \in SUBSET S
    OBVIOUS
  <2> QED
    BY <1>1, <2>1 DEF IsFold
<1>3. CASE S = {}
  BY <1>1, <1>2, <1>3 DEF Step
<1>4. CASE S # {}
  <2> DEFINE rest == S \ {Chosen(S)}
  <2>1. Chosen(S) \in S
    BY <1>4 DEF Chosen
  <2>2. IsFiniteSet(rest) /\ rest \in SUBSET S
    BY FS_Subset
  <2>3. Fold(S)[rest] = Fold(rest)[rest]
    <3> HIDE DEF rest
    <3>1. IsFold(f, S, Fold(S)) /\ IsFold(f, rest, Fold(rest))
      BY <1>1, <2>2
    <3>2. PICK g, h : g = Fold(S) /\ h = Fold(rest)
      OBVIOUS
    <3>3. g[rest] = h[rest]
      BY <2>2, <3>1, <3>2, FoldUnique
    <3> QED
      BY <3>2, <3>3
  <2>4. SumFunctionOnSet(f, rest) = Fold(rest)[rest]
    BY <1>1, <2>2
  <2> QED
    BY <1>1, <1>2, <1>4, <2>1, <2>3, <2>4 DEF Step
<1> QED
  BY <1>3, <1>4

\* Adding up the values on a finite set: the order the fold takes them in does
\* not matter, so any element can be taken out first.
LEMMA SumRemove ==
    ASSUME NEW f, NEW S, IsFiniteSet(S), \A x \in S : f[x] \in Int
    PROVE  /\ SumFunctionOnSet(f, S) \in Int
           /\ S = {} => SumFunctionOnSet(f, S) = 0
           /\ \A x \in S : SumFunctionOnSet(f, S) = f[x] + SumFunctionOnSet(f, S \ {x})
<1> DEFINE Sum(s) == SumFunctionOnSet(f, s)
           Fine(s) == Sum(s) \in Int /\ \A x \in s : Sum(s) = f[x] + Sum(s \ {x})
           C == {s \in SUBSET S : ~ Fine(s)}
<1>1. \A s \in SUBSET S : IsFiniteSet(s)
  BY FS_Subset
<1>2. \A s \in SUBSET S : /\ s = {} => Sum(s) = 0
                         /\ s # {} => Chosen(s) \in s /\ Sum(s) = f[Chosen(s)] + Sum(s \ {Chosen(s)})
  BY <1>1, SumStep
<1>0. Sum({}) = 0
  BY FS_EmptySet, SumStep
<1> HIDE DEF Sum
<1>3. ASSUME C # {} PROVE FALSE
  <2>1. PICK s \in C : \A t \in SUBSET s : t # s => t \notin C
    BY <1>1, <1>3, Smallest
  <2>2. \A t \in SUBSET s : t # s => Fine(t)
    BY <2>1
  <2>3. s # {}
    <3>2. Fine({})
      BY <1>0
    <3> QED
      BY <3>2
  <2> DEFINE c == Chosen(s)
  <2>4. c \in s /\ Sum(s) = f[c] + Sum(s \ {c})
    BY <1>2, <2>3
  <2> HIDE DEF c
  <2>5. Sum(s) \in Int
    BY <2>2, <2>4
  <2>6. ASSUME NEW x \in s PROVE Sum(s) = f[x] + Sum(s \ {x})
    <3>1. CASE x = c
      BY <2>4, <3>1
    <3>2. CASE x # c
      <4>1. Sum(s \ {c}) = f[x] + Sum((s \ {c}) \ {x})
        BY <2>2, <2>4, <3>2
      <4>2. Sum(s \ {x}) = f[c] + Sum((s \ {x}) \ {c})
        BY <2>2, <2>4, <3>2
      <4>3. (s \ {c}) \ {x} = (s \ {x}) \ {c}
        OBVIOUS
      <4>4. Sum(s \ {x}) \in Int /\ Sum(s \ {c}) \in Int
        BY <2>2, <2>4
      <4>5. (s \ {c}) \ {x} \in SUBSET S /\ f[x] \in Int /\ f[c] \in Int
        BY <2>4
      <4> DEFINE a == Sum(s \ {c})
                 b == Sum(s \ {x})
                 d == Sum((s \ {c}) \ {x})
      <4>6. a = f[x] + d /\ b = f[c] + d /\ Sum(s) = f[c] + a
        BY <2>4, <4>1, <4>2, <4>3
      <4>7. d \in Int
        BY <2>2, <2>4, <3>2
      <4> QED
        BY <4>4, <4>5, <4>6, <4>7
    <3> QED
      BY <3>1, <3>2
  <2> QED
    BY <2>5, <2>6
<1>4. Fine(S)
  BY <1>3
<1>5. S = {} => Sum(S) = 0
  BY <1>0
<1> QED
  BY <1>4, <1>5 DEF Sum

\* The sum of a pointwise sum is the sum of the sums.
LEMMA SumPointwise ==
    ASSUME NEW S, IsFiniteSet(S), NEW f, NEW g, NEW h,
           \A x \in S : f[x] \in Int /\ g[x] \in Int /\ h[x] = f[x] + g[x]
    PROVE  SumFunctionOnSet(h, S) = SumFunctionOnSet(f, S) + SumFunctionOnSet(g, S)
<1> DEFINE F(s) == SumFunctionOnSet(f, s)
           G(s) == SumFunctionOnSet(g, s)
           H(s) == SumFunctionOnSet(h, s)
           C == {s \in SUBSET S : H(s) # F(s) + G(s)}
<1>1. \A s \in SUBSET S : IsFiniteSet(s)
  BY FS_Subset
<1>2. ASSUME NEW s \in SUBSET S
      PROVE  /\ F(s) \in Int /\ G(s) \in Int /\ H(s) \in Int
             /\ s = {} => F(s) = 0 /\ G(s) = 0 /\ H(s) = 0
             /\ \A x \in s : F(s) = f[x] + F(s \ {x}) /\ G(s) = g[x] + G(s \ {x})
                            /\ H(s) = h[x] + H(s \ {x})
  <2>1. \A x \in s : f[x] \in Int /\ g[x] \in Int /\ h[x] \in Int
    OBVIOUS
  <2>2. IsFiniteSet(s)
    BY <1>1
  <2>3. F(s) \in Int /\ (s = {} => F(s) = 0) /\ \A x \in s : F(s) = f[x] + F(s \ {x})
    BY <2>1, <2>2, SumRemove
  <2>4. G(s) \in Int /\ (s = {} => G(s) = 0) /\ \A x \in s : G(s) = g[x] + G(s \ {x})
    BY <2>1, <2>2, SumRemove
  <2>5. H(s) \in Int /\ (s = {} => H(s) = 0) /\ \A x \in s : H(s) = h[x] + H(s \ {x})
    BY <2>1, <2>2, SumRemove
  <2> HIDE DEF F, G, H
  <2> QED
    BY <2>3, <2>4, <2>5
<1> HIDE DEF F, G, H
<1>3. ASSUME C # {} PROVE FALSE
  <2>1. PICK s \in C : \A t \in SUBSET s : t # s => t \notin C
    BY <1>1, <1>3, Smallest
  <2>2. CASE s = {}
    BY <1>2, <2>2
  <2>3. ASSUME NEW x \in s PROVE FALSE
    <3>1. H(s \ {x}) = F(s \ {x}) + G(s \ {x})
      BY <2>1
    <3>2. F(s) = f[x] + F(s \ {x}) /\ G(s) = g[x] + G(s \ {x}) /\ H(s) = h[x] + H(s \ {x})
      BY <1>2
    <3>3. F(s \ {x}) \in Int /\ G(s \ {x}) \in Int /\ H(s \ {x}) \in Int
      BY <1>2
    <3>4. f[x] \in Int /\ g[x] \in Int /\ h[x] = f[x] + g[x]
      OBVIOUS
    <3>5. H(s) = F(s) + G(s)
      BY <3>1, <3>2, <3>3, <3>4
    <3> QED
      BY <3>5
  <2> QED
    BY <2>2, <2>3
<1>4. H(S) = F(S) + G(S)
  BY <1>3
<1> QED
  BY <1>4 DEF F, G, H

\* Zeros add up to zero.
LEMMA SumZero ==
    ASSUME NEW S, IsFiniteSet(S), NEW f, \A x \in S : f[x] = 0
    PROVE  SumFunctionOnSet(f, S) = 0
<1>1. \A x \in S : f[x] \in Int /\ f[x] = f[x] + f[x]
  OBVIOUS
<1> DEFINE n == SumFunctionOnSet(f, S)
<1>2. n = n + n
  BY <1>1, SumPointwise
<1>3. n \in Int
  BY <1>1, SumRemove
<1> HIDE DEF n
<1>4. n = 0
  BY <1>2, <1>3
<1> QED
  BY <1>4 DEF n

\* Functions that agree on a set have the same sum there.
LEMMA SumAgree ==
    ASSUME NEW S, IsFiniteSet(S), NEW f, NEW g, \A x \in S : f[x] \in Int /\ g[x] = f[x]
    PROVE  SumFunctionOnSet(g, S) = SumFunctionOnSet(f, S)
<1> DEFINE z == [x \in S |-> 0]
<1>1. \A x \in S : f[x] \in Int /\ z[x] \in Int /\ g[x] = f[x] + z[x] /\ z[x] = 0
  OBVIOUS
<1> HIDE DEF z
<1>2. SumFunctionOnSet(g, S) = SumFunctionOnSet(f, S) + SumFunctionOnSet(z, S)
  BY <1>1, SumPointwise
<1>3. SumFunctionOnSet(z, S) = 0
  BY <1>1, SumZero
<1>4. SumFunctionOnSet(f, S) \in Int
  BY <1>1, SumRemove
<1> QED
  BY <1>2, <1>3, <1>4

\* Elements whose value is 0 can be left out.
LEMMA SumWithin ==
    ASSUME NEW T, IsFiniteSet(T), NEW S \in SUBSET T, NEW f,
           \A x \in T : f[x] \in Int, \A x \in T \ S : f[x] = 0
    PROVE  SumFunctionOnSet(f, T) = SumFunctionOnSet(f, S)
<1> DEFINE F(s) == SumFunctionOnSet(f, s)
           C == {s \in SUBSET T : S \subseteq s /\ F(s) # F(S)}
<1>1. \A s \in SUBSET T : IsFiniteSet(s)
  BY FS_Subset
<1>2. ASSUME NEW s \in SUBSET T
      PROVE  F(s) \in Int /\ \A x \in s : F(s) = f[x] + F(s \ {x})
  <2>1. \A x \in s : f[x] \in Int
    OBVIOUS
  <2> QED
    BY <1>1, <2>1, SumRemove
<1> HIDE DEF F
<1>3. ASSUME C # {} PROVE FALSE
  <2>1. PICK s \in C : \A t \in SUBSET s : t # s => t \notin C
    BY <1>1, <1>3, Smallest
  <2>2. PICK x \in s : x \notin S
    <3>1. s # S
      OBVIOUS
    <3> QED
      BY <3>1
  <2>3. F(s \ {x}) = F(S)
    BY <2>1, <2>2
  <2>4. F(s) = f[x] + F(s \ {x}) /\ f[x] = 0 /\ F(s \ {x}) \in Int
    BY <1>2, <2>2
  <2> QED
    BY <2>3, <2>4
<1>4. F(T) = F(S)
  BY <1>3
<1> QED
  BY <1>4 DEF F

\* A sum of amounts is an amount, no less than any of them.
LEMMA SumBounds ==
    ASSUME NEW S, IsFiniteSet(S), NEW f, \A x \in S : f[x] \in Nat
    PROVE  /\ SumFunctionOnSet(f, S) \in Nat
           /\ \A x \in S : f[x] <= SumFunctionOnSet(f, S)
<1> DEFINE F(s) == SumFunctionOnSet(f, s)
           C == {s \in SUBSET S : F(s) \notin Nat}
<1>1. \A s \in SUBSET S : IsFiniteSet(s)
  BY FS_Subset
<1>2. ASSUME NEW s \in SUBSET S
      PROVE  /\ s = {} => F(s) = 0
             /\ \A x \in s : F(s) = f[x] + F(s \ {x})
  <2>1. \A x \in s : f[x] \in Int
    OBVIOUS
  <2> QED
    BY <1>1, <2>1, SumRemove
<1> HIDE DEF F
<1>3. ASSUME C # {} PROVE FALSE
  <2>1. PICK s \in C : \A t \in SUBSET s : t # s => t \notin C
    BY <1>1, <1>3, Smallest
  <2>2. CASE s = {}
    BY <1>2, <2>2
  <2>3. ASSUME NEW x \in s PROVE FALSE
    <3>1. F(s \ {x}) \in Nat /\ f[x] \in Nat
      BY <2>1
    <3>2. F(s) = f[x] + F(s \ {x})
      BY <1>2
    <3>3. F(s) \in Nat
      BY <3>1, <3>2
    <3> QED
      BY <3>3
  <2> QED
    BY <2>2, <2>3
<1>4. \A s \in SUBSET S : F(s) \in Nat
  BY <1>3
<1>5. ASSUME NEW x \in S PROVE f[x] <= F(S)
  <2>1. F(S) = f[x] + F(S \ {x})
    BY <1>2
  <2>2. F(S \ {x}) \in Nat /\ f[x] \in Nat
    BY <1>4
  <2> QED
    BY <2>1, <2>2
<1> QED
  BY <1>4, <1>5 DEF F

(***************************************************************************)
(* Balances. A step moves what the invoices of a customer leave to pay by  *)
(* as much as the balance column.                                          *)
(***************************************************************************)
\* The sum of a function over its whole domain.
LEMMA SumOverDomain ==
    ASSUME NEW f, NEW S, DOMAIN f = S
    PROVE  SumFunction(f) = SumFunctionOnSet(f, S)
BY DEF SumFunction

\* The invoices a table can hold are finitely many.
LEMMA InvoiceSetsFinite ==
    ASSUME TypeInv
    PROVE  /\ IsFiniteSet(1 .. MaxInvoices)
           /\ \A S \in SUBSET DOMAIN invoices : IsFiniteSet(S)
           /\ DOMAIN invoices = 1 .. Len(invoices) /\ Len(invoices) \in Nat
           /\ DOMAIN invoices \subseteq 1 .. MaxInvoices
           /\ \A i \in DOMAIN invoices : invoices[i] \in InvoiceRow
<1>1. DOMAIN invoices = 1 .. Len(invoices) /\ Len(invoices) \in Nat /\ Len(invoices) <= MaxInvoices
      /\ MaxInvoices \in Nat
  BY LenProperties, ConstantsAssumption DEF TypeInv, TypeOK, RowsRefer
<1>2. IsFiniteSet(1 .. MaxInvoices)
  BY <1>1, FS_Interval
<1>3. DOMAIN invoices \subseteq 1 .. MaxInvoices
  BY <1>1
<1>4. \A i \in DOMAIN invoices : invoices[i] \in InvoiceRow
  BY <1>1, ElementOfSeq DEF TypeInv, TypeOK
<1>5. \A S \in SUBSET DOMAIN invoices : IsFiniteSet(S)
  BY <1>2, <1>3, FS_Subset
<1> QED
  BY <1>1, <1>2, <1>3, <1>4, <1>5

\* What settling along a plan does to each invoice.
LEMMA SettleAllEffect ==
    ASSUME TypeInv, NEW plan \in Allocations, NEW sign \in {1, -1},
           invoices' = SettleAll(plan, sign)
    PROVE  /\ DOMAIN invoices' = DOMAIN invoices
           /\ \A i \in DOMAIN invoices :
                 /\ plan[i] \in Nat
                 /\ invoices'[i].customerId = invoices[i].customerId
                 /\ invoices'[i].grandTotal = invoices[i].grandTotal
                 /\ invoices'[i].paidAmount \in Int /\ invoices[i].paidAmount \in Int
                 /\ invoices'[i].currentDue \in Int /\ invoices[i].currentDue \in Int
                 /\ sign = 1 => /\ invoices'[i].paidAmount = invoices[i].paidAmount + plan[i]
                                /\ invoices'[i].currentDue = invoices[i].currentDue - plan[i]
                 /\ sign = -1 => /\ invoices'[i].paidAmount = invoices[i].paidAmount - plan[i]
                                 /\ invoices'[i].currentDue = invoices[i].currentDue + plan[i]
<1>1. DOMAIN invoices' = DOMAIN invoices
  BY DEF SettleAll
<1>2. ASSUME NEW i \in DOMAIN invoices
      PROVE  /\ plan[i] \in Nat
             /\ invoices'[i].customerId = invoices[i].customerId
             /\ invoices'[i].grandTotal = invoices[i].grandTotal
             /\ invoices'[i].paidAmount \in Int /\ invoices[i].paidAmount \in Int
             /\ invoices'[i].currentDue \in Int /\ invoices[i].currentDue \in Int
             /\ sign = 1 => /\ invoices'[i].paidAmount = invoices[i].paidAmount + plan[i]
                            /\ invoices'[i].currentDue = invoices[i].currentDue - plan[i]
             /\ sign = -1 => /\ invoices'[i].paidAmount = invoices[i].paidAmount - plan[i]
                             /\ invoices'[i].currentDue = invoices[i].currentDue + plan[i]
  <2>1. plan[i] \in Nat /\ invoices[i] \in InvoiceRow
    BY InvoiceSetsFinite DEF Allocations
  <2>2. invoices[i].paidAmount \in Int /\ invoices[i].currentDue \in Int
    BY <2>1 DEF InvoiceRow
  <2>3. CASE plan[i] > 0
    <3> DEFINE a == sign * plan[i]
    <3>1. a \in Int /\ (sign = 1 => a = plan[i]) /\ (sign = -1 => a = 0 - plan[i])
      BY <2>1
    <3>2. invoices'[i] = Settle(invoices[i], a)
      BY <2>3 DEF SettleAll
    <3> HIDE DEF a
    <3>3. /\ invoices'[i].customerId = invoices[i].customerId
          /\ invoices'[i].grandTotal = invoices[i].grandTotal
          /\ invoices'[i].paidAmount = invoices[i].paidAmount + a
          /\ invoices'[i].currentDue = invoices[i].currentDue - a
      BY <2>1, <3>2 DEF Settle, InvoiceRow
    <3> QED
      BY <2>1, <2>2, <3>1, <3>3
  <2>4. CASE plan[i] = 0
    <3>1. invoices'[i] = invoices[i]
      BY <2>4 DEF SettleAll
    <3> QED
      BY <2>1, <2>2, <2>4, <3>1
  <2> QED
    BY <2>1, <2>3, <2>4
<1> QED
  BY <1>1, <1>2

\* What the invoices of a customer leave to pay.
Owed(c) == SumFunction([i \in RowsOf(invoices, c) |-> invoices[i].currentDue])

\* A sum of dues is a sum over the customer's invoices.
LEMMA OwedIsSum ==
    ASSUME TypeInv, NEW d, NEW R, R = RowsOf(invoices, d), NEW f,
           \A i \in R : f[i] = invoices[i].currentDue
    PROVE  /\ IsFiniteSet(R) /\ R \subseteq DOMAIN invoices
           /\ \A i \in R : f[i] \in Int
           /\ Owed(d) = SumFunctionOnSet(f, R) /\ Owed(d) \in Int
<1> DEFINE g == [i \in R |-> invoices[i].currentDue]
<1>1. R \subseteq DOMAIN invoices
  BY DEF RowsOf
<1>2. IsFiniteSet(R)
  BY <1>1, InvoiceSetsFinite
<1>3. \A i \in R : g[i] \in Int /\ f[i] = g[i]
  BY <1>1, InvoiceSetsFinite DEF InvoiceRow
<1>4. Owed(d) = SumFunction(g) /\ DOMAIN g = R
  BY DEF Owed
<1> HIDE DEF g
<1>5. Owed(d) = SumFunctionOnSet(g, R)
  BY <1>4, SumOverDomain
<1>6. SumFunctionOnSet(g, R) \in Int
  BY <1>2, <1>3, SumRemove
<1>7. SumFunctionOnSet(f, R) = SumFunctionOnSet(g, R)
  BY <1>2, <1>3, SumAgree
<1> QED
  BY <1>1, <1>2, <1>3, <1>5, <1>6, <1>7

\* A plan that touches only invoices of c moves what c owes by its sum, and
\* what nobody else owes.
LEMMA PlanMovesOwed ==
    ASSUME TypeInv, NEW plan \in Allocations, NEW sign \in {1, -1},
           invoices' = SettleAll(plan, sign), NEW c,
           \A i \in 1 .. MaxInvoices : plan[i] > 0 => i \in RowsOf(invoices, c),
           NEW d
    PROVE  /\ Owed(d) \in Int /\ SumFunction(plan) \in Int
           /\ d # c => Owed(d)' = Owed(d)
           /\ d = c /\ sign = 1 => Owed(d)' = Owed(d) - SumFunction(plan)
           /\ d = c /\ sign = -1 => Owed(d)' = Owed(d) + SumFunction(plan)
<1> DEFINE R == RowsOf(invoices, d)
           f == [i \in R |-> invoices[i].currentDue]
           g == [i \in R |-> invoices'[i].currentDue]
<1>0. /\ IsFiniteSet(1 .. MaxInvoices) /\ DOMAIN invoices \subseteq 1 .. MaxInvoices
      /\ \A i \in 1 .. MaxInvoices : plan[i] \in Nat
      /\ DOMAIN plan = 1 .. MaxInvoices
  BY InvoiceSetsFinite DEF Allocations
<1>1. R = RowsOf(invoices, d)'
  BY SettleAllEffect DEF RowsOf
<1>2. \A i \in R : f[i] = invoices[i].currentDue /\ g[i] = invoices'[i].currentDue
  OBVIOUS
<1>3. /\ IsFiniteSet(R) /\ R \subseteq DOMAIN invoices
      /\ \A i \in R : f[i] \in Int
      /\ Owed(d) = SumFunctionOnSet(f, R) /\ Owed(d) \in Int
  <2> HIDE DEF f, g
  <2> QED
    BY <1>2, OwedIsSum
<1>4. /\ \A i \in R : g[i] \in Int
      /\ Owed(d)' = SumFunctionOnSet(g, R) /\ Owed(d)' \in Int
  <2>1. \A i \in R : g[i] \in Int
    BY <1>2, <1>3, SettleAllEffect
  <2>2. Owed(d)' = SumFunction([i \in RowsOf(invoices, d)' |-> invoices'[i].currentDue])
    BY DEF Owed
  <2>3. Owed(d)' = SumFunction(g) /\ DOMAIN g = R
    BY <1>1, <2>2
  <2>4. Owed(d)' = SumFunctionOnSet(g, R)
    <3> HIDE DEF g
    <3> QED
      BY <2>3, SumOverDomain
  <2>5. SumFunctionOnSet(g, R) \in Int
    <3> HIDE DEF g
    <3> QED
      BY <1>3, <2>1, SumRemove
  <2> QED
    BY <2>1, <2>4, <2>5
<1>5. SumFunction(plan) = SumFunctionOnSet(plan, 1 .. MaxInvoices) /\ SumFunction(plan) \in Int
  <2>1. SumFunctionOnSet(plan, 1 .. MaxInvoices) \in Int
    <3> HIDE DEF f, g, R
    <3>1. \A i \in 1 .. MaxInvoices : plan[i] \in Int
      BY <1>0
    <3> QED
      BY <1>0, <3>1, SumRemove
  <2>2. SumFunction(plan) = SumFunctionOnSet(plan, 1 .. MaxInvoices)
    <3> HIDE DEF f, g, R
    <3>1. DOMAIN plan = 1 .. MaxInvoices
      BY <1>0
    <3> QED
      BY <3>1, SumOverDomain
  <2> QED
    BY <2>1, <2>2
<1>6. ASSUME d # c PROVE Owed(d)' = Owed(d)
  <2>1. \A i \in R : f[i] \in Int /\ g[i] = f[i]
    <3>1. ASSUME NEW i \in R PROVE plan[i] = 0
      BY <1>0, <1>3, <1>6 DEF RowsOf
    <3> QED
      BY <1>2, <1>3, <3>1, SettleAllEffect
  <2> HIDE DEF f, g, R
  <2> QED
    BY <1>3, <1>4, <2>1, SumAgree
<1>7. ASSUME d = c PROVE SumFunction(plan) = SumFunctionOnSet(plan, R)
  <2>1. \A i \in 1 .. MaxInvoices \ R : plan[i] = 0
    BY <1>0, <1>7
  <2>2. R \in SUBSET (1 .. MaxInvoices) /\ \A i \in 1 .. MaxInvoices : plan[i] \in Int
    BY <1>0, <1>3
  <2> HIDE DEF R
  <2> QED
    BY <1>0, <1>5, <2>1, <2>2, SumWithin
<1>8. \A i \in R : /\ plan[i] \in Int
                   /\ sign = 1 => f[i] = g[i] + plan[i]
                   /\ sign = -1 => g[i] = f[i] + plan[i]
  BY <1>2, <1>3, SettleAllEffect
<1> DEFINE F == SumFunctionOnSet(f, R)
           G == SumFunctionOnSet(g, R)
           P == SumFunctionOnSet(plan, R)
<1>9. ASSUME sign = 1 PROVE F = G + P
  <2> HIDE DEF f, g, R
  <2> QED
    BY <1>3, <1>4, <1>8, <1>9, SumPointwise
<1>10. ASSUME sign = -1 PROVE G = F + P
  <2> HIDE DEF f, g, R
  <2> QED
    BY <1>3, <1>4, <1>8, <1>10, SumPointwise
<1> HIDE DEF f, g, R
<1>11. Owed(d) = F /\ Owed(d)' = G /\ F \in Int /\ G \in Int /\ (d = c => SumFunction(plan) = P)
  BY <1>3, <1>4, <1>7
<1> HIDE DEF F, G, P
<1> QED
  BY <1>5, <1>6, <1>9, <1>10, <1>11

\* The whole of an initial payment goes to the invoice of its purchase.
LEMMA OnlyToSum ==
    ASSUME NEW invoice \in 1 .. MaxInvoices, NEW amount \in Nat, MaxInvoices \in Nat
    PROVE  SumFunction(OnlyTo(invoice, amount)) = amount
<1> DEFINE f == OnlyTo(invoice, amount)
<1>1. /\ DOMAIN f = 1 .. MaxInvoices
      /\ \A i \in 1 .. MaxInvoices : f[i] = IF i = invoice THEN amount ELSE 0
  BY DEF OnlyTo
<1> HIDE DEF f
<1>2. IsFiniteSet(1 .. MaxInvoices) /\ IsFiniteSet({invoice}) /\ IsFiniteSet({})
  <2>1. IsFiniteSet(1 .. MaxInvoices)
    BY FS_Interval
  <2>2. IsFiniteSet({invoice})
    BY FS_Singleton
  <2>3. IsFiniteSet({})
    BY FS_EmptySet
  <2> QED
    BY <2>1, <2>2, <2>3
<1>3. SumFunction(f) = SumFunctionOnSet(f, 1 .. MaxInvoices)
  BY <1>1, SumOverDomain
<1>4. \A i \in 1 .. MaxInvoices : f[i] \in Int
  BY <1>1
<1>5. SumFunctionOnSet(f, 1 .. MaxInvoices) = SumFunctionOnSet(f, {invoice})
  BY <1>1, <1>2, <1>4, SumWithin
<1>6. SumFunctionOnSet(f, {invoice}) = f[invoice] + SumFunctionOnSet(f, {invoice} \ {invoice})
  <2>1. \A i \in {invoice} : f[i] \in Int
    BY <1>4
  <2> QED
    BY <1>2, <2>1, SumRemove
<1>7. {invoice} \ {invoice} = {}
  OBVIOUS
<1>8. SumFunctionOnSet(f, {}) = 0
  BY <1>2, SumStep
<1>9. SumFunction(f) = amount + 0
  BY <1>1, <1>3, <1>5, <1>6, <1>7, <1>8
<1> QED
  BY <1>9 DEF f

\* Documents belong to customers that exist, a payment allocates its amount, and
\* all of it to invoices of the payer.
DocumentsRefer ==
    /\ \A i \in DOMAIN invoices : invoices[i].customerId \in DOMAIN customers
    /\ \A p \in DOMAIN payments :
          /\ SumFunction(payments[p].allocations) = payments[p].amount
          /\ \A i \in 1 .. MaxInvoices : payments[p].allocations[i] > 0 =>
                i \in RowsOf(invoices, payments[p].customerId)

\* A sound payment row added to the payments, or none, leaves them sound as long
\* as the invoices keep their customers.
LEMMA DocumentsKeep ==
    ASSUME TypeInv, DocumentsRefer, DOMAIN customers \subseteq DOMAIN customers',
           \A i \in DOMAIN invoices : i \in DOMAIN invoices'
                 /\ invoices'[i].customerId = invoices[i].customerId,
           \A i \in DOMAIN invoices' : i \in DOMAIN invoices
                 \/ invoices'[i].customerId \in DOMAIN customers,
           \A p \in DOMAIN payments' :
              \/ /\ p \in DOMAIN payments
                 /\ payments'[p].customerId = payments[p].customerId
                 /\ payments'[p].amount = payments[p].amount
                 /\ payments'[p].allocations = payments[p].allocations
              \/ /\ SumFunction(payments'[p].allocations) = payments'[p].amount
                 /\ \A i \in 1 .. MaxInvoices : payments'[p].allocations[i] > 0 =>
                       i \in DOMAIN invoices' /\ invoices'[i].customerId = payments'[p].customerId
    PROVE  DocumentsRefer'
<1>1. \A i \in DOMAIN invoices' : invoices'[i].customerId \in DOMAIN customers'
  BY DEF DocumentsRefer
<1>2. ASSUME NEW p \in DOMAIN payments'
      PROVE  /\ SumFunction(payments'[p].allocations) = payments'[p].amount
             /\ \A i \in 1 .. MaxInvoices : payments'[p].allocations[i] > 0 =>
                   i \in DOMAIN invoices' /\ invoices'[i].customerId = payments'[p].customerId
  <2>1. CASE /\ p \in DOMAIN payments
             /\ payments'[p].customerId = payments[p].customerId
             /\ payments'[p].amount = payments[p].amount
             /\ payments'[p].allocations = payments[p].allocations
    <3>1. SumFunction(payments[p].allocations) = payments[p].amount
      BY <2>1 DEF DocumentsRefer
    <3>2. \A i \in 1 .. MaxInvoices : payments[p].allocations[i] > 0 =>
             i \in DOMAIN invoices /\ invoices[i].customerId = payments[p].customerId
      BY <2>1 DEF DocumentsRefer, RowsOf
    <3> QED
      BY <2>1, <3>1, <3>2
  <2> QED
    BY <2>1
<1> QED
  BY <1>1, <1>2 DEF DocumentsRefer, RowsOf

\* Every step keeps the documents referring.
LEMMA NextRefers == TypeInv /\ DocumentsRefer /\ [Next]_vars => DocumentsRefer'
<1> SUFFICES ASSUME TypeInv, DocumentsRefer, [Next]_vars PROVE DocumentsRefer'
  OBVIOUS
<1>0. /\ DOMAIN customers = 1 .. Len(customers) /\ Len(customers) \in Nat
      /\ DOMAIN invoices = 1 .. Len(invoices) /\ Len(invoices) \in Nat
      /\ DOMAIN payments = 1 .. Len(payments) /\ Len(payments) \in Nat
  BY LenProperties DEF TypeInv, TypeOK
<1>1. ASSUME NEW limit \in Amounts, NEW opening \in Amounts, CreateCustomer(limit, opening)
      PROVE  DocumentsRefer'
  <2> DEFINE row == [status |-> "ACTIVE", creditLimit |-> limit, currentBalance |-> opening]
  <2>0. limit \in Nat /\ opening \in Nat
    BY ConstantsAssumption
  <2>1. row \in CustomerRow
    BY <2>0 DEF CustomerRow
  <2>2. customers' = Append(customers, row) /\ UNCHANGED <<invoices, payments>>
    BY <1>1 DEF CreateCustomer
  <2> HIDE DEF row
  <2>3. DOMAIN customers \subseteq DOMAIN customers'
    BY <1>0, <2>1, <2>2, AppendRow DEF TypeInv, TypeOK
  <2> QED
    BY <2>2, <2>3, DocumentsKeep
<1>2. ASSUME NEW c \in DOMAIN customers, NEW limit \in Amounts, NEW status \in CustomerStatuses,
             UpdateCustomer(c, limit, status)
      PROVE  DocumentsRefer'
  <2>1. DOMAIN customers' = DOMAIN customers /\ UNCHANGED <<invoices, payments>>
    BY <1>2, UpdateCustomerType, ConstantsAssumption DEF UpdateCustomer
  <2> QED
    BY <2>1, DocumentsKeep
<1>3. ASSUME NEW c \in DOMAIN customers, NEW date \in Dates, NEW net \in Amounts,
             NEW paid \in Amounts, CreatePurchase(c, date, net, paid)
      PROVE  DocumentsRefer'
  <2> DEFINE resulting == customers[c].currentBalance + net - paid
             invoice   == Len(invoices) + 1
             bill      == NewInvoice(c, date, net, paid)
             receipt   == NewPayment(c, paid, OnlyTo(invoice, paid))
  <2>1. c \in Nat /\ date \in Nat /\ net \in Nat /\ paid \in Nat
    BY <1>0, ConstantsAssumption
  <2>2. /\ invoice \in 1 .. MaxInvoices
        /\ customers' = [customers EXCEPT ![c].currentBalance = resulting]
        /\ invoices' = Append(invoices, bill)
        /\ payments' = IF paid > 0 THEN Append(payments, receipt) ELSE payments
    BY <1>0, <1>3, ConstantsAssumption DEF CreatePurchase
  <2>3. bill \in InvoiceRow /\ bill.customerId = c
    BY <2>1, StatusType DEF NewInvoice, InvoiceRow
  <2>4. /\ receipt \in PaymentRow /\ receipt.customerId = c /\ receipt.amount = paid
        /\ receipt.allocations = OnlyTo(invoice, paid)
    <3>1. OnlyTo(invoice, paid) \in Allocations
      <4>1. invoice \in Nat
        BY <1>0
      <4> QED
        BY <2>1, <4>1, OnlyToType
    <3> QED
      BY <2>1, <3>1, NewPaymentType DEF NewPayment
  <2>5. DOMAIN customers' = DOMAIN customers
    BY <2>2
  <2> HIDE DEF resulting, bill, receipt
  <2>6. /\ DOMAIN invoices' = 1 .. invoice /\ invoices'[invoice] = bill
        /\ \A i \in DOMAIN invoices : invoices'[i] = invoices[i]
    BY <1>0, <2>2, <2>3, AppendRow DEF TypeInv, TypeOK
  <2>7. /\ SumFunction(receipt.allocations) = receipt.amount
        /\ \A i \in 1 .. MaxInvoices : receipt.allocations[i] > 0 => i = invoice
    <3>1. SumFunction(OnlyTo(invoice, paid)) = paid
      BY <2>1, <2>2, OnlyToSum, ConstantsAssumption
    <3> QED
      BY <2>4, <3>1 DEF OnlyTo
  <2>8. ASSUME NEW p \in DOMAIN payments'
        PROVE  (p \in DOMAIN payments /\ payments'[p] = payments[p]) \/ payments'[p] = receipt
    <3>1. CASE paid > 0
      BY <1>0, <2>2, <2>4, <3>1, AppendRow DEF TypeInv, TypeOK
    <3>2. CASE ~(paid > 0)
      BY <2>2, <3>2
    <3> QED
      BY <3>1, <3>2
  <2>9. ASSUME NEW p \in DOMAIN payments'
        PROVE  \/ p \in DOMAIN payments /\ payments'[p] = payments[p]
               \/ /\ SumFunction(payments'[p].allocations) = payments'[p].amount
                  /\ \A i \in 1 .. MaxInvoices : payments'[p].allocations[i] > 0 =>
                       i \in DOMAIN invoices' /\ invoices'[i].customerId = payments'[p].customerId
    BY <1>0, <2>3, <2>4, <2>6, <2>7, <2>8
  <2>10. \A i \in DOMAIN invoices' : i \in DOMAIN invoices \/ invoices'[i].customerId \in DOMAIN customers
    BY <1>0, <2>3, <2>6
  <2>11. \A i \in DOMAIN invoices : i \in DOMAIN invoices' /\ invoices'[i].customerId = invoices[i].customerId
    BY <1>0, <2>6
  <2> QED
    BY <2>5, <2>9, <2>10, <2>11, DocumentsKeep
<1>4. ASSUME NEW c \in DOMAIN customers, NEW amount \in Amounts, NEW plan \in Plans(amount),
             CreatePayment(c, amount, plan)
      PROVE  DocumentsRefer'
  <2> DEFINE balance == customers[c].currentBalance - amount
             receipt == NewPayment(c, amount, plan)
  <2>1. c \in Nat /\ amount \in Nat /\ plan \in Allocations
    BY <1>0, ConstantsAssumption DEF Plans, Allocations
  <2>2. /\ ValidPlan(c, amount, plan)
        /\ customers' = [customers EXCEPT ![c].currentBalance = balance]
        /\ invoices' = SettleAll(plan, 1)
        /\ payments' = Append(payments, receipt)
    BY <1>4 DEF CreatePayment
  <2>3. /\ receipt \in PaymentRow /\ receipt.customerId = c /\ receipt.amount = amount
        /\ receipt.allocations = plan
    BY <2>1, NewPaymentType DEF NewPayment
  <2>4. DOMAIN customers' = DOMAIN customers
    BY <2>2
  <2> HIDE DEF balance, receipt
  <2>5. /\ DOMAIN invoices' = DOMAIN invoices
        /\ \A i \in DOMAIN invoices : invoices'[i].customerId = invoices[i].customerId
    BY <2>1, <2>2, SettleAllEffect
  <2>6. /\ SumFunction(plan) = amount
        /\ \A i \in 1 .. MaxInvoices : plan[i] > 0 =>
              i \in DOMAIN invoices /\ invoices[i].customerId = c
    BY <2>1, <2>2 DEF ValidPlan, Allocations
  <2>7. \A p \in DOMAIN payments' :
           (p \in DOMAIN payments /\ payments'[p] = payments[p]) \/ payments'[p] = receipt
    BY <1>0, <2>2, <2>3, AppendRow DEF TypeInv, TypeOK
  <2>8. ASSUME NEW p \in DOMAIN payments'
        PROVE  \/ p \in DOMAIN payments /\ payments'[p] = payments[p]
               \/ /\ SumFunction(payments'[p].allocations) = payments'[p].amount
                  /\ \A i \in 1 .. MaxInvoices : payments'[p].allocations[i] > 0 =>
                       i \in DOMAIN invoices' /\ invoices'[i].customerId = payments'[p].customerId
    BY <2>3, <2>5, <2>6, <2>7
  <2> QED
    BY <2>4, <2>5, <2>8, DocumentsKeep
<1>5. ASSUME NEW p \in DOMAIN payments, ReversePayment(p)
      PROVE  DocumentsRefer'
  <2> DEFINE plan == payments[p].allocations
             c == payments[p].customerId
             balance == customers[c].currentBalance + payments[p].amount
  <2>1. payments[p] \in PaymentRow
    BY <1>0, ElementOfSeq DEF TypeInv, TypeOK
  <2>2. plan \in Allocations
    BY <2>1 DEF PaymentRow
  <2>3. /\ payments' = [payments EXCEPT ![p] = Reversed(payments[p])]
        /\ customers' = [customers EXCEPT ![c].currentBalance = balance]
        /\ invoices' = SettleAll(plan, -1)
    BY <1>5 DEF ReversePayment
  <2>4. DOMAIN customers' = DOMAIN customers
    BY <2>3
  <2> HIDE DEF plan, c, balance
  <2>5. /\ DOMAIN invoices' = DOMAIN invoices
        /\ \A i \in DOMAIN invoices : invoices'[i].customerId = invoices[i].customerId
    BY <2>2, <2>3, SettleAllEffect
  <2>6. \A q \in DOMAIN payments' :
          /\ q \in DOMAIN payments
          /\ payments'[q].customerId = payments[q].customerId
          /\ payments'[q].amount = payments[q].amount
          /\ payments'[q].allocations = payments[q].allocations
    BY <2>1, <2>3 DEF Reversed, PaymentRow
  <2> QED
    BY <2>4, <2>5, <2>6, DocumentsKeep
<1>6. CASE UNCHANGED vars
  BY <1>6, DocumentsKeep DEF vars
<1> QED
  BY <1>1, <1>2, <1>3, <1>4, <1>5, <1>6 DEF Next

\* Documents refer to rows that exist, throughout.
LEMMA RefersInvariance == Spec => []DocumentsRefer
<1>1. Init => DocumentsRefer
  BY DEF Init, DocumentsRefer
<1>2. TypeInv /\ DocumentsRefer /\ [Next]_vars => DocumentsRefer'
  BY NextRefers
<1> QED
  BY <1>1, <1>2, TypeInvariance, PTL DEF Spec
-----------------------------------------------------------------------------
\* The opening balance is an amount, and posting anything but an opening entry
\* leaves it as it was.
LEMMA PostingOpens ==
    ASSUME TypeInv, NEW c \in DOMAIN customers,
           NEW entries \in Seq(LedgerRow), Len(entries) \in {1, 2},
           entries[1].type # "OPENING_BALANCE",
           ledger' = [ledger EXCEPT ![c] = ledger[c] \o entries],
           NEW d \in DOMAIN customers
    PROVE  OpeningBalance(d)' = OpeningBalance(d)
<1>1. ledger'[d] = IF d = c THEN ledger[c] \o entries ELSE ledger[d]
  BY PostingType DEF TypeInv, RowsRefer
<1>2. ledger[c] \in Seq(LedgerRow)
  BY LenProperties, ElementOfSeq DEF TypeInv, TypeOK, RowsRefer
<1> DEFINE old == ledger[c]
           new == ledger[c] \o entries
<1>3. /\ Len(old) \in Nat /\ new \in Seq(LedgerRow) /\ Len(new) = Len(old) + Len(entries)
      /\ \A n \in 1 .. Len(old) : new[n] = old[n]
      /\ new[Len(old) + 1] = entries[1]
  BY <1>2, ConcatOneOrTwo
<1>4. CASE d # c
  BY <1>1, <1>4 DEF OpeningBalance
<1>5. CASE d = c
  <2>1. new # <<>>
    BY <1>3, EmptySeq
  <2>2. OpeningBalance(d)' = IF new[1].type = "OPENING_BALANCE" THEN new[1].debit ELSE 0
    BY <1>1, <1>5, <2>1 DEF OpeningBalance
  <2>3. CASE old = <<>>
    <3>1. Len(old) = 0
      BY <2>3, EmptySeq
    <3>2. new[1] = entries[1]
      BY <1>3, <3>1
    <3> QED
      BY <1>5, <2>2, <2>3, <3>2 DEF OpeningBalance
  <2>4. CASE old # <<>>
    <3>1. Len(old) # 0
      BY <1>2, <2>4, EmptySeq
    <3>2. new[1] = old[1]
      BY <1>3, <3>1
    <3> HIDE DEF new
    <3> QED
      BY <1>5, <2>2, <2>4, <3>2 DEF OpeningBalance
  <2> QED
    BY <2>3, <2>4
<1> QED
  BY <1>4, <1>5

\* An opening balance is an amount.
LEMMA OpeningIsAmount ==
    ASSUME TypeInv, NEW d \in DOMAIN customers
    PROVE  OpeningBalance(d) \in Int
<1>1. ledger[d] \in Seq(LedgerRow)
  BY LenProperties, ElementOfSeq DEF TypeInv, TypeOK, RowsRefer
<1>2. CASE ledger[d] = <<>>
  BY <1>2 DEF OpeningBalance
<1>3. CASE ledger[d] # <<>>
  <2>1. Len(ledger[d]) # 0 /\ Len(ledger[d]) \in Nat
    BY <1>1, <1>3, EmptySeq, LenProperties
  <2>2. ledger[d][1] \in LedgerRow
    BY <1>1, <2>1, ElementOfSeq
  <2> QED
    BY <2>2 DEF OpeningBalance, LedgerRow
<1> QED
  BY <1>2, <1>3

\* A new invoice adds its due to what its customer owes.
LEMMA InvoiceMovesOwed ==
    ASSUME TypeInv, NEW bill \in InvoiceRow, invoices' = Append(invoices, bill), NEW d
    PROVE  /\ Owed(d) \in Int
           /\ Owed(d)' = IF d = bill.customerId THEN Owed(d) + bill.currentDue ELSE Owed(d)
<1> DEFINE R == RowsOf(invoices, d)
           Q == RowsOf(invoices', d)
           x == Len(invoices) + 1
           g == [i \in Q |-> invoices'[i].currentDue]
<1>1. /\ DOMAIN invoices' = 1 .. x /\ invoices'[x] = bill
      /\ DOMAIN invoices = 1 .. Len(invoices) /\ Len(invoices) \in Nat
      /\ \A i \in DOMAIN invoices : invoices'[i] = invoices[i]
  BY AppendRow, LenProperties DEF TypeInv, TypeOK
<1>2. Q = IF d = bill.customerId THEN R \cup {x} ELSE R
  BY <1>1 DEF RowsOf
<1>3. R \subseteq DOMAIN invoices /\ x \notin R
  BY <1>1 DEF RowsOf
<1>4. bill.currentDue \in Int
  BY DEF InvoiceRow
<1>5. \A i \in R : g[i] = invoices[i].currentDue
  BY <1>1, <1>2, <1>3
<1>6. /\ IsFiniteSet(R) /\ \A i \in R : g[i] \in Int
      /\ Owed(d) = SumFunctionOnSet(g, R) /\ Owed(d) \in Int
  <2> HIDE DEF g, Q
  <2> QED
    BY <1>5, OwedIsSum
<1>7. Owed(d)' = SumFunctionOnSet(g, Q)
  <2>1. Owed(d)' = SumFunction(g) /\ DOMAIN g = Q
    BY DEF Owed, RowsOf
  <2> HIDE DEF g, Q
  <2> QED
    BY <2>1, SumOverDomain
<1>8. x \in Q => g[x] = bill.currentDue
  BY <1>1
<1> HIDE DEF R, Q, x, g
<1>9. CASE d = bill.customerId
  <2>1. Q = R \cup {x} /\ IsFiniteSet(Q) /\ Q \ {x} = R
    BY <1>2, <1>3, <1>6, <1>9, FS_AddElement
  <2>2. \A i \in Q : g[i] \in Int
    BY <1>4, <1>6, <1>8, <2>1
  <2>3. SumFunctionOnSet(g, Q) = g[x] + SumFunctionOnSet(g, Q \ {x})
    BY <2>1, <2>2, SumRemove
  <2>4. g[x] = bill.currentDue
    BY <1>8, <2>1
  <2>5. Owed(d)' = bill.currentDue + Owed(d)
    BY <1>6, <1>7, <2>1, <2>3, <2>4
  <2> QED
    BY <1>4, <1>6, <1>9, <2>5
<1>10. CASE d # bill.customerId
  BY <1>2, <1>6, <1>7, <1>10
<1> QED
  BY <1>9, <1>10

\* A first row, and a second one when something was paid.
LEMMA OneOrTwo ==
    ASSUME NEW first \in LedgerRow, NEW second \in LedgerRow, NEW paid \in Nat, NEW entries,
           entries = <<first>> \o IF paid > 0 THEN <<second>> ELSE <<>>
    PROVE  /\ entries \in Seq(LedgerRow)
           /\ Len(entries) = IF paid > 0 THEN 2 ELSE 1
           /\ entries[1] = first
           /\ paid > 0 => entries[2] = second
<1>1. /\ <<first>> \in Seq(LedgerRow) /\ Len(<<first>>) = 1 /\ <<first>>[1] = first
      /\ <<second>> \in Seq(LedgerRow) /\ Len(<<second>>) = 1 /\ <<second>>[1] = second
  BY OneRow
<1>2. CASE paid > 0
  BY <1>1, <1>2, ConcatProperties
<1>3. CASE paid = 0
  <2>1. entries = <<first>> /\ ~(paid > 0)
    BY <1>1, <1>3, ConcatEmptySeq
  <2> QED
    BY <1>1, <2>1
<1> QED
  BY <1>2, <1>3

\* The entries of a purchase, one by one.
LEMMA PurchaseEntries ==
    ASSUME NEW previous \in Int, NEW net \in Nat, NEW paid \in Nat,
           NEW invoice \in Nat, NEW payment \in Nat,
           NEW entries, entries = PurchasePostings(previous, net, paid, invoice, payment)
    PROVE  /\ entries \in Seq(LedgerRow)
           /\ Len(entries) = IF paid > 0 THEN 2 ELSE 1
           /\ entries[1] = Debit("PURCHASE", net, previous + net, invoice)
           /\ paid > 0 => entries[2] = Credit("PAYMENT", paid, previous + net - paid, payment)
<1> DEFINE first  == Debit("PURCHASE", net, previous + net, invoice)
           second == Credit("PAYMENT", paid, previous + net - paid, payment)
<1>1. first \in LedgerRow /\ second \in LedgerRow
  BY DEF Debit, Credit, LedgerRow
<1>2. entries = <<first>> \o IF paid > 0 THEN <<second>> ELSE <<>>
  BY DEF PurchasePostings
<1> HIDE DEF first, second
<1>3. /\ entries \in Seq(LedgerRow)
      /\ Len(entries) = IF paid > 0 THEN 2 ELSE 1
      /\ entries[1] = first
      /\ paid > 0 => entries[2] = second
  BY <1>1, <1>2, OneOrTwo
<1> QED
  BY <1>3 DEF first, second

\* Posting to the ledger of c and moving what c owes by as much as the balance.
LEMMA BalanceMoves ==
    ASSUME TypeInv, BalanceExplained, NEW c \in DOMAIN customers, NEW balance \in Int,
           customers' = [customers EXCEPT ![c].currentBalance = balance],
           NEW entries \in Seq(LedgerRow), Len(entries) \in {1, 2},
           entries[1].type # "OPENING_BALANCE",
           ledger' = [ledger EXCEPT ![c] = ledger[c] \o entries],
           \A d \in DOMAIN customers :
              /\ Owed(d) \in Int
              /\ Owed(d)' = IF d = c THEN Owed(d) + (balance - customers[c].currentBalance)
                            ELSE Owed(d)
    PROVE  BalanceExplained'
<1>1. DOMAIN customers' = DOMAIN customers
  OBVIOUS
<1>2. ASSUME NEW d \in DOMAIN customers
      PROVE  customers'[d].currentBalance = OpeningBalance(d)' + Owed(d)'
  <2>1. customers[d].currentBalance = OpeningBalance(d) + Owed(d)
    BY DEF BalanceExplained, Owed
  <2>2. OpeningBalance(d)' = OpeningBalance(d) /\ OpeningBalance(d) \in Int
    BY PostingOpens, OpeningIsAmount
  <2>3. customers'[d].currentBalance = IF d = c THEN balance ELSE customers[d].currentBalance
    BY BalanceType
  <2>4. Owed(d) \in Int
        /\ Owed(d)' = IF d = c THEN Owed(d) + (balance - customers[c].currentBalance) ELSE Owed(d)
    OBVIOUS
  <2>5. CASE d = c
    BY <2>1, <2>2, <2>3, <2>4, <2>5
  <2>6. CASE d # c
    BY <2>1, <2>2, <2>3, <2>4, <2>6
  <2> QED
    BY <2>5, <2>6
<1>3. \A d \in DOMAIN customers' : customers'[d].currentBalance = OpeningBalance(d)' + Owed(d)'
  BY <1>1, <1>2
<1> QED
  BY <1>3 DEF BalanceExplained, Owed

\* One appended entry is a posting of one.
LEMMA AppendPosts ==
    ASSUME TypeInv, NEW c \in DOMAIN customers, NEW entry \in LedgerRow,
           ledger' = [ledger EXCEPT ![c] = Append(ledger[c], entry)]
    PROVE  \E entries \in Seq(LedgerRow) :
              /\ Len(entries) = 1 /\ entries[1] = entry
              /\ ledger' = [ledger EXCEPT ![c] = ledger[c] \o entries]
<1>1. ledger[c] \in Seq(LedgerRow)
  BY LenProperties, ElementOfSeq DEF TypeInv, TypeOK, RowsRefer
<1> DEFINE entries == <<entry>>
<1>2. entries \in Seq(LedgerRow) /\ Len(entries) = 1 /\ entries[1] = entry
  BY OneRow
<1>3. ledger' = [ledger EXCEPT ![c] = ledger[c] \o entries]
  BY <1>1, AppendIsConcat
<1> HIDE DEF entries
<1> QED
  BY <1>2, <1>3

\* A new customer owes nothing but the opening balance.
LEMMA OpeningExplained ==
    ASSUME TypeInv, DocumentsRefer, BalanceExplained, NEW limit \in Nat, NEW opening \in Nat,
           CreateCustomer(limit, opening)
    PROVE  BalanceExplained'
<1> DEFINE row == [status |-> "ACTIVE", creditLimit |-> limit, currentBalance |-> opening]
           first == Debit("OPENING_BALANCE", opening, opening, Len(customers) + 1)
           entries == IF opening > 0 THEN <<first>> ELSE <<>>
           n == Len(customers) + 1
<1>1. /\ customers' = Append(customers, row) /\ ledger' = Append(ledger, entries)
      /\ UNCHANGED invoices
  BY DEF CreateCustomer
<1>2. row \in CustomerRow /\ row.currentBalance = opening
  BY DEF CustomerRow
<1>3. first \in LedgerRow /\ first.type = "OPENING_BALANCE" /\ first.debit = opening
  <2>1. Len(customers) + 1 \in Nat
    BY LenProperties DEF TypeInv, TypeOK
  <2> QED
    BY <2>1 DEF Debit, LedgerRow
<1> HIDE DEF row, first
<1>4. /\ entries \in Seq(LedgerRow)
      /\ opening = IF entries # <<>> /\ entries[1].type = "OPENING_BALANCE"
                   THEN entries[1].debit ELSE 0
  <2>1. CASE opening > 0
    <3>1. entries = <<first>>
      BY <2>1
    <3>2. entries \in Seq(LedgerRow) /\ Len(entries) = 1 /\ entries[1] = first
      BY <1>3, <3>1, OneRow
    <3>3. entries # <<>>
      BY <3>2, EmptySeq
    <3> HIDE DEF entries
    <3> QED
      BY <1>3, <3>2, <3>3
  <2>2. CASE opening = 0
    BY <2>2, EmptySeq
  <2> QED
    BY <2>1, <2>2
<1> HIDE DEF entries
<1>5. /\ DOMAIN customers' = 1 .. n /\ DOMAIN customers = 1 .. Len(customers)
      /\ Len(customers) \in Nat /\ DOMAIN ledger = DOMAIN customers
      /\ customers'[n] = row /\ ledger'[n] = entries
      /\ \A c \in DOMAIN customers : customers'[c] = customers[c] /\ ledger'[c] = ledger[c]
  <2>1. /\ DOMAIN customers' = 1 .. Len(customers) + 1 /\ DOMAIN customers = 1 .. Len(customers)
        /\ DOMAIN ledger' = 1 .. Len(ledger) + 1 /\ DOMAIN ledger = 1 .. Len(ledger)
        /\ customers'[Len(customers) + 1] = row /\ ledger'[Len(ledger) + 1] = entries
        /\ \A c \in DOMAIN customers : customers'[c] = customers[c]
        /\ \A c \in DOMAIN ledger : ledger'[c] = ledger[c]
    BY <1>1, <1>2, <1>4, AppendRow DEF TypeInv, TypeOK
  <2>2. Len(customers) = Len(ledger) /\ Len(ledger) \in Nat
    BY <2>1, LenProperties DEF TypeInv, TypeOK, RowsRefer
  <2> QED
    BY <2>1, <2>2 DEF TypeInv, RowsRefer
<1>6. \A c : Owed(c)' = Owed(c)
  BY <1>1 DEF Owed, RowsOf
<1>7. Owed(n) = 0
  <2> DEFINE R == RowsOf(invoices, n)
             f == [i \in R |-> invoices[i].currentDue]
  <2>1. R = {}
    BY <1>5 DEF DocumentsRefer, RowsOf
  <2>2. \A i \in R : f[i] = invoices[i].currentDue
    OBVIOUS
  <2> HIDE DEF f, R
  <2>3. Owed(n) = SumFunctionOnSet(f, R) /\ IsFiniteSet(R)
    <3>1. R = RowsOf(invoices, n)
      BY DEF R
    <3> QED
      BY <2>2, <3>1, OwedIsSum
  <2> QED
    BY <2>1, <2>3, SumStep
<1>8. ASSUME NEW c \in 1 .. n
      PROVE  customers'[c].currentBalance = OpeningBalance(c)' + Owed(c)'
  <2>1. CASE c = n
    <3>1. OpeningBalance(c)' = opening
      BY <1>4, <1>5, <2>1 DEF OpeningBalance
    <3> QED
      BY <1>2, <1>5, <1>6, <1>7, <2>1, <3>1
  <2>2. CASE c \in DOMAIN customers
    <3>1. OpeningBalance(c)' = OpeningBalance(c)
      BY <1>5, <2>2 DEF OpeningBalance
    <3>2. customers[c].currentBalance = OpeningBalance(c) + Owed(c)
      BY <2>2 DEF BalanceExplained, Owed
    <3> QED
      BY <1>5, <1>6, <2>2, <3>1, <3>2
  <2> QED
    BY <1>5, <2>1, <2>2
<1>9. \A c \in DOMAIN customers' : customers'[c].currentBalance = OpeningBalance(c)' + Owed(c)'
  BY <1>5, <1>8
<1> QED
  BY <1>9 DEF BalanceExplained, Owed

\* Every step keeps every balance explained.
LEMMA NextExplained ==
    TypeInv /\ DocumentsRefer /\ BalanceExplained /\ [Next]_vars => BalanceExplained'
<1> SUFFICES ASSUME TypeInv, DocumentsRefer, BalanceExplained, [Next]_vars
             PROVE  BalanceExplained'
  OBVIOUS
<1>0. /\ \A c \in DOMAIN customers : customers[c] \in CustomerRow /\ c \in Nat
                                   /\ customers[c].currentBalance \in Int
      /\ \A p \in DOMAIN payments : payments[p] \in PaymentRow /\ p \in Nat
      /\ Len(invoices) \in Nat /\ Len(payments) \in Nat
  <2>1. \A c \in DOMAIN customers : customers[c] \in CustomerRow /\ c \in Nat
    BY LenProperties, ElementOfSeq DEF TypeInv, TypeOK
  <2>2. \A p \in DOMAIN payments : payments[p] \in PaymentRow /\ p \in Nat
    BY LenProperties, ElementOfSeq DEF TypeInv, TypeOK
  <2>3. Len(invoices) \in Nat /\ Len(payments) \in Nat
    BY LenProperties DEF TypeInv, TypeOK
  <2>4. \A c \in DOMAIN customers : customers[c].currentBalance \in Int
    BY <2>1 DEF CustomerRow
  <2> QED
    BY <2>1, <2>2, <2>3, <2>4
<1>1. CASE \E limit, opening \in Amounts : CreateCustomer(limit, opening)
  BY <1>1, OpeningExplained, ConstantsAssumption
<1>2. ASSUME NEW c \in DOMAIN customers, NEW limit \in Amounts, NEW status \in CustomerStatuses,
             UpdateCustomer(c, limit, status)
      PROVE  BalanceExplained'
  <2>1. /\ DOMAIN customers' = DOMAIN customers
        /\ \A d \in DOMAIN customers : customers'[d].currentBalance = customers[d].currentBalance
    BY <1>2, UpdateCustomerType, ConstantsAssumption
  <2>2. \A d : OpeningBalance(d)' = OpeningBalance(d) /\ Owed(d)' = Owed(d)
    BY <1>2 DEF UpdateCustomer, OpeningBalance, Owed, RowsOf
  <2> QED
    BY <2>1, <2>2 DEF BalanceExplained, Owed
<1>3. ASSUME NEW c \in DOMAIN customers, NEW date \in Dates, NEW net \in Amounts,
             NEW paid \in Amounts, CreatePurchase(c, date, net, paid)
      PROVE  BalanceExplained'
  <2> DEFINE previous  == customers[c].currentBalance
             resulting == previous + net - paid
             invoice   == Len(invoices) + 1
             payment   == Len(payments) + 1
             bill      == NewInvoice(c, date, net, paid)
             entries   == PurchasePostings(previous, net, paid, invoice, payment)
  <2>1. /\ date \in Nat /\ net \in Nat /\ paid \in Nat /\ c \in Nat /\ previous \in Int
        /\ invoice \in Nat /\ payment \in Nat
    BY <1>0, ConstantsAssumption
  <2>2. /\ customers' = [customers EXCEPT ![c].currentBalance = resulting]
        /\ invoices' = Append(invoices, bill)
        /\ ledger' = [ledger EXCEPT ![c] = ledger[c] \o entries]
    BY <1>3 DEF CreatePurchase
  <2>3. bill \in InvoiceRow /\ bill.customerId = c /\ bill.currentDue = net - paid
    BY <2>1, StatusType DEF NewInvoice, InvoiceRow
  <2>4. resulting \in Int /\ resulting - customers[c].currentBalance = net - paid
    BY <2>1
  <2> HIDE DEF bill, entries, resulting
  <2>5. entries \in Seq(LedgerRow) /\ Len(entries) \in {1, 2}
        /\ entries[1] = Debit("PURCHASE", net, previous + net, invoice)
    <3> HIDE DEF previous, invoice, payment
    <3> USE DEF entries
    <3>1. net \in Nat /\ paid \in Nat /\ previous \in Int /\ invoice \in Nat /\ payment \in Nat
      BY <2>1
    <3>2. entries \in Seq(LedgerRow)
      BY <3>1, PurchaseEntries
    <3>3. Len(entries) \in {1, 2}
      BY <3>1, PurchasePostingsRows
    <3>4. entries[1] = Debit("PURCHASE", net, previous + net, invoice)
      BY <3>1, PurchaseEntries
    <3> HIDE DEF entries
    <3> QED
      BY <3>2, <3>3, <3>4
  <2>6. entries[1].type # "OPENING_BALANCE"
    BY <2>5 DEF Debit
  <2>7. \A d \in DOMAIN customers :
           /\ Owed(d) \in Int
           /\ Owed(d)' = IF d = c THEN Owed(d) + (resulting - customers[c].currentBalance)
                         ELSE Owed(d)
    BY <2>2, <2>3, <2>4, InvoiceMovesOwed
  <2> QED
    BY <2>2, <2>4, <2>5, <2>6, <2>7, BalanceMoves
<1>4. ASSUME NEW c \in DOMAIN customers, NEW amount \in Amounts, NEW plan \in Plans(amount),
             CreatePayment(c, amount, plan)
      PROVE  BalanceExplained'
  <2> DEFINE balance == customers[c].currentBalance - amount
             entry   == Credit("PAYMENT", amount, balance, Len(payments) + 1)
  <2>1. amount \in Nat /\ plan \in Allocations
    BY ConstantsAssumption DEF Plans, Allocations
  <2>2. /\ customers' = [customers EXCEPT ![c].currentBalance = balance]
        /\ invoices' = SettleAll(plan, 1)
        /\ ledger' = [ledger EXCEPT ![c] = Append(ledger[c], entry)]
        /\ ValidPlan(c, amount, plan)
    BY <1>4 DEF CreatePayment
  <2>3. balance \in Int /\ balance - customers[c].currentBalance = 0 - amount
    BY <1>0, <2>1
  <2>4. entry \in LedgerRow /\ entry.type # "OPENING_BALANCE"
    BY <1>0, <2>1, <2>3 DEF Credit, LedgerRow
  <2> HIDE DEF balance, entry
  <2>5. PICK entries \in Seq(LedgerRow) :
              /\ Len(entries) = 1 /\ entries[1] = entry
              /\ ledger' = [ledger EXCEPT ![c] = ledger[c] \o entries]
    BY <2>2, <2>4, AppendPosts
  <2>6. /\ SumFunction(plan) = amount
        /\ \A i \in 1 .. MaxInvoices : plan[i] > 0 => i \in RowsOf(invoices, c)
    BY <2>1, <2>2 DEF ValidPlan, Allocations, RowsOf
  <2>7. ASSUME NEW d \in DOMAIN customers
        PROVE  /\ Owed(d) \in Int
               /\ d # c => Owed(d)' = Owed(d)
               /\ d = c => Owed(d)' = Owed(d) - SumFunction(plan)
    BY <2>1, <2>2, <2>6, PlanMovesOwed
  <2>8. \A d \in DOMAIN customers :
           /\ Owed(d) \in Int
           /\ Owed(d)' = IF d = c THEN Owed(d) + (balance - customers[c].currentBalance)
                         ELSE Owed(d)
    BY <2>1, <2>3, <2>6, <2>7
  <2> QED
    BY <2>2, <2>3, <2>4, <2>5, <2>8, BalanceMoves
<1>5. ASSUME NEW p \in DOMAIN payments, ReversePayment(p)
      PROVE  BalanceExplained'
  <2> DEFINE c       == payments[p].customerId
             plan    == payments[p].allocations
             amount  == payments[p].amount
             balance == customers[c].currentBalance + amount
             entry   == ReversalPosting(amount, balance, p)
  <2>1. /\ amount \in Nat /\ plan \in Allocations /\ c \in DOMAIN customers
        /\ customers[c].currentBalance \in Int /\ p \in Nat
    BY <1>0 DEF PaymentRow, TypeInv, RowsRefer
  <2>2. /\ customers' = [customers EXCEPT ![c].currentBalance = balance]
        /\ invoices' = SettleAll(plan, -1)
        /\ ledger' = [ledger EXCEPT ![c] = Append(ledger[c], entry)]
    BY <1>5 DEF ReversePayment
  <2>3. balance \in Int /\ balance - customers[c].currentBalance = amount
    BY <2>1
  <2>4. entry \in LedgerRow /\ entry.type # "OPENING_BALANCE"
    BY <2>1, <2>3 DEF ReversalPosting, Debit, LedgerRow
  <2>5. /\ SumFunction(plan) = amount
        /\ \A i \in 1 .. MaxInvoices : plan[i] > 0 => i \in RowsOf(invoices, c)
    BY DEF DocumentsRefer
  <2> HIDE DEF balance, entry, c, plan, amount
  <2>6. PICK entries \in Seq(LedgerRow) :
              /\ Len(entries) = 1 /\ entries[1] = entry
              /\ ledger' = [ledger EXCEPT ![c] = ledger[c] \o entries]
    BY <2>1, <2>2, <2>4, AppendPosts
  <2>7. ASSUME NEW d \in DOMAIN customers
        PROVE  /\ Owed(d) \in Int
               /\ d # c => Owed(d)' = Owed(d)
               /\ d = c => Owed(d)' = Owed(d) + SumFunction(plan)
    BY <2>1, <2>2, <2>5, PlanMovesOwed
  <2>8. \A d \in DOMAIN customers :
           /\ Owed(d) \in Int
           /\ Owed(d)' = IF d = c THEN Owed(d) + (balance - customers[c].currentBalance)
                         ELSE Owed(d)
    BY <2>1, <2>3, <2>5, <2>7
  <2> QED
    BY <2>1, <2>2, <2>3, <2>4, <2>6, <2>8, BalanceMoves
<1>6. CASE UNCHANGED vars
  BY <1>6 DEF vars, BalanceExplained, OpeningBalance, RowsOf
<1> QED
  BY <1>1, <1>2, <1>3, <1>4, <1>5, <1>6 DEF Next

(***************************************************************************)
(* The balance of every customer is its opening balance and the unpaid     *)
(* part of its invoices, for any amounts and any number of rows.           *)
(***************************************************************************)
THEOREM BalanceStaysExplained == Spec => []BalanceExplained
<1>1. Init => BalanceExplained
  BY DEF Init, BalanceExplained
<1>2. TypeInv /\ DocumentsRefer /\ BalanceExplained /\ [Next]_vars => BalanceExplained'
  BY NextExplained
<1> QED
  BY <1>1, <1>2, TypeInvariance, RefersInvariance, PTL DEF Spec

(***************************************************************************)
(* Paid amounts. A step that pays on an invoice adds a payment with that   *)
(* allocation, and one that gives back reverses it.                        *)
(***************************************************************************)
\* The payments of a table that were not reversed.
ConfirmedIn(rows) == {p \in DOMAIN rows : rows[p].status = "CONFIRMED"}

\* What the confirmed payments of a table allocate to an invoice.
PaidIn(rows, i) == SumFunction([p \in ConfirmedIn(rows) |-> rows[p].allocations[i]])

\* What a payment allocates to an invoice is an amount.
LEMMA AllocatedType ==
    ASSUME NEW row \in PaymentRow, NEW i \in 1 .. MaxInvoices
    PROVE  row.allocations[i] \in Nat /\ row.allocations[i] \in Int
<1>1. row.allocations \in [1 .. MaxInvoices -> Nat]
  BY DEF PaymentRow, Allocations
<1>2. ASSUME NEW f \in [1 .. MaxInvoices -> Nat] PROVE f[i] \in Nat
  OBVIOUS
<1> DEFINE n == row.allocations[i]
<1>3. n \in Nat
  BY <1>1, <1>2
<1> HIDE DEF n
<1>4. n \in Int
  BY <1>3
<1> QED
  BY <1>3, <1>4 DEF n

\* A function with these values on the confirmed payments has this sum there.
LEMMA PaidIsSum ==
    ASSUME NEW rows \in Seq(PaymentRow), NEW i \in 1 .. MaxInvoices, NEW Q, Q = ConfirmedIn(rows),
           NEW f, \A p \in Q : f[p] = rows[p].allocations[i]
    PROVE  /\ IsFiniteSet(Q) /\ Q \subseteq DOMAIN rows
           /\ \A p \in Q : f[p] \in Int
           /\ PaidIn(rows, i) = SumFunctionOnSet(f, Q)
           /\ PaidIn(rows, i) \in Int
<1> DEFINE g == [p \in Q |-> rows[p].allocations[i]]
<1>1. Q \subseteq DOMAIN rows
  BY DEF ConfirmedIn
<1>2. DOMAIN rows = 1 .. Len(rows) /\ Len(rows) \in Nat /\ \A p \in DOMAIN rows : rows[p] \in PaymentRow
  BY LenProperties, ElementOfSeq
<1>3. IsFiniteSet(Q)
  <2>1. IsFiniteSet(1 .. Len(rows))
    BY <1>2, FS_Interval
  <2> QED
    BY <1>1, <1>2, <2>1, FS_Subset
<1>4. \A p \in Q : g[p] \in Int /\ f[p] = g[p]
  <2>1. ASSUME NEW p \in Q PROVE rows[p].allocations[i] \in Int
    BY <1>1, <1>2, AllocatedType
  <2> QED
    BY <2>1
<1>5. PaidIn(rows, i) = SumFunction(g) /\ DOMAIN g = Q
  BY DEF PaidIn
<1> HIDE DEF g
<1>6. PaidIn(rows, i) = SumFunctionOnSet(g, Q)
  BY <1>5, SumOverDomain
<1>7. SumFunctionOnSet(g, Q) \in Int
  BY <1>3, <1>4, SumRemove
<1>8. SumFunctionOnSet(f, Q) = SumFunctionOnSet(g, Q)
  BY <1>3, <1>4, SumAgree
<1> QED
  BY <1>1, <1>3, <1>4, <1>6, <1>7, <1>8

\* Two tables whose confirmed payments are the same but for one more in the
\* second: that one makes the difference.
LEMMA OneMorePaid ==
    ASSUME NEW rows \in Seq(PaymentRow), NEW more \in Seq(PaymentRow), NEW i \in 1 .. MaxInvoices,
           NEW P, P = ConfirmedIn(rows), NEW Q, Q = ConfirmedIn(more), NEW p \in Q,
           \A q : q \in P <=> q \in Q /\ q # p,
           \A q \in P : more[q].allocations[i] = rows[q].allocations[i]
    PROVE  /\ PaidIn(rows, i) \in Int /\ PaidIn(more, i) \in Int
           /\ PaidIn(more, i) = PaidIn(rows, i) + more[p].allocations[i]
<1> DEFINE f == [q \in Q |-> more[q].allocations[i]]
<1>1. /\ \A q \in Q : f[q] = more[q].allocations[i]
      /\ \A q \in P : f[q] = rows[q].allocations[i]
  OBVIOUS
<1> HIDE DEF f
<1>2. /\ IsFiniteSet(Q) /\ \A q \in Q : f[q] \in Int
      /\ PaidIn(more, i) = SumFunctionOnSet(f, Q) /\ PaidIn(more, i) \in Int
  BY <1>1, PaidIsSum
<1>3. PaidIn(rows, i) = SumFunctionOnSet(f, P) /\ PaidIn(rows, i) \in Int
  BY <1>1, PaidIsSum
<1>4. SumFunctionOnSet(f, Q) = f[p] + SumFunctionOnSet(f, Q \ {p})
  BY <1>2, SumRemove
<1>6. P = Q \ {p}
  OBVIOUS
<1>5. f[p] = more[p].allocations[i] /\ f[p] \in Int
  BY <1>1, <1>2
<1> QED
  BY <1>2, <1>3, <1>4, <1>5, <1>6

\* A confirmed payment added to the table pays what it allocates.
LEMMA AddedPays ==
    ASSUME NEW rows \in Seq(PaymentRow), NEW row \in PaymentRow, row.status = "CONFIRMED",
           NEW i \in 1 .. MaxInvoices
    PROVE  /\ PaidIn(rows, i) \in Int
           /\ PaidIn(Append(rows, row), i) = PaidIn(rows, i) + row.allocations[i]
<1> DEFINE more == Append(rows, row)
           n    == Len(rows) + 1
<1>1. /\ more \in Seq(PaymentRow) /\ DOMAIN more = 1 .. n /\ DOMAIN rows = 1 .. Len(rows)
      /\ Len(rows) \in Nat /\ more[n] = row /\ \A q \in DOMAIN rows : more[q] = rows[q]
  BY AppendProperties, LenProperties
<1> HIDE DEF more
<1>2. n \in ConfirmedIn(more) /\ ConfirmedIn(rows) = ConfirmedIn(more) \ {n}
  BY <1>1 DEF ConfirmedIn
<1>3. \A q \in ConfirmedIn(rows) : more[q].allocations[i] = rows[q].allocations[i]
  BY <1>1 DEF ConfirmedIn
<1>4. PaidIn(rows, i) \in Int /\ PaidIn(more, i) = PaidIn(rows, i) + more[n].allocations[i]
  <2> HIDE DEF n
  <2> QED
    <3>1. PICK P, Q : P = ConfirmedIn(rows) /\ Q = ConfirmedIn(more)
      OBVIOUS
    <3>2. n \in Q /\ (\A q : q \in P <=> q \in Q /\ q # n)
          /\ \A q \in P : more[q].allocations[i] = rows[q].allocations[i]
      BY <1>2, <1>3, <3>1
    <3>3. more \in Seq(PaymentRow)
      BY <1>1
    <3> QED
      BY <3>1, <3>2, <3>3, OneMorePaid
<1> QED
  BY <1>1, <1>4 DEF more

\* A reversed payment gives back what it allocated.
LEMMA ReversedGivesBack ==
    ASSUME NEW rows \in Seq(PaymentRow), NEW p \in ConfirmedIn(rows), NEW i \in 1 .. MaxInvoices
    PROVE  /\ PaidIn(rows, i) \in Int
           /\ PaidIn([rows EXCEPT ![p] = Reversed(rows[p])], i)
                  = PaidIn(rows, i) - rows[p].allocations[i]
<1> DEFINE less == [rows EXCEPT ![p] = Reversed(rows[p])]
<1>1. /\ DOMAIN rows = 1 .. Len(rows) /\ Len(rows) \in Nat /\ p \in DOMAIN rows
      /\ \A q \in DOMAIN rows : rows[q] \in PaymentRow
  BY LenProperties, ElementOfSeq DEF ConfirmedIn
<1>2. Reversed(rows[p]) \in PaymentRow /\ Reversed(rows[p]).status = "REVERSED"
  BY <1>1 DEF Reversed, PaymentRow
<1>3. /\ DOMAIN less = DOMAIN rows /\ less[p] = Reversed(rows[p])
      /\ less \in Seq(PaymentRow)
      /\ \A q \in DOMAIN rows : q # p => less[q] = rows[q]
  BY <1>1, <1>2, ExceptSeq
<1> HIDE DEF less
<1>4. ConfirmedIn(less) = ConfirmedIn(rows) \ {p}
  BY <1>1, <1>2, <1>3 DEF ConfirmedIn
<1>5. \A q \in ConfirmedIn(less) : rows[q].allocations[i] = less[q].allocations[i]
  BY <1>3, <1>4 DEF ConfirmedIn
<1>6. /\ PaidIn(rows, i) \in Int /\ PaidIn(less, i) \in Int
      /\ PaidIn(rows, i) = PaidIn(less, i) + rows[p].allocations[i]
  <2>1. PICK P, Q : P = ConfirmedIn(less) /\ Q = ConfirmedIn(rows)
    OBVIOUS
  <2>2. p \in Q /\ (\A q : q \in P <=> q \in Q /\ q # p)
        /\ \A q \in P : rows[q].allocations[i] = less[q].allocations[i]
    BY <1>4, <1>5, <2>1
  <2> QED
    BY <1>3, <2>1, <2>2, OneMorePaid
<1>7. rows[p].allocations[i] \in Int
  BY <1>1, AllocatedType
<1>8. PaidIn(less, i) = PaidIn(rows, i) - rows[p].allocations[i]
  BY <1>6, <1>7
<1> QED
  BY <1>6, <1>8 DEF less

\* No payment of the table allocates to an invoice that does not exist yet.
LEMMA NothingPaidAhead ==
    ASSUME TypeInv, DocumentsRefer, NEW i \in 1 .. MaxInvoices, i \notin DOMAIN invoices
    PROVE  PaidIn(payments, i) = 0
<1> DEFINE Q == ConfirmedIn(payments)
           f == [p \in Q |-> payments[p].allocations[i]]
<1>1. payments \in Seq(PaymentRow) /\ \A p \in DOMAIN payments : payments[p] \in PaymentRow
  BY ElementOfSeq, LenProperties DEF TypeInv, TypeOK
<1>2. \A p \in Q : f[p] = payments[p].allocations[i]
  OBVIOUS
<1>3. \A p \in Q : f[p] = 0
  <2>1. ASSUME NEW p \in Q PROVE payments[p].allocations[i] = 0
    <3>1. p \in DOMAIN payments
      BY DEF ConfirmedIn
    <3>2. payments[p].allocations[i] \in Nat
      BY <1>1, <3>1 DEF PaymentRow, Allocations
    <3> QED
      BY <3>1, <3>2 DEF DocumentsRefer, RowsOf
  <2> QED
    BY <2>1
<1> HIDE DEF f
<1>4. IsFiniteSet(Q) /\ PaidIn(payments, i) = SumFunctionOnSet(f, Q)
  <2> HIDE DEF Q
  <2> QED
    BY <1>1, <1>2, PaidIsSum DEF Q
<1> HIDE DEF Q
<1> QED
  BY <1>3, <1>4, SumZero

\* The invoices' half of PaidByAllocations.
PaidByConfirmed == \A i \in DOMAIN invoices : invoices[i].paidAmount = PaidIn(payments, i)

\* Every step keeps the paid amounts those of the confirmed payments.
LEMMA NextPaid ==
    TypeInv /\ DocumentsRefer /\ PaidByConfirmed /\ [Next]_vars => PaidByConfirmed'
<1> SUFFICES ASSUME TypeInv, DocumentsRefer, PaidByConfirmed, [Next]_vars PROVE PaidByConfirmed'
  OBVIOUS
<1>0. /\ DOMAIN invoices = 1 .. Len(invoices) /\ Len(invoices) \in Nat /\ MaxInvoices \in Nat
      /\ DOMAIN invoices \subseteq 1 .. MaxInvoices /\ invoices \in Seq(InvoiceRow)
      /\ payments \in Seq(PaymentRow)
      /\ \A p \in DOMAIN payments : payments[p] \in PaymentRow
      /\ DOMAIN payments \subseteq Nat
  BY InvoiceSetsFinite, ConstantsAssumption, ElementOfSeq, LenProperties DEF TypeInv, TypeOK
<1>1. ASSUME NEW limit \in Amounts, NEW opening \in Amounts, CreateCustomer(limit, opening)
      PROVE  PaidByConfirmed'
  BY <1>1 DEF CreateCustomer, PaidByConfirmed
<1>2. ASSUME NEW c \in DOMAIN customers, NEW limit \in Amounts, NEW status \in CustomerStatuses,
             UpdateCustomer(c, limit, status)
      PROVE  PaidByConfirmed'
  BY <1>2 DEF UpdateCustomer, PaidByConfirmed
<1>3. ASSUME NEW c \in DOMAIN customers, NEW date \in Dates, NEW net \in Amounts,
             NEW paid \in Amounts, CreatePurchase(c, date, net, paid)
      PROVE  PaidByConfirmed'
  <2> DEFINE n    == Len(invoices) + 1
             bill == NewInvoice(c, date, net, paid)
             receipt == NewPayment(c, paid, OnlyTo(n, paid))
  <2>1. /\ n \in 1 .. MaxInvoices /\ n \notin DOMAIN invoices /\ paid \in Nat
        /\ invoices' = Append(invoices, bill)
        /\ payments' = IF paid > 0 THEN Append(payments, receipt) ELSE payments
    BY <1>0, <1>3, ConstantsAssumption DEF CreatePurchase
  <2>2. bill.paidAmount = paid
    BY DEF NewInvoice
  <2>3. receipt \in PaymentRow /\ receipt.status = "CONFIRMED" /\ receipt.allocations = OnlyTo(n, paid)
    <3>1. OnlyTo(n, paid) \in Allocations
      BY <2>1 DEF OnlyTo, Allocations
    <3>2. c \in Nat
      BY LenProperties DEF TypeInv, TypeOK
    <3> QED
      BY <2>1, <3>1, <3>2 DEF NewPayment, PaymentRow
  <2>4. \A i \in 1 .. MaxInvoices : OnlyTo(n, paid)[i] = IF i = n THEN paid ELSE 0
    BY DEF OnlyTo
  <2> HIDE DEF bill, receipt
  <2>5. /\ DOMAIN invoices' = 1 .. n /\ invoices'[n] = bill
        /\ \A i \in DOMAIN invoices : invoices'[i] = invoices[i]
    BY <1>0, <2>1, AppendProperties
  <2>6. ASSUME NEW i \in DOMAIN invoices' PROVE invoices'[i].paidAmount = PaidIn(payments', i)
    <3>1. i \in 1 .. MaxInvoices /\ (i = n \/ (i # n /\ i \in DOMAIN invoices))
      BY <1>0, <2>1, <2>5
    <3>2. PaidIn(payments, i) \in Int
          /\ PaidIn(payments', i) = PaidIn(payments, i) + (IF i = n THEN paid ELSE 0)
      <4>1. PaidIn(payments, i) \in Int
            /\ PaidIn(Append(payments, receipt), i) = PaidIn(payments, i) + receipt.allocations[i]
        BY <1>0, <2>3, <3>1, AddedPays
      <4>2. CASE paid > 0
        BY <2>1, <2>3, <2>4, <3>1, <4>1, <4>2
      <4>3. CASE paid = 0
        BY <2>1, <3>1, <4>1, <4>3
      <4> QED
        BY <2>1, <4>2, <4>3
    <3>3. CASE i = n
      <4>1. PaidIn(payments, i) = 0
        BY <2>1, <3>1, <3>3, NothingPaidAhead
      <4> QED
        BY <2>1, <2>2, <2>5, <3>2, <3>3, <4>1
    <3>4. CASE i # n /\ i \in DOMAIN invoices
      BY <2>5, <3>2, <3>4 DEF PaidByConfirmed
    <3> QED
      BY <3>1, <3>3, <3>4
  <2> QED
    BY <2>6 DEF PaidByConfirmed, PaidIn, ConfirmedIn
<1>4. ASSUME NEW c \in DOMAIN customers, NEW amount \in Amounts, NEW plan \in Plans(amount),
             CreatePayment(c, amount, plan)
      PROVE  PaidByConfirmed'
  <2> DEFINE receipt == NewPayment(c, amount, plan)
  <2>1. /\ plan \in Allocations /\ amount \in Nat /\ c \in Nat
        /\ payments' = Append(payments, receipt) /\ invoices' = SettleAll(plan, 1)
    BY <1>4, ConstantsAssumption, LenProperties DEF Plans, Allocations, CreatePayment, TypeInv, TypeOK
  <2>2. receipt \in PaymentRow /\ receipt.status = "CONFIRMED" /\ receipt.allocations = plan
    BY <2>1 DEF NewPayment, PaymentRow
  <2> HIDE DEF receipt
  <2>3. ASSUME NEW i \in DOMAIN invoices' PROVE invoices'[i].paidAmount = PaidIn(payments', i)
    <3>1. i \in DOMAIN invoices /\ invoices'[i].paidAmount = invoices[i].paidAmount + plan[i]
      BY <2>1, SettleAllEffect
    <3>2. PaidIn(payments', i) = PaidIn(payments, i) + plan[i]
      BY <1>0, <2>1, <2>2, <3>1, AddedPays
    <3> QED
      BY <3>1, <3>2 DEF PaidByConfirmed
  <2> QED
    BY <2>3 DEF PaidByConfirmed, PaidIn, ConfirmedIn
<1>5. ASSUME NEW p \in DOMAIN payments, ReversePayment(p)
      PROVE  PaidByConfirmed'
  <2> DEFINE plan == payments[p].allocations
  <2>1. /\ plan \in Allocations /\ p \in ConfirmedIn(payments)
        /\ payments' = [payments EXCEPT ![p] = Reversed(payments[p])]
        /\ invoices' = SettleAll(plan, -1)
    BY <1>0, <1>5 DEF ReversePayment, Reversible, ConfirmedIn, PaymentRow
  <2>2. ASSUME NEW i \in DOMAIN invoices' PROVE invoices'[i].paidAmount = PaidIn(payments', i)
    <3>1. i \in DOMAIN invoices /\ invoices'[i].paidAmount = invoices[i].paidAmount - plan[i]
      <4> HIDE DEF plan
      <4> QED
        BY <2>1, SettleAllEffect
    <3>2. PaidIn(payments', i) = PaidIn(payments, i) - plan[i]
      BY <1>0, <2>1, <3>1, ReversedGivesBack
    <3> QED
      BY <3>1, <3>2 DEF PaidByConfirmed
  <2> QED
    BY <2>2 DEF PaidByConfirmed, PaidIn, ConfirmedIn
<1>6. CASE UNCHANGED vars
  BY <1>6 DEF vars, PaidByConfirmed
<1> QED
  BY <1>1, <1>2, <1>3, <1>4, <1>5, <1>6 DEF Next

(***************************************************************************)
(* What is paid on an invoice is what the confirmed payments allocate to   *)
(* it, and a payment allocates its amount to invoices of the payer.        *)
(***************************************************************************)
THEOREM PaidStaysAllocated == Spec => []PaidByAllocations
<1>1. Init => PaidByConfirmed
  BY DEF Init, PaidByConfirmed
<1>2. TypeInv /\ DocumentsRefer /\ PaidByConfirmed /\ [Next]_vars => PaidByConfirmed'
  BY NextPaid
<1>3. TypeInv /\ DocumentsRefer /\ PaidByConfirmed => PaidByAllocations
  BY InvoiceSetsFinite DEF PaidByConfirmed, PaidIn, ConfirmedIn, DocumentsRefer, PaidByAllocations, RowsOf
<1> QED
  BY <1>1, <1>2, <1>3, TypeInvariance, RefersInvariance, PTL DEF Spec

(***************************************************************************)
(* Postings. A step adds entries for documents that had none, and leaves   *)
(* the entries of all others alone.                                        *)
(***************************************************************************)
\* Where the entries of a concatenation come from.
LEMMA ConcatRows ==
    ASSUME NEW S, NEW s \in Seq(S), NEW t \in Seq(S)
    PROVE  /\ DOMAIN s = 1 .. Len(s) /\ Len(s) \in Nat /\ DOMAIN t = 1 .. Len(t) /\ Len(t) \in Nat
           /\ DOMAIN (s \o t) = 1 .. Len(s) + Len(t)
           /\ \A n \in DOMAIN s : n \in DOMAIN (s \o t) /\ (s \o t)[n] = s[n]
           /\ \A k \in DOMAIN t : Len(s) + k \in DOMAIN (s \o t) /\ (s \o t)[Len(s) + k] = t[k]
           /\ \A n \in DOMAIN (s \o t) : n \in DOMAIN s \/ \E k \in DOMAIN t : n = Len(s) + k
<1>1. /\ Len(s) \in Nat /\ Len(t) \in Nat /\ DOMAIN s = 1 .. Len(s) /\ DOMAIN t = 1 .. Len(t)
  BY LenProperties
<1>2. /\ Len(s \o t) = Len(s) + Len(t) /\ s \o t \in Seq(S)
      /\ \A i \in 1 .. Len(s) + Len(t) :
            (s \o t)[i] = IF i <= Len(s) THEN s[i] ELSE t[i - Len(s)]
  BY ConcatProperties
<1>3. DOMAIN (s \o t) = 1 .. Len(s) + Len(t)
  BY <1>2, LenProperties
<1> DEFINE l == Len(s)
           m == Len(t)
           st == s \o t
<1>4. /\ l \in Nat /\ m \in Nat
      /\ \A i \in 1 .. l + m : st[i] = IF i <= l THEN s[i] ELSE t[i - l]
  BY <1>1, <1>2
<1> HIDE DEF l, m, st
<1>5. \A n \in 1 .. l : n \in 1 .. l + m /\ st[n] = s[n]
  BY <1>4
<1>6. ASSUME NEW k \in 1 .. m PROVE l + k \in 1 .. l + m /\ st[l + k] = t[k]
  <2>1. l + k \in 1 .. l + m /\ ~ (l + k <= l) /\ (l + k) - l = k
    BY <1>4
  <2> QED
    BY <1>4, <2>1
<1>7. ASSUME NEW n \in 1 .. l + m PROVE n \in 1 .. l \/ \E k \in 1 .. m : n = l + k
  <2>1. CASE n <= l
    BY <1>4, <2>1
  <2>2. CASE n > l
    <3>1. n - l \in 1 .. m /\ n = l + (n - l)
      BY <1>4, <2>2
    <3> QED
      BY <3>1
  <2> QED
    BY <1>4, <2>1, <2>2
<1> QED
  BY <1>1, <1>3, <1>5, <1>6, <1>7 DEF l, m, st

\* Postings and PostedOnce over the entries of one account.
PostingsIn(entries, type, source) ==
    {n \in DOMAIN entries : entries[n].type = type /\ entries[n].sourceId = source}

PostedOnceIn(entries, type, source, amount) ==
    \E n \in DOMAIN entries : /\ PostingsIn(entries, type, source) = {n}
                              /\ entries[n].debit + entries[n].credit = amount

\* New entries that are not of a document leave its postings alone.
LEMMA OthersStayPosted ==
    ASSUME NEW entries \in Seq(LedgerRow), NEW added \in Seq(LedgerRow), NEW type, NEW source,
           PostingsIn(added, type, source) = {}
    PROVE  /\ PostingsIn(entries \o added, type, source) = PostingsIn(entries, type, source)
           /\ \A amount : PostedOnceIn(entries, type, source, amount) =>
                             PostedOnceIn(entries \o added, type, source, amount)
<1> DEFINE all == entries \o added
<1>1. /\ \A n \in DOMAIN entries : n \in DOMAIN all /\ all[n] = entries[n]
      /\ \A n \in DOMAIN all : n \in DOMAIN entries
                               \/ \E k \in DOMAIN added : n = Len(entries) + k
      /\ \A k \in DOMAIN added : all[Len(entries) + k] = added[k]
  BY ConcatRows
<1> HIDE DEF all
<1>2. \A k \in DOMAIN added : ~ (added[k].type = type /\ added[k].sourceId = source)
  BY DEF PostingsIn
<1>3. PostingsIn(all, type, source) = PostingsIn(entries, type, source)
  <2>1. \A n \in DOMAIN all : all[n].type = type /\ all[n].sourceId = source => n \in DOMAIN entries
    BY <1>1, <1>2
  <2> QED
    BY <1>1, <2>1 DEF PostingsIn
<1>4. \A amount : PostedOnceIn(entries, type, source, amount) =>
                     PostedOnceIn(all, type, source, amount)
  BY <1>1, <1>3 DEF PostedOnceIn
<1> QED
  BY <1>3, <1>4 DEF all

\* One entry for a document that had none posts it once.
LEMMA NewlyPosted ==
    ASSUME NEW entries \in Seq(LedgerRow), NEW added \in Seq(LedgerRow), NEW type, NEW source,
           PostingsIn(entries, type, source) = {}, NEW k \in DOMAIN added,
           PostingsIn(added, type, source) = {k}
    PROVE  PostedOnceIn(entries \o added, type, source, added[k].debit + added[k].credit)
<1> DEFINE all == entries \o added
           l   == Len(entries)
<1>1. /\ \A n \in DOMAIN entries : n \in DOMAIN all /\ all[n] = entries[n]
      /\ \A n \in DOMAIN all : n \in DOMAIN entries \/ \E j \in DOMAIN added : n = l + j
      /\ \A j \in DOMAIN added : l + j \in DOMAIN all /\ all[l + j] = added[j]
  BY ConcatRows
<1> HIDE DEF all, l
<1>2. \A j \in DOMAIN added : added[j].type = type /\ added[j].sourceId = source <=> j = k
  BY DEF PostingsIn
<1>3. \A n \in DOMAIN entries : ~ (entries[n].type = type /\ entries[n].sourceId = source)
  BY DEF PostingsIn
<1>4. \A n \in DOMAIN all : all[n].type = type /\ all[n].sourceId = source <=> n = l + k
  <2>1. ASSUME NEW n \in DOMAIN all, all[n].type = type, all[n].sourceId = source PROVE n = l + k
    BY <1>1, <1>2, <1>3, <2>1
  <2>2. all[l + k].type = type /\ all[l + k].sourceId = source
    BY <1>1, <1>2
  <2> QED
    BY <2>1, <2>2
<1>5. PostingsIn(all, type, source) = {l + k} /\ l + k \in DOMAIN all
  BY <1>1, <1>4 DEF PostingsIn
<1> DEFINE m == l + k
<1>6. all[m].debit + all[m].credit = added[k].debit + added[k].credit
  BY <1>1
<1> QED
  BY <1>5, <1>6 DEF PostedOnceIn, all

\* A single entry is found under its own type and source only.
LEMMA SinglePosting ==
    ASSUME NEW added \in Seq(LedgerRow), Len(added) = 1, NEW type, NEW source
    PROVE  /\ DOMAIN added = {1}
           /\ PostingsIn(added, type, source) =
                 IF added[1].type = type /\ added[1].sourceId = source THEN {1} ELSE {}
<1>1. DOMAIN added = 1 .. 1
  BY LenProperties
<1>2. DOMAIN added = {1}
  BY <1>1
<1> QED
  BY <1>2 DEF PostingsIn

\* Entries that post a purchase, and the payment of what was paid on the spot.
PostsPurchase(entries, net, paid, invoice, payment) ==
    /\ entries \in Seq(LedgerRow) /\ 1 \in DOMAIN entries
    /\ PostingsIn(entries, "PURCHASE", invoice) = {1}
    /\ entries[1].debit + entries[1].credit = net
    /\ \A j : j # invoice => PostingsIn(entries, "PURCHASE", j) = {}
    /\ paid > 0 => /\ 2 \in DOMAIN entries
                   /\ PostingsIn(entries, "PAYMENT", payment) = {2}
                   /\ entries[2].debit + entries[2].credit = paid
    /\ \A p : (paid > 0 => p # payment) => PostingsIn(entries, "PAYMENT", p) = {}
    /\ \A p : PostingsIn(entries, "REVERSAL", p) = {}
    /\ \A n \in DOMAIN entries :
          \/ entries[n].type = "PURCHASE" /\ entries[n].sourceId = invoice
          \/ entries[n].type = "PAYMENT" /\ entries[n].sourceId = payment /\ paid > 0

\* The entries of a purchase do.
LEMMA PurchaseEntriesPost ==
    ASSUME NEW previous \in Int, NEW net \in Nat, NEW paid \in Nat,
           NEW invoice \in Nat, NEW payment \in Nat
    PROVE  PostsPurchase(PurchasePostings(previous, net, paid, invoice, payment),
                         net, paid, invoice, payment)
<1> DEFINE entries == PurchasePostings(previous, net, paid, invoice, payment)
           a == Debit("PURCHASE", net, previous + net, invoice)
           b == Credit("PAYMENT", paid, previous + net - paid, payment)
<1>1. /\ a.type = "PURCHASE" /\ a.sourceId = invoice /\ a.debit + a.credit = net
      /\ b.type = "PAYMENT" /\ b.sourceId = payment /\ b.debit + b.credit = paid
  BY DEF Debit, Credit
<1>2. a \in LedgerRow /\ b \in LedgerRow
  BY DEF Debit, Credit, LedgerRow
<1>6. entries = <<a>> \o IF paid > 0 THEN <<b>> ELSE <<>>
  BY DEF PurchasePostings
<1> HIDE DEF a, b, entries
<1>3. /\ entries \in Seq(LedgerRow)
      /\ entries[1] = a
      /\ Len(entries) = IF paid > 0 THEN 2 ELSE 1
      /\ paid > 0 => entries[2] = b
  BY <1>2, <1>6, OneOrTwo
<1>4. ASSUME paid > 0 PROVE PostsPurchase(entries, net, paid, invoice, payment)
  <2>1. DOMAIN entries = {1, 2} /\ entries[1] = a /\ entries[2] = b
    <3>1. DOMAIN entries = 1 .. 2
      BY <1>3, <1>4, LenProperties
    <3> QED
      BY <1>3, <1>4, <3>1
  <2> QED
    BY <1>1, <1>3, <1>4, <2>1 DEF PostingsIn, PostsPurchase
<1>5. ASSUME paid = 0 PROVE PostsPurchase(entries, net, paid, invoice, payment)
  <2>1. DOMAIN entries = {1} /\ entries[1] = a
    <3>1. DOMAIN entries = 1 .. 1
      BY <1>3, <1>5, LenProperties
    <3> QED
      BY <1>3, <3>1
  <2> QED
    BY <1>1, <1>3, <1>5, <2>1 DEF PostingsIn, PostsPurchase
<1> QED
  BY <1>4, <1>5 DEF entries

\* The postings of a payment: one of its amount, and one of its reversal.
PaymentPosted(entries, payment, p) ==
    /\ PostedOnceIn(entries, "PAYMENT", p, payment.amount)
    /\ IF payment.status = "REVERSED"
       THEN PostedOnceIn(entries, "REVERSAL", p, payment.amount)
       ELSE PostingsIn(entries, "REVERSAL", p) = {}

\* An entry of customer c names one of its invoices or payments, or opens the account.
EntryRefers(entry, n, c, bills, receipts) ==
    CASE entry.type = "PURCHASE" -> entry.sourceId \in bills
      [] entry.type \in {"PAYMENT", "REVERSAL"} -> entry.sourceId \in receipts
      [] OTHER -> n = 1 /\ entry.sourceId = c

\* EveryDocumentPostedOnce, part by part.
InvoicesPosted == \A i \in DOMAIN invoices :
    PostedOnceIn(ledger[invoices[i].customerId], "PURCHASE", i, invoices[i].grandTotal)

PaymentsPosted == \A p \in DOMAIN payments :
    PaymentPosted(ledger[payments[p].customerId], payments[p], p)

EntriesRefer == \A c \in DOMAIN ledger : \A n \in DOMAIN ledger[c] :
    EntryRefers(ledger[c][n], n, c, RowsOf(invoices, c), RowsOf(payments, c))

Posted == InvoicesPosted /\ PaymentsPosted /\ EntriesRefer

\* Together they are the property.
LEMMA PostedIsProperty == Posted <=> EveryDocumentPostedOnce
<1>1. InvoicesPosted <=> \A i \in DOMAIN invoices :
          PostedOnce(invoices[i].customerId, "PURCHASE", i, invoices[i].grandTotal)
  BY DEF InvoicesPosted, PostedOnce, PostedOnceIn, Postings, PostingsIn
<1>2. PaymentsPosted <=> \A p \in DOMAIN payments :
          /\ PostedOnce(payments[p].customerId, "PAYMENT", p, payments[p].amount)
          /\ IF payments[p].status = "REVERSED"
             THEN PostedOnce(payments[p].customerId, "REVERSAL", p, payments[p].amount)
             ELSE Postings(payments[p].customerId, "REVERSAL", p) = {}
  BY DEF PaymentsPosted, PaymentPosted, PostedOnce, PostedOnceIn, Postings, PostingsIn
<1>3. EntriesRefer <=> \A c \in DOMAIN ledger : \A n \in DOMAIN ledger[c] :
          CASE ledger[c][n].type = "PURCHASE" -> ledger[c][n].sourceId \in RowsOf(invoices, c)
            [] ledger[c][n].type \in {"PAYMENT", "REVERSAL"} ->
                   ledger[c][n].sourceId \in RowsOf(payments, c)
            [] OTHER -> n = 1 /\ ledger[c][n].sourceId = c
  BY DEF EntriesRefer, EntryRefers
<1> QED
  BY <1>1, <1>2, <1>3 DEF Posted, EveryDocumentPostedOnce

\* An entry that refers still does when its customer has more documents.
LEMMA EntryStillRefers ==
    ASSUME NEW entry, NEW n, NEW c, NEW bills, NEW receipts, NEW moreBills, NEW moreReceipts,
           EntryRefers(entry, n, c, bills, receipts),
           bills \subseteq moreBills, receipts \subseteq moreReceipts
    PROVE  EntryRefers(entry, n, c, moreBills, moreReceipts)
<1>1. CASE entry.type = "PURCHASE"
  BY <1>1 DEF EntryRefers
<1>2. CASE entry.type \in {"PAYMENT", "REVERSAL"}
  BY <1>2 DEF EntryRefers
<1>3. CASE entry.type \notin {"PURCHASE", "PAYMENT", "REVERSAL"}
  BY <1>3 DEF EntryRefers
<1> QED
  BY <1>1, <1>2, <1>3

\* Nothing is posted for a document that is not there.
LEMMA AbsentUnposted ==
    ASSUME TypeInv, EntriesRefer, NEW c \in DOMAIN ledger
    PROVE  /\ \A i : i \notin DOMAIN invoices => PostingsIn(ledger[c], "PURCHASE", i) = {}
           /\ \A p : p \notin DOMAIN payments => /\ PostingsIn(ledger[c], "PAYMENT", p) = {}
                                                 /\ PostingsIn(ledger[c], "REVERSAL", p) = {}
<1>1. \A n \in DOMAIN ledger[c] :
         EntryRefers(ledger[c][n], n, c, RowsOf(invoices, c), RowsOf(payments, c))
  BY DEF EntriesRefer
<1>2. RowsOf(invoices, c) \subseteq DOMAIN invoices /\ RowsOf(payments, c) \subseteq DOMAIN payments
  BY DEF RowsOf
<1>3. ASSUME NEW i, i \notin DOMAIN invoices, NEW n \in PostingsIn(ledger[c], "PURCHASE", i)
      PROVE  FALSE
  BY <1>1, <1>2, <1>3 DEF PostingsIn, EntryRefers
<1>4. ASSUME NEW p, p \notin DOMAIN payments, NEW type \in {"PAYMENT", "REVERSAL"},
             NEW n \in PostingsIn(ledger[c], type, p)
      PROVE  FALSE
  <2>1. /\ n \in DOMAIN ledger[c] /\ ledger[c][n].type = type /\ ledger[c][n].sourceId = p
    BY DEF PostingsIn
  <2>2. ledger[c][n].type \in {"PAYMENT", "REVERSAL"} /\ ledger[c][n].type # "PURCHASE"
    BY <2>1
  <2>3. ledger[c][n].sourceId \in RowsOf(payments, c)
    BY <1>1, <2>1, <2>2 DEF EntryRefers
  <2> QED
    BY <1>2, <1>4, <2>1, <2>3
<1> QED
  BY <1>3, <1>4

\* What appending `added` to the ledger of c does to every account.
LEMMA PostingEffect ==
    ASSUME TypeInv, NEW c \in DOMAIN ledger, NEW added \in Seq(LedgerRow),
           ledger' = [ledger EXCEPT ![c] = ledger[c] \o added]
    PROVE  /\ DOMAIN ledger' = DOMAIN ledger
           /\ \A d \in DOMAIN ledger : /\ ledger[d] \in Seq(LedgerRow)
                                       /\ d # c => ledger'[d] = ledger[d]
           /\ ledger'[c] = ledger[c] \o added
  BY ElementOfSeq, LenProperties DEF TypeInv, TypeOK

\* A document that the new entries do not name stays posted as it was.
LEMMA DocumentStaysPosted ==
    ASSUME TypeInv, NEW c \in DOMAIN ledger, NEW added \in Seq(LedgerRow),
           ledger' = [ledger EXCEPT ![c] = ledger[c] \o added],
           NEW d \in DOMAIN ledger, NEW type, NEW source, PostingsIn(added, type, source) = {}
    PROVE  /\ \A n : n \in PostingsIn(ledger'[d], type, source)
                        <=> n \in PostingsIn(ledger[d], type, source)
           /\ \A amount : PostedOnceIn(ledger[d], type, source, amount) =>
                             PostedOnceIn(ledger'[d], type, source, amount)
<1>1. /\ ledger[d] \in Seq(LedgerRow) /\ (d # c => ledger'[d] = ledger[d])
      /\ ledger'[c] = ledger[c] \o added /\ ledger[c] \in Seq(LedgerRow)
  BY PostingEffect
<1>2. CASE d = c
  <2>1. PostingsIn(ledger[c] \o added, type, source) = PostingsIn(ledger[c], type, source)
    BY <1>1, OthersStayPosted
  <2>2. \A amount : PostedOnceIn(ledger[c], type, source, amount) =>
                       PostedOnceIn(ledger[c] \o added, type, source, amount)
    BY <1>1, OthersStayPosted
  <2> QED
    BY <1>1, <1>2, <2>1, <2>2
<1>3. CASE d # c
  BY <1>1, <1>3
<1> QED
  BY <1>2, <1>3

\* Entries that refer, added to the ledger of c, keep all of them referring.
LEMMA EntriesKeepReferring ==
    ASSUME TypeInv, EntriesRefer, NEW c \in DOMAIN ledger, NEW added \in Seq(LedgerRow),
           ledger' = [ledger EXCEPT ![c] = ledger[c] \o added],
           \A d : RowsOf(invoices, d) \subseteq RowsOf(invoices', d),
           \A d : RowsOf(payments, d) \subseteq RowsOf(payments', d),
           \A k \in DOMAIN added :
              \/ added[k].type = "PURCHASE" /\ added[k].sourceId \in RowsOf(invoices', c)
              \/ added[k].type \in {"PAYMENT", "REVERSAL"}
                 /\ added[k].sourceId \in RowsOf(payments', c)
    PROVE  EntriesRefer'
<1>1. /\ DOMAIN ledger' = DOMAIN ledger
      /\ \A d \in DOMAIN ledger : ledger[d] \in Seq(LedgerRow) /\ (d # c => ledger'[d] = ledger[d])
      /\ ledger'[c] = ledger[c] \o added
  BY PostingEffect
<1>2. ASSUME NEW d \in DOMAIN ledger, NEW n \in DOMAIN ledger[d]
      PROVE  EntryRefers(ledger[d][n], n, d, RowsOf(invoices', d), RowsOf(payments', d))
  <2>1. EntryRefers(ledger[d][n], n, d, RowsOf(invoices, d), RowsOf(payments, d))
    BY DEF EntriesRefer
  <2>2. RowsOf(invoices, d) \subseteq RowsOf(invoices', d)
        /\ RowsOf(payments, d) \subseteq RowsOf(payments', d)
    OBVIOUS
  <2> QED
    BY <2>1, <2>2, EntryStillRefers
<1>3. ASSUME NEW d \in DOMAIN ledger', NEW n \in DOMAIN ledger'[d]
      PROVE  EntryRefers(ledger'[d][n], n, d, RowsOf(invoices', d), RowsOf(payments', d))
  <2>1. CASE d # c
    BY <1>1, <1>2, <2>1
  <2>2. CASE d = c
    <3> DEFINE old == ledger[c]
               all == ledger'[c]
    <3>1. /\ n \in DOMAIN old \/ \E k \in DOMAIN added : n = Len(old) + k
          /\ \A m \in DOMAIN old : all[m] = old[m]
          /\ \A k \in DOMAIN added : all[Len(old) + k] = added[k]
      <4>1. /\ \A m \in DOMAIN (old \o added) :
                  m \in DOMAIN old \/ \E k \in DOMAIN added : m = Len(old) + k
            /\ \A m \in DOMAIN old : (old \o added)[m] = old[m]
            /\ \A k \in DOMAIN added : (old \o added)[Len(old) + k] = added[k]
        BY <1>1, ConcatRows
      <4>2. all = old \o added /\ n \in DOMAIN all
        BY <1>1, <2>2
      <4> HIDE DEF old, all
      <4> QED
        BY <4>1, <4>2
    <3>2. CASE n \in DOMAIN old
      BY <1>2, <2>2, <3>1, <3>2
    <3>3. ASSUME NEW k \in DOMAIN added, n = Len(old) + k
          PROVE  EntryRefers(all[n], n, c, RowsOf(invoices', c), RowsOf(payments', c))
      <4>1. all[n] = added[k]
        BY <3>1, <3>3
      <4>2. \/ added[k].type = "PURCHASE" /\ added[k].sourceId \in RowsOf(invoices', c)
            \/ added[k].type \in {"PAYMENT", "REVERSAL"}
               /\ added[k].sourceId \in RowsOf(payments', c)
        OBVIOUS
      <4>3. EntryRefers(added[k], n, c, RowsOf(invoices', c), RowsOf(payments', c))
        BY <4>2 DEF EntryRefers
      <4> QED
        BY <4>1, <4>3
    <3> QED
      BY <2>2, <3>1, <3>2, <3>3
  <2> QED
    BY <2>1, <2>2
<1> QED
  BY <1>3 DEF EntriesRefer, RowsOf

\* The rows of the tables, where the next step finds them.
LEMMA TableRows ==
    ASSUME TypeInv
    PROVE  /\ DOMAIN invoices = 1 .. Len(invoices) /\ Len(invoices) \in Nat
           /\ DOMAIN payments = 1 .. Len(payments) /\ Len(payments) \in Nat
           /\ DOMAIN customers = 1 .. Len(customers) /\ Len(customers) \in Nat
           /\ DOMAIN ledger = DOMAIN customers
           /\ \A i \in DOMAIN invoices : invoices[i] \in InvoiceRow
           /\ \A p \in DOMAIN payments : payments[p] \in PaymentRow
                                         /\ payments[p].customerId \in DOMAIN ledger
           /\ \A c \in DOMAIN ledger : ledger[c] \in Seq(LedgerRow)
                                       /\ customers[c].currentBalance \in Int
<1>1. \A c \in DOMAIN customers : customers[c] \in CustomerRow
  BY ElementOfSeq, LenProperties DEF TypeInv, TypeOK
<1>2. \A c \in DOMAIN customers : customers[c].currentBalance \in Int
  BY <1>1 DEF CustomerRow
<1> QED
  BY <1>2, ElementOfSeq, LenProperties DEF TypeInv, TypeOK, RowsRefer

\* A payment that goes from confirmed to confirmed, with none of its postings added.
LEMMA PaymentStaysPosted ==
    ASSUME TypeInv, PaymentsPosted, NEW c \in DOMAIN ledger, NEW added \in Seq(LedgerRow),
           ledger' = [ledger EXCEPT ![c] = ledger[c] \o added],
           NEW p \in DOMAIN payments, payments'[p] = payments[p],
           PostingsIn(added, "PAYMENT", p) = {}, PostingsIn(added, "REVERSAL", p) = {}
    PROVE  PaymentPosted(ledger'[payments'[p].customerId], payments'[p], p)
<1>1. payments[p].customerId \in DOMAIN ledger
  BY TableRows
<1>2. PaymentPosted(ledger[payments[p].customerId], payments[p], p)
  BY DEF PaymentsPosted
<1>3. /\ \A amount : PostedOnceIn(ledger[payments[p].customerId], "PAYMENT", p, amount) =>
                        PostedOnceIn(ledger'[payments[p].customerId], "PAYMENT", p, amount)
      /\ \A amount : PostedOnceIn(ledger[payments[p].customerId], "REVERSAL", p, amount) =>
                        PostedOnceIn(ledger'[payments[p].customerId], "REVERSAL", p, amount)
      /\ PostingsIn(ledger'[payments[p].customerId], "REVERSAL", p)
             = PostingsIn(ledger[payments[p].customerId], "REVERSAL", p)
  <2> DEFINE d == payments[p].customerId
  <2>1. d \in DOMAIN ledger
    BY <1>1
  <2> HIDE DEF d
  <2>2. /\ \A amount : PostedOnceIn(ledger[d], "PAYMENT", p, amount) =>
                          PostedOnceIn(ledger'[d], "PAYMENT", p, amount)
    BY <2>1, DocumentStaysPosted
  <2>3. \A amount : PostedOnceIn(ledger[d], "REVERSAL", p, amount) =>
                       PostedOnceIn(ledger'[d], "REVERSAL", p, amount)
    BY <2>1, DocumentStaysPosted
  <2>4. \A n : n \in PostingsIn(ledger'[d], "REVERSAL", p)
                <=> n \in PostingsIn(ledger[d], "REVERSAL", p)
    BY <2>1, DocumentStaysPosted
  <2> QED
    BY <2>2, <2>3, <2>4 DEF d
<1> QED
  BY <1>2, <1>3 DEF PaymentPosted

\* An invoice of the same customer and total, with no posting of it added.
LEMMA InvoiceStaysPosted ==
    ASSUME TypeInv, DocumentsRefer, InvoicesPosted,
           NEW c \in DOMAIN ledger, NEW added \in Seq(LedgerRow),
           ledger' = [ledger EXCEPT ![c] = ledger[c] \o added],
           NEW i \in DOMAIN invoices, invoices'[i].customerId = invoices[i].customerId,
           invoices'[i].grandTotal = invoices[i].grandTotal,
           PostingsIn(added, "PURCHASE", i) = {}
    PROVE  PostedOnceIn(ledger'[invoices'[i].customerId], "PURCHASE", i, invoices'[i].grandTotal)
<1> DEFINE d == invoices[i].customerId
<1>1. d \in DOMAIN ledger
  BY TableRows DEF DocumentsRefer
<1>2. PostedOnceIn(ledger[d], "PURCHASE", i, invoices[i].grandTotal)
  BY DEF InvoicesPosted
<1> HIDE DEF d
<1>3. \A amount : PostedOnceIn(ledger[d], "PURCHASE", i, amount) =>
                     PostedOnceIn(ledger'[d], "PURCHASE", i, amount)
  BY <1>1, DocumentStaysPosted
<1> QED
  BY <1>2, <1>3 DEF d

\* A new customer brings a ledger of its own and no document.
LEMMA OpeningPosts ==
    ASSUME TypeInv, DocumentsRefer, Posted, NEW limit \in Amounts, NEW opening \in Amounts,
           CreateCustomer(limit, opening)
    PROVE  Posted'
<1> DEFINE n == Len(customers) + 1
           first == Debit("OPENING_BALANCE", opening, opening, n)
           entries == IF opening > 0 THEN <<first>> ELSE <<>>
<1>1. /\ ledger' = Append(ledger, entries) /\ UNCHANGED <<invoices, payments>>
      /\ opening \in Nat
  BY ConstantsAssumption DEF CreateCustomer
<1>2. first \in LedgerRow /\ first.type = "OPENING_BALANCE" /\ first.sourceId = n
  BY <1>1, LenProperties DEF Debit, LedgerRow, TypeInv, TypeOK
<1> HIDE DEF first
<1>3. /\ entries \in Seq(LedgerRow)
      /\ \A k \in DOMAIN entries : k = 1 /\ entries[k] = first
  BY <1>2, OneRow
<1> HIDE DEF entries
<1>4. /\ DOMAIN ledger = 1 .. Len(customers) /\ DOMAIN ledger' = 1 .. n /\ ledger'[n] = entries
      /\ Len(customers) \in Nat
      /\ \A c \in DOMAIN ledger : ledger'[c] = ledger[c]
  <2>1. /\ ledger \in Seq(Seq(LedgerRow)) /\ DOMAIN ledger = 1 .. Len(customers)
        /\ Len(customers) \in Nat
    BY TableRows DEF TypeInv, TypeOK
  <2>2. Len(ledger) \in Nat /\ DOMAIN ledger = 1 .. Len(ledger)
    BY <2>1, LenProperties
  <2>3. Len(ledger) = Len(customers)
    BY <2>1, <2>2
  <2>4. /\ Len(ledger') = n /\ DOMAIN ledger' = 1 .. Len(ledger')
        /\ ledger'[n] = entries /\ \A c \in 1 .. Len(ledger) : ledger'[c] = ledger[c]
    BY <1>1, <1>3, <2>1, <2>3, AppendProperties, LenProperties
  <2> QED
    BY <2>1, <2>2, <2>3, <2>4
<1>5. InvoicesPosted'
  BY <1>1, <1>4, TableRows DEF InvoicesPosted, DocumentsRefer, Posted
<1>6. PaymentsPosted'
  BY <1>1, <1>4, TableRows DEF PaymentsPosted, Posted
<1>7. EntriesRefer'
  <2>1. \A c : RowsOf(invoices, c)' = RowsOf(invoices, c) /\ RowsOf(payments, c)' = RowsOf(payments, c)
    BY <1>1 DEF RowsOf
  <2>2. ASSUME NEW c \in DOMAIN ledger', NEW k \in DOMAIN ledger'[c]
        PROVE  EntryRefers(ledger'[c][k], k, c, RowsOf(invoices, c), RowsOf(payments, c))
    <3>1. CASE c \in DOMAIN ledger
      BY <1>4, <3>1 DEF EntriesRefer, Posted
    <3>2. CASE c = n
      <4>1. k = 1 /\ ledger'[c][k] = first
        BY <1>3, <1>4, <3>2
      <4> QED
        BY <1>2, <3>2, <4>1 DEF EntryRefers
    <3> QED
      BY <1>4, <3>1, <3>2
  <2> QED
    BY <2>1, <2>2 DEF EntriesRefer
<1> QED
  BY <1>5, <1>6, <1>7 DEF Posted

\* A purchase posts its invoice and, when something was paid, its payment.
LEMMA PurchasePosts ==
    ASSUME TypeInv, DocumentsRefer, Posted, NEW c \in DOMAIN customers, NEW date \in Dates,
           NEW net \in Amounts, NEW paid \in Amounts, CreatePurchase(c, date, net, paid)
    PROVE  Posted'
<1> DEFINE previous == customers[c].currentBalance
           i == Len(invoices) + 1
           p == Len(payments) + 1
           bill == NewInvoice(c, date, net, paid)
           receipt == NewPayment(c, paid, OnlyTo(i, paid))
           added == PurchasePostings(previous, net, paid, i, p)
<1>1. /\ invoices' = Append(invoices, bill)
      /\ payments' = IF paid > 0 THEN Append(payments, receipt) ELSE payments
      /\ ledger' = [ledger EXCEPT ![c] = ledger[c] \o added]
  BY DEF CreatePurchase
<1>2. /\ net \in Nat /\ paid \in Nat /\ previous \in Int /\ i \in Nat /\ p \in Nat
      /\ c \in DOMAIN ledger /\ i \notin DOMAIN invoices /\ p \notin DOMAIN payments
      /\ invoices \in Seq(InvoiceRow) /\ payments \in Seq(PaymentRow) /\ c \in Nat
      /\ date \in Nat
  BY ConstantsAssumption, TableRows DEF TypeInv, TypeOK
<1>3. bill.customerId = c /\ bill.grandTotal = net /\ bill \in InvoiceRow
  BY <1>2, StatusType DEF NewInvoice, InvoiceRow
<1>4. /\ receipt.customerId = c /\ receipt.amount = paid /\ receipt.status = "CONFIRMED"
      /\ receipt \in PaymentRow
  <2>1. OnlyTo(i, paid) \in Allocations
    BY <1>2 DEF OnlyTo, Allocations
  <2> QED
    BY <1>2, <2>1 DEF NewPayment, PaymentRow
<1>5. /\ added \in Seq(LedgerRow) /\ 1 \in DOMAIN added
      /\ PostingsIn(added, "PURCHASE", i) = {1}
      /\ added[1].debit + added[1].credit = net
      /\ \A j : j # i => PostingsIn(added, "PURCHASE", j) = {}
      /\ paid > 0 => /\ 2 \in DOMAIN added
                     /\ PostingsIn(added, "PAYMENT", p) = {2}
                     /\ added[2].debit + added[2].credit = paid
      /\ \A q : (paid > 0 => q # p) => PostingsIn(added, "PAYMENT", q) = {}
      /\ \A q : PostingsIn(added, "REVERSAL", q) = {}
      /\ \A n \in DOMAIN added :
            \/ added[n].type = "PURCHASE" /\ added[n].sourceId = i
            \/ added[n].type = "PAYMENT" /\ added[n].sourceId = p /\ paid > 0
  <2> HIDE DEF previous, i, p
  <2>1. PostsPurchase(added, net, paid, i, p)
    BY <1>2, PurchaseEntriesPost
  <2> HIDE DEF added
  <2> QED
    BY <2>1 DEF PostsPurchase
<1> HIDE DEF bill, receipt, added, previous
<1>6. /\ i \in DOMAIN invoices' /\ invoices'[i] = bill
      /\ \A j \in DOMAIN invoices : j \in DOMAIN invoices' /\ invoices'[j] = invoices[j] /\ j # i
      /\ \A j \in DOMAIN invoices' : j = i \/ j \in DOMAIN invoices
  BY <1>1, <1>2, <1>3, AppendProperties, TableRows
<1>7. /\ \A q \in DOMAIN payments : q \in DOMAIN payments' /\ payments'[q] = payments[q] /\ q # p
      /\ \A q \in DOMAIN payments' : (paid > 0 /\ q = p) \/ q \in DOMAIN payments
      /\ paid > 0 => p \in DOMAIN payments' /\ payments'[p] = receipt
  <2>1. CASE paid > 0
    BY <1>1, <1>2, <1>4, <2>1, AppendProperties, TableRows
  <2>2. CASE ~ (paid > 0)
    BY <1>1, <1>2, <2>2
  <2> QED
    BY <2>1, <2>2
<1> HIDE DEF i, p
<1>8. ledger[c] \in Seq(LedgerRow) /\ ledger'[c] = ledger[c] \o added
  BY <1>1, <1>2, <1>5, PostingEffect
<1>9. InvoicesPosted'
  <2>1. ASSUME NEW j \in DOMAIN invoices'
        PROVE  PostedOnceIn(ledger'[invoices'[j].customerId], "PURCHASE", j, invoices'[j].grandTotal)
    <3>1. CASE j = i
      <4>1. PostingsIn(ledger[c], "PURCHASE", i) = {}
        BY <1>2, AbsentUnposted DEF Posted
      <4>2. PostedOnceIn(ledger[c] \o added, "PURCHASE", i, added[1].debit + added[1].credit)
        BY <1>5, <1>8, <4>1, NewlyPosted
      <4> QED
        BY <1>3, <1>5, <1>6, <1>8, <3>1, <4>2
    <3>2. CASE j \in DOMAIN invoices
      <4>1. invoices'[j] = invoices[j] /\ PostingsIn(added, "PURCHASE", j) = {}
        BY <1>5, <1>6, <3>2
      <4> QED
        BY <1>1, <1>2, <1>5, <3>2, <4>1, InvoiceStaysPosted DEF Posted
    <3> QED
      BY <1>6, <3>1, <3>2
  <2> QED
    BY <2>1 DEF InvoicesPosted
<1>10. PaymentsPosted'
  <2>1. ASSUME NEW q \in DOMAIN payments'
        PROVE  PaymentPosted(ledger'[payments'[q].customerId], payments'[q], q)
    <3>1. CASE paid > 0 /\ q = p
      <4>1. PostingsIn(ledger[c], "PAYMENT", p) = {} /\ PostingsIn(ledger[c], "REVERSAL", p) = {}
        BY <1>2, AbsentUnposted DEF Posted
      <4>2. PostedOnceIn(ledger[c] \o added, "PAYMENT", p, added[2].debit + added[2].credit)
        BY <1>5, <1>8, <3>1, <4>1, NewlyPosted
      <4>3. PostingsIn(ledger[c] \o added, "REVERSAL", p) = {}
        <5>1. added \in Seq(LedgerRow) /\ PostingsIn(added, "REVERSAL", p) = {}
          BY <1>5
        <5>2. PostingsIn(ledger[c] \o added, "REVERSAL", p) = PostingsIn(ledger[c], "REVERSAL", p)
          BY <1>8, <5>1, OthersStayPosted
        <5> QED
          BY <4>1, <5>2
      <4>4. payments'[p] = receipt /\ added[2].debit + added[2].credit = paid
        BY <1>5, <1>7, <3>1
      <4>5. /\ receipt.customerId = c /\ receipt.amount = paid /\ receipt.status # "REVERSED"
        BY <1>4
      <4> QED
        BY <1>8, <3>1, <4>2, <4>3, <4>4, <4>5 DEF PaymentPosted
    <3>2. CASE q \in DOMAIN payments
      <4>1. /\ payments'[q] = payments[q] /\ PostingsIn(added, "PAYMENT", q) = {}
            /\ PostingsIn(added, "REVERSAL", q) = {}
        BY <1>5, <1>7, <3>2
      <4> QED
        BY <1>1, <1>2, <1>5, <3>2, <4>1, PaymentStaysPosted DEF Posted
    <3> QED
      BY <1>7, <3>1, <3>2
  <2> QED
    BY <2>1 DEF PaymentsPosted
<1>11. EntriesRefer'
  <2>1. \A d : RowsOf(invoices, d) \subseteq RowsOf(invoices', d)
    BY <1>6 DEF RowsOf
  <2>2. \A d : RowsOf(payments, d) \subseteq RowsOf(payments', d)
    BY <1>7 DEF RowsOf
  <2>3. i \in RowsOf(invoices', c)
    <3>1. i \in DOMAIN invoices' /\ invoices'[i].customerId = c
      BY <1>2, <1>3, <1>6
    <3> QED
      BY <3>1 DEF RowsOf
  <2>4. paid > 0 => p \in RowsOf(payments', c)
    BY <1>4, <1>7 DEF RowsOf
  <2>5. \A k \in DOMAIN added :
              \/ added[k].type = "PURCHASE" /\ added[k].sourceId \in RowsOf(invoices', c)
              \/ added[k].type \in {"PAYMENT", "REVERSAL"}
                 /\ added[k].sourceId \in RowsOf(payments', c)
    BY <1>5, <2>3, <2>4
  <2> QED
    BY <1>1, <1>2, <1>5, <2>1, <2>2, <2>5, EntriesKeepReferring DEF Posted
<1> QED
  BY <1>9, <1>10, <1>11 DEF Posted

\* The step posts one entry, to the ledger of c and for payment p, which is
\* posted then; other payments stay, and invoices keep customer and total.
OnePosting(c, added, p) ==
    /\ c \in DOMAIN ledger
    /\ added \in Seq(LedgerRow) /\ Len(added) = 1
    /\ added[1].type \in {"PAYMENT", "REVERSAL"} /\ added[1].sourceId = p
    /\ ledger' = [ledger EXCEPT ![c] = ledger[c] \o added]
    /\ DOMAIN invoices' = DOMAIN invoices
    /\ \A i \in DOMAIN invoices : /\ invoices'[i].customerId = invoices[i].customerId
                                  /\ invoices'[i].grandTotal = invoices[i].grandTotal
    /\ \A q \in DOMAIN payments : /\ q \in DOMAIN payments'
                                  /\ payments'[q].customerId = payments[q].customerId
                                  /\ q # p => payments'[q] = payments[q]
    /\ \A q \in DOMAIN payments' : q = p \/ q \in DOMAIN payments
    /\ p \in RowsOf(payments', c)
    /\ PaymentPosted(ledger'[c], payments'[p], p)

\* Such a step keeps every document posted once.
LEMMA OnePostingPosts ==
    ASSUME TypeInv, DocumentsRefer, Posted, NEW c, NEW added, NEW p, OnePosting(c, added, p)
    PROVE  Posted'
<1> USE DEF OnePosting
<1>1. /\ 1 \in DOMAIN added /\ DOMAIN added = {1}
      /\ \A i : PostingsIn(added, "PURCHASE", i) = {}
      /\ \A q : q # p => PostingsIn(added, "PAYMENT", q) = {} /\ PostingsIn(added, "REVERSAL", q) = {}
  <2>1. DOMAIN added = {1}
    BY SinglePosting
  <2> QED
    BY <2>1 DEF PostingsIn
<1>3. InvoicesPosted'
  <2>1. ASSUME NEW i \in DOMAIN invoices'
        PROVE  PostedOnceIn(ledger'[invoices'[i].customerId], "PURCHASE", i, invoices'[i].grandTotal)
    <3>1. PostingsIn(added, "PURCHASE", i) = {}
      BY <1>1
    <3>2. i \in DOMAIN invoices /\ invoices'[i].customerId = invoices[i].customerId
          /\ invoices'[i].grandTotal = invoices[i].grandTotal
      OBVIOUS
    <3> QED
      BY <3>1, <3>2, InvoiceStaysPosted DEF Posted
  <2> QED
    BY <2>1 DEF InvoicesPosted
<1>4. PaymentsPosted'
  <2>1. ASSUME NEW q \in DOMAIN payments'
        PROVE  PaymentPosted(ledger'[payments'[q].customerId], payments'[q], q)
    <3>1. CASE q = p
      <4>1. payments'[p].customerId = c
        BY DEF RowsOf
      <4> QED
        BY <3>1, <4>1
    <3>2. CASE q # p
      <4>1. /\ q \in DOMAIN payments /\ payments'[q] = payments[q]
            /\ PostingsIn(added, "PAYMENT", q) = {} /\ PostingsIn(added, "REVERSAL", q) = {}
        BY <1>1, <3>2
      <4> QED
        BY <4>1, PaymentStaysPosted DEF Posted
    <3> QED
      BY <3>1, <3>2
  <2> QED
    BY <2>1 DEF PaymentsPosted
<1>5. EntriesRefer'
  <2>1. \A d : RowsOf(invoices, d) \subseteq RowsOf(invoices', d)
    BY DEF RowsOf
  <2>2. \A d : RowsOf(payments, d) \subseteq RowsOf(payments', d)
    BY DEF RowsOf
  <2>3. \A k \in DOMAIN added :
              \/ added[k].type = "PURCHASE" /\ added[k].sourceId \in RowsOf(invoices', c)
              \/ added[k].type \in {"PAYMENT", "REVERSAL"}
                 /\ added[k].sourceId \in RowsOf(payments', c)
    BY <1>1
  <2> QED
    BY <2>1, <2>2, <2>3, EntriesKeepReferring DEF Posted
<1> QED
  BY <1>3, <1>4, <1>5 DEF Posted

\* Every step keeps every document posted once.
LEMMA NextPosts == TypeInv /\ DocumentsRefer /\ Posted /\ [Next]_vars => Posted'
<1> SUFFICES ASSUME TypeInv, DocumentsRefer, Posted, [Next]_vars PROVE Posted'
  OBVIOUS
<1>1. CASE \E limit, opening \in Amounts : CreateCustomer(limit, opening)
  BY <1>1, OpeningPosts
<1>2. ASSUME NEW c \in DOMAIN customers, NEW limit \in Amounts, NEW status \in CustomerStatuses,
             UpdateCustomer(c, limit, status)
      PROVE  Posted'
  BY <1>2 DEF UpdateCustomer, Posted, InvoicesPosted, PaymentsPosted, EntriesRefer, RowsOf
<1>3. CASE \E c \in DOMAIN customers, date \in Dates, net, paid \in Amounts :
              CreatePurchase(c, date, net, paid)
  BY <1>3, PurchasePosts
<1>4. ASSUME NEW c \in DOMAIN customers, NEW amount \in Amounts, NEW plan \in Plans(amount),
             CreatePayment(c, amount, plan)
      PROVE  Posted'
  <2> DEFINE balance == customers[c].currentBalance - amount
             p       == Len(payments) + 1
             entry   == Credit("PAYMENT", amount, balance, p)
             receipt == NewPayment(c, amount, plan)
  <2>1. /\ amount \in Nat /\ plan \in Allocations /\ c \in DOMAIN ledger /\ balance \in Int
        /\ p \in Nat /\ c \in Nat /\ p \notin DOMAIN payments /\ payments \in Seq(PaymentRow)
    BY ConstantsAssumption, TableRows DEF Plans, Allocations, TypeInv, TypeOK
  <2>2. /\ payments' = Append(payments, receipt) /\ invoices' = SettleAll(plan, 1)
        /\ ledger' = [ledger EXCEPT ![c] = Append(ledger[c], entry)]
    BY <1>4 DEF CreatePayment
  <2>3. /\ entry \in LedgerRow /\ entry.type = "PAYMENT" /\ entry.sourceId = p
        /\ entry.debit + entry.credit = amount
    BY <2>1 DEF Credit, LedgerRow
  <2>4. /\ receipt \in PaymentRow /\ receipt.customerId = c /\ receipt.amount = amount
        /\ receipt.status # "REVERSED"
    BY <2>1 DEF NewPayment, PaymentRow
  <2> HIDE DEF entry, receipt, balance
  <2>5. /\ \A q \in DOMAIN payments : q \in DOMAIN payments' /\ payments'[q] = payments[q]
        /\ \A q \in DOMAIN payments' : q = p \/ q \in DOMAIN payments
        /\ p \in DOMAIN payments' /\ payments'[p] = receipt
    BY <2>1, <2>2, <2>4, AppendProperties, TableRows
  <2> HIDE DEF p
  <2>6. PICK added \in Seq(LedgerRow) :
              /\ Len(added) = 1 /\ added[1] = entry
              /\ ledger' = [ledger EXCEPT ![c] = ledger[c] \o added]
    BY <2>1, <2>2, <2>3, TableRows, AppendPosts
  <2>7. p \in RowsOf(payments', c)
    BY <2>4, <2>5 DEF RowsOf
  <2>8. PaymentPosted(ledger'[c], payments'[p], p)
    <3>1. PostingsIn(ledger[c], "PAYMENT", p) = {} /\ PostingsIn(ledger[c], "REVERSAL", p) = {}
      BY <2>1, AbsentUnposted DEF Posted
    <3>2. ledger[c] \in Seq(LedgerRow) /\ ledger'[c] = ledger[c] \o added
      BY <2>1, <2>6, PostingEffect
    <3>3. 1 \in DOMAIN added /\ PostingsIn(added, "PAYMENT", p) = {1}
          /\ PostingsIn(added, "REVERSAL", p) = {}
      <4>1. DOMAIN added = {1}
        BY <2>6, SinglePosting
      <4> QED
        BY <2>3, <2>6, <4>1 DEF PostingsIn
    <3>4. PostedOnceIn(ledger[c] \o added, "PAYMENT", p, added[1].debit + added[1].credit)
      BY <3>1, <3>2, <3>3, NewlyPosted
    <3>5. PostingsIn(ledger[c] \o added, "REVERSAL", p) = PostingsIn(ledger[c], "REVERSAL", p)
      BY <3>2, <3>3, OthersStayPosted
    <3> QED
      BY <2>3, <2>4, <2>5, <2>6, <3>1, <3>2, <3>4, <3>5 DEF PaymentPosted
  <2>9. /\ DOMAIN invoices' = DOMAIN invoices
        /\ \A i \in DOMAIN invoices : /\ invoices'[i].customerId = invoices[i].customerId
                                      /\ invoices'[i].grandTotal = invoices[i].grandTotal
    BY <2>1, <2>2, SettleAllEffect
  <2>10. OnePosting(c, added, p)
    BY <2>1, <2>3, <2>5, <2>6, <2>7, <2>8, <2>9 DEF OnePosting
  <2> QED
    BY <2>10, OnePostingPosts
<1>5. ASSUME NEW p \in DOMAIN payments, ReversePayment(p)
      PROVE  Posted'
  <2> DEFINE c       == payments[p].customerId
             plan    == payments[p].allocations
             amount  == payments[p].amount
             balance == customers[c].currentBalance + amount
             entry   == ReversalPosting(amount, balance, p)
  <2>1. /\ amount \in Nat /\ plan \in Allocations /\ c \in DOMAIN ledger /\ balance \in Int
        /\ p \in Nat /\ payments[p].status = "CONFIRMED" /\ payments \in Seq(PaymentRow)
    <3>1. /\ payments[p] \in PaymentRow /\ c \in DOMAIN ledger /\ p \in Nat
          /\ customers[c].currentBalance \in Int
      BY TableRows
    <3>2. payments[p].status = "CONFIRMED"
      BY <1>5 DEF ReversePayment, Reversible
    <3>3. amount \in Nat /\ plan \in Allocations
      BY <3>1 DEF PaymentRow
    <3>4. payments \in Seq(PaymentRow)
      BY DEF TypeInv, TypeOK
    <3> QED
      BY <3>1, <3>2, <3>3, <3>4
  <2>2. /\ payments' = [payments EXCEPT ![p] = Reversed(payments[p])]
        /\ invoices' = SettleAll(plan, -1)
        /\ ledger' = [ledger EXCEPT ![c] = Append(ledger[c], entry)]
    BY <1>5 DEF ReversePayment
  <2>3. /\ entry \in LedgerRow /\ entry.type = "REVERSAL" /\ entry.sourceId = p
        /\ entry.debit + entry.credit = amount
    BY <2>1 DEF ReversalPosting, Debit, LedgerRow
  <2>4. /\ DOMAIN payments' = DOMAIN payments
        /\ \A q \in DOMAIN payments : q # p => payments'[q] = payments[q]
        /\ payments'[p].customerId = c /\ payments'[p].amount = amount
        /\ payments'[p].status = "REVERSED"
    BY <2>2, TableRows DEF Reversed, PaymentRow
  <2>5. /\ PostedOnceIn(ledger[c], "PAYMENT", p, amount)
        /\ PostingsIn(ledger[c], "REVERSAL", p) = {}
    BY <2>1 DEF Posted, PaymentsPosted, PaymentPosted
  <2>6. \A q \in DOMAIN payments : payments'[q].customerId = payments[q].customerId
    BY <2>4
  <2> HIDE DEF entry, balance, c, plan, amount
  <2>7. PICK added \in Seq(LedgerRow) :
              /\ Len(added) = 1 /\ added[1] = entry
              /\ ledger' = [ledger EXCEPT ![c] = ledger[c] \o added]
    BY <2>1, <2>2, <2>3, TableRows, AppendPosts
  <2>8. p \in RowsOf(payments', c)
    BY <2>4 DEF RowsOf
  <2>9. PaymentPosted(ledger'[c], payments'[p], p)
    <3>1. ledger[c] \in Seq(LedgerRow) /\ ledger'[c] = ledger[c] \o added
      BY <2>1, <2>7, PostingEffect
    <3>2. 1 \in DOMAIN added /\ PostingsIn(added, "REVERSAL", p) = {1}
          /\ PostingsIn(added, "PAYMENT", p) = {}
      <4>1. DOMAIN added = {1}
        BY <2>7, SinglePosting
      <4> QED
        BY <2>3, <2>7, <4>1 DEF PostingsIn
    <3>3. PostedOnceIn(ledger[c] \o added, "REVERSAL", p, added[1].debit + added[1].credit)
      BY <2>5, <3>1, <3>2, NewlyPosted
    <3>4. PostedOnceIn(ledger[c] \o added, "PAYMENT", p, amount)
      BY <2>5, <3>1, <3>2, OthersStayPosted
    <3> QED
      BY <2>3, <2>4, <2>7, <3>1, <3>3, <3>4 DEF PaymentPosted
  <2>10. /\ added[1].type \in {"PAYMENT", "REVERSAL"} /\ added[1].sourceId = p
         /\ Len(added) = 1 /\ ledger' = [ledger EXCEPT ![c] = ledger[c] \o added]
         /\ c \in DOMAIN ledger /\ p \in Nat
    BY <2>1, <2>3, <2>7
  <2>11. /\ \A q \in DOMAIN payments : /\ q \in DOMAIN payments'
                                       /\ payments'[q].customerId = payments[q].customerId
                                       /\ q # p => payments'[q] = payments[q]
         /\ \A q \in DOMAIN payments' : q = p \/ q \in DOMAIN payments
    BY <2>4, <2>6
  <2>12. /\ DOMAIN invoices' = DOMAIN invoices
         /\ \A i \in DOMAIN invoices : /\ invoices'[i].customerId = invoices[i].customerId
                                       /\ invoices'[i].grandTotal = invoices[i].grandTotal
    BY <2>1, <2>2, SettleAllEffect
  <2>13. OnePosting(c, added, p)
    BY <2>7, <2>8, <2>9, <2>10, <2>11, <2>12 DEF OnePosting
  <2> QED
    BY <2>13, OnePostingPosts
<1>6. CASE UNCHANGED vars
  BY <1>6 DEF vars, Posted, InvoicesPosted, PaymentsPosted, EntriesRefer, RowsOf
<1> QED
  BY <1>1, <1>2, <1>3, <1>4, <1>5, <1>6 DEF Next

(***************************************************************************)
(* Every invoice, payment and reversal has one ledger entry of its amount, *)
(* and every entry is of one of them or opens the account.                 *)
(***************************************************************************)
THEOREM DocumentsStayPosted == Spec => []EveryDocumentPostedOnce
<1>1. Init => Posted
  BY DEF Init, Posted, InvoicesPosted, PaymentsPosted, EntriesRefer
<1>2. TypeInv /\ DocumentsRefer /\ Posted /\ [Next]_vars => Posted'
  BY NextPosts
<1>3. Posted => EveryDocumentPostedOnce
  BY PostedIsProperty
<1> QED
  BY <1>1, <1>2, <1>3, TypeInvariance, RefersInvariance, PTL DEF Spec
=============================================================================
