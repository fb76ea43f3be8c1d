-------------------- MODULE AccountTransactions_proofs --------------------
(***************************************************************************)
(* Proofs about AccountTransactions for every value of its constants: the  *)
(* interleaved transactions implement CustomerAccount, locks on invoices   *)
(* are contended by requests that name foreign invoices only, and payments *)
(* without allocations go to the oldest dues.                              *)
(***************************************************************************)
EXTENDS AccountTransactions, SequenceTheorems, FiniteSetTheorems, TLAPS

\* CustomerAccount again, now with its theorems.
CAP == INSTANCE CustomerAccount_proofs

(***************************************************************************)
(* The two instances of CustomerAccount say the same.                      *)
(***************************************************************************)
\* What the theorems of CustomerAccount assume.
LEMMA Constants == CAP!ConstantsAssumption
BY InputsAssumption DEF CAP!ConstantsAssumption

\* Finiteness does not depend on the instance.
LEMMA SameFinite == ASSUME NEW S PROVE CAP!IsFiniteSet(S) <=> IsFiniteSet(S)
BY DEF CAP!IsFiniteSet, IsFiniteSet

\* Sums do not depend on the instance.
LEMMA SameSum ==
    ASSUME NEW f
    PROVE  CA!SumFunction(f) = SumFunction(f) /\ CAP!SumFunction(f) = SumFunction(f)
BY DEF CA!SumFunction, CA!SumFunctionOnSet, CA!FoldFunctionOnSet, CA!MapThenFoldSet,
   CAP!SumFunction, CAP!SumFunctionOnSet, CAP!FoldFunctionOnSet, CAP!MapThenFoldSet,
   SumFunction, SumFunctionOnSet, FoldFunctionOnSet, MapThenFoldSet

\* Both start from empty tables.
LEMMA SameInit == CA!Init => CAP!Init
BY DEF CA!Init, CAP!Init

\* Both take the same steps.
LEMMA SameNext == [CA!Next]_(CA!vars) => [CAP!Next]_(CAP!vars)
BY DEF CA!vars, CA!Next, CA!CreateCustomer, CA!UpdateCustomer, CA!CreatePurchase,
   CA!CreatePayment, CA!ReversePayment, CA!Plans, CA!ValidPlan, CA!WithinCreditLimit,
   CA!Reversible, CA!Reversed, CA!ReversalPosting, CA!PurchasePostings, CA!Credit, CA!Debit,
   CA!SettleAll, CA!OnlyTo, CA!NewPayment, CA!Settle, CA!NewInvoice, CA!InvoiceStatus,
   CA!CustomerStatuses, CA!SumFunction, CA!SumFunctionOnSet, CA!FoldFunctionOnSet,
   CA!MapThenFoldSet,
   CAP!vars, CAP!Next, CAP!CreateCustomer, CAP!UpdateCustomer, CAP!CreatePurchase,
   CAP!CreatePayment, CAP!ReversePayment, CAP!Plans, CAP!ValidPlan, CAP!WithinCreditLimit,
   CAP!Reversible, CAP!Reversed, CAP!ReversalPosting, CAP!PurchasePostings, CAP!Credit,
   CAP!Debit, CAP!SettleAll, CAP!OnlyTo, CAP!NewPayment, CAP!Settle, CAP!NewInvoice,
   CAP!InvoiceStatus, CAP!CustomerStatuses, CAP!SumFunction, CAP!SumFunctionOnSet,
   CAP!FoldFunctionOnSet, CAP!MapThenFoldSet

\* What CustomerAccount_proofs shows of the tables, of which only the types,
\* the references and the bounds of a due matter here.
TablesInv == CAP!TypeInv /\ CAP!DocumentsRefer /\ CAP!SettledInv

\* The empty tables are in order.
LEMMA TablesInit == CA!Init => TablesInv
<1>1. CAP!Init => CAP!TypeInv
  BY Constants, CAP!InitType
<1>2. CAP!Init => CAP!DocumentsRefer /\ CAP!SettledInv
  BY DEF CAP!Init, CAP!DocumentsRefer, CAP!SettledInv
<1> QED
  BY <1>1, <1>2, SameInit DEF TablesInv

\* Every step of the account keeps them in order.
LEMMA TablesStep == TablesInv /\ [CA!Next]_(CA!vars) => TablesInv'
<1>1. CAP!TypeInv /\ [CAP!Next]_(CAP!vars) => CAP!TypeInv'
  BY Constants, CAP!NextType
<1>2. CAP!TypeInv /\ CAP!DocumentsRefer /\ [CAP!Next]_(CAP!vars) => CAP!DocumentsRefer'
  BY Constants, CAP!NextRefers
<1>3. CAP!TypeInv /\ CAP!SettledInv /\ [CAP!Next]_(CAP!vars) => CAP!SettledInv'
  BY Constants, CAP!NextSettled
<1> QED
  BY <1>1, <1>2, <1>3, SameNext DEF TablesInv

(***************************************************************************)
(* Tables and snapshots.                                                   *)
(***************************************************************************)
Tables == [customers |-> customers, invoices |-> invoices, payments |-> payments]

\* What holds of the tables, and of a snapshot of them.
Sound(rows) ==
    /\ rows.customers \in Seq(CA!CustomerRow) /\ Len(rows.customers) <= MaxCustomers
    /\ rows.invoices \in Seq(CA!InvoiceRow)   /\ Len(rows.invoices) <= MaxInvoices
    /\ rows.payments \in Seq(CA!PaymentRow)   /\ Len(rows.payments) <= MaxPayments
    /\ \A i \in DOMAIN rows.invoices : rows.invoices[i].currentDue >= 0
    /\ \A p \in DOMAIN rows.payments :
          /\ rows.payments[p].customerId \in DOMAIN rows.customers
          /\ \A i \in 1 .. MaxInvoices : rows.payments[p].allocations[i] > 0 =>
                /\ i \in DOMAIN rows.invoices
                /\ rows.invoices[i].customerId = rows.payments[p].customerId

\* The types of the rows do not depend on the instance.
LEMMA SameRows ==
    /\ CAP!CustomerRow = CA!CustomerRow
    /\ CAP!InvoiceRow = CA!InvoiceRow
    /\ CAP!PaymentRow = CA!PaymentRow
    /\ CAP!LedgerRow = CA!LedgerRow
BY DEF CA!CustomerRow, CA!InvoiceRow, CA!PaymentRow, CA!LedgerRow, CA!CustomerStatuses,
   CA!InvoiceStatuses, CA!PaymentStatuses, CA!EntryTypes, CA!Allocations,
   CAP!CustomerRow, CAP!InvoiceRow, CAP!PaymentRow, CAP!LedgerRow, CAP!CustomerStatuses,
   CAP!InvoiceStatuses, CAP!PaymentStatuses, CAP!EntryTypes, CAP!Allocations

\* What the transactions rely on follows, within the bounds.
LEMMA TablesSound ==
    ASSUME TablesInv, Len(customers) <= MaxCustomers, Len(payments) <= MaxPayments
    PROVE  Sound(Tables) /\ CA!TypeOK
<1>1. CA!TypeOK
  BY SameRows DEF TablesInv, CAP!TypeInv, CAP!TypeOK, CA!TypeOK
<1>2. Len(invoices) <= MaxInvoices
  BY DEF TablesInv, CAP!TypeInv, CAP!RowsRefer
<1>3. ASSUME NEW i \in DOMAIN invoices PROVE invoices[i].currentDue >= 0
  BY DEF TablesInv, CAP!SettledInv, CAP!InvoiceSettled
<1>4. ASSUME NEW p \in DOMAIN payments
      PROVE  /\ payments[p].customerId \in DOMAIN customers
             /\ \A i \in 1 .. MaxInvoices : payments[p].allocations[i] > 0 =>
                   i \in DOMAIN invoices /\ invoices[i].customerId = payments[p].customerId
  BY DEF TablesInv, CAP!TypeInv, CAP!RowsRefer, CAP!DocumentsRefer, CAP!RowsOf
<1> QED
  BY <1>1, <1>2, <1>3, <1>4 DEF Sound, Tables, CA!TypeOK

\* The rows of sound tables.
LEMMA SoundRows ==
    ASSUME NEW rows, Sound(rows)
    PROVE  /\ \A c \in DOMAIN rows.customers :
                 rows.customers[c] \in CA!CustomerRow /\ rows.customers[c].currentBalance \in Int
           /\ \A i \in DOMAIN rows.invoices :
                 rows.invoices[i] \in CA!InvoiceRow /\ rows.invoices[i].currentDue \in Nat
           /\ \A p \in DOMAIN rows.payments :
                 /\ rows.payments[p] \in CA!PaymentRow
                 /\ rows.payments[p].allocations \in CA!Allocations
                 /\ rows.payments[p].amount \in Nat
<1>1. \A c \in DOMAIN rows.customers : rows.customers[c] \in CA!CustomerRow
  BY DEF Sound
<1>2. \A i \in DOMAIN rows.invoices :
         rows.invoices[i] \in CA!InvoiceRow /\ rows.invoices[i].currentDue >= 0
  BY DEF Sound
<1>3. \A p \in DOMAIN rows.payments : rows.payments[p] \in CA!PaymentRow
  BY DEF Sound
<1> QED
  BY <1>1, <1>2, <1>3 DEF CA!CustomerRow, CA!InvoiceRow, CA!PaymentRow

\* The rows of `old` that are not in `written` are in `new` as they were, a
\* customer that is not written has got no invoice, and no invoice has changed
\* its customer.
Grown(old, new, written) ==
    /\ \A c \in DOMAIN old.customers :
          /\ c \in DOMAIN new.customers
          /\ <<"Customer", c>> \notin written => new.customers[c] = old.customers[c]
    /\ \A i \in DOMAIN old.invoices :
          /\ i \in DOMAIN new.invoices
          /\ new.invoices[i].customerId = old.invoices[i].customerId
          /\ <<"Invoice", i>> \notin written => new.invoices[i] = old.invoices[i]
    /\ \A p \in DOMAIN old.payments :
          /\ p \in DOMAIN new.payments
          /\ <<"Payment", p>> \notin written => new.payments[p] = old.payments[p]
    /\ \A i \in DOMAIN new.invoices :
          <<"Customer", new.invoices[i].customerId>> \notin written =>
             i \in DOMAIN old.invoices /\ new.invoices[i] = old.invoices[i]

\* No time has passed.
LEMMA GrownSame == ASSUME NEW rows PROVE Grown(rows, rows, {})
BY DEF Grown

\* Tables that have grown go on growing.
LEMMA GrownOn ==
    ASSUME NEW a, NEW b, NEW c, NEW w, NEW v, Grown(a, b, w), Grown(b, c, v)
    PROVE  Grown(a, c, w \cup v)
<1>1. ASSUME NEW n \in DOMAIN a.customers
      PROVE  /\ n \in DOMAIN c.customers
             /\ <<"Customer", n>> \notin w \cup v => c.customers[n] = a.customers[n]
  BY DEF Grown
<1>2. ASSUME NEW i \in DOMAIN a.invoices
      PROVE  /\ i \in DOMAIN c.invoices
             /\ c.invoices[i].customerId = a.invoices[i].customerId
             /\ <<"Invoice", i>> \notin w \cup v => c.invoices[i] = a.invoices[i]
  BY DEF Grown
<1>3. ASSUME NEW p \in DOMAIN a.payments
      PROVE  /\ p \in DOMAIN c.payments
             /\ <<"Payment", p>> \notin w \cup v => c.payments[p] = a.payments[p]
  BY DEF Grown
<1>4. ASSUME NEW i \in DOMAIN c.invoices, <<"Customer", c.invoices[i].customerId>> \notin w \cup v
      PROVE  i \in DOMAIN a.invoices /\ c.invoices[i] = a.invoices[i]
  <2>1. i \in DOMAIN b.invoices /\ c.invoices[i] = b.invoices[i]
    BY <1>4 DEF Grown
  <2> QED
    BY <2>1, <1>4 DEF Grown
<1> QED
  BY <1>1, <1>2, <1>3, <1>4 DEF Grown

\* The rows a request names exist.
NamedIn(input, rows) ==
    CASE input.op = "reversePayment" -> input.paymentId \in DOMAIN rows.payments
      [] input.op = "createPayment"  ->
            /\ input.customerId \in DOMAIN rows.customers
            /\ \A k \in DOMAIN input.allocations :
                  input.allocations[k].invoiceId \in DOMAIN rows.invoices
      [] OTHER -> input.customerId \in DOMAIN rows.customers

\* Rows are never deleted: what a request names stays.
LEMMA StillNamed ==
    ASSUME NEW input, NEW old, NEW new, NEW written, Grown(old, new, written), NamedIn(input, old)
    PROVE  NamedIn(input, new)
<1>1. CASE input.op = "reversePayment"
  BY <1>1 DEF NamedIn, Grown
<1>2. CASE input.op = "createPayment"
  BY <1>2 DEF NamedIn, Grown
<1>3. CASE input.op \notin {"reversePayment", "createPayment"}
  BY <1>3 DEF NamedIn, Grown
<1> QED
  BY <1>1, <1>2, <1>3

(***************************************************************************)
(* What the server remembers of a request.                                 *)
(***************************************************************************)
Requests == {input \in Inputs : input.op \in {"createPurchase", "createPayment", "reversePayment"}}

\* The invoices the loop of a transaction may lock.
NamedInvoices(t) ==
    CASE Automatic(t) -> Outstanding(t)
      [] Manual(t)    -> {t.input.allocations[k].invoiceId : k \in DOMAIN t.input.allocations}
      [] t.input.op = "reversePayment" ->
            AllocatedInvoices(t.snap.payments[t.input.paymentId].allocations)
      [] OTHER        -> {}

Distinct(order) == \A j, k \in DOMAIN order : j # k => order[j] # order[k]

\* Invoices are taken up oldest first, and none while an older one has a due left.
OldestFirstSoFar(t) ==
    LET rows == t.snap.invoices IN
    /\ OldestFirst(rows, t.todo)
    /\ \A i \in NamedInvoices(t) :
          i \in Range(t.todo) \/ t.plan[i] = rows[i].currentDue \/ Remaining(t) = 0
    /\ \A i \in Range(t.todo), j \in NamedInvoices(t) : t.plan[j] > 0 => ~Older(rows, i, j)
    /\ \A i, j \in NamedInvoices(t) :
          t.plan[j] > 0 /\ Older(rows, i, j) => t.plan[i] = rows[i].currentDue

\* How far the loop over the invoices is.
Looping(t) ==
    /\ <<"Customer", CustomerOf(t)>> \in t.held
    /\ Admitted(t)
    /\ Range(t.todo) \subseteq NamedInvoices(t)
    /\ \A i \in 1 .. MaxInvoices :
          /\ <<"Invoice", i>> \in t.held => i \in NamedInvoices(t)
          /\ t.plan[i] > 0 => <<"Invoice", i>> \in t.held
    /\ ~Manual(t) => Distinct(t.todo) /\ \A i \in Range(t.todo) : t.plan[i] = 0
    /\ Automatic(t) =>
          /\ \A i \in NamedInvoices(t) : t.plan[i] <= t.snap.invoices[i].currentDue
          /\ OldestFirstSoFar(t)
    /\ t.input.op = "reversePayment" =>
          \A i \in NamedInvoices(t) : i \in Range(t.todo)
             \/ t.plan[i] = t.snap.payments[t.input.paymentId].allocations[i]

\* The snapshot, and what became of its rows.
Sees(t, rows) ==
    /\ Sound(t.snap)
    /\ NamedIn(t.input, t.snap)
    /\ Grown(t.snap, rows, t.stale)
    /\ t.held \cap t.stale = {}

\* The locks before the loop.
LocksFit(t) ==
    /\ t.pc = "payment" => t.input.op = "reversePayment" /\ t.held = {}
    /\ t.pc \in {"customer", "invoices"} /\ t.input.op = "reversePayment" =>
          /\ <<"Payment", t.input.paymentId>> \in t.held
          /\ CA!Reversible(t.snap.payments[t.input.paymentId])
    /\ t.pc \in {"payment", "customer"} =>
          /\ \A i : <<"Invoice", i>> \notin t.held
          /\ t.plan = NoPlan
    /\ t.pc = "invoices" => Looping(t)

Opened(t) == t.pc \notin {"idle", "begin"}

SlotFits(t, rows) ==
    /\ t \in Transactions
    /\ t.pc # "idle" => t.input \in Requests
    /\ t.pc = "begin" => NamedIn(t.input, rows)
    /\ ~Opened(t) => t.held = {} /\ t.stale = {} /\ t.plan = NoPlan
    /\ Opened(t) => Sees(t, rows) /\ LocksFit(t)

-----------------------------------------------------------------------------
\* The fields of the requests.
LEMMA InputFields ==
    ASSUME NEW input \in Inputs
    PROVE  /\ input.op = "createPurchase" =>
                 /\ input.customerId \in Nat /\ input.date \in Dates
                 /\ input.net \in Amounts /\ input.paid \in Amounts
           /\ input.op = "createPayment" =>
                 /\ input.customerId \in Nat /\ input.amount \in Amounts
                 /\ input.allocations \in Seq(Allocation)
           /\ input.op = "reversePayment" => input.paymentId \in Nat
           /\ input.op = "createCustomer" => input.limit \in Amounts /\ input.opening \in Amounts
           /\ input.op = "updateCustomer" =>
                 /\ input.customerId \in Nat /\ input.limit \in Amounts
                 /\ input.status \in CA!CustomerStatuses
<1>1. input \in Purchases \cup Payments \cup Reversals \cup Creations \cup Updates
  BY InputsAssumption
<1>2. CASE input \in Purchases
  BY <1>2 DEF Purchases
<1>3. CASE input \in Payments
  BY <1>3 DEF Payments
<1>4. CASE input \in Reversals
  BY <1>4 DEF Reversals
<1>5. CASE input \in Creations
  BY <1>5 DEF Creations
<1>6. CASE input \in Updates
  BY <1>6 DEF Updates
<1> QED
  BY <1>1, <1>2, <1>3, <1>4, <1>5, <1>6

\* Amounts and bounds are natural numbers.
LEMMA Numbers ==
    /\ Amounts \subseteq Nat /\ Dates \subseteq Nat
    /\ MaxCustomers \in Nat /\ MaxInvoices \in Nat /\ MaxPayments \in Nat
    /\ Attempts \in Nat /\ Attempts >= 1
BY InputsAssumption

\* Nothing allocated is an allocation.
LEMMA NoPlanType == NoPlan \in CA!Allocations /\ \A i \in 1 .. MaxInvoices : NoPlan[i] = 0
BY DEF NoPlan, CA!OnlyTo, CA!Allocations

\* The empty sequence is one of every type.
LEMMA EmptySeqType == ASSUME NEW S PROVE <<>> \in Seq(S)
OBVIOUS

\* The fields of a slot.
LEMMA SlotFields ==
    ASSUME NEW t \in Transactions
    PROVE  /\ t.pc \in Phases /\ t.input \in Inputs \cup {NoInput} /\ t.attempt \in 0 .. Attempts
           /\ t.snap \in [customers : Seq(CA!CustomerRow), invoices : Seq(CA!InvoiceRow),
                          payments : Seq(CA!PaymentRow)]
           /\ t.held \in SUBSET Rows /\ t.stale \in SUBSET Rows
           /\ t.todo \in Seq(1 .. MaxInvoices) /\ t.plan \in CA!Allocations
BY DEF Transactions

\* An idle slot fits any tables.
LEMMA IdleFits == ASSUME NEW rows PROVE SlotFits(Idle, rows)
<1>1. NoRows \in [customers : Seq(CA!CustomerRow), invoices : Seq(CA!InvoiceRow),
                  payments : Seq(CA!PaymentRow)]
  BY EmptySeqType DEF NoRows
<1>2. Idle \in Transactions
  BY <1>1, NoPlanType, Numbers, EmptySeqType DEF Idle, Transactions, Phases
<1> QED
  BY <1>2 DEF SlotFits, Opened, Idle

\* What a request is about is in its input and its snapshot.
LEMMA SameRequest ==
    ASSUME NEW t, NEW u, u.input = t.input, u.snap = t.snap
    PROVE  /\ Automatic(u) <=> Automatic(t)
           /\ Manual(u) <=> Manual(t)
           /\ CustomerOf(u) = CustomerOf(t)
           /\ Admitted(u) <=> Admitted(t)
           /\ NamedInvoices(u) = NamedInvoices(t)
<1>1. (Automatic(u) <=> Automatic(t)) /\ (Manual(u) <=> Manual(t)) /\ CustomerOf(u) = CustomerOf(t)
  BY DEF Automatic, Manual, CustomerOf
<1>2. Admitted(u) <=> Admitted(t)
  BY <1>1 DEF Admitted
<1>3. Outstanding(u) = Outstanding(t)
  BY <1>1 DEF Outstanding
<1>4. NamedInvoices(u) = NamedInvoices(t)
  BY <1>1, <1>3 DEF NamedInvoices
<1> QED
  BY <1>1, <1>2, <1>4

\* The locks do not depend on what others have written.
LEMMA SameLocks ==
    ASSUME NEW t, NEW u, u.pc = t.pc, u.input = t.input, u.snap = t.snap, u.held = t.held,
           u.todo = t.todo, u.plan = t.plan, LocksFit(t)
    PROVE  LocksFit(u)
<1>1. OldestFirstSoFar(u) <=> OldestFirstSoFar(t)
  BY SameRequest DEF OldestFirstSoFar, Remaining
<1>2. Looping(u) <=> Looping(t)
  BY SameRequest, <1>1 DEF Looping
<1> QED
  BY <1>2 DEF LocksFit

\* The rows that others write are rows this transaction has not locked: it has
\* missed them.
LEMMA MissedFits ==
    ASSUME NEW t, NEW rows, NEW new, NEW written \in SUBSET Rows,
           SlotFits(t, rows), Opened(t), Grown(rows, new, written), written \cap t.held = {}
    PROVE  SlotFits(Missed(t, written), new)
<1> DEFINE u == Missed(t, written)
<1>1. t \in Transactions
  BY DEF SlotFits
<1>2. /\ u.pc = t.pc /\ u.input = t.input /\ u.attempt = t.attempt /\ u.snap = t.snap
      /\ u.held = t.held /\ u.stale = t.stale \cup written /\ u.todo = t.todo /\ u.plan = t.plan
  BY <1>1 DEF Missed, Transactions
<1>3. u \in Transactions
  BY <1>1 DEF Missed, Transactions
<1>4. Grown(t.snap, new, t.stale \cup written)
  BY GrownOn DEF SlotFits, Sees
<1> HIDE DEF u
<1>5. Sees(u, new)
  BY <1>2, <1>4 DEF SlotFits, Sees
<1>6. LocksFit(u)
  BY <1>2, SameLocks DEF SlotFits
<1> QED
  BY <1>2, <1>3, <1>5, <1>6 DEF SlotFits, Opened, u

\* A transaction that has no snapshot yet has missed nothing.
LEMMA WaitingFits ==
    ASSUME NEW t, NEW rows, NEW new, NEW written,
           SlotFits(t, rows), ~Opened(t), Grown(rows, new, written)
    PROVE  SlotFits(t, new)
BY StillNamed DEF SlotFits

\* A transaction starts over.
LEMMA RetriedFits ==
    ASSUME NEW t, NEW rows, SlotFits(t, rows), Opened(t), t.attempt < Attempts
    PROVE  SlotFits(Retried(t), rows)
<1>1. t \in Transactions /\ t.input \in Requests /\ t.input \in Inputs
  BY DEF SlotFits, Opened, Requests
<1>2. /\ Retried(t).pc = "begin" /\ Retried(t).input = t.input /\ Retried(t).held = {}
      /\ Retried(t).stale = {} /\ Retried(t).plan = NoPlan
  BY DEF Retried, Idle
<1>3. Idle \in Transactions
  BY IdleFits DEF SlotFits
<1>4. t.attempt + 1 \in 0 .. Attempts
  BY <1>1, SlotFields, Numbers
<1>5. Retried(t) \in Transactions
  BY <1>1, <1>3, <1>4 DEF Retried, Transactions, Phases
<1>6. NamedIn(t.input, rows)
  BY StillNamed DEF SlotFits, Sees
<1> QED
  BY <1>1, <1>2, <1>5, <1>6 DEF SlotFits, Opened

\* A request arrives.
LEMMA ReceivedFits ==
    ASSUME NEW input \in Requests, NEW rows, NamedIn(input, rows),
           NEW u, u = [Idle EXCEPT !.pc = "begin", !.input = input, !.attempt = 1]
    PROVE  SlotFits(u, rows)
<1>1. /\ u.pc = "begin" /\ u.input = input
      /\ u.held = {} /\ u.stale = {} /\ u.plan = NoPlan
  BY DEF Idle
<1>2. Idle \in Transactions
  BY IdleFits DEF SlotFits
<1>3. input \in Inputs /\ 1 \in 0 .. Attempts
  BY Numbers DEF Requests
<1>4. u \in Transactions
  BY <1>2, <1>3 DEF Transactions, Phases
<1> QED
  BY <1>1, <1>4, NoPlanType DEF SlotFits, Opened

\* The snapshot is taken.
LEMMA BegunFits ==
    ASSUME NEW t, NEW rows, SlotFits(t, rows), t.pc = "begin", Sound(rows),
           rows = [customers |-> rows.customers, invoices |-> rows.invoices, payments |-> rows.payments],
           NEW u,
           u = [t EXCEPT !.pc = IF t.input.op = "reversePayment" THEN "payment" ELSE "customer",
                         !.snap = rows]
    PROVE  SlotFits(u, rows)
<1>1. t \in Transactions /\ t.held = {} /\ t.stale = {} /\ t.plan = NoPlan
  BY DEF SlotFits, Opened
<1>2. /\ u.pc = IF t.input.op = "reversePayment" THEN "payment" ELSE "customer"
      /\ u.input = t.input /\ u.snap = rows /\ u.held = {} /\ u.stale = {} /\ u.plan = NoPlan
  BY <1>1 DEF Transactions
<1>3. rows \in [customers : Seq(CA!CustomerRow), invoices : Seq(CA!InvoiceRow),
                payments : Seq(CA!PaymentRow)]
  BY DEF Sound
<1>4. u \in Transactions
  BY <1>1, <1>3 DEF Transactions, Phases
<1>5. Sees(u, rows)
  BY <1>2, GrownSame DEF Sees, SlotFits
<1>6. LocksFit(u)
  BY <1>2 DEF LocksFit
<1> QED
  BY <1>2, <1>4, <1>5, <1>6 DEF SlotFits, Opened

-----------------------------------------------------------------------------
\* Sums of allocations.
LEMMA SameSumOn ==
    ASSUME NEW f, NEW S
    PROVE  CAP!SumFunctionOnSet(f, S) = SumFunctionOnSet(f, S)
BY DEF CAP!SumFunctionOnSet, CAP!FoldFunctionOnSet, CAP!MapThenFoldSet,
   SumFunctionOnSet, FoldFunctionOnSet, MapThenFoldSet

\* A plan pays an invoice at most what it pays in all.
LEMMA PlanSum ==
    ASSUME NEW plan \in CA!Allocations
    PROVE  SumFunction(plan) \in Nat /\ \A i \in 1 .. MaxInvoices : plan[i] <= SumFunction(plan)
<1>1. IsFiniteSet(1 .. MaxInvoices)
  BY FS_Interval, Numbers
<1>2. DOMAIN plan = 1 .. MaxInvoices /\ \A i \in 1 .. MaxInvoices : plan[i] \in Nat
  BY DEF CA!Allocations
<1>3. /\ CAP!SumFunctionOnSet(plan, 1 .. MaxInvoices) \in Nat
      /\ \A i \in 1 .. MaxInvoices : plan[i] <= CAP!SumFunctionOnSet(plan, 1 .. MaxInvoices)
  BY <1>1, <1>2, SameFinite, Constants, CAP!SumBounds
<1> QED
  BY <1>2, <1>3, SameSumOn DEF SumFunction

\* One share more adds to what a plan pays.
LEMMA SumMoves ==
    ASSUME NEW plan \in CA!Allocations, NEW i \in 1 .. MaxInvoices, NEW share \in Nat
    PROVE  /\ [plan EXCEPT ![i] = @ + share] \in CA!Allocations
           /\ SumFunction([plan EXCEPT ![i] = @ + share]) = SumFunction(plan) + share
<1> DEFINE T == 1 .. MaxInvoices
           more == [plan EXCEPT ![i] = @ + share]
<1>1. CAP!IsFiniteSet(T) /\ CAP!IsFiniteSet(T \ {i})
  <2>1. IsFiniteSet(T)
    BY FS_Interval, Numbers
  <2>2. IsFiniteSet(T \ {i})
    BY <2>1, FS_RemoveElement
  <2> QED
    BY <2>1, <2>2, SameFinite
<1>2. plan \in [T -> Nat] /\ more \in [T -> Nat] /\ more[i] = plan[i] + share
      /\ \A j \in T \ {i} : more[j] = plan[j]
  BY DEF CA!Allocations
<1> HIDE DEF more
<1>3. /\ CAP!SumFunctionOnSet(more, T) = more[i] + CAP!SumFunctionOnSet(more, T \ {i})
      /\ CAP!SumFunctionOnSet(plan, T) = plan[i] + CAP!SumFunctionOnSet(plan, T \ {i})
  <2>1. i \in T /\ (\A x \in T : more[x] \in Int) /\ (\A x \in T : plan[x] \in Int)
    BY <1>2
  <2> HIDE DEF T
  <2> QED
    BY <2>1, <1>1, Constants, CAP!SumRemove
<1>4. CAP!SumFunctionOnSet(more, T \ {i}) = CAP!SumFunctionOnSet(plan, T \ {i})
  BY <1>1, <1>2, Constants, CAP!SumAgree
<1>5. CAP!SumFunctionOnSet(plan, T \ {i}) \in Int
  BY <1>1, <1>2, Constants, CAP!SumRemove
<1>6. SumFunction(more) = CAP!SumFunctionOnSet(more, T) /\ SumFunction(plan) = CAP!SumFunctionOnSet(plan, T)
  BY <1>2, SameSumOn DEF SumFunction
<1>7. SumFunction(more) = SumFunction(plan) + share
  BY <1>2, <1>3, <1>4, <1>5, <1>6
<1> QED
  BY <1>2, <1>7 DEF more, CA!Allocations

\* An order of a finite set has each of its elements once.
LEMMA OrderOfSet ==
    ASSUME NEW S, IsFiniteSet(S), NEW order \in SetToSeqs(S)
    PROVE  order \in Seq(S) /\ Distinct(order) /\ Range(order) = S
<1> DEFINE D == 1 .. Cardinality(S)
<1>1. Cardinality(S) \in Nat
  BY FS_CardinalityType
<1>2. order \in [D -> S] /\ \A i, j \in D : i # j => order[i] # order[j]
  BY DEF SetToSeqs
<1>3. order \in Injection(D, S)
  BY <1>2 DEF Injection, IsInjective
<1>4. Cardinality(D) = Cardinality(S) /\ IsFiniteSet(D)
  BY <1>1, FS_Interval
<1>5. order \in Surjection(D, S)
  BY <1>3, <1>4, FS_Injection
<1>6. Range(order) = S
  BY <1>5 DEF Surjection, Range
<1>7. order \in Seq(S)
  BY <1>1, <1>2
<1>8. Distinct(order)
  BY <1>2 DEF Distinct
<1> QED
  BY <1>6, <1>7, <1>8

-----------------------------------------------------------------------------
\* The four kinds of transactions.
LEMMA Kinds ==
    ASSUME NEW t
    PROVE  /\ Automatic(t) =>
                 /\ ~Manual(t) /\ t.input.op = "createPayment"
                 /\ NamedInvoices(t) = Outstanding(t)
                 /\ LockOrders(t) = {order \in SetToSeqs(Outstanding(t)) :
                                        OldestFirst(t.snap.invoices, order)}
           /\ Manual(t) =>
                 /\ ~Automatic(t) /\ t.input.op = "createPayment"
                 /\ NamedInvoices(t) =
                       {t.input.allocations[k].invoiceId : k \in DOMAIN t.input.allocations}
                 /\ LockOrders(t) =
                       {[k \in DOMAIN t.input.allocations |-> t.input.allocations[k].invoiceId]}
           /\ t.input.op = "reversePayment" =>
                 /\ ~Automatic(t) /\ ~Manual(t)
                 /\ NamedInvoices(t) =
                       AllocatedInvoices(t.snap.payments[t.input.paymentId].allocations)
                 /\ LockOrders(t) = SetToSeqs(NamedInvoices(t))
           /\ t.input.op = "createPurchase" =>
                 ~Automatic(t) /\ ~Manual(t) /\ NamedInvoices(t) = {} /\ LockOrders(t) = {<<>>}
           /\ t.input \in Requests =>
                 \/ Automatic(t) \/ Manual(t)
                 \/ t.input.op = "reversePayment" \/ t.input.op = "createPurchase"
<1>1. CASE Automatic(t)
  BY <1>1 DEF Automatic, Manual, NamedInvoices, LockOrders
<1>2. CASE Manual(t)
  BY <1>2 DEF Automatic, Manual, NamedInvoices, LockOrders
<1>3. CASE t.input.op = "reversePayment"
  BY <1>3 DEF Automatic, Manual, NamedInvoices, LockOrders
<1>4. CASE t.input.op = "createPurchase"
  BY <1>4 DEF Automatic, Manual, NamedInvoices, LockOrders
<1>5. t.input \in Requests =>
         Automatic(t) \/ Manual(t) \/ t.input.op = "reversePayment" \/ t.input.op = "createPurchase"
  BY DEF Requests, Automatic, Manual
<1> QED
  BY <1>1, <1>2, <1>3, <1>4, <1>5

\* The rows a transaction is about are rows of its snapshot.
LEMMA RowsKnown ==
    ASSUME NEW t, t.input \in Requests, Sound(t.snap), NamedIn(t.input, t.snap)
    PROVE  /\ CustomerOf(t) \in DOMAIN t.snap.customers
           /\ <<"Customer", CustomerOf(t)>> \in Rows
           /\ t.input.op = "reversePayment" =>
                 /\ t.input.paymentId \in DOMAIN t.snap.payments
                 /\ <<"Payment", t.input.paymentId>> \in Rows
                 /\ t.snap.payments[t.input.paymentId] \in CA!PaymentRow
           /\ NamedInvoices(t) \subseteq DOMAIN t.snap.invoices
           /\ DOMAIN t.snap.invoices \subseteq 1 .. MaxInvoices
<1>1. t.input.op = "reversePayment" => t.input.paymentId \in DOMAIN t.snap.payments
  BY DEF NamedIn
<1>2. CustomerOf(t) \in DOMAIN t.snap.customers
  <2>1. CASE t.input.op = "reversePayment"
    BY <1>1, <2>1 DEF CustomerOf, Sound
  <2>2. CASE t.input.op # "reversePayment"
    BY <2>2 DEF CustomerOf, NamedIn
  <2> QED
    BY <2>1, <2>2
<1>3. /\ DOMAIN t.snap.customers \subseteq 1 .. MaxCustomers
      /\ DOMAIN t.snap.invoices \subseteq 1 .. MaxInvoices
      /\ DOMAIN t.snap.payments \subseteq 1 .. MaxPayments
  BY LenProperties, Numbers DEF Sound
<1>4. <<"Customer", CustomerOf(t)>> \in Rows
  BY <1>2, <1>3 DEF Rows
<1>5. t.input.op = "reversePayment" =>
         /\ <<"Payment", t.input.paymentId>> \in Rows
         /\ t.snap.payments[t.input.paymentId] \in CA!PaymentRow
  BY <1>1, <1>3 DEF Rows, Sound
<1>6. NamedInvoices(t) \subseteq DOMAIN t.snap.invoices
  <2>1. CASE Automatic(t)
    BY <2>1, Kinds DEF Outstanding
  <2>2. CASE Manual(t)
    BY <2>2, Kinds DEF NamedIn
  <2>3. CASE t.input.op = "reversePayment"
    <3>1. t.snap.payments[t.input.paymentId].allocations \in CA!Allocations
      BY <1>5, <2>3 DEF CA!PaymentRow
    <3>2. NamedInvoices(t) = AllocatedInvoices(t.snap.payments[t.input.paymentId].allocations)
      BY <2>3, Kinds
    <3> QED
      BY <1>1, <2>3, <3>1, <3>2 DEF AllocatedInvoices, CA!Allocations, Sound
  <2>4. CASE t.input.op = "createPurchase"
    BY <2>4, Kinds
  <2> QED
    BY <2>1, <2>2, <2>3, <2>4, Kinds
<1> QED
  BY <1>1, <1>2, <1>3, <1>4, <1>5, <1>6

\* The order in which the loop takes up the invoices.
LEMMA OrderFits ==
    ASSUME NEW t, t.input \in Requests, Sound(t.snap), NamedIn(t.input, t.snap),
           NEW order \in LockOrders(t)
    PROVE  /\ order \in Seq(1 .. MaxInvoices)
           /\ Range(order) = NamedInvoices(t)
           /\ ~Manual(t) => Distinct(order)
           /\ Automatic(t) => OldestFirst(t.snap.invoices, order)
<1>1. NamedInvoices(t) \subseteq 1 .. MaxInvoices
  BY RowsKnown
<1>2. IsFiniteSet(NamedInvoices(t))
  <2>1. IsFiniteSet(1 .. MaxInvoices)
    BY Numbers, FS_Interval
  <2> QED
    BY <1>1, <2>1, FS_Subset
<1>3. ASSUME order \in SetToSeqs(NamedInvoices(t))
      PROVE  order \in Seq(1 .. MaxInvoices) /\ Distinct(order) /\ Range(order) = NamedInvoices(t)
  <2>1. order \in Seq(NamedInvoices(t)) /\ Distinct(order) /\ Range(order) = NamedInvoices(t)
    BY <1>2, <1>3, OrderOfSet
  <2>2. Len(order) \in Nat /\ order \in [1 .. Len(order) -> NamedInvoices(t)]
    BY <2>1, LenProperties
  <2>3. order \in [1 .. Len(order) -> 1 .. MaxInvoices]
    BY <1>1, <2>2
  <2>4. order \in Seq(1 .. MaxInvoices)
    BY <2>2, <2>3, SeqDef
  <2> QED
    BY <2>1, <2>4
<1>4. CASE Automatic(t)
  BY <1>3, <1>4, Kinds
<1>5. CASE Manual(t)
  <2>1. order = [k \in DOMAIN t.input.allocations |-> t.input.allocations[k].invoiceId]
    BY <1>5, Kinds
  <2>2. NamedInvoices(t) = {t.input.allocations[k].invoiceId : k \in DOMAIN t.input.allocations}
    BY <1>5, Kinds
  <2>3. Range(order) = NamedInvoices(t)
    BY <2>1, <2>2 DEF Range
  <2>4. t.input.allocations \in Seq(Allocation)
    BY <1>5, InputFields DEF Manual, Requests
  <2>5. DOMAIN t.input.allocations = 1 .. Len(t.input.allocations) /\ Len(t.input.allocations) \in Nat
    BY <2>4, LenProperties
  <2>6. \A k \in DOMAIN t.input.allocations : order[k] \in 1 .. MaxInvoices
    BY <1>1, <2>1, <2>2
  <2>7. order \in [1 .. Len(t.input.allocations) -> 1 .. MaxInvoices]
    BY <2>1, <2>5, <2>6
  <2>8. order \in Seq(1 .. MaxInvoices)
    BY <2>5, <2>7, SeqDef
  <2> QED
    BY <1>5, <2>3, <2>8, Kinds
<1>6. CASE t.input.op = "reversePayment"
  BY <1>3, <1>6, Kinds
<1>7. CASE t.input.op = "createPurchase"
  <2>1. order = <<>> /\ NamedInvoices(t) = {} /\ ~Automatic(t)
    BY <1>7, Kinds
  <2> QED
    BY <2>1 DEF Range, Distinct
<1> QED
  BY <1>4, <1>5, <1>6, <1>7, Kinds

\* A reversal locks the payment.
LEMMA PaymentLockedFits ==
    ASSUME NEW t, NEW rows, SlotFits(t, rows), t.pc = "payment",
           <<"Payment", t.input.paymentId>> \notin t.stale,
           CA!Reversible(t.snap.payments[t.input.paymentId]), NEW u,
           u = [t EXCEPT !.pc = "customer", !.held = Holding(t, <<"Payment", t.input.paymentId>>)]
    PROVE  SlotFits(u, rows)
<1> DEFINE row == <<"Payment", t.input.paymentId>>
<1>1. t \in Transactions /\ Sees(t, rows) /\ LocksFit(t) /\ t.input \in Requests
  BY DEF SlotFits, Opened
<1>2. t.input.op = "reversePayment" /\ t.held = {} /\ t.plan = NoPlan
  BY <1>1 DEF LocksFit
<1>3. row \in Rows
  BY <1>1, <1>2, RowsKnown DEF Sees
<1>4. /\ u.pc = "customer" /\ u.input = t.input /\ u.snap = t.snap /\ u.held = {row}
      /\ u.stale = t.stale /\ u.plan = NoPlan
  BY <1>1, <1>2 DEF Transactions, Holding
<1>5. u \in Transactions
  BY <1>1, <1>2, <1>3 DEF Transactions, Phases, Holding
<1>6. Sees(u, rows)
  BY <1>1, <1>4 DEF Sees
<1>7. \A i : <<"Invoice", i>> # row
  OBVIOUS
<1>8. LocksFit(u)
  BY <1>2, <1>4, <1>7 DEF LocksFit
<1> QED
  BY <1>1, <1>4, <1>5, <1>6, <1>8 DEF SlotFits, Opened

\* Nothing is planned when the loop starts.
LEMMA LoopStarts ==
    ASSUME NEW t, t.input \in Requests, Sound(t.snap), NamedIn(t.input, t.snap),
           <<"Customer", CustomerOf(t)>> \in t.held, Admitted(t), t.todo \in LockOrders(t),
           t.plan = NoPlan, \A i : <<"Invoice", i>> \notin t.held
    PROVE  Looping(t)
<1>1. NamedInvoices(t) \subseteq DOMAIN t.snap.invoices /\ NamedInvoices(t) \subseteq 1 .. MaxInvoices
  BY RowsKnown
<1>2. /\ Range(t.todo) = NamedInvoices(t)
      /\ ~Manual(t) => Distinct(t.todo)
      /\ Automatic(t) => OldestFirst(t.snap.invoices, t.todo)
  BY OrderFits
<1>3. \A i \in 1 .. MaxInvoices : t.plan[i] = 0 /\ ~(t.plan[i] > 0)
  BY NoPlanType
<1>4. \A i \in NamedInvoices(t) : t.plan[i] <= t.snap.invoices[i].currentDue
  <2> TAKE i \in NamedInvoices(t)
  <2>1. t.plan[i] = 0 /\ i \in DOMAIN t.snap.invoices
    BY <1>1, <1>3
  <2>2. t.snap.invoices[i].currentDue >= 0 /\ t.snap.invoices[i].currentDue \in Int
    BY <2>1, SoundRows
  <2> QED
    BY <2>1, <2>2
<1>5. Automatic(t) => OldestFirstSoFar(t)
  BY <1>1, <1>2, <1>3 DEF OldestFirstSoFar
<1> QED
  BY <1>1, <1>2, <1>3, <1>4, <1>5 DEF Looping

\* The customer is locked and the loop starts.
LEMMA CustomerLockedFits ==
    ASSUME NEW t, NEW rows, SlotFits(t, rows), t.pc = "customer",
           <<"Customer", CustomerOf(t)>> \notin t.stale, Admitted(t), NEW order \in LockOrders(t),
           NEW u, u = [t EXCEPT !.pc = "invoices", !.todo = order,
                                !.held = Holding(t, <<"Customer", CustomerOf(t)>>)]
    PROVE  SlotFits(u, rows)
<1> DEFINE row == <<"Customer", CustomerOf(t)>>
<1>1. t \in Transactions /\ Sees(t, rows) /\ LocksFit(t) /\ t.input \in Requests
  BY DEF SlotFits, Opened
<1>2. (\A i : <<"Invoice", i>> \notin t.held) /\ t.plan = NoPlan
  BY <1>1 DEF LocksFit
<1>3. row \in Rows
  BY <1>1, RowsKnown DEF Sees
<1>4. order \in Seq(1 .. MaxInvoices)
  BY <1>1, OrderFits DEF Sees
<1>5. /\ u.pc = "invoices" /\ u.input = t.input /\ u.snap = t.snap /\ u.held = t.held \cup {row}
      /\ u.stale = t.stale /\ u.plan = NoPlan /\ u.todo = order
  BY <1>1, <1>2 DEF Transactions, Holding
<1>6. u \in Transactions
  BY <1>1, <1>3, <1>4 DEF Transactions, Phases, Holding
<1>7. Sees(u, rows)
  BY <1>1, <1>5 DEF Sees
<1>8. CustomerOf(u) = CustomerOf(t) /\ Admitted(u)
  BY <1>5, SameRequest
<1>9. order \in LockOrders(u)
  BY <1>5 DEF LockOrders, Automatic, Manual, Outstanding, CustomerOf
<1>10. \A i : <<"Invoice", i>> \notin u.held
  BY <1>2, <1>5
<1>11. Looping(u)
  BY <1>1, <1>5, <1>8, <1>9, <1>10, LoopStarts DEF Sees
<1>12. LocksFit(u)
  BY <1>1, <1>5, <1>11 DEF LocksFit
<1> QED
  BY <1>1, <1>5, <1>6, <1>7, <1>12 DEF SlotFits, Opened

-----------------------------------------------------------------------------
\* Taking the first element of an order.
LEMMA TakeHead ==
    ASSUME NEW S, NEW order \in Seq(S), order # <<>>
    PROVE  /\ Head(order) \in S /\ Head(order) \in Range(order)
           /\ Tail(order) \in Seq(S)
           /\ Range(Tail(order)) \subseteq Range(order)
           /\ Range(order) = {Head(order)} \cup Range(Tail(order))
           /\ Distinct(order) => Distinct(Tail(order)) /\ Head(order) \notin Range(Tail(order))
           /\ \A rows : OldestFirst(rows, order) =>
                 /\ OldestFirst(rows, Tail(order))
                 /\ \A k \in Range(Tail(order)) : Older(rows, Head(order), k)
<1> DEFINE tail == Tail(order)
<1>1. /\ Len(order) \in Nat /\ Len(order) >= 1 /\ DOMAIN order = 1 .. Len(order)
      /\ \A n \in 1 .. Len(order) : order[n] \in S
  BY LenProperties, EmptySeq
<1>2. Head(order) = order[1] /\ 1 \in DOMAIN order
  BY <1>1
<1>3. /\ tail \in Seq(S) /\ DOMAIN tail = 1 .. Len(order) - 1
      /\ \A n \in 1 .. Len(order) - 1 : n + 1 \in DOMAIN order /\ tail[n] = order[n + 1]
  BY <1>1, HeadTailProperties
<1> HIDE DEF tail
<1>4. \A n \in DOMAIN order : n = 1 \/ (n - 1 \in DOMAIN tail /\ tail[n - 1] = order[n])
  <2> TAKE n \in DOMAIN order
  <2>1. n # 1 => n - 1 \in 1 .. Len(order) - 1 /\ (n - 1) + 1 = n
    BY <1>1
  <2> QED
    BY <1>3, <2>1
<1>5. Range(tail) \subseteq Range(order)
  BY <1>3 DEF Range
<1>6. Range(order) = {Head(order)} \cup Range(tail)
  <2>1. Range(order) \subseteq {Head(order)} \cup Range(tail)
    BY <1>2, <1>4 DEF Range
  <2> QED
    BY <1>2, <1>5, <2>1 DEF Range
<1>7. ASSUME Distinct(order) PROVE Distinct(tail) /\ Head(order) \notin Range(tail)
  <2>1. Distinct(tail)
    <3> SUFFICES ASSUME NEW j \in DOMAIN tail, NEW k \in DOMAIN tail, j # k PROVE tail[j] # tail[k]
      BY DEF Distinct
    <3>1. j \in Int /\ k \in Int /\ j + 1 # k + 1
      BY <1>1, <1>3
    <3> QED
      BY <1>3, <1>7, <3>1 DEF Distinct
  <2>2. \A n \in DOMAIN tail : tail[n] # Head(order)
    <3> TAKE n \in DOMAIN tail
    <3>1. n + 1 # 1 /\ n + 1 \in DOMAIN order /\ tail[n] = order[n + 1]
      BY <1>1, <1>3
    <3> QED
      BY <1>2, <1>7, <3>1 DEF Distinct
  <2> QED
    BY <2>1, <2>2 DEF Range
<1>8. ASSUME NEW rows, OldestFirst(rows, order)
      PROVE  OldestFirst(rows, tail) /\ \A k \in Range(tail) : Older(rows, Head(order), k)
  <2>1. OldestFirst(rows, tail)
    <3> SUFFICES ASSUME NEW j \in DOMAIN tail, NEW k \in DOMAIN tail, j < k
                 PROVE  Older(rows, tail[j], tail[k])
      BY DEF OldestFirst
    <3>1. j + 1 < k + 1
      BY <1>1, <1>3
    <3> QED
      BY <1>3, <1>8, <3>1 DEF OldestFirst
  <2>2. \A n \in DOMAIN tail : Older(rows, Head(order), tail[n])
    <3> TAKE n \in DOMAIN tail
    <3>1. 1 < n + 1 /\ n + 1 \in DOMAIN order /\ tail[n] = order[n + 1]
      BY <1>1, <1>3
    <3> QED
      BY <1>2, <1>8, <3>1 DEF OldestFirst
  <2> QED
    BY <2>1, <2>2 DEF Range
<1>9. Head(order) \in S /\ Head(order) \in Range(order)
  BY <1>1, <1>2 DEF Range
<1> QED
  BY <1>3, <1>5, <1>6, <1>7, <1>8, <1>9 DEF tail

\* Of two invoices, one is older.
LEMMA OlderIsStrict ==
    ASSUME NEW rows, Sound(rows), NEW i \in DOMAIN rows.invoices, NEW j \in DOMAIN rows.invoices,
           Older(rows.invoices, i, j)
    PROVE  i # j /\ ~Older(rows.invoices, j, i)
<1>1. rows.invoices[i].invoiceDate \in Nat /\ rows.invoices[j].invoiceDate \in Nat
  BY SoundRows DEF CA!InvoiceRow
<1>2. i \in Nat /\ j \in Nat
  BY LenProperties DEF Sound
<1> QED
  BY <1>1, <1>2 DEF Older

\* What the loop assigns to an invoice.
LEMMA ShareFits ==
    ASSUME NEW t \in Transactions, t.input \in Requests, Sound(t.snap), NamedIn(t.input, t.snap),
           NEW i \in NamedInvoices(t), Automatic(t) => Remaining(t) > 0
    PROVE  /\ Share(t, i) \in Nat
           /\ Automatic(t) =>
                 /\ Remaining(t) \in Int
                 /\ Share(t, i) <= t.snap.invoices[i].currentDue
                 /\ Share(t, i) = t.snap.invoices[i].currentDue \/ Share(t, i) = Remaining(t)
           /\ t.input.op = "reversePayment" =>
                 Share(t, i) = t.snap.payments[t.input.paymentId].allocations[i]
<1>1. i \in DOMAIN t.snap.invoices /\ i \in 1 .. MaxInvoices /\ t.snap.invoices[i].currentDue \in Nat
  BY RowsKnown, SoundRows
<1>2. CASE Automatic(t)
  <2>1. t.input.amount \in Nat
    BY <1>2, Kinds, InputFields, Numbers DEF Requests
  <2>2. Remaining(t) \in Nat /\ Remaining(t) > 0
    BY <1>2, <2>1, PlanSum DEF Remaining, Transactions
  <2>3. Share(t, i) = Min({Remaining(t), t.snap.invoices[i].currentDue})
    BY <1>2, Kinds DEF Share
  <2>4. /\ Share(t, i) \in {Remaining(t), t.snap.invoices[i].currentDue}
        /\ Share(t, i) <= t.snap.invoices[i].currentDue
    BY <1>1, <2>2, <2>3 DEF Min
  <2> QED
    BY <1>1, <1>2, <2>2, <2>4, Kinds
<1>3. CASE Manual(t)
  <2>1. t.input.allocations \in Seq(Allocation)
    BY <1>3, Kinds, InputFields DEF Requests
  <2>2. PICK k \in DOMAIN t.input.allocations : t.input.allocations[k].invoiceId = i
    BY <1>3, Kinds
  <2>3. t.input.allocations[k] \in Range(t.input.allocations)
        /\ \A a \in Range(t.input.allocations) : a \in Allocation
    BY <2>1 DEF Range
  <2>4. Share(t, i) = (CHOOSE a \in Range(t.input.allocations) : a.invoiceId = i).amount
    BY <1>3, Kinds DEF Share
  <2>5. Share(t, i) \in Nat
    BY <2>2, <2>3, <2>4 DEF Allocation
  <2> QED
    BY <1>3, <2>5, Kinds
<1>4. CASE t.input.op = "reversePayment"
  <2>1. Share(t, i) = t.snap.payments[t.input.paymentId].allocations[i]
    BY <1>4, Kinds DEF Share
  <2>2. t.snap.payments[t.input.paymentId].allocations \in CA!Allocations
    BY <1>4, RowsKnown, SoundRows
  <2> QED
    BY <1>1, <1>4, <2>1, <2>2, Kinds DEF CA!Allocations
<1>5. CASE t.input.op = "createPurchase"
  BY <1>5, Kinds
<1> QED
  BY <1>2, <1>3, <1>4, <1>5, Kinds

-----------------------------------------------------------------------------
\* The loop takes up one more invoice.
LEMMA LoopGoesOn ==
    ASSUME NEW t \in Transactions, t.input \in Requests, Sound(t.snap), NamedIn(t.input, t.snap),
           Looping(t), MoreToLock(t), NEW i, i = Head(t.todo),
           NEW u, u.input = t.input, u.snap = t.snap,
           u.held = t.held \cup {<<"Invoice", i>>}, u.todo = Tail(t.todo),
           u.plan = [t.plan EXCEPT ![i] = @ + Share(t, i)]
    PROVE  Looping(u) /\ u.todo \in Seq(1 .. MaxInvoices) /\ u.plan \in CA!Allocations
<1> DEFINE named == NamedInvoices(t)
           rows == t.snap.invoices
           left == Range(u.todo)
<1>1. /\ Automatic(u) <=> Automatic(t)
      /\ Manual(u) <=> Manual(t)
      /\ CustomerOf(u) = CustomerOf(t)
      /\ Admitted(u)
      /\ NamedInvoices(u) = named
  BY SameRequest DEF Looping
<1>2. t.todo \in Seq(1 .. MaxInvoices) /\ t.todo # <<>> /\ t.plan \in CA!Allocations
      /\ (Automatic(t) => Remaining(t) > 0)
  BY DEF Transactions, MoreToLock
<1>3. /\ i \in 1 .. MaxInvoices /\ i \in named
      /\ u.todo \in Seq(1 .. MaxInvoices)
      /\ left \subseteq named
      /\ Range(t.todo) = {i} \cup left
      /\ ~Manual(t) => Distinct(u.todo) /\ i \notin left
  <2>1. /\ i \in 1 .. MaxInvoices /\ u.todo \in Seq(1 .. MaxInvoices)
        /\ Range(t.todo) = {i} \cup left
        /\ Distinct(t.todo) => Distinct(u.todo) /\ i \notin left
    <3>1. /\ Head(t.todo) \in 1 .. MaxInvoices /\ Tail(t.todo) \in Seq(1 .. MaxInvoices)
          /\ Range(t.todo) = {Head(t.todo)} \cup Range(Tail(t.todo))
          /\ Distinct(t.todo) =>
                Distinct(Tail(t.todo)) /\ Head(t.todo) \notin Range(Tail(t.todo))
      BY <1>2, TakeHead
    <3> QED
      BY <3>1
  <2>2. Range(t.todo) \subseteq named /\ (~Manual(t) => Distinct(t.todo))
    BY DEF Looping
  <2> QED
    BY <2>1, <2>2
<1>4. named \subseteq 1 .. MaxInvoices /\ named \subseteq DOMAIN rows
  BY RowsKnown
<1>5. /\ Share(t, i) \in Nat
      /\ Automatic(t) =>
            /\ Remaining(t) \in Int
            /\ Share(t, i) <= rows[i].currentDue
            /\ Share(t, i) = rows[i].currentDue \/ Share(t, i) = Remaining(t)
      /\ t.input.op = "reversePayment" =>
            Share(t, i) = t.snap.payments[t.input.paymentId].allocations[i]
  BY <1>2, <1>3, ShareFits
<1>6. u.plan \in CA!Allocations /\ SumFunction(u.plan) = SumFunction(t.plan) + Share(t, i)
  BY <1>2, <1>3, <1>5, SumMoves
<1>7. u.plan[i] = t.plan[i] + Share(t, i) /\ \A k \in 1 .. MaxInvoices : k # i => u.plan[k] = t.plan[k]
  BY <1>2, <1>3 DEF CA!Allocations
<1>8. \A k \in 1 .. MaxInvoices : t.plan[k] \in Nat /\ u.plan[k] \in Nat
  BY <1>2, <1>6 DEF CA!Allocations
<1>9. ~Manual(t) => t.plan[i] = 0 /\ u.plan[i] = Share(t, i) /\ \A k \in left : t.plan[k] = 0
  BY <1>3, <1>5, <1>7 DEF Looping
<1>10. <<"Customer", CustomerOf(u)>> \in u.held
  BY <1>1 DEF Looping
<1>11. ASSUME NEW k \in 1 .. MaxInvoices
       PROVE  /\ <<"Invoice", k>> \in u.held => k \in named
              /\ u.plan[k] > 0 => <<"Invoice", k>> \in u.held
  <2>1. CASE k = i
    BY <1>3, <2>1
  <2>2. CASE k # i
    <3>1. <<"Invoice", k>> # <<"Invoice", i>>
      BY <2>2
    <3> QED
      BY <1>7, <2>2, <3>1 DEF Looping
  <2> QED
    BY <2>1, <2>2
<1>12. ~Manual(t) => \A k \in left : u.plan[k] = 0
  BY <1>3, <1>4, <1>7, <1>9
<1>13. ASSUME Automatic(t) PROVE \A k \in named : u.plan[k] <= rows[k].currentDue
  <2> TAKE k \in named
  <2>1. CASE k = i
    BY <1>5, <1>9, <1>13, <2>1, Kinds
  <2>2. CASE k # i
    BY <1>4, <1>7, <1>13, <2>2 DEF Looping
  <2> QED
    BY <2>1, <2>2
<1>14. ASSUME t.input.op = "reversePayment"
       PROVE  \A k \in named : k \in left
                 \/ u.plan[k] = t.snap.payments[t.input.paymentId].allocations[k]
  <2> TAKE k \in named
  <2>1. CASE k = i
    BY <1>5, <1>9, <1>14, <2>1, Kinds
  <2>2. CASE k # i
    BY <1>3, <1>4, <1>7, <1>14, <2>2 DEF Looping
  <2> QED
    BY <2>1, <2>2
<1>15. ASSUME Automatic(t) PROVE OldestFirstSoFar(u)
  <2>1. OldestFirstSoFar(t) /\ ~Manual(t)
    BY <1>15, Kinds DEF Looping
  <2>2. OldestFirst(rows, u.todo) /\ \A k \in left : Older(rows, i, k)
    BY <1>2, <2>1, TakeHead DEF OldestFirstSoFar
  <2>3. \A k, j \in named : Older(rows, k, j) => k # j /\ ~Older(rows, j, k)
    BY <1>4, OlderIsStrict
  <2>4. Remaining(u) = Remaining(t) - Share(t, i)
    <3>1. t.input.amount \in Nat
      <4>1. t.input.op = "createPayment" /\ t.input \in Inputs
        BY <1>15, Kinds DEF Requests
      <4> QED
        BY <4>1, InputFields, Numbers
    <3>2. SumFunction(t.plan) \in Int
      BY <1>2, PlanSum
    <3> QED
      BY <1>5, <1>6, <3>1, <3>2 DEF Remaining
  <2>5. \A k \in named : k \in Range(t.todo) \/ t.plan[k] = rows[k].currentDue
    BY <1>2, <1>15, <2>1 DEF OldestFirstSoFar
  <2>6. ASSUME NEW k \in named
        PROVE  k \in left \/ u.plan[k] = rows[k].currentDue \/ Remaining(u) = 0
    <3>1. CASE k = i
      BY <1>5, <1>9, <1>15, <2>1, <2>4, <3>1
    <3>2. CASE k # i
      BY <1>3, <1>4, <1>7, <2>5, <3>2
    <3> QED
      BY <3>1, <3>2
  <2>7. ASSUME NEW k \in left, NEW j \in named, u.plan[j] > 0 PROVE ~Older(rows, k, j)
    <3>1. CASE j = i
      BY <1>3, <2>2, <2>3, <3>1
    <3>2. CASE j # i
      <4>1. t.plan[j] > 0 /\ k \in Range(t.todo)
        BY <1>3, <1>4, <1>7, <2>7, <3>2
      <4> QED
        BY <2>1, <4>1 DEF OldestFirstSoFar
    <3> QED
      BY <3>1, <3>2
  <2>8. ASSUME NEW k \in named, NEW j \in named, u.plan[j] > 0, Older(rows, k, j)
        PROVE  u.plan[k] = rows[k].currentDue
    <3>1. CASE j = i
      <4>1. k # i /\ k \notin left
        BY <2>2, <2>3, <2>8, <3>1
      <4>2. t.plan[k] = rows[k].currentDue
        BY <1>3, <2>5, <4>1
      <4> QED
        BY <1>4, <1>7, <4>1, <4>2
    <3>2. CASE j # i
      <4>1. t.plan[j] > 0
        BY <1>4, <1>7, <2>8, <3>2
      <4>2. k # i
        BY <1>3, <2>1, <2>8, <4>1 DEF OldestFirstSoFar
      <4>3. t.plan[k] = rows[k].currentDue
        BY <2>1, <2>8, <4>1 DEF OldestFirstSoFar
      <4> QED
        BY <1>4, <1>7, <4>2, <4>3
    <3> QED
      BY <3>1, <3>2
  <2> QED
    BY <1>1, <2>2, <2>6, <2>7, <2>8 DEF OldestFirstSoFar
<1>16. Looping(u)
  BY <1>1, <1>3, <1>10, <1>11, <1>12, <1>13, <1>14, <1>15 DEF Looping
<1> QED
  BY <1>3, <1>6, <1>16

\* An invoice is locked.
LEMMA InvoiceLockedFits ==
    ASSUME NEW t, NEW rows, SlotFits(t, rows), t.pc = "invoices", MoreToLock(t),
           <<"Invoice", Head(t.todo)>> \notin t.stale, NEW u,
           u = [t EXCEPT !.held = Holding(t, <<"Invoice", Head(t.todo)>>),
                         !.todo = Tail(@),
                         !.plan[Head(t.todo)] = @ + Share(t, Head(t.todo))]
    PROVE  SlotFits(u, rows)
<1> DEFINE i == Head(t.todo)
           row == <<"Invoice", i>>
<1>1. t \in Transactions /\ Sees(t, rows) /\ LocksFit(t) /\ t.input \in Requests /\ Looping(t)
  BY DEF SlotFits, Opened, LocksFit
<1>2. /\ u.pc = "invoices" /\ u.input = t.input /\ u.snap = t.snap
      /\ u.held = t.held \cup {row} /\ u.stale = t.stale /\ u.todo = Tail(t.todo)
      /\ u.plan = [t.plan EXCEPT ![i] = @ + Share(t, i)]
  BY <1>1 DEF Transactions, Holding
<1>3. Looping(u) /\ u.todo \in Seq(1 .. MaxInvoices) /\ u.plan \in CA!Allocations
  BY <1>1, <1>2, LoopGoesOn DEF Sees
<1>4. i \in 1 .. MaxInvoices
  BY <1>1, TakeHead DEF Transactions, MoreToLock
<1>5. row \in Rows
  BY <1>4 DEF Rows
<1>6. t.held \cup {row} \in SUBSET Rows
  BY <1>1, <1>5 DEF Transactions
<1>7. u \in Transactions
  <2> DEFINE plan == [t.plan EXCEPT ![i] = @ + Share(t, i)]
  <2>1. plan \in CA!Allocations /\ Tail(t.todo) \in Seq(1 .. MaxInvoices)
    BY <1>2, <1>3
  <2>2. u = [t EXCEPT !.held = t.held \cup {row}, !.todo = Tail(t.todo), !.plan = plan]
    BY DEF Holding
  <2> HIDE DEF plan, row
  <2> QED
    BY <1>1, <1>6, <2>1, <2>2 DEF Transactions
<1>8. Sees(u, rows)
  BY <1>1, <1>2 DEF Sees
<1>9. LocksFit(u)
  BY <1>1, <1>2, <1>3 DEF LocksFit
<1> QED
  BY <1>1, <1>2, <1>7, <1>8, <1>9 DEF SlotFits, Opened

(***************************************************************************)
(* The inductive invariant.                                                *)
(***************************************************************************)
Sent(op) == {r \in Slots : tx[r].input.op = op}

\* The rows that requests will create are accounted for when they arrive.
Room ==
    /\ Len(customers) <= MaxCustomers
    /\ Len(invoices) + Cardinality(Sent("createPurchase")) <= MaxInvoices
    /\ Len(payments) + Cardinality(Sent("createPurchase")) + Cardinality(Sent("createPayment"))
          <= MaxPayments

LocksExclude == \A r, q \in Slots : r # q => tx[r].held \cap tx[q].held = {}

IInv ==
    /\ TablesInv
    /\ Room
    /\ LocksExclude
    /\ tx = [r \in Slots |-> tx[r]]
    /\ \A r \in Slots : SlotFits(tx[r], Tables)

\* There are finitely many requests.
LEMMA SentType == \A op : IsFiniteSet(Sent(op)) /\ Cardinality(Sent(op)) \in Nat
<1> TAKE op
<1>1. IsFiniteSet(Slots) /\ Sent(op) \subseteq Slots
  BY InputsAssumption DEF Sent
<1>2. IsFiniteSet(Sent(op))
  BY <1>1, FS_Subset
<1> QED
  BY <1>2, FS_CardinalityType

\* The tables are sound, and every slot is what it should be.
LEMMA InvSound == IInv => Sound(Tables) /\ TypeOK
<1> SUFFICES ASSUME IInv PROVE Sound(Tables) /\ TypeOK
  OBVIOUS
<1>1. /\ customers \in Seq(CAP!CustomerRow) /\ invoices \in Seq(CAP!InvoiceRow)
      /\ payments \in Seq(CAP!PaymentRow)
  BY DEF IInv, TablesInv, CAP!TypeInv, CAP!TypeOK
<1>2. Len(customers) \in Nat /\ Len(invoices) \in Nat /\ Len(payments) \in Nat
  BY <1>1, LenProperties
<1>3. Len(customers) <= MaxCustomers /\ Len(payments) <= MaxPayments
  BY <1>2, SentType, Numbers DEF IInv, Room
<1>4. Sound(Tables) /\ CA!TypeOK
  BY <1>3, TablesSound DEF IInv
<1>5. tx \in [Slots -> Transactions]
  BY DEF IInv, SlotFits
<1> QED
  BY <1>4, <1>5 DEF TypeOK

\* The invariant holds at first.
LEMMA InvInit == Init => IInv
<1> SUFFICES ASSUME Init PROVE IInv
  OBVIOUS
<1>1. TablesInv
  BY TablesInit DEF Init
<1>2. tx = [r \in Slots |-> tx[r]] /\ \A r \in Slots : tx[r] = Idle
  BY DEF Init
<1>3. \A r \in Slots : SlotFits(tx[r], Tables)
  BY <1>2, IdleFits
<1>4. LocksExclude
  BY <1>2 DEF LocksExclude, Idle
<1>5. Room
  <2>1. Sent("createPurchase") = {} /\ Sent("createPayment") = {}
    BY <1>2 DEF Sent, Idle, NoInput
  <2>2. Len(customers) = 0 /\ Len(invoices) = 0 /\ Len(payments) = 0
    BY DEF Init, CA!Init
  <2>3. Cardinality(Sent("createPurchase")) = 0 /\ Cardinality(Sent("createPayment")) = 0
    BY <2>1, FS_EmptySet
  <2> QED
    BY <2>2, <2>3, Numbers DEF Room
<1> QED
  BY <1>1, <1>2, <1>3, <1>4, <1>5 DEF IInv

\* A slot changes and the tables do not.
LEMMA SlotStep ==
    ASSUME IInv, UNCHANGED tables, NEW r \in Slots, NEW u, tx' = [tx EXCEPT ![r] = u],
           SlotFits(u, Tables),
           \A q \in Slots \ {r} : u.held \cap tx[q].held = {},
           Room'
    PROVE  IInv'
<1>1. Tables' = Tables /\ UNCHANGED CA!vars
  BY DEF tables, Tables, CA!vars
<1>2. TablesInv'
  BY <1>1, TablesStep DEF IInv
<1>3. /\ tx' = [q \in Slots |-> tx'[q]]
      /\ tx'[r] = u /\ \A q \in Slots \ {r} : tx'[q] = tx[q]
  BY DEF IInv
<1>4. \A q \in Slots : SlotFits(tx'[q], Tables')
  BY <1>1, <1>3 DEF IInv
<1>5. LocksExclude'
  BY <1>3 DEF IInv, LocksExclude
<1> QED
  BY <1>2, <1>3, <1>4, <1>5 DEF IInv

\* A request that goes on, or is answered, takes no more room.
LEMMA RoomKept ==
    ASSUME IInv, UNCHANGED tables, NEW r \in Slots, NEW u, tx' = [tx EXCEPT ![r] = u],
           u.input \in {tx[r].input, NoInput}
    PROVE  Room'
<1>1. \A q \in Slots : tx'[q] = IF q = r THEN u ELSE tx[q]
  BY DEF IInv
<1>2. ASSUME NEW op \in {"createPurchase", "createPayment"}
      PROVE  Cardinality(Sent(op)') <= Cardinality(Sent(op)) /\ Cardinality(Sent(op)') \in Nat
  <2>1. Sent(op)' \subseteq Sent(op)
    BY <1>1 DEF Sent, NoInput
  <2>2. IsFiniteSet(Sent(op)')
    BY <2>1, SentType, FS_Subset
  <2> QED
    BY <2>1, <2>2, SentType, FS_Subset, FS_CardinalityType
<1>3. Len(customers) \in Nat /\ Len(invoices) \in Nat /\ Len(payments) \in Nat
  BY InvSound, LenProperties DEF Sound, Tables
<1>4. /\ Cardinality(Sent("createPurchase")') <= Cardinality(Sent("createPurchase"))
      /\ Cardinality(Sent("createPayment")') <= Cardinality(Sent("createPayment"))
      /\ Cardinality(Sent("createPurchase")') \in Nat
      /\ Cardinality(Sent("createPayment")') \in Nat
  BY <1>2
<1> QED
  BY <1>3, <1>4, SentType, Numbers DEF IInv, Room, tables

\* Tables are written: whoever is at work has missed it or is done.
LEMMA WriteStep ==
    ASSUME IInv, CA!Next, NEW written \in SUBSET Rows, Grown(Tables, Tables', written),
           tx' = [q \in Slots |-> tx'[q]],
           \A q \in Slots :
              \/ tx'[q] = Idle
              \/ ~Open(q) /\ tx'[q] = tx[q]
              \/ Open(q) /\ tx'[q] = Missed(tx[q], written) /\ written \cap tx[q].held = {},
           Room'
    PROVE  IInv'
<1>1. TablesInv'
  BY TablesStep DEF IInv
<1>2. ASSUME NEW q \in Slots
      PROVE  SlotFits(tx'[q], Tables') /\ tx'[q].held \subseteq tx[q].held
  <2>1. SlotFits(tx[q], Tables)
    BY DEF IInv
  <2>2. CASE tx'[q] = Idle
    <3>1. SlotFits(Idle, Tables') /\ Idle.held = {}
      BY IdleFits DEF Idle
    <3> QED
      BY <2>2, <3>1
  <2>3. CASE ~Open(q) /\ tx'[q] = tx[q]
    BY <2>1, <2>3, WaitingFits DEF Open, Opened
  <2>4. CASE Open(q) /\ tx'[q] = Missed(tx[q], written) /\ written \cap tx[q].held = {}
    <3>1. SlotFits(tx'[q], Tables')
      BY <2>1, <2>4, MissedFits DEF Open, Opened
    <3>2. tx'[q].held = tx[q].held
      BY <2>1, <2>4 DEF Missed, SlotFits, Transactions
    <3> QED
      BY <3>1, <3>2
  <2> QED
    BY <2>2, <2>3, <2>4
<1>3. LocksExclude'
  BY <1>2 DEF IInv, LocksExclude
<1> QED
  BY <1>1, <1>2, <1>3 DEF IInv

-----------------------------------------------------------------------------
\* A request arrives if there is room for its rows.
LEMMA ReceiveStep ==
    ASSUME IInv, NEW r \in Slots, NEW input \in Inputs, Receive(r, input)
    PROVE  IInv'
<1> DEFINE u == [Idle EXCEPT !.pc = "begin", !.input = input, !.attempt = 1]
<1>1. input \in Requests /\ UNCHANGED tables /\ tx' = [tx EXCEPT ![r] = u]
  BY DEF Receive, Requests
<1>2. u.input = input /\ u.held = {}
  BY DEF Idle
<1>3. NamedIn(input, Tables)
  <2>1. CASE input.op = "reversePayment"
    BY <2>1 DEF Receive, Names, NamedIn, Tables
  <2>2. CASE input.op = "createPayment"
    BY <2>2 DEF Receive, Names, NamedIn, Tables
  <2>3. CASE input.op = "createPurchase"
    BY <2>3 DEF Receive, Names, NamedIn, Tables
  <2> QED
    BY <1>1, <2>1, <2>2, <2>3 DEF Requests
<1>4. SlotFits(u, Tables)
  BY <1>1, <1>3, ReceivedFits
<1> HIDE DEF u
<1>5. \A op : /\ Cardinality(Sent(op)') \in Nat
              /\ input.op = op => Cardinality(Sent(op)') <= Cardinality(Sent(op)) + 1
              /\ input.op # op => Cardinality(Sent(op)') <= Cardinality(Sent(op))
  <2> TAKE op
  <2>1. \A q \in Slots : tx'[q] = IF q = r THEN u ELSE tx[q]
    BY <1>1 DEF IInv
  <2>2. Sent(op)' \subseteq Sent(op) \cup (IF input.op = op THEN {r} ELSE {})
    BY <1>2, <2>1 DEF Sent
  <2>3. IsFiniteSet(Sent(op)) /\ IsFiniteSet(Sent(op) \cup {r}) /\ Cardinality(Sent(op)) \in Nat
        /\ Cardinality(Sent(op) \cup {r}) <= Cardinality(Sent(op)) + 1
    <3>1. IsFiniteSet(Sent(op)) /\ Cardinality(Sent(op)) \in Nat
      BY SentType
    <3>2. /\ IsFiniteSet(Sent(op) \cup {r})
          /\ Cardinality(Sent(op) \cup {r}) =
                IF r \in Sent(op) THEN Cardinality(Sent(op)) ELSE Cardinality(Sent(op)) + 1
      BY <3>1, FS_AddElement
    <3> QED
      BY <3>1, <3>2
  <2>4. CASE input.op = op
    <3>1. Sent(op)' \subseteq Sent(op) \cup {r}
      BY <2>2, <2>4
    <3>2. IsFiniteSet(Sent(op)') /\ Cardinality(Sent(op)') <= Cardinality(Sent(op) \cup {r})
      BY <2>3, <3>1, FS_Subset
    <3>3. Cardinality(Sent(op)') \in Nat /\ Cardinality(Sent(op) \cup {r}) \in Nat
      BY <2>3, <3>2, FS_CardinalityType
    <3> QED
      BY <2>3, <2>4, <3>2, <3>3
  <2>5. CASE input.op # op
    <3>1. Sent(op)' \subseteq Sent(op)
      BY <2>2, <2>5
    <3>2. IsFiniteSet(Sent(op)') /\ Cardinality(Sent(op)') <= Cardinality(Sent(op))
      BY <2>3, <3>1, FS_Subset
    <3> QED
      BY <2>5, <3>2, FS_CardinalityType
  <2> QED
    BY <2>4, <2>5
<1>6. Room'
  <2> DEFINE purchases == Cardinality(Sent("createPurchase"))
             paid == Cardinality(Sent("createPayment"))
  <2>1. /\ input.op = "createPurchase" => Len(invoices) + purchases < MaxInvoices
        /\ input.op # "reversePayment" => Len(payments) + purchases + paid < MaxPayments
    BY DEF Receive, HasRoom, Sent
  <2>2. Len(customers) \in Nat /\ Len(invoices) \in Nat /\ Len(payments) \in Nat
    BY InvSound, LenProperties DEF Sound, Tables
  <2>3. /\ purchases \in Nat /\ paid \in Nat /\ purchases' \in Nat /\ paid' \in Nat
        /\ input.op = "createPurchase" => purchases' <= purchases + 1
        /\ input.op # "createPurchase" => purchases' <= purchases
        /\ input.op = "createPayment" => paid' <= paid + 1
        /\ input.op # "createPayment" => paid' <= paid
    BY <1>5, SentType
  <2>4. /\ Len(customers) <= MaxCustomers
        /\ Len(invoices) + purchases <= MaxInvoices
        /\ Len(payments) + purchases + paid <= MaxPayments
    BY DEF IInv, Room
  <2>5. UNCHANGED <<customers, invoices, payments>>
    BY <1>1 DEF tables
  <2> HIDE DEF purchases, paid
  <2>6. /\ Len(customers') <= MaxCustomers
        /\ Len(invoices') + purchases' <= MaxInvoices
        /\ Len(payments') + purchases' + paid' <= MaxPayments
    BY <1>1, <2>1, <2>2, <2>3, <2>4, <2>5, Numbers DEF Requests
  <2> QED
    BY <2>6 DEF Room, purchases, paid
<1> QED
  BY <1>1, <1>2, <1>4, <1>6, SlotStep

\* A request is answered without effect.
LEMMA AnsweredStep ==
    ASSUME IInv, UNCHANGED tables, NEW r \in Slots, tx' = [tx EXCEPT ![r] = Idle]
    PROVE  IInv'
<1>1. Idle.input = NoInput /\ Idle.held = {}
  BY DEF Idle
<1>2. Room'
  BY <1>1, RoomKept
<1> QED
  BY <1>1, <1>2, IdleFits, SlotStep

\* The snapshot is of tables in order.
LEMMA BeginStep == ASSUME IInv, NEW r \in Slots, Begin(r) PROVE IInv'
<1> DEFINE t == tx[r]
           u == [t EXCEPT !.pc = IF t.input.op = "reversePayment" THEN "payment" ELSE "customer",
                          !.snap = Tables]
<1>1. t.pc = "begin" /\ UNCHANGED tables
  BY DEF Begin
<1>2. tx' = [tx EXCEPT ![r] = u]
  BY DEF Begin, Tables
<1>3. SlotFits(t, Tables) /\ t \in Transactions /\ t.held = {}
  BY <1>1 DEF IInv, SlotFits, Opened
<1>4. u.input = t.input /\ u.held = t.held
  BY <1>3 DEF Transactions
<1>5. SlotFits(u, Tables)
  <2>1. Tables = [customers |-> Tables.customers, invoices |-> Tables.invoices,
                  payments |-> Tables.payments]
    BY DEF Tables
  <2> HIDE DEF t
  <2> QED
    BY <1>1, <1>3, <2>1, InvSound, BegunFits
<1> HIDE DEF u
<1>6. Room'
  BY <1>1, <1>2, <1>4, RoomKept
<1> QED
  BY <1>1, <1>2, <1>3, <1>4, <1>5, <1>6, SlotStep

\* The payment is locked, or it is reversed already and the request refused.
LEMMA LockPaymentStep == ASSUME IInv, NEW r \in Slots, LockPayment(r) PROVE IInv'
<1> DEFINE t == tx[r]
           row == <<"Payment", t.input.paymentId>>
           u == [t EXCEPT !.pc = "customer", !.held = Holding(t, row)]
<1>1. t.pc = "payment" /\ UNCHANGED tables /\ CanLock(r, row)
  BY DEF LockPayment
<1>2. CASE CA!Reversible(t.snap.payments[t.input.paymentId])
  <2>1. tx' = [tx EXCEPT ![r] = u]
    BY <1>2 DEF LockPayment
  <2>2. SlotFits(t, Tables) /\ t \in Transactions
    BY DEF IInv, SlotFits
  <2>3. u.input = t.input /\ u.held = t.held \cup {row}
    BY <2>2 DEF Transactions, Holding
  <2>4. SlotFits(u, Tables)
    <3>1. row \notin t.stale
      BY <1>1 DEF CanLock
    <3> HIDE DEF t
    <3> QED
      BY <1>1, <1>2, <2>2, <3>1, PaymentLockedFits
  <2>5. \A q \in Slots \ {r} : u.held \cap tx[q].held = {}
    BY <1>1, <2>3 DEF IInv, LocksExclude, CanLock
  <2> HIDE DEF u
  <2>6. Room'
    BY <1>1, <2>1, <2>3, RoomKept
  <2> QED
    BY <1>1, <2>1, <2>4, <2>5, <2>6, SlotStep
<1>3. CASE ~CA!Reversible(t.snap.payments[t.input.paymentId])
  <2>1. tx' = [tx EXCEPT ![r] = Idle]
    BY <1>3 DEF LockPayment
  <2> QED
    BY <1>1, <2>1, AnsweredStep
<1> QED
  BY <1>2, <1>3

\* The customer is locked and the loop starts, or the request is refused.
LEMMA LockCustomerStep == ASSUME IInv, NEW r \in Slots, LockCustomer(r) PROVE IInv'
<1> DEFINE t == tx[r]
           row == <<"Customer", CustomerOf(t)>>
<1>1. t.pc = "customer" /\ UNCHANGED tables /\ CanLock(r, row)
  BY DEF LockCustomer
<1>2. CASE Admitted(t)
  <2>1. PICK order \in LockOrders(t) :
           tx' = [tx EXCEPT ![r].pc = "invoices", ![r].held = Holding(t, row), ![r].todo = order]
    BY <1>2 DEF LockCustomer
  <2> DEFINE u == [t EXCEPT !.pc = "invoices", !.todo = order, !.held = Holding(t, row)]
  <2>2. SlotFits(t, Tables) /\ t \in Transactions
    BY DEF IInv, SlotFits
  <2>3. u = [t EXCEPT !.pc = "invoices", !.held = Holding(t, row), !.todo = order]
    BY <2>2 DEF Transactions
  <2>4. tx' = [tx EXCEPT ![r] = u]
    BY <2>1, <2>3
  <2>5. u.input = t.input /\ u.held = t.held \cup {row}
    BY <2>2 DEF Transactions, Holding
  <2>6. SlotFits(u, Tables)
    <3>1. row \notin t.stale
      BY <1>1 DEF CanLock
    <3> HIDE DEF t
    <3> QED
      BY <1>1, <1>2, <2>2, <3>1, CustomerLockedFits
  <2>7. \A q \in Slots \ {r} : u.held \cap tx[q].held = {}
    BY <1>1, <2>5 DEF IInv, LocksExclude, CanLock
  <2> HIDE DEF u
  <2>8. Room'
    BY <1>1, <2>4, <2>5, RoomKept
  <2> QED
    BY <1>1, <2>4, <2>6, <2>7, <2>8, SlotStep
<1>3. CASE ~Admitted(t)
  <2>1. tx' = [tx EXCEPT ![r] = Idle]
    BY <1>3 DEF LockCustomer
  <2> QED
    BY <1>1, <2>1, AnsweredStep
<1> QED
  BY <1>2, <1>3

\* One turn of the loop: an invoice nobody else holds is locked and planned.
LEMMA LockInvoiceStep == ASSUME IInv, NEW r \in Slots, LockInvoice(r) PROVE IInv'
<1> DEFINE t == tx[r]
           i == Head(t.todo)
           row == <<"Invoice", i>>
           u == [t EXCEPT !.held = Holding(t, row), !.todo = Tail(@), !.plan[i] = @ + Share(t, i)]
<1>1. t.pc = "invoices" /\ MoreToLock(t) /\ UNCHANGED tables /\ CanLock(r, row)
  BY DEF LockInvoice
<1>2. tx' = [tx EXCEPT ![r] = u]
  BY DEF LockInvoice
<1>3. SlotFits(t, Tables) /\ t \in Transactions
  BY DEF IInv, SlotFits
<1>4. u.input = t.input /\ u.held = t.held \cup {row}
  BY <1>3 DEF Transactions, Holding
<1>5. SlotFits(u, Tables)
  <2>1. row \notin t.stale
    BY <1>1 DEF CanLock
  <2> HIDE DEF t
  <2> QED
    BY <1>1, <1>3, <2>1, InvoiceLockedFits
<1>6. \A q \in Slots \ {r} : u.held \cap tx[q].held = {}
  BY <1>1, <1>4 DEF IInv, LocksExclude, CanLock
<1> HIDE DEF u
<1>7. Room'
  BY <1>1, <1>2, <1>4, RoomKept
<1> QED
  BY <1>1, <1>2, <1>5, <1>6, <1>7, SlotStep

\* Whatever is planned is dropped: no table has been touched.
LEMMA AbortStep == ASSUME IInv, NEW r \in Slots, Abort(r) PROVE IInv'
<1>1. UNCHANGED tables /\ Open(r)
  BY DEF Abort
<1>2. CASE tx' = [tx EXCEPT ![r] = Idle]
  BY <1>1, <1>2, AnsweredStep
<1>3. CASE tx[r].attempt < Attempts /\ tx' = [tx EXCEPT ![r] = Retried(tx[r])]
  <2>1. SlotFits(Retried(tx[r]), Tables)
    BY <1>1, <1>3, RetriedFits DEF IInv, Open, Opened
  <2>2. Retried(tx[r]).held = {} /\ Retried(tx[r]).input = tx[r].input
    BY DEF Retried, Idle
  <2>3. Room'
    BY <1>1, <1>3, <2>2, RoomKept
  <2> QED
    BY <1>1, <1>3, <2>1, <2>2, <2>3, SlotStep
<1> QED
  BY <1>2, <1>3 DEF Abort

-----------------------------------------------------------------------------
\* A transaction at its end, and what is true of it.
Committable(r) ==
    tx[r].pc = "invoices" /\ ~MoreToLock(tx[r]) /\ Planned(tx[r])

\* Plans that pay the same to every invoice are the same.
LEMMA SamePlan ==
    ASSUME NEW f \in CA!Allocations, NEW g \in CA!Allocations,
           \A i \in 1 .. MaxInvoices : f[i] = g[i]
    PROVE  f = g
<1>1. f = [i \in 1 .. MaxInvoices |-> f[i]] /\ g = [i \in 1 .. MaxInvoices |-> g[i]]
  BY DEF CA!Allocations
<1>2. [i \in 1 .. MaxInvoices |-> f[i]] = [i \in 1 .. MaxInvoices |-> g[i]]
  OBVIOUS
<1> QED
  BY <1>1, <1>2

ReadyToCommit(t, c) ==
    /\ t \in Transactions /\ t.input \in Requests /\ Admitted(t)
    /\ t.held \in SUBSET Rows
    /\ c \in DOMAIN customers /\ customers[c] = t.snap.customers[c]
    /\ <<"Customer", c>> \in t.held
    /\ \A i \in DOMAIN invoices : t.plan[i] > 0 =>
          /\ i \in DOMAIN t.snap.invoices /\ invoices[i] = t.snap.invoices[i]
          /\ invoices[i].customerId = c
    /\ \A i \in 1 .. MaxInvoices : t.plan[i] > 0 =>
          i \in DOMAIN invoices /\ <<"Invoice", i>> \in t.held
    /\ t.input.op = "createPayment" =>
          /\ SumFunction(t.plan) = t.input.amount
          /\ \A i \in DOMAIN invoices : t.plan[i] > 0 => t.plan[i] <= invoices[i].currentDue
    /\ t.input.op = "reversePayment" =>
          /\ t.input.paymentId \in DOMAIN payments
          /\ payments[t.input.paymentId] = t.snap.payments[t.input.paymentId]
          /\ <<"Payment", t.input.paymentId>> \in t.held
          /\ CA!Reversible(payments[t.input.paymentId])
          /\ t.plan = payments[t.input.paymentId].allocations
          /\ c = payments[t.input.paymentId].customerId

\* A transaction at its end still has the rows of its snapshot as they were,
\* and its plan is one for invoices of its customer.
LEMMA CommitFacts ==
    ASSUME IInv, NEW r \in Slots, Committable(r)
    PROVE  ReadyToCommit(tx[r], CustomerOf(tx[r]))
<1> SUFFICES ASSUME NEW t, t = tx[r], NEW c, c = CustomerOf(t) PROVE ReadyToCommit(t, c)
  OBVIOUS
<1> DEFINE p == t.input.paymentId
           old == t.snap.payments[p]
<1>1. /\ t \in Transactions /\ t.input \in Requests /\ Sees(t, Tables) /\ LocksFit(t) /\ Looping(t)
      /\ t.pc = "invoices" /\ ~MoreToLock(t) /\ Planned(t)
  BY DEF IInv, SlotFits, Opened, LocksFit, Committable
<1>2. Sound(t.snap) /\ NamedIn(t.input, t.snap) /\ Grown(t.snap, Tables, t.stale)
      /\ t.held \cap t.stale = {}
  BY <1>1 DEF Sees
<1>3. /\ c \in DOMAIN t.snap.customers
      /\ t.input.op = "reversePayment" => p \in DOMAIN t.snap.payments
      /\ NamedInvoices(t) \subseteq DOMAIN t.snap.invoices
      /\ DOMAIN t.snap.invoices \subseteq 1 .. MaxInvoices
  BY <1>1, <1>2, RowsKnown
<1>4. <<"Customer", c>> \in t.held /\ Admitted(t)
  BY <1>1 DEF Looping
<1>5. c \in DOMAIN customers /\ customers[c] = t.snap.customers[c]
  BY <1>2, <1>3, <1>4 DEF Grown, Tables
<1>6. t.plan \in CA!Allocations /\ t.held \in SUBSET Rows
  BY <1>1 DEF Transactions
<1>7. ASSUME NEW i \in 1 .. MaxInvoices, t.plan[i] > 0
      PROVE  /\ i \in NamedInvoices(t) /\ <<"Invoice", i>> \in t.held
             /\ i \in DOMAIN t.snap.invoices /\ i \in DOMAIN invoices
             /\ invoices[i] = t.snap.invoices[i]
             /\ t.snap.invoices[i].customerId = c
             /\ t.input.op = "createPayment" => t.plan[i] <= t.snap.invoices[i].currentDue
  <2>1. <<"Invoice", i>> \in t.held /\ i \in NamedInvoices(t)
    BY <1>1, <1>7 DEF Looping
  <2>2. i \in DOMAIN t.snap.invoices /\ i \in DOMAIN invoices /\ invoices[i] = t.snap.invoices[i]
    BY <1>2, <1>3, <2>1 DEF Grown, Tables
  <2>3. CASE Automatic(t)
    <3>1. t.snap.invoices[i].customerId = c
      BY <2>1, <2>3, Kinds DEF Outstanding
    <3>2. t.plan[i] <= t.snap.invoices[i].currentDue
      BY <1>1, <2>1, <2>3 DEF Looping
    <3> QED
      BY <2>1, <2>2, <3>1, <3>2
  <2>4. CASE Manual(t)
    <3>1. i \in {t.input.allocations[k].invoiceId : k \in DOMAIN t.input.allocations}
      BY <2>1, <2>4, Kinds
    <3>2. t.snap.invoices[i].customerId = c /\ t.plan[i] <= t.snap.invoices[i].currentDue
      BY <1>1, <2>4, <3>1 DEF Planned
    <3> QED
      BY <2>1, <2>2, <3>2
  <2>5. CASE t.input.op = "reversePayment"
    <3>1. i \in AllocatedInvoices(old.allocations) /\ c = old.customerId
      BY <2>1, <2>5, Kinds DEF CustomerOf
    <3>2. old.allocations[i] > 0
      BY <3>1 DEF AllocatedInvoices
    <3>3. t.snap.invoices[i].customerId = c
      BY <1>2, <1>3, <2>5, <3>1, <3>2 DEF Sound
    <3> QED
      BY <2>1, <2>2, <2>5, <3>3
  <2>6. CASE t.input.op = "createPurchase"
    BY <2>1, <2>6, Kinds
  <2> QED
    BY <1>1, <2>3, <2>4, <2>5, <2>6, Kinds
<1>8. ASSUME NEW i \in DOMAIN invoices, t.plan[i] > 0
      PROVE  /\ i \in DOMAIN t.snap.invoices /\ invoices[i] = t.snap.invoices[i]
             /\ invoices[i].customerId = c
             /\ t.input.op = "createPayment" => t.plan[i] <= invoices[i].currentDue
  <2>1. i \in 1 .. MaxInvoices
    BY InvSound, LenProperties, Numbers DEF Sound, Tables
  <2> QED
    BY <1>7, <1>8, <2>1
<1>9. ASSUME t.input.op = "createPayment" PROVE SumFunction(t.plan) = t.input.amount
  <2>1. t.input.amount \in Nat
    BY <1>1, <1>9, InputFields, Numbers DEF Requests
  <2>2. SumFunction(t.plan) \in Nat
    BY <1>6, PlanSum
  <2>3. t.input.amount - SumFunction(t.plan) = 0
    BY <1>1, <1>9 DEF Planned, Remaining
  <2> QED
    BY <2>1, <2>2, <2>3
<1>10. ASSUME t.input.op = "reversePayment"
       PROVE  /\ p \in DOMAIN payments /\ payments[p] = old
              /\ <<"Payment", p>> \in t.held /\ CA!Reversible(payments[p])
              /\ t.plan = payments[p].allocations
              /\ c = payments[p].customerId
  <2>1. <<"Payment", p>> \in t.held /\ CA!Reversible(old)
    BY <1>1, <1>10 DEF LocksFit
  <2>2. p \in DOMAIN payments /\ payments[p] = old
    BY <1>2, <1>3, <1>10, <2>1 DEF Grown, Tables
  <2>3. Range(t.todo) = {}
    BY <1>1, <1>10, Kinds DEF MoreToLock, Range
  <2>4. old.allocations \in CA!Allocations
    BY <1>2, <1>3, <1>10, SoundRows
  <2>5. ASSUME NEW i \in 1 .. MaxInvoices PROVE t.plan[i] = old.allocations[i]
    <3>1. t.plan[i] \in Nat /\ old.allocations[i] \in Nat
      BY <1>6, <2>4 DEF CA!Allocations
    <3>2. CASE i \in NamedInvoices(t)
      BY <1>1, <1>10, <2>3, <3>2 DEF Looping
    <3>3. CASE i \notin NamedInvoices(t)
      <4>1. ~(t.plan[i] > 0)
        BY <1>7, <3>3
      <4>2. ~(old.allocations[i] > 0)
        BY <1>10, <2>4, <3>3, Kinds DEF AllocatedInvoices, CA!Allocations
      <4> QED
        BY <3>1, <4>1, <4>2
    <3> QED
      BY <3>2, <3>3
  <2>6. t.plan = old.allocations
    BY <1>6, <2>4, <2>5, SamePlan
  <2> QED
    BY <1>10, <2>1, <2>2, <2>6 DEF CustomerOf
<1> QED
  BY <1>1, <1>4, <1>5, <1>6, <1>7, <1>8, <1>9, <1>10 DEF ReadyToCommit

\* The slots after a commit.
LEMMA CommittedSlots ==
    ASSUME IInv, NEW r \in Slots, Open(r), NEW written \in SUBSET tx[r].held, Committed(r, written)
    PROVE  /\ tx' = [q \in Slots |-> tx'[q]]
           /\ \A q \in Slots :
                 \/ tx'[q] = Idle
                 \/ ~Open(q) /\ tx'[q] = tx[q]
                 \/ Open(q) /\ tx'[q] = Missed(tx[q], written) /\ written \cap tx[q].held = {}
           /\ tx'[r].input = NoInput /\ \A q \in Slots \ {r} : tx'[q].input = tx[q].input
<1>1. tx' = [q \in Slots |-> tx'[q]]
  BY DEF Committed
<1>2. tx'[r] = Idle
  BY DEF Committed
<1>3. ASSUME NEW q \in Slots \ {r}
      PROVE  /\ \/ ~Open(q) /\ tx'[q] = tx[q]
                \/ Open(q) /\ tx'[q] = Missed(tx[q], written) /\ written \cap tx[q].held = {}
             /\ tx'[q].input = tx[q].input
  <2>1. CASE Open(q)
    <3>1. tx'[q] = Missed(tx[q], written)
      BY <1>3, <2>1 DEF Committed
    <3>2. tx[q] \in Transactions
      BY DEF IInv, SlotFits
    <3>3. tx'[q].input = tx[q].input
      BY <3>1, <3>2 DEF Missed, Transactions
    <3>4. written \cap tx[q].held = {}
      BY <1>3 DEF IInv, LocksExclude
    <3> QED
      BY <2>1, <3>1, <3>3, <3>4
  <2>2. CASE ~Open(q)
    BY <1>3, <2>2 DEF Committed
  <2> QED
    BY <2>1, <2>2
<1> QED
  BY <1>1, <1>2, <1>3 DEF Idle

\* The rows a commit creates were accounted for.
LEMMA RoomAfterCommit ==
    ASSUME IInv, NEW r \in Slots, tx'[r].input = NoInput,
           \A q \in Slots \ {r} : tx'[q].input = tx[q].input,
           NEW more \in {0, 1}, NEW paid \in {0, 1},
           Len(customers') = Len(customers),
           Len(invoices') = Len(invoices) + more, Len(payments') = Len(payments) + paid,
           more = 1 => tx[r].input.op = "createPurchase",
           paid = 1 => tx[r].input.op \in {"createPurchase", "createPayment"}
    PROVE  Room'
<1> DEFINE sold == Cardinality(Sent("createPurchase"))
           given == Cardinality(Sent("createPayment"))
<1>1. ASSUME NEW op \in {"createPurchase", "createPayment"}
      PROVE  /\ Cardinality(Sent(op)') \in Nat
             /\ Cardinality(Sent(op)') <= Cardinality(Sent(op))
             /\ tx[r].input.op = op => Cardinality(Sent(op)') <= Cardinality(Sent(op)) - 1
  <2>1. IsFiniteSet(Sent(op)) /\ Cardinality(Sent(op)) \in Nat
    BY SentType
  <2>2. /\ IsFiniteSet(Sent(op) \ {r})
        /\ Cardinality(Sent(op) \ {r}) =
              IF r \in Sent(op) THEN Cardinality(Sent(op)) - 1 ELSE Cardinality(Sent(op))
    BY <2>1, FS_RemoveElement
  <2>3. Sent(op)' \subseteq Sent(op) \ {r}
    BY DEF Sent, NoInput
  <2>4. IsFiniteSet(Sent(op)') /\ Cardinality(Sent(op)') <= Cardinality(Sent(op) \ {r})
    BY <2>2, <2>3, FS_Subset
  <2>5. Cardinality(Sent(op)') \in Nat
    BY <2>4, FS_CardinalityType
  <2>6. tx[r].input.op = op <=> r \in Sent(op)
    BY DEF Sent
  <2> QED
    BY <2>1, <2>2, <2>4, <2>5, <2>6
<1>2. /\ sold \in Nat /\ given \in Nat /\ sold' \in Nat /\ given' \in Nat
      /\ sold' <= sold /\ given' <= given
      /\ tx[r].input.op = "createPurchase" => sold' <= sold - 1
      /\ tx[r].input.op = "createPayment" => given' <= given - 1
  BY <1>1, SentType
<1>3. Len(customers) \in Nat /\ Len(invoices) \in Nat /\ Len(payments) \in Nat
  BY InvSound, LenProperties DEF Sound, Tables
<1>4. /\ Len(customers) <= MaxCustomers
      /\ Len(invoices) + sold <= MaxInvoices
      /\ Len(payments) + sold + given <= MaxPayments
  BY DEF IInv, Room
<1> HIDE DEF sold, given
<1>5. Len(invoices') + sold' <= MaxInvoices
  BY <1>2, <1>3, <1>4, Numbers
<1>6. Len(payments') + sold' + given' <= MaxPayments
  BY <1>2, <1>3, <1>4, Numbers
<1> QED
  BY <1>4, <1>5, <1>6 DEF Room, sold, given

\* A purchase is one step of the account.
LEMMA PurchaseStep ==
    ASSUME IInv, NEW r \in Slots, CommitPurchase(r)
    PROVE  CA!Next /\ IInv'
<1> DEFINE t       == tx[r]
           c       == CustomerOf(t)
           net     == t.input.net
           paid    == t.input.paid
           invoice == Len(invoices) + 1
           payment == Len(payments) + 1
           written == {<<"Customer", c>>}
<1>1. Committable(r) /\ t.input.op = "createPurchase" /\ Open(r)
  BY DEF CommitPurchase, Committing, Committable, Open
<1>2. /\ t \in Transactions /\ t.input \in Requests /\ Admitted(t) /\ t.held \in SUBSET Rows
      /\ c \in DOMAIN customers /\ customers[c] = t.snap.customers[c]
      /\ <<"Customer", c>> \in t.held
  BY <1>1, CommitFacts DEF ReadyToCommit
<1>3. c = t.input.customerId /\ t.input.date \in Dates /\ net \in Amounts /\ paid \in Amounts
  BY <1>1, <1>2, InputFields DEF CustomerOf, Requests
<1>4. /\ customers[c].status = "ACTIVE" /\ net > 0 /\ paid <= net
      /\ customers[c].creditLimit > 0 =>
            customers[c].currentBalance + net - paid <= customers[c].creditLimit
  BY <1>1, <1>2 DEF Admitted
<1>5. Len(customers) \in Nat /\ Len(invoices) \in Nat /\ Len(payments) \in Nat
      /\ DOMAIN invoices = 1 .. Len(invoices) /\ DOMAIN payments = 1 .. Len(payments)
  BY InvSound, LenProperties DEF Sound, Tables
<1>6. invoice <= MaxInvoices /\ payment <= MaxPayments
  <2>1. r \in Sent("createPurchase") /\ IsFiniteSet(Sent("createPurchase"))
    BY <1>1, SentType DEF Sent
  <2>2. Cardinality(Sent("createPurchase")) \in Nat /\ Cardinality(Sent("createPayment")) \in Nat
    BY SentType
  <2>3. Cardinality(Sent("createPurchase")) # 0
    BY <2>1, FS_EmptySet
  <2> QED
    BY <1>5, <2>2, <2>3, Numbers DEF IInv, Room
<1>7. /\ invoices' = Append(invoices, CA!NewInvoice(c, t.input.date, net, paid))
      /\ payments' = IF paid > 0
                     THEN Append(payments, CA!NewPayment(c, paid, CA!OnlyTo(invoice, paid)))
                     ELSE payments
      /\ ledger' = [ledger EXCEPT ![c] =
            @ \o CA!PurchasePostings(customers[c].currentBalance, net, paid, invoice, payment)]
      /\ customers' = [customers EXCEPT ![c].currentBalance = customers[c].currentBalance + net - paid]
      /\ Committed(r, written)
  BY <1>2 DEF CommitPurchase, WriteBalance
<1>8. CA!CreatePurchase(c, t.input.date, net, paid)
  BY <1>4, <1>6, <1>7 DEF CA!CreatePurchase, CA!WithinCreditLimit
<1>9. CA!Next
  BY <1>2, <1>3, <1>8 DEF CA!Next
<1>10. Grown(Tables, Tables', written)
  <2>1. \A d \in DOMAIN customers :
           d \in DOMAIN customers' /\ (<<"Customer", d>> \notin written => customers'[d] = customers[d])
    BY <1>2, <1>7
  <2>2. /\ DOMAIN invoices' = 1 .. Len(invoices) + 1
        /\ \A i \in DOMAIN invoices : i \in DOMAIN invoices' /\ invoices'[i] = invoices[i]
        /\ invoices'[Len(invoices) + 1].customerId = c
    BY <1>5, <1>7, InvSound, AppendProperties DEF CA!NewInvoice, Sound, Tables
  <2>3. \A p \in DOMAIN payments : p \in DOMAIN payments' /\ payments'[p] = payments[p]
    BY <1>5, <1>7, InvSound, AppendProperties DEF Sound, Tables
  <2>4. \A i \in DOMAIN invoices' : <<"Customer", invoices'[i].customerId>> \notin written =>
           i \in DOMAIN invoices /\ invoices'[i] = invoices[i]
    BY <1>5, <2>2
  <2> HIDE DEF written
  <2> QED
    BY <2>1, <2>2, <2>3, <2>4 DEF Grown, Tables
<1>11. Len(customers') = Len(customers) /\ Len(invoices') = Len(invoices) + 1
       /\ Len(payments') = Len(payments) + (IF paid > 0 THEN 1 ELSE 0)
  <2>1. customers \in Seq(CA!CustomerRow) /\ invoices \in Seq(CA!InvoiceRow)
        /\ payments \in Seq(CA!PaymentRow)
    BY InvSound DEF Sound, Tables
  <2>2. Len(customers') = Len(customers)
    BY <1>2, <1>7, <2>1
  <2>3. Len(invoices') = Len(invoices) + 1
    BY <1>7, <2>1
  <2>4. Len(payments') = Len(payments) + (IF paid > 0 THEN 1 ELSE 0)
    BY <1>5, <1>7, <2>1
  <2> QED
    BY <2>2, <2>3, <2>4
<1>12. Room' /\ tx' = [q \in Slots |-> tx'[q]]
       /\ \A q \in Slots :
             \/ tx'[q] = Idle
             \/ ~Open(q) /\ tx'[q] = tx[q]
             \/ Open(q) /\ tx'[q] = Missed(tx[q], written) /\ written \cap tx[q].held = {}
  <2>1. /\ tx' = [q \in Slots |-> tx'[q]]
        /\ \A q \in Slots :
             \/ tx'[q] = Idle
             \/ ~Open(q) /\ tx'[q] = tx[q]
             \/ Open(q) /\ tx'[q] = Missed(tx[q], written) /\ written \cap tx[q].held = {}
        /\ tx'[r].input = NoInput /\ \A q \in Slots \ {r} : tx'[q].input = tx[q].input
    BY <1>1, <1>2, <1>7, CommittedSlots
  <2> DEFINE given == IF paid > 0 THEN 1 ELSE 0
  <2>2. given \in {0, 1}
    OBVIOUS
  <2>3. Len(customers') = Len(customers) /\ Len(invoices') = Len(invoices) + 1
        /\ Len(payments') = Len(payments) + given
    BY <1>11
  <2> HIDE DEF given
  <2>4. Room'
    BY <1>1, <2>1, <2>2, <2>3, RoomAfterCommit
  <2> QED
    BY <2>1, <2>4
<1> QED
  BY <1>2, <1>9, <1>10, <1>12, WriteStep

\* Writing the planned invoices from the snapshot settles the invoices of the
\* tables, and of the payer only.
LEMMA SettledFromSnapshot ==
    ASSUME IInv, NEW r \in Slots, Committable(r), NEW sign, WriteInvoices(tx[r], sign)
    PROVE  /\ invoices' = CA!SettleAll(tx[r].plan, sign)
           /\ DOMAIN invoices' = DOMAIN invoices
           /\ \A i \in DOMAIN invoices :
                 /\ invoices'[i].customerId = invoices[i].customerId
                 /\ <<"Invoice", i>> \notin InvoiceRows(tx[r]) => invoices'[i] = invoices[i]
                 /\ invoices[i].customerId # CustomerOf(tx[r]) => invoices'[i] = invoices[i]
           /\ InvoiceRows(tx[r]) \subseteq tx[r].held
<1> DEFINE t == tx[r]
<1>1. ReadyToCommit(t, CustomerOf(t))
  BY CommitFacts
<1>2. \A i \in DOMAIN invoices : t.plan[i] > 0 =>
         invoices[i] = t.snap.invoices[i] /\ invoices[i].customerId = CustomerOf(t)
  BY <1>1 DEF ReadyToCommit
<1>3. invoices' = [i \in DOMAIN invoices |->
                      IF t.plan[i] > 0 THEN CA!Settle(invoices[i], sign * t.plan[i])
                                       ELSE invoices[i]]
  BY <1>2 DEF WriteInvoices
<1>4. DOMAIN t.plan = 1 .. MaxInvoices
  BY <1>1 DEF ReadyToCommit, Transactions, CA!Allocations
<1>5. DOMAIN invoices \subseteq 1 .. MaxInvoices /\ \A i \in DOMAIN invoices : invoices[i] \in CA!InvoiceRow
  <2>1. Sound(Tables)
    BY InvSound
  <2>2. Tables.invoices = invoices
    BY DEF Tables
  <2> QED
    BY <2>1, <2>2, SoundRows, LenProperties, Numbers DEF Sound
<1>6. ASSUME NEW i \in DOMAIN invoices, ~(t.plan[i] > 0) PROVE invoices'[i] = invoices[i]
  BY <1>3, <1>6
<1>7. ASSUME NEW i \in DOMAIN invoices, t.plan[i] > 0
      PROVE  /\ invoices'[i].customerId = invoices[i].customerId
             /\ <<"Invoice", i>> \in InvoiceRows(t)
  <2>1. invoices'[i] = CA!Settle(invoices[i], sign * t.plan[i])
    BY <1>3, <1>7
  <2>2. invoices'[i].customerId = invoices[i].customerId
    BY <1>5, <2>1 DEF CA!Settle, CA!InvoiceRow
  <2>3. i \in AllocatedInvoices(t.plan)
    BY <1>4, <1>5, <1>7 DEF AllocatedInvoices
  <2> QED
    BY <2>2, <2>3 DEF InvoiceRows
<1>8. InvoiceRows(t) \subseteq t.held
  BY <1>1, <1>4 DEF ReadyToCommit, InvoiceRows, AllocatedInvoices
<1>9. invoices' = CA!SettleAll(t.plan, sign)
  BY <1>3 DEF CA!SettleAll
<1>10. DOMAIN invoices' = DOMAIN invoices
  BY <1>3
<1> QED
  BY <1>2, <1>6, <1>7, <1>8, <1>9, <1>10

\* As many rows as before.
LEMMA SameLength ==
    ASSUME NEW S, NEW s \in Seq(S), NEW f \in Seq(S), DOMAIN f = DOMAIN s
    PROVE  Len(f) = Len(s)
<1>1. Len(s) \in Nat /\ Len(f) \in Nat /\ 1 .. Len(s) = 1 .. Len(f)
  BY LenProperties
<1> QED
  BY <1>1

\* A payment is one step of the account.
LEMMA PaymentStep ==
    ASSUME IInv, NEW r \in Slots, CommitPayment(r)
    PROVE  CA!Next /\ IInv'
<1> DEFINE t       == tx[r]
           c       == CustomerOf(t)
           amount  == t.input.amount
           balance == customers[c].currentBalance - amount
           customer == {<<"Customer", c>>}
           written == customer \cup InvoiceRows(t)
<1>1. Committable(r) /\ t.input.op = "createPayment" /\ Open(r) /\ WriteInvoices(t, 1)
      /\ Committed(r, written)
  BY DEF CommitPayment, Committing, Committable, Open
<1>2. /\ t \in Transactions /\ t.input \in Requests /\ Admitted(t) /\ t.held \in SUBSET Rows
      /\ c \in DOMAIN customers /\ customers[c] = t.snap.customers[c]
      /\ <<"Customer", c>> \in t.held
      /\ SumFunction(t.plan) = amount
      /\ \A i \in DOMAIN invoices : t.plan[i] > 0 =>
            invoices[i].customerId = c /\ t.plan[i] <= invoices[i].currentDue
      /\ \A i \in 1 .. MaxInvoices : t.plan[i] > 0 => i \in DOMAIN invoices
  BY <1>1, CommitFacts DEF ReadyToCommit
<1>3. amount \in Amounts
  BY <1>1, <1>2, InputFields DEF Requests
<1>4. customers[c].status = "ACTIVE" /\ 0 < amount /\ amount <= customers[c].currentBalance
  BY <1>1, <1>2, <1>3, Numbers DEF Admitted
<1>5. /\ customers \in Seq(CA!CustomerRow) /\ invoices \in Seq(CA!InvoiceRow)
      /\ payments \in Seq(CA!PaymentRow)
      /\ Len(customers) \in Nat /\ Len(invoices) \in Nat /\ Len(payments) \in Nat
  BY InvSound, LenProperties DEF Sound, Tables
<1>6. Len(payments) < MaxPayments
  <2>1. r \in Sent("createPayment") /\ IsFiniteSet(Sent("createPayment"))
    BY <1>1, SentType DEF Sent
  <2>2. Cardinality(Sent("createPurchase")) \in Nat /\ Cardinality(Sent("createPayment")) \in Nat
    BY SentType
  <2>3. Cardinality(Sent("createPayment")) # 0
    BY <2>1, FS_EmptySet
  <2> QED
    BY <1>5, <2>2, <2>3, Numbers DEF IInv, Room
<1>7. /\ invoices' = CA!SettleAll(t.plan, 1)
      /\ DOMAIN invoices' = DOMAIN invoices
      /\ \A i \in DOMAIN invoices :
            /\ invoices'[i].customerId = invoices[i].customerId
            /\ <<"Invoice", i>> \notin InvoiceRows(t) => invoices'[i] = invoices[i]
            /\ invoices[i].customerId # c => invoices'[i] = invoices[i]
      /\ InvoiceRows(t) \subseteq t.held
  BY <1>1, SettledFromSnapshot
<1>8. /\ payments' = Append(payments, CA!NewPayment(c, amount, t.plan))
      /\ ledger' = [ledger EXCEPT ![c] =
            Append(@, CA!Credit("PAYMENT", amount, balance, Len(payments) + 1))]
      /\ customers' = [customers EXCEPT ![c].currentBalance = balance]
  BY <1>2 DEF CommitPayment, WriteBalance
<1>9. t.plan \in CA!Allocations
  BY <1>2 DEF Transactions
<1>10. CA!ValidPlan(c, amount, t.plan)
  BY <1>2, <1>9, SameSum DEF CA!ValidPlan, CA!Allocations
<1>11. t.plan \in CA!Plans(amount)
  <2>1. \A i \in 1 .. MaxInvoices : t.plan[i] \in Nat /\ t.plan[i] <= amount
    BY <1>2, <1>9, PlanSum DEF CA!Allocations
  <2>2. \A i \in 1 .. MaxInvoices : t.plan[i] \in 0 .. amount
    BY <1>3, <2>1, Numbers
  <2>3. t.plan \in [1 .. MaxInvoices -> Nat]
    BY <1>9 DEF CA!Allocations
  <2> QED
    BY <2>2, <2>3 DEF CA!Plans
<1>12. CA!CreatePayment(c, amount, t.plan)
  BY <1>4, <1>6, <1>7, <1>8, <1>10 DEF CA!CreatePayment
<1>13. CA!Next
  BY <1>2, <1>3, <1>11, <1>12 DEF CA!Next
<1>14. Grown(Tables, Tables', written)
  <2>1. \A d \in DOMAIN customers :
           d \in DOMAIN customers' /\ (<<"Customer", d>> \notin customer => customers'[d] = customers[d])
    BY <1>2, <1>8
  <2>2. \A p \in DOMAIN payments : p \in DOMAIN payments' /\ payments'[p] = payments[p]
    BY <1>5, <1>8
  <2>3. \A i \in DOMAIN invoices' : <<"Customer", invoices'[i].customerId>> \notin customer =>
           i \in DOMAIN invoices /\ invoices'[i] = invoices[i]
    BY <1>7
  <2> HIDE DEF customer
  <2> QED
    BY <1>7, <2>1, <2>2, <2>3 DEF Grown, Tables
<1>15. Len(customers') = Len(customers) /\ Len(invoices') = Len(invoices) + 0
       /\ Len(payments') = Len(payments) + 1
  <2>1. TablesInv'
    BY <1>13, TablesStep DEF IInv
  <2>2. invoices' \in Seq(CA!InvoiceRow)
    BY <2>1, SameRows DEF TablesInv, CAP!TypeInv, CAP!TypeOK
  <2>3. Len(invoices') = Len(invoices)
    BY <1>5, <1>7, <2>2, SameLength
  <2>4. Len(payments') = Len(payments) + 1
    BY <1>5, <1>8
  <2>5. Len(customers') = Len(customers)
    BY <1>2, <1>5, <1>8
  <2> QED
    BY <1>5, <2>3, <2>4, <2>5
<1>16. written \in SUBSET t.held /\ written \in SUBSET Rows
  BY <1>2, <1>7
<1> HIDE DEF written
<1>17. /\ tx' = [q \in Slots |-> tx'[q]]
       /\ \A q \in Slots :
             \/ tx'[q] = Idle
             \/ ~Open(q) /\ tx'[q] = tx[q]
             \/ Open(q) /\ tx'[q] = Missed(tx[q], written) /\ written \cap tx[q].held = {}
       /\ tx'[r].input = NoInput /\ \A q \in Slots \ {r} : tx'[q].input = tx[q].input
  BY <1>1, <1>16, CommittedSlots
<1>18. Room'
  BY <1>1, <1>15, <1>17, RoomAfterCommit
<1> QED
  BY <1>13, <1>14, <1>16, <1>17, <1>18, WriteStep

\* A reversal is one step of the account.
LEMMA ReversalStep ==
    ASSUME IInv, NEW r \in Slots, CommitReversal(r)
    PROVE  CA!Next /\ IInv'
<1> DEFINE t       == tx[r]
           p       == t.input.paymentId
           c       == CustomerOf(t)
           amount  == payments[p].amount
           balance == customers[c].currentBalance + amount
           rows    == {<<"Payment", p>>, <<"Customer", c>>}
           written == rows \cup InvoiceRows(t)
<1>1. Committable(r) /\ t.input.op = "reversePayment" /\ Open(r) /\ WriteInvoices(t, -1)
      /\ Committed(r, written)
  BY DEF CommitReversal, Committing, Committable, Open
<1>2. /\ t \in Transactions /\ t.held \in SUBSET Rows
      /\ c \in DOMAIN customers /\ customers[c] = t.snap.customers[c]
      /\ <<"Customer", c>> \in t.held
      /\ p \in DOMAIN payments /\ payments[p] = t.snap.payments[p]
      /\ <<"Payment", p>> \in t.held
      /\ CA!Reversible(payments[p])
      /\ t.plan = payments[p].allocations
      /\ c = payments[p].customerId
  BY <1>1, CommitFacts DEF ReadyToCommit
<1>3. /\ customers \in Seq(CA!CustomerRow) /\ invoices \in Seq(CA!InvoiceRow)
      /\ payments \in Seq(CA!PaymentRow)
      /\ Len(customers) \in Nat /\ Len(invoices) \in Nat /\ Len(payments) \in Nat
  BY InvSound, LenProperties DEF Sound, Tables
<1>4. /\ invoices' = CA!SettleAll(t.plan, -1)
      /\ DOMAIN invoices' = DOMAIN invoices
      /\ \A i \in DOMAIN invoices :
            /\ invoices'[i].customerId = invoices[i].customerId
            /\ <<"Invoice", i>> \notin InvoiceRows(t) => invoices'[i] = invoices[i]
            /\ invoices[i].customerId # c => invoices'[i] = invoices[i]
      /\ InvoiceRows(t) \subseteq t.held
  BY <1>1, SettledFromSnapshot
<1>5. /\ payments' = [payments EXCEPT ![p] = CA!Reversed(payments[p])]
      /\ ledger' = [ledger EXCEPT ![c] = Append(@, CA!ReversalPosting(amount, balance, p))]
      /\ customers' = [customers EXCEPT ![c].currentBalance = balance]
  BY <1>2 DEF CommitReversal, WriteBalance
<1>6. CA!ReversePayment(p)
  BY <1>2, <1>4, <1>5 DEF CA!ReversePayment
<1>7. CA!Next
  BY <1>2, <1>6 DEF CA!Next
<1>8. Grown(Tables, Tables', written)
  <2>1. \A d \in DOMAIN customers :
           d \in DOMAIN customers' /\ (<<"Customer", d>> \notin rows => customers'[d] = customers[d])
    BY <1>2, <1>5
  <2>2. \A n \in DOMAIN payments :
           n \in DOMAIN payments' /\ (<<"Payment", n>> \notin rows => payments'[n] = payments[n])
    BY <1>2, <1>5
  <2>3. \A i \in DOMAIN invoices' : <<"Customer", invoices'[i].customerId>> \notin rows =>
           i \in DOMAIN invoices /\ invoices'[i] = invoices[i]
    BY <1>4
  <2> HIDE DEF rows
  <2> QED
    BY <1>4, <2>1, <2>2, <2>3 DEF Grown, Tables
<1>9. Len(customers') = Len(customers) /\ Len(invoices') = Len(invoices) + 0
       /\ Len(payments') = Len(payments) + 0
  <2>1. TablesInv'
    BY <1>7, TablesStep DEF IInv
  <2>2. /\ customers' \in Seq(CA!CustomerRow) /\ invoices' \in Seq(CA!InvoiceRow)
        /\ payments' \in Seq(CA!PaymentRow)
    BY <2>1, SameRows DEF TablesInv, CAP!TypeInv, CAP!TypeOK
  <2>3. Len(invoices') = Len(invoices)
    BY <1>3, <1>4, <2>2, SameLength
  <2>4. Len(payments') = Len(payments)
    BY <1>3, <1>5, <2>2, SameLength
  <2> HIDE DEF balance
  <2>5. DOMAIN customers' = DOMAIN customers
    BY <1>5
  <2>6. Len(customers') = Len(customers)
    BY <1>3, <2>2, <2>5, SameLength
  <2> QED
    BY <1>3, <2>3, <2>4, <2>6
<1>10. written \in SUBSET t.held /\ written \in SUBSET Rows
  BY <1>2, <1>4
<1> HIDE DEF written
<1>11. /\ tx' = [q \in Slots |-> tx'[q]]
       /\ \A q \in Slots :
             \/ tx'[q] = Idle
             \/ ~Open(q) /\ tx'[q] = tx[q]
             \/ Open(q) /\ tx'[q] = Missed(tx[q], written) /\ written \cap tx[q].held = {}
       /\ tx'[r].input = NoInput /\ \A q \in Slots \ {r} : tx'[q].input = tx[q].input
  BY <1>1, <1>10, CommittedSlots
<1>12. Room'
  BY <1>9, <1>11, RoomAfterCommit
<1> QED
  BY <1>7, <1>8, <1>10, <1>11, <1>12, WriteStep

\* Nothing is missed.
LEMMA NothingMissed == ASSUME NEW t \in Transactions PROVE Missed(t, {}) = t
BY DEF Missed, Transactions

\* The same requests are under way.
LEMMA SameSent ==
    ASSUME \A q \in Slots : tx'[q].input = tx[q].input
    PROVE  \A op : Sent(op)' = Sent(op)
BY DEF Sent

\* A new customer changes no row that is there.
LEMMA CreateCustomerStep ==
    ASSUME IInv, NEW input \in Inputs, CreateCustomer(input)
    PROVE  CA!Next /\ IInv'
<1> DEFINE customer == [status |-> "ACTIVE", creditLimit |-> input.limit,
                        currentBalance |-> input.opening]
<1>1. /\ input.op = "createCustomer" /\ CA!CreateCustomer(input.limit, input.opening)
      /\ UNCHANGED tx
  BY DEF CreateCustomer
<1>2. CA!Next
  BY <1>1, InputFields DEF CA!Next
<1>3. /\ Len(customers) < MaxCustomers /\ customers' = Append(customers, customer)
      /\ UNCHANGED <<invoices, payments>>
  BY <1>1 DEF CA!CreateCustomer
<1> HIDE DEF customer
<1>4. customers \in Seq(CA!CustomerRow) /\ Len(customers) \in Nat
  BY InvSound, LenProperties DEF Sound, Tables
<1>5. /\ Len(customers') = Len(customers) + 1
      /\ \A d \in DOMAIN customers : d \in DOMAIN customers' /\ customers'[d] = customers[d]
  BY <1>3, <1>4
<1>6. Grown(Tables, Tables', {})
  BY <1>3, <1>5 DEF Grown, Tables
<1>7. /\ tx' = [q \in Slots |-> tx'[q]]
      /\ \A q \in Slots :
            \/ ~Open(q) /\ tx'[q] = tx[q]
            \/ Open(q) /\ tx'[q] = Missed(tx[q], {}) /\ {} \cap tx[q].held = {}
  <2>1. \A q \in Slots : tx[q] \in Transactions /\ Missed(tx[q], {}) = tx[q]
    BY NothingMissed DEF IInv, SlotFits
  <2> QED
    BY <1>1, <2>1 DEF IInv
<1>8. Room'
  <2>1. \A op : Sent(op)' = Sent(op)
    BY <1>1, SameSent
  <2> QED
    BY <1>3, <1>4, <1>5, <2>1, Numbers DEF IInv, Room
<1>9. {} \in SUBSET Rows
  OBVIOUS
<1> QED
  BY <1>2, <1>6, <1>7, <1>8, <1>9, WriteStep

\* The update waits for the row, so that nobody who has locked it misses it.
LEMMA UpdateCustomerStep ==
    ASSUME IInv, NEW input \in Inputs, UpdateCustomer(input)
    PROVE  CA!Next /\ IInv'
<1> DEFINE c == input.customerId
           written == {<<"Customer", c>>}
<1>1. /\ input.op = "updateCustomer" /\ c \in DOMAIN customers
      /\ \A q \in Slots : <<"Customer", c>> \notin tx[q].held
      /\ CA!UpdateCustomer(c, input.limit, input.status)
      /\ tx' = [q \in Slots |-> IF Open(q) THEN Missed(tx[q], written) ELSE tx[q]]
  BY DEF UpdateCustomer
<1>2. CA!Next
  BY <1>1, InputFields DEF CA!Next
<1>3. /\ customers' = [customers EXCEPT ![c].creditLimit = input.limit, ![c].status = input.status]
      /\ UNCHANGED <<invoices, payments>>
  BY <1>1 DEF CA!UpdateCustomer
<1>4. customers \in Seq(CA!CustomerRow) /\ Len(customers) \in Nat /\ Len(customers) <= MaxCustomers
  BY InvSound, LenProperties DEF Sound, Tables
<1>5. /\ DOMAIN customers' = DOMAIN customers
      /\ \A d \in DOMAIN customers : d # c => customers'[d] = customers[d]
  BY <1>3
<1>6. Grown(Tables, Tables', written)
  BY <1>3, <1>5 DEF Grown, Tables
<1>7. written \in SUBSET Rows
  BY <1>1, <1>4, Numbers DEF Rows
<1> HIDE DEF written
<1>8. /\ tx' = [q \in Slots |-> tx'[q]]
      /\ \A q \in Slots :
            \/ ~Open(q) /\ tx'[q] = tx[q]
            \/ Open(q) /\ tx'[q] = Missed(tx[q], written) /\ written \cap tx[q].held = {}
  BY <1>1 DEF written
<1>9. Room'
  <2>1. ASSUME NEW q \in Slots PROVE tx'[q].input = tx[q].input
    <3>1. tx[q] \in Transactions
      BY DEF IInv, SlotFits
    <3>2. Missed(tx[q], written).input = tx[q].input
      BY <3>1 DEF Missed, Transactions
    <3> QED
      BY <1>8, <3>2
  <2>2. \A op : Sent(op)' = Sent(op)
    BY <2>1, SameSent
  <2>3. TablesInv'
    BY <1>2, TablesStep DEF IInv
  <2>4. customers' \in Seq(CA!CustomerRow)
    BY <2>3, SameRows DEF TablesInv, CAP!TypeInv, CAP!TypeOK
  <2>5. Len(customers') = Len(customers)
    BY <1>4, <1>5, <2>4, SameLength
  <2> QED
    BY <1>3, <2>2, <2>5 DEF IInv, Room
<1> QED
  BY <1>2, <1>6, <1>7, <1>8, <1>9, WriteStep

\* Every step keeps the invariant and is a step of the account or a stutter.
LEMMA NextInv == IInv /\ [Next]_vars => IInv' /\ [CA!Next]_(CA!vars)
<1> SUFFICES ASSUME IInv, [Next]_vars PROVE IInv' /\ [CA!Next]_(CA!vars)
  OBVIOUS
<1>1. ASSUME UNCHANGED tables PROVE UNCHANGED CA!vars
  BY <1>1 DEF tables, CA!vars
<1>2. ASSUME NEW r \in Slots, Begin(r) PROVE IInv' /\ [CA!Next]_(CA!vars)
  BY <1>1, <1>2, BeginStep DEF Begin
<1>3. ASSUME NEW r \in Slots, LockPayment(r) PROVE IInv' /\ [CA!Next]_(CA!vars)
  BY <1>1, <1>3, LockPaymentStep DEF LockPayment
<1>4. ASSUME NEW r \in Slots, LockCustomer(r) PROVE IInv' /\ [CA!Next]_(CA!vars)
  BY <1>1, <1>4, LockCustomerStep DEF LockCustomer
<1>5. ASSUME NEW r \in Slots, LockInvoice(r) PROVE IInv' /\ [CA!Next]_(CA!vars)
  BY <1>1, <1>5, LockInvoiceStep DEF LockInvoice
<1>6. ASSUME NEW r \in Slots, Refuse(r) PROVE IInv' /\ [CA!Next]_(CA!vars)
  BY <1>1, <1>6, AnsweredStep DEF Refuse
<1>7. ASSUME NEW r \in Slots, Abort(r) PROVE IInv' /\ [CA!Next]_(CA!vars)
  BY <1>1, <1>7, AbortStep DEF Abort
<1>8. ASSUME NEW r \in Slots, CommitPurchase(r) \/ CommitPayment(r) \/ CommitReversal(r)
      PROVE  IInv' /\ [CA!Next]_(CA!vars)
  BY <1>8, PurchaseStep, PaymentStep, ReversalStep
<1>9. ASSUME NEW r \in Slots, NEW input \in Inputs, Receive(r, input)
      PROVE  IInv' /\ [CA!Next]_(CA!vars)
  BY <1>1, <1>9, ReceiveStep DEF Receive
<1>10. ASSUME NEW input \in Inputs, CreateCustomer(input) \/ UpdateCustomer(input)
       PROVE  IInv' /\ [CA!Next]_(CA!vars)
  BY <1>10, CreateCustomerStep, UpdateCustomerStep
<1>11. ASSUME UNCHANGED vars PROVE IInv' /\ [CA!Next]_(CA!vars)
  <2>1. UNCHANGED tables /\ UNCHANGED <<customers, invoices, payments, tx>> /\ UNCHANGED CA!vars
    BY <1>11 DEF vars, tables, CA!vars
  <2>2. TablesInv'
    BY <2>1, TablesStep DEF IInv
  <2>3. Room' /\ LocksExclude' /\ Tables' = Tables
    BY <2>1 DEF IInv, Room, LocksExclude, Sent, Tables
  <2>4. tx' = [r \in Slots |-> tx'[r]] /\ \A r \in Slots : SlotFits(tx'[r], Tables')
    BY <2>1, <2>3 DEF IInv
  <2> QED
    BY <2>1, <2>2, <2>3, <2>4 DEF IInv
<1>12. ASSUME NEW r \in Slots, Step(r) PROVE IInv' /\ [CA!Next]_(CA!vars)
  BY <1>2, <1>3, <1>4, <1>5, <1>6, <1>7, <1>8, <1>12 DEF Step
<1> QED
  BY <1>9, <1>10, <1>11, <1>12 DEF Next

\* The invariant holds throughout.
LEMMA Invariant == Spec => []IInv
<1>1. IInv /\ [Next]_vars => IInv'
  BY NextInv
<1> QED
  BY <1>1, InvInit, PTL DEF Spec

\* Every request the server works on, its snapshot, locks and plan are what
\* their types say, and so are the tables, whatever the transactions do.
THEOREM TypeCorrect == Spec => []TypeOK
<1>1. IInv => TypeOK
  BY InvSound
<1> QED
  BY <1>1, Invariant, PTL

\* Interleaved, aborted and retried, the transactions of the services do to the
\* tables what CustomerAccount does one request at a time.
THEOREM AccountImplemented == Spec => ImplementsAccount
<1>1. Init => CA!Init
  BY DEF Init
<1>2. IInv /\ [Next]_vars => [CA!Next]_(CA!vars)
  BY NextInv
<1> QED
  BY <1>1, <1>2, Invariant, PTL DEF Spec, ImplementsAccount, CA!Spec

\* So the books stay right whatever the transactions do: every balance is
\* explained by the documents and runs along the ledger, no invoice is settled
\* beyond its total or paid by anything but allocations, every document is posted
\* once, no history is rewritten and no purchase takes a customer over his limit.
THEOREM BooksStayRight ==
    Spec => /\ []CAP!BalanceExplained /\ []CAP!LedgerRunsToBalance
            /\ []CAP!InvoicesSettled /\ []CAP!PaidByAllocations
            /\ []CAP!EveryDocumentPostedOnce
            /\ CAP!HistoryKept /\ CAP!CreditLimitHeld
<1>1. CA!Spec => CAP!Spec
  BY SameInit, SameNext, PTL DEF CA!Spec, CAP!Spec
<1>2. Spec => CAP!Spec
  BY <1>1, AccountImplemented, PTL DEF ImplementsAccount
<1>3. /\ CAP!Spec => []CAP!BalanceExplained
      /\ CAP!Spec => []CAP!LedgerRunsToBalance
      /\ CAP!Spec => []CAP!InvoicesSettled
      /\ CAP!Spec => []CAP!PaidByAllocations
      /\ CAP!Spec => []CAP!EveryDocumentPostedOnce
      /\ CAP!Spec => CAP!HistoryKept
      /\ CAP!Spec => CAP!CreditLimitHeld
  BY Constants, CAP!BalanceStaysExplained, CAP!LedgerStaysRunning, CAP!InvoicesStaySettled,
     CAP!PaidStaysAllocated, CAP!DocumentsStayPosted, CAP!HistoryStaysWritten,
     CAP!CreditLimitStaysHeld
<1> QED
  BY <1>2, <1>3

\* A request that names only invoices of its own customer locks no others.
LEMMA NamedAreOwn ==
    ASSUME NEW t, t.input \in Requests, Sees(t, Tables), NamesOnlyOwn(t), NEW i \in NamedInvoices(t)
    PROVE  i \in DOMAIN invoices /\ invoices[i].customerId = CustomerOf(t)
<1>1. /\ i \in DOMAIN t.snap.invoices
      /\ t.input.op = "reversePayment" => t.input.paymentId \in DOMAIN t.snap.payments
      /\ DOMAIN t.snap.invoices \subseteq 1 .. MaxInvoices
  BY RowsKnown DEF Sees
<1>2. t.snap.invoices[i].customerId = CustomerOf(t)
  <2>1. CASE Automatic(t)
    BY <2>1, Kinds DEF Outstanding
  <2>2. CASE Manual(t)
    BY <2>2, Kinds DEF NamesOnlyOwn, CustomerOf
  <2>3. CASE t.input.op = "reversePayment"
    BY <1>1, <2>3, Kinds DEF AllocatedInvoices, CustomerOf, Sees, Sound
  <2>4. CASE t.input.op = "createPurchase"
    BY <2>4, Kinds
  <2> QED
    BY <2>1, <2>2, <2>3, <2>4, Kinds
<1> QED
  BY <1>1, <1>2 DEF Sees, Grown, Tables

\* Two transactions wait for each other's invoices only when one of them names
\* an invoice of another customer: the others hold their customer, and a
\* customer is held by one of them.
THEOREM ContendedByForeignOnly == Spec => []InvoicesContendedByForeignOnly
<1>1. IInv => InvoicesContendedByForeignOnly
  <2> SUFFICES ASSUME IInv, NEW r \in Slots, NEW q \in Slots, r # q,
                      tx[r].pc = "invoices", MoreToLock(tx[r]),
                      <<"Invoice", Head(tx[r].todo)>> \in tx[q].held,
                      NamesOnlyOwn(tx[r]), NamesOnlyOwn(tx[q])
               PROVE  FALSE
    BY DEF InvoicesContendedByForeignOnly
  <2> DEFINE i == Head(tx[r].todo)
  <2>1. /\ SlotFits(tx[r], Tables) /\ SlotFits(tx[q], Tables)
        /\ tx[r].held \cap tx[q].held = {}
    BY DEF IInv, LocksExclude
  <2>2. Looping(tx[r]) /\ tx[r].input \in Requests /\ Sees(tx[r], Tables)
        /\ tx[r].todo \in Seq(1 .. MaxInvoices) /\ tx[r].todo # <<>>
    BY <2>1 DEF SlotFits, Opened, LocksFit, Transactions, MoreToLock
  <2>3. i \in 1 .. MaxInvoices /\ i \in NamedInvoices(tx[r])
    <3>1. i \in 1 .. MaxInvoices /\ i \in Range(tx[r].todo)
      BY <2>2, TakeHead
    <3> QED
      BY <2>2, <3>1 DEF Looping
  <2>4. Opened(tx[q]) /\ tx[q].pc \in Phases /\ tx[q].input \in Requests /\ Sees(tx[q], Tables)
        /\ LocksFit(tx[q])
    BY <2>1 DEF SlotFits, Transactions, Opened
  <2>5. Looping(tx[q])
    BY <2>4 DEF LocksFit, Opened, Phases
  <2>6. i \in NamedInvoices(tx[q])
    BY <2>3, <2>5 DEF Looping
  <2>7. CustomerOf(tx[r]) = CustomerOf(tx[q])
    BY <2>2, <2>3, <2>4, <2>6, NamedAreOwn
  <2>8. /\ <<"Customer", CustomerOf(tx[r])>> \in tx[r].held
        /\ <<"Customer", CustomerOf(tx[q])>> \in tx[q].held
    BY <2>2, <2>5 DEF Looping
  <2> QED
    BY <2>1, <2>7, <2>8
<1> QED
  BY <1>1, Invariant, PTL

\* At its commit the older dues of the customer are in the snapshot, and the
\* plan has paid them.
LEMMA OlderIsPaid ==
    ASSUME IInv, NEW r \in Slots, CommitPayment(r), Automatic(tx[r]),
           NEW i \in DOMAIN invoices, NEW j \in DOMAIN invoices,
           invoices[i].customerId = invoices[j].customerId, Older(invoices, i, j),
           invoices'[j].currentDue < invoices[j].currentDue
    PROVE  invoices'[i].currentDue = 0
<1> DEFINE t == tx[r]
           c == CustomerOf(t)
           rows == t.snap.invoices
<1>1. Committable(r) /\ WriteInvoices(t, 1) /\ t.input.op = "createPayment"
  BY DEF CommitPayment, Committing, Committable
<1>2. ReadyToCommit(t, c)
  BY <1>1, CommitFacts
<1>3. /\ t \in Transactions /\ Sees(t, Tables) /\ Looping(t)
  BY <1>1 DEF IInv, SlotFits, Opened, LocksFit, Committable
<1>4. /\ DOMAIN invoices \subseteq 1 .. MaxInvoices
      /\ \A k \in DOMAIN invoices : invoices[k] \in CA!InvoiceRow /\ invoices[k].currentDue \in Nat
      /\ \A k \in 1 .. MaxInvoices : t.plan[k] \in Nat
  <2>1. Sound(Tables) /\ Tables.invoices = invoices
    BY InvSound DEF Tables
  <2>2. \A k \in 1 .. MaxInvoices : t.plan[k] \in Nat
    BY <1>3 DEF Transactions, CA!Allocations
  <2>3. \A k \in DOMAIN invoices : invoices[k] \in CA!InvoiceRow /\ invoices[k].currentDue \in Nat
    BY <2>1, SoundRows
  <2>4. DOMAIN invoices \subseteq 1 .. MaxInvoices
    <3>1. invoices \in Seq(CA!InvoiceRow) /\ Len(invoices) <= MaxInvoices
      BY <2>1 DEF Sound
    <3> QED
      BY <3>1, LenProperties, Numbers
  <2> QED
    BY <2>2, <2>3, <2>4
<1>5. \A k \in DOMAIN invoices :
         invoices'[k] = IF t.plan[k] > 0 THEN CA!Settle(rows[k], 1 * t.plan[k]) ELSE invoices[k]
  BY <1>1 DEF WriteInvoices
<1>6. t.plan[j] > 0
  BY <1>4, <1>5
<1>7. j \in NamedInvoices(t) /\ invoices[j].customerId = c /\ invoices[i].customerId = c
  BY <1>2, <1>3, <1>4, <1>6 DEF ReadyToCommit, Looping
<1>8. <<"Customer", c>> \notin t.stale
  BY <1>3 DEF Looping, Sees
<1>9. i \in DOMAIN rows /\ invoices[i] = rows[i] /\ j \in DOMAIN rows /\ invoices[j] = rows[j]
  BY <1>3, <1>7, <1>8 DEF Sees, Grown, Tables
<1>10. CASE invoices[i].currentDue > 0
  <2>1. i \in NamedInvoices(t)
    BY <1>7, <1>9, <1>10, Kinds DEF Outstanding
  <2>2. Older(rows, i, j)
    BY <1>9 DEF Older
  <2>3. t.plan[i] = rows[i].currentDue
    BY <1>3, <1>6, <1>7, <2>1, <2>2 DEF Looping, OldestFirstSoFar
  <2>4. invoices'[i] = CA!Settle(rows[i], 1 * rows[i].currentDue)
    BY <1>5, <1>9, <1>10, <2>3
  <2>5. rows[i] \in CA!InvoiceRow /\ rows[i].currentDue \in Nat
    BY <1>4, <1>9
  <2> QED
    BY <2>4, <2>5 DEF CA!Settle, CA!InvoiceRow
<1>11. CASE ~(invoices[i].currentDue > 0)
  <2>1. ~(t.plan[i] > 0)
    BY <1>1, <1>2, <1>4, <1>11 DEF ReadyToCommit
  <2> QED
    BY <1>4, <1>5, <1>11, <2>1
<1> QED
  BY <1>10, <1>11

\* A payment without allocations leaves no older due of the customer behind the
\* ones it pays, in the tables as they are when it commits.
THEOREM OldestDuesFirst == Spec => OldestDueFirst
<1> DEFINE Paid ==
        \A r \in Slots : CommitPayment(r) /\ Automatic(tx[r]) =>
          \A i, j \in DOMAIN invoices :
              /\ invoices[i].customerId = invoices[j].customerId
              /\ invoices[i].invoiceDate < invoices[j].invoiceDate
                    \/ (invoices[i].invoiceDate = invoices[j].invoiceDate /\ i < j)
              /\ invoices'[j].currentDue < invoices[j].currentDue
              => invoices'[i].currentDue = 0
<1>1. IInv => Paid
  <2> SUFFICES ASSUME IInv, NEW r \in Slots, CommitPayment(r), Automatic(tx[r]),
                      NEW i \in DOMAIN invoices, NEW j \in DOMAIN invoices,
                      invoices[i].customerId = invoices[j].customerId,
                      invoices[i].invoiceDate < invoices[j].invoiceDate
                         \/ (invoices[i].invoiceDate = invoices[j].invoiceDate /\ i < j),
                      invoices'[j].currentDue < invoices[j].currentDue
               PROVE  invoices'[i].currentDue = 0
    OBVIOUS
  <2>1. Older(invoices, i, j)
    BY DEF Older
  <2> QED
    BY <2>1, OlderIsPaid
<1>2. IInv => [Paid]_vars
  BY <1>1
<1> QED
  BY <1>2, Invariant, PTL DEF OldestDueFirst
=============================================================================
