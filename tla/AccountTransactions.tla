------------------------ MODULE AccountTransactions ------------------------
(***************************************************************************)
(* createPurchase, createPayment and reversePayment as the database runs   *)
(* them: each request is a SERIALIZABLE transaction that takes its         *)
(* snapshot at its first statement, locks rows with SELECT .. FOR UPDATE,  *)
(* computes from the snapshot what it writes, and is retried by            *)
(* retrySerializable when it is aborted.  A slot is a request the server   *)
(* is working on.  Locking a row that another transaction changed since    *)
(* the snapshot is refused, so that the only way on is Abort.              *)
(*                                                                         *)
(* createCustomer and updateCustomer run outside SERIALIZABLE and are one  *)
(* statement on the row, hence one step here.  Ids in a request name rows  *)
(* that exist: any other id is answered 400 or 404 before a row is locked  *)
(* for good or written.                                                    *)
(***************************************************************************)
EXTENDS Integers, Sequences, FiniteSets, Functions, FiniteSetsExt, SequencesExt

CONSTANTS
    Amounts, Dates, MaxCustomers, MaxInvoices, MaxPayments,   \* of CustomerAccount
    Slots,      \* requests the server handles at once
    Inputs,     \* the requests clients send
    Attempts    \* how often retrySerializable runs a transaction

VARIABLES customers, invoices, payments, ledger, tx

tables == <<customers, invoices, payments, ledger>>
vars == <<customers, invoices, payments, ledger, tx>>

CA == INSTANCE CustomerAccount

-----------------------------------------------------------------------------
Allocation == [invoiceId : Nat, amount : Nat]

\* A payment without allocations is spread over the oldest dues.
Purchases == [op : {"createPurchase"}, customerId : Nat, date : Dates, net : Amounts, paid : Amounts]
Payments  == [op : {"createPayment"}, customerId : Nat, amount : Amounts,
              allocations : Seq(Allocation)]
Reversals == [op : {"reversePayment"}, paymentId : Nat]
Creations == [op : {"createCustomer"}, limit : Amounts, opening : Amounts]
Updates   == [op : {"updateCustomer"}, customerId : Nat, limit : Amounts,
              status : CA!CustomerStatuses]

ASSUME InputsAssumption ==
    /\ \A input \in Inputs :
          input \in Purchases \cup Payments \cup Reversals \cup Creations \cup Updates
    /\ Amounts \subseteq Nat /\ Dates \subseteq Nat
    /\ {MaxCustomers, MaxInvoices, MaxPayments} \subseteq Nat
    /\ Attempts \in Nat \ {0}
    /\ IsFiniteSet(Slots)

NoInput == [op |-> "none"]
NoRows  == [customers |-> <<>>, invoices |-> <<>>, payments |-> <<>>]
NoPlan  == CA!OnlyTo(0, 0)

Phases == {"idle", "begin", "payment", "customer", "invoices"}

Rows == ({"Customer"} \X (1 .. MaxCustomers)) \cup ({"Invoice"} \X (1 .. MaxInvoices))
            \cup ({"Payment"} \X (1 .. MaxPayments))

Transactions ==
    [pc      : Phases,
     input   : Inputs \cup {NoInput},
     attempt : 0 .. Attempts,
     snap    : [customers : Seq(CA!CustomerRow), invoices : Seq(CA!InvoiceRow),
                payments : Seq(CA!PaymentRow)],
     held    : SUBSET Rows,      \* row locks
     stale   : SUBSET Rows,      \* rows others committed since the snapshot
     todo    : Seq(1 .. MaxInvoices),   \* invoices the loop has still to lock
     plan    : CA!Allocations]

TypeOK == CA!TypeOK /\ tx \in [Slots -> Transactions]

Idle == [pc |-> "idle", input |-> NoInput, attempt |-> 0, snap |-> NoRows,
         held |-> {}, stale |-> {}, todo |-> <<>>, plan |-> NoPlan]

Open(r) == tx[r].pc \notin {"idle", "begin"}

-----------------------------------------------------------------------------
LockedIfFree(r, row) ==  \* mutant: READ COMMITTED, changed rows can be locked
    \A q \in Slots \ {r} : row \notin tx[q].held

CanLock(r, row) ==
    /\ \A q \in Slots \ {r} : row \notin tx[q].held
    /\ row \notin tx[r].stale

UnlockedCustomer(t, row) ==  \* mutant: the customer is read without FOR UPDATE
    IF row[1] = "Customer" THEN t.held ELSE t.held \cup {row}

Holding(t, row) == t.held \cup {row}

CustomerOf(t) ==
    IF t.input.op = "reversePayment"
    THEN t.snap.payments[t.input.paymentId].customerId
    ELSE t.input.customerId

NewestFirst(rows, i, j) ==  \* mutant: orderBy desc
    \/ rows[i].invoiceDate > rows[j].invoiceDate
    \/ rows[i].invoiceDate = rows[j].invoiceDate /\ i > j

Older(rows, i, j) ==
    \/ rows[i].invoiceDate < rows[j].invoiceDate
    \/ rows[i].invoiceDate = rows[j].invoiceDate /\ i < j

\* The invoices of the customer in the snapshot that are not fully paid.
Outstanding(t) ==
    {i \in DOMAIN t.snap.invoices :
        t.snap.invoices[i].customerId = CustomerOf(t) /\ t.snap.invoices[i].currentDue > 0}

OldestFirst(rows, order) ==
    \A j, k \in DOMAIN order : j < k => Older(rows, order[j], order[k])

Automatic(t) == t.input.op = "createPayment" /\ t.input.allocations = <<>>
Manual(t)    == t.input.op = "createPayment" /\ t.input.allocations # <<>>

AllocatedInvoices(plan) == {i \in DOMAIN plan : plan[i] > 0}

\* The orders in which the loop may lock invoices.  The allocations of a
\* payment being reversed are read without an ORDER BY.
LockOrders(t) ==
    CASE Automatic(t) -> {order \in SetToSeqs(Outstanding(t)) : OldestFirst(t.snap.invoices, order)}
      [] Manual(t)    -> {[k \in DOMAIN t.input.allocations |-> t.input.allocations[k].invoiceId]}
      [] t.input.op = "reversePayment" ->
            SetToSeqs(AllocatedInvoices(t.snap.payments[t.input.paymentId].allocations))
      [] OTHER        -> {<<>>}

Remaining(t) == t.input.amount - SumFunction(t.plan)

\* What the loop assigns to the invoice it has just locked.
Share(t, i) ==
    CASE Automatic(t) -> Min({Remaining(t), t.snap.invoices[i].currentDue})
      [] Manual(t)    -> (CHOOSE a \in Range(t.input.allocations) : a.invoiceId = i).amount
      [] OTHER        -> t.snap.payments[t.input.paymentId].allocations[i]

MoreToLock(t) == t.todo # <<>> /\ (Automatic(t) => Remaining(t) > 0)

-----------------------------------------------------------------------------
\* The checks between locking the customer and the first invoice.
Admitted(t) ==
    LET customer == t.snap.customers[CustomerOf(t)] IN
    CASE t.input.op = "createPurchase" ->
            LET resulting == customer.currentBalance + t.input.net - t.input.paid IN
            /\ customer.status = "ACTIVE"
            /\ t.input.net > 0 /\ t.input.paid <= t.input.net
            /\ customer.creditLimit > 0 => resulting <= customer.creditLimit
      [] t.input.op = "createPayment" ->
            /\ customer.status = "ACTIVE"
            /\ t.input.amount > 0 /\ t.input.amount <= customer.currentBalance
            /\ IsInjective([k \in DOMAIN t.input.allocations |-> t.input.allocations[k].invoiceId])
      [] OTHER -> TRUE

\* The checks after the last invoice is locked.
Planned(t) ==
    /\ Manual(t) => \A i \in {t.input.allocations[k].invoiceId : k \in DOMAIN t.input.allocations} :
          /\ t.snap.invoices[i].customerId = CustomerOf(t)
          /\ 0 < t.plan[i] /\ t.plan[i] <= t.snap.invoices[i].currentDue
    /\ t.input.op = "createPayment" => Remaining(t) = 0

-----------------------------------------------------------------------------
Init == CA!Init /\ tx = [r \in Slots |-> Idle]

Names(input) ==
    CASE input.op = "reversePayment" -> input.paymentId \in DOMAIN payments
      [] input.op = "createPayment"  ->
            /\ input.customerId \in DOMAIN customers
            /\ \A k \in DOMAIN input.allocations : input.allocations[k].invoiceId \in DOMAIN invoices
      [] OTHER -> input.customerId \in DOMAIN customers

\* Bound: clients stop sending when the tables could fill up.
HasRoom(input) ==
    LET Received(op) == Cardinality({r \in Slots : tx[r].input.op = op}) IN
    /\ input.op = "createPurchase" => Len(invoices) + Received("createPurchase") < MaxInvoices
    /\ input.op # "reversePayment" =>
          Len(payments) + Received("createPurchase") + Received("createPayment") < MaxPayments

Receive(r, input) ==
    /\ tx[r].pc = "idle"
    /\ input.op \in {"createPurchase", "createPayment", "reversePayment"}
    /\ Names(input) /\ HasRoom(input)
    /\ tx' = [tx EXCEPT ![r] = [Idle EXCEPT !.pc = "begin", !.input = input, !.attempt = 1]]
    /\ UNCHANGED tables

\* The first statement of the transaction takes the snapshot, then waits.
Begin(r) ==
    /\ tx[r].pc = "begin"
    /\ tx' = [tx EXCEPT
                 ![r].pc = IF tx[r].input.op = "reversePayment" THEN "payment" ELSE "customer",
                 ![r].snap = [customers |-> customers, invoices |-> invoices, payments |-> payments]]
    /\ UNCHANGED tables

LockPayment(r) ==
    LET t == tx[r]
        p == t.input.paymentId
    IN
    /\ t.pc = "payment"
    /\ CanLock(r, <<"Payment", p>>)
    /\ tx' = [tx EXCEPT ![r] =
                 IF CA!Reversible(t.snap.payments[p])
                 THEN [t EXCEPT !.pc = "customer", !.held = Holding(t, <<"Payment", p>>)]
                 ELSE Idle]
    /\ UNCHANGED tables

LockCustomer(r) ==
    LET t   == tx[r]
        row == <<"Customer", CustomerOf(t)>>
    IN
    /\ t.pc = "customer"
    /\ CanLock(r, row)
    /\ IF Admitted(t)
       THEN \E order \in LockOrders(t) :
               tx' = [tx EXCEPT ![r].pc = "invoices", ![r].held = Holding(t, row), ![r].todo = order]
       ELSE tx' = [tx EXCEPT ![r] = Idle]
    /\ UNCHANGED tables

LockInvoice(r) ==
    LET t == tx[r]
        i == Head(t.todo)
    IN
    /\ t.pc = "invoices" /\ MoreToLock(t)
    /\ CanLock(r, <<"Invoice", i>>)
    /\ tx' = [tx EXCEPT ![r].held = Holding(t, <<"Invoice", i>>),
                        ![r].todo = Tail(@),
                        ![r].plan[i] = @ + Share(t, i)]
    /\ UNCHANGED tables

\* A thrown AppError rolls back and is not retried.
Refuse(r) ==
    /\ tx[r].pc = "invoices" /\ ~MoreToLock(tx[r]) /\ ~Planned(tx[r])
    /\ tx' = [tx EXCEPT ![r] = Idle]
    /\ UNCHANGED tables

Committing(r, op) ==
    /\ tx[r].pc = "invoices" /\ ~MoreToLock(tx[r]) /\ Planned(tx[r])
    /\ tx[r].input.op = op

\* The other transactions have missed these rows.
Missed(t, rows) == [t EXCEPT !.stale = @ \cup rows]

Committed(r, rows) ==
    tx' = [q \in Slots |-> CASE q = r   -> Idle
                             [] Open(q) /\ q # r -> Missed(tx[q], rows)
                             [] OTHER   -> tx[q]]

WriteBalance(c, balance) == customers' = [customers EXCEPT ![c].currentBalance = balance]

\* Each planned invoice is written from the row in the snapshot.
WriteInvoices(t, sign) ==
    invoices' = [i \in DOMAIN invoices |->
                    IF t.plan[i] > 0 THEN CA!Settle(t.snap.invoices[i], sign * t.plan[i])
                                     ELSE invoices[i]]

InvoiceRows(t) == {<<"Invoice", i>> : i \in AllocatedInvoices(t.plan)}

CommitPurchase(r) ==
    LET t        == tx[r]
        c        == CustomerOf(t)
        net      == t.input.net
        paid     == t.input.paid
        previous == t.snap.customers[c].currentBalance
        invoice  == Len(invoices) + 1
        payment  == Len(payments) + 1
    IN
    /\ Committing(r, "createPurchase")
    /\ invoices' = Append(invoices, CA!NewInvoice(c, t.input.date, net, paid))
    /\ payments' = IF paid > 0
                   THEN Append(payments, CA!NewPayment(c, paid, CA!OnlyTo(invoice, paid)))
                   ELSE payments
    /\ ledger' = [ledger EXCEPT ![c] =
                     @ \o CA!PurchasePostings(previous, net, paid, invoice, payment)]
    /\ WriteBalance(c, previous + net - paid)
    /\ Committed(r, {<<"Customer", c>>})

CommitPayment(r) ==
    LET t       == tx[r]
        c       == CustomerOf(t)
        amount  == t.input.amount
        balance == t.snap.customers[c].currentBalance - amount
    IN
    /\ Committing(r, "createPayment")
    /\ payments' = Append(payments, CA!NewPayment(c, amount, t.plan))
    /\ WriteInvoices(t, 1)
    /\ ledger' = [ledger EXCEPT ![c] =
                     Append(@, CA!Credit("PAYMENT", amount, balance, Len(payments) + 1))]
    /\ WriteBalance(c, balance)
    /\ Committed(r, {<<"Customer", c>>} \cup InvoiceRows(t))

CommitReversal(r) ==
    LET t       == tx[r]
        p       == t.input.paymentId
        c       == CustomerOf(t)
        amount  == t.snap.payments[p].amount
        balance == t.snap.customers[c].currentBalance + amount
    IN
    /\ Committing(r, "reversePayment")
    /\ WriteInvoices(t, -1)
    /\ payments' = [payments EXCEPT ![p] = CA!Reversed(t.snap.payments[p])]
    /\ WriteBalance(c, balance)
    /\ ledger' = [ledger EXCEPT ![c] = Append(@, CA!ReversalPosting(amount, balance, p))]
    /\ Committed(r, {<<"Payment", p>>, <<"Customer", c>>} \cup InvoiceRows(t))

Uncounted(t) ==  \* mutant: the loop variable is not advanced
    [Idle EXCEPT !.pc = "begin", !.input = t.input, !.attempt = t.attempt]

CountedTwice(t) ==  \* mutant: attempts + 1 runs
    [Idle EXCEPT !.pc = "begin", !.input = t.input, !.attempt = t.attempt + 2]

Retried(t) == [Idle EXCEPT !.pc = "begin", !.input = t.input, !.attempt = t.attempt + 1]

\* The database aborts the transaction (a locked row is stale, a deadlock, the
\* 15 s timeout, a serialization failure at commit) or the connection is lost:
\* retried on P2034 and P2028 while attempts are left, else answered with 500.
Abort(r) ==
    /\ Open(r)
    /\ \/ tx[r].attempt < Attempts /\ tx' = [tx EXCEPT ![r] = Retried(tx[r])]
       \/ tx' = [tx EXCEPT ![r] = Idle]
    /\ UNCHANGED tables

-----------------------------------------------------------------------------
CreateCustomer(input) ==
    /\ input.op = "createCustomer"
    /\ CA!CreateCustomer(input.limit, input.opening)
    /\ UNCHANGED tx

\* The UPDATE waits for a row lock and makes the row stale for open snapshots.
UpdateCustomer(input) ==
    /\ input.op = "updateCustomer" /\ input.customerId \in DOMAIN customers
    /\ \A r \in Slots : <<"Customer", input.customerId>> \notin tx[r].held
    /\ CA!UpdateCustomer(input.customerId, input.limit, input.status)
    /\ tx' = [r \in Slots |->
                IF Open(r) THEN Missed(tx[r], {<<"Customer", input.customerId>>}) ELSE tx[r]]

Step(r) ==
    \/ Begin(r) \/ LockPayment(r) \/ LockCustomer(r) \/ LockInvoice(r)
    \/ Refuse(r) \/ CommitPurchase(r) \/ CommitPayment(r) \/ CommitReversal(r)
    \/ Abort(r)

Next ==
    \/ \E r \in Slots : Step(r) \/ \E input \in Inputs : Receive(r, input)
    \/ \E input \in Inputs : CreateCustomer(input) \/ UpdateCustomer(input)

\* A request the server works on goes on: the database answers every statement
\* or, at the latest after the transaction timeout, aborts it.
Fairness == \A r \in Slots : WF_vars(Step(r))

Spec == Init /\ [][Next]_vars /\ Fairness

-----------------------------------------------------------------------------
\* The interleaved transactions do to the tables what the five services do one
\* at a time: no balance, invoice or ledger entry is computed from a row that
\* another transaction changed in between, and none is applied twice.
ImplementsAccount == CA!Spec

NamesOnlyOwn(t) ==
    Manual(t) => \A k \in DOMAIN t.input.allocations :
        t.snap.invoices[t.input.allocations[k].invoiceId].customerId = t.input.customerId

\* Two requests that name only invoices of their own customer never wait for
\* each other on an invoice: the customer row taken first orders them.  A
\* deadlock needs a request that names an invoice of another customer, which
\* createPayment locks before it finds out.
InvoicesContendedByForeignOnly ==
    \A r, q \in Slots :
        /\ r # q /\ tx[r].pc = "invoices" /\ MoreToLock(tx[r])
        /\ <<"Invoice", Head(tx[r].todo)>> \in tx[q].held
        => ~NamesOnlyOwn(tx[r]) \/ ~NamesOnlyOwn(tx[q])

\* createPayment without allocations pays no invoice while the customer has an
\* older one with a due left, judged on the tables at commit and not on the
\* snapshot the plan was made from.
OldestDueFirst ==
    [][\A r \in Slots : CommitPayment(r) /\ Automatic(tx[r]) =>
          \A i, j \in DOMAIN invoices :
              /\ invoices[i].customerId = invoices[j].customerId
              /\ invoices[i].invoiceDate < invoices[j].invoiceDate
                    \/ (invoices[i].invoiceDate = invoices[j].invoiceDate /\ i < j)
              /\ invoices'[j].currentDue < invoices[j].currentDue
              => invoices'[i].currentDue = 0]_vars

\* Every request is answered, however often its transaction is aborted and
\* whatever the others hold: retries are bounded and no lock is waited for
\* forever.
RequestsAnswered == \A r \in Slots : tx[r].pc # "idle" ~> tx[r].pc = "idle"
=============================================================================
