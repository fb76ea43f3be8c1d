-------------------------- MODULE MCReports_proofs --------------------------
(***************************************************************************)
(* Proofs about Reports and Lists, for every value of their constants and  *)
(* whatever is written while a report is made or a list is read.           *)
(*                                                                         *)
(* The tables of the reports are those of CustomerAccount, whose           *)
(* invariants hold here too (BehaviorOfTables).  From them follow: that    *)
(* the two totals of what is due agree (DuesStayEqual); that the books     *)
(* balance and so does the summary read from books nobody writes to        *)
(* (SummaryStaysBalanced); and that the unpaid invoices of a customer      *)
(* never add up to more than his balance when he was read, so the buckets  *)
(* add up (AgingStaysAddedUp).  The last part is about the walk through a  *)
(* paged list (WalkStaysComplete).                                         *)
(***************************************************************************)
EXTENDS MCReports, CustomerAccount_proofs

(***************************************************************************)
(* A report changes no table: whatever is proved of CustomerAccount holds  *)
(* while reports and lists are read.                                       *)
(***************************************************************************)
\* Every step is a step of CustomerAccount or leaves its tables alone.
LEMMA StepOfTables == [ReadNext]_readVars => [Next]_vars
<1> SUFFICES ASSUME [ReadNext]_readVars PROVE [Next]_vars
  OBVIOUS
<1>1. CASE ReportsNext
  BY <1>1 DEF ReportsNext, BeginDueAging, BeginSummary, AnswerReport, ReadAggregate, Meanwhile
<1>2. CASE UNCHANGED vars
  BY <1>2
<1>3. CASE UNCHANGED readVars
  BY <1>3 DEF readVars, vars
<1> QED
  BY <1>1, <1>2, <1>3 DEF ReadNext

\* So every behavior is one of CustomerAccount.
LEMMA BehaviorOfTables == ReadSpec => Spec
<1>1. ReadInit => Init
  BY DEF ReadInit, ReportsInit
<1> QED
  BY <1>1, StepOfTables, PTL DEF ReadSpec, Spec

-----------------------------------------------------------------------------
\* The customers that a report adds up are finitely many, and their balances
\* are amounts that are not negative.
LEMMA BalancesToAdd ==
    ASSUME TypeInv, LedgerRunsToBalance
    PROVE  /\ IsFiniteSet(DOMAIN customers)
           /\ \A c \in DOMAIN customers : /\ customers[c] \in CustomerRow
                                          /\ customers[c].currentBalance \in Nat
<1>1. /\ DOMAIN customers = 1 .. Len(customers) /\ Len(customers) \in Nat
      /\ \A c \in DOMAIN customers : customers[c] \in CustomerRow
  BY LenProperties, ElementOfSeq DEF TypeInv, TypeOK
<1>2. IsFiniteSet(DOMAIN customers)
  BY <1>1, FS_Interval
<1>3. \A c \in DOMAIN customers : customers[c].currentBalance >= 0
  BY DEF LedgerRunsToBalance
<1>4. \A c \in DOMAIN customers : customers[c].currentBalance \in Int
  BY <1>1 DEF CustomerRow
<1> QED
  BY <1>1, <1>2, <1>3, <1>4

\* A column added up over chosen rows, for any function that shows the column.
LEMMA SumOfIs ==
    ASSUME NEW table, NEW field, NEW chosen, IsFiniteSet(chosen),
           NEW f, \A n \in chosen : f[n] \in Int /\ table[n][field] = f[n]
    PROVE  SumOf(table, field, chosen) = SumFunctionOnSet(f, chosen)
<1> DEFINE g == [n \in chosen |-> table[n][field]]
<1>1. DOMAIN g = chosen /\ \A n \in chosen : f[n] \in Int /\ g[n] = f[n]
  OBVIOUS
<1>2. SumOf(table, field, chosen) = SumFunction(g)
  BY DEF SumOf
<1> HIDE DEF g
<1>3. SumFunction(g) = SumFunctionOnSet(g, chosen)
  BY <1>1, SumOverDomain
<1>4. SumFunctionOnSet(g, chosen) = SumFunctionOnSet(f, chosen)
  BY <1>1, SumAgree
<1> QED
  BY <1>2, <1>3, <1>4

\* An active customer who is not in debt owes nothing, so leaving it out of the
\* sum does not change it.
LEMMA DuesOfBalances == TypeInv /\ LedgerRunsToBalance => DuesAgree
<1> SUFFICES ASSUME TypeInv, LedgerRunsToBalance PROVE DuesAgree
  OBVIOUS
<1> DEFINE f == [c \in DOMAIN customers |-> customers[c].currentBalance]
<1>1. /\ IsFiniteSet(DOMAIN customers)
      /\ \A c \in DOMAIN customers : f[c] \in Nat /\ customers[c].currentBalance = f[c]
  BY BalancesToAdd
<1>2. \A c \in DOMAIN customers : f[c] \in Int /\ customers[c]["currentBalance"] = f[c]
  BY <1>1
<1>3. /\ ActiveCustomers \subseteq DOMAIN customers /\ InDebt \subseteq ActiveCustomers
      /\ \A c \in ActiveCustomers \ InDebt : f[c] = 0
  BY <1>1 DEF ActiveCustomers, InDebt
<1> HIDE DEF f
<1>4. IsFiniteSet(ActiveCustomers) /\ IsFiniteSet(InDebt)
  BY <1>1, <1>3, FS_Subset
<1>5. TotalOutstandingDue = SumFunctionOnSet(f, ActiveCustomers)
  BY <1>2, <1>3, <1>4, SumOfIs DEF TotalOutstandingDue
<1>6. DashboardDue = SumFunctionOnSet(f, InDebt)
  BY <1>2, <1>3, <1>4, SumOfIs DEF DashboardDue
<1>7. SumFunctionOnSet(f, ActiveCustomers) = SumFunctionOnSet(f, InDebt)
  BY <1>2, <1>3, <1>4, SumWithin
<1> QED
  BY <1>5, <1>6, <1>7 DEF DuesAgree

(***************************************************************************)
(* The dashboard and the report summary show the same due, whatever number *)
(* of customers was made active or inactive, paid or was given back to.    *)
(***************************************************************************)
THEOREM DuesStayEqual == ReadSpec => []DuesAgree
<1> QED
  BY DuesOfBalances, BehaviorOfTables, TypeInvariance, LedgerStaysRunning, PTL

(***************************************************************************)
(* Sums of sums.                                                           *)
(***************************************************************************)
\* The rows F and the columns G of a table of numbers.
RowsAndColumns(F, G, S, T) ==
    \A x \in S : \A y \in T : F[x][y] \in Int /\ G[y][x] = F[x][y]

\* A table of numbers has the same sum by rows as by columns.
LEMMA SumSwap ==
    ASSUME NEW S, IsFiniteSet(S), NEW T, IsFiniteSet(T),
           NEW F, NEW G, RowsAndColumns(F, G, S, T),
           NEW r, \A x \in S : r[x] = SumFunctionOnSet(F[x], T),
           NEW k, \A y \in T : k[y] = SumFunctionOnSet(G[y], S)
    PROVE  SumFunctionOnSet(r, S) = SumFunctionOnSet(k, T)
<1> DEFINE R(s) == SumFunctionOnSet(r, s)
           column(s) == [y \in T |-> SumFunctionOnSet(G[y], s)]
           K(s) == SumFunctionOnSet(column(s), T)
           C == {s \in SUBSET S : R(s) # K(s)}
<1>1. \A s \in SUBSET S : IsFiniteSet(s)
  BY FS_Subset
<1>2. \A x \in S : r[x] \in Int
  <2> SUFFICES ASSUME NEW x \in S PROVE r[x] \in Int
    OBVIOUS
  <2> DEFINE f == F[x]
  <2>1. \A y \in T : f[y] \in Int
    BY DEF RowsAndColumns
  <2>2. r[x] = SumFunctionOnSet(f, T)
    OBVIOUS
  <2> HIDE DEF f
  <2> QED
    BY <2>1, <2>2, SumRemove
<1>3. ASSUME NEW s \in SUBSET S
      PROVE  /\ R(s) \in Int
             /\ s = {} => R(s) = 0
             /\ \A x \in s : R(s) = r[x] + R(s \ {x})
  <2>1. \A x \in s : r[x] \in Int
    BY <1>2
  <2> QED
    BY <1>1, <2>1, SumRemove
<1>4. ASSUME NEW s \in SUBSET S, NEW y \in T
      PROVE  /\ column(s)[y] \in Int
             /\ s = {} => column(s)[y] = 0
             /\ \A x \in s : column(s)[y] = F[x][y] + column(s \ {x})[y]
  <2> DEFINE g == G[y]
  <2>1. \A x \in s : g[x] \in Int /\ g[x] = F[x][y]
    BY DEF RowsAndColumns
  <2>2. column(s)[y] = SumFunctionOnSet(g, s)
    OBVIOUS
  <2>3. \A x \in s : column(s \ {x})[y] = SumFunctionOnSet(g, s \ {x})
    OBVIOUS
  <2> HIDE DEF g, column
  <2>4. /\ SumFunctionOnSet(g, s) \in Int
        /\ s = {} => SumFunctionOnSet(g, s) = 0
        /\ \A x \in s : SumFunctionOnSet(g, s) = g[x] + SumFunctionOnSet(g, s \ {x})
    BY <1>1, <2>1, SumRemove
  <2>5. ASSUME NEW x \in s PROVE column(s)[y] = F[x][y] + column(s \ {x})[y]
    BY <2>1, <2>2, <2>3, <2>4
  <2> QED
    BY <2>2, <2>4, <2>5
<1> HIDE DEF column
<1>5. K({}) = 0
  BY <1>4, SumZero
<1>6. ASSUME NEW s \in SUBSET S, NEW x \in s
      PROVE  K(s) = r[x] + K(s \ {x}) /\ K(s \ {x}) \in Int
  <2> DEFINE f == F[x]
             h == column(s)
             g == column(s \ {x})
  <2>1. \A y \in T : f[y] \in Int /\ g[y] \in Int /\ h[y] = f[y] + g[y]
    BY <1>4 DEF RowsAndColumns
  <2>2. r[x] = SumFunctionOnSet(f, T)
    OBVIOUS
  <2> HIDE DEF f, g, h
  <2>3. SumFunctionOnSet(h, T) = SumFunctionOnSet(f, T) + SumFunctionOnSet(g, T)
    BY <2>1, SumPointwise
  <2>4. SumFunctionOnSet(g, T) \in Int
    BY <2>1, SumRemove
  <2> QED
    BY <2>2, <2>3, <2>4 DEF g, h
<1> HIDE DEF R, K
<1>7. ASSUME C # {} PROVE FALSE
  <2>1. PICK s \in C : \A t \in SUBSET s : t # s => t \notin C
    BY <1>1, <1>7, Smallest
  <2>2. CASE s = {}
    BY <1>3, <1>5, <2>2
  <2>3. ASSUME NEW x \in s PROVE FALSE
    <3>1. R(s \ {x}) = K(s \ {x})
      BY <2>1
    <3>2. R(s) = r[x] + R(s \ {x})
      BY <1>3
    <3>3. K(s) = r[x] + K(s \ {x})
      BY <1>6
    <3> QED
      BY <3>1, <3>2, <3>3
  <2> QED
    BY <2>2, <2>3
<1>8. R(S) = K(S)
  BY <1>7
<1>9. K(S) = SumFunctionOnSet(k, T)
  <2> DEFINE g == column(S)
  <2>1. \A y \in T : k[y] = g[y] /\ g[y] \in Int
    <3>1. \A y \in T : k[y] = g[y]
      BY DEF column
    <3> QED
      BY <1>4, <3>1
  <2> HIDE DEF g
  <2>2. SumFunctionOnSet(k, T) = SumFunctionOnSet(g, T)
    BY <2>1, SumAgree
  <2> QED
    BY <2>2 DEF g, K
<1> QED
  BY <1>8, <1>9 DEF R

\* A sum over a set is the sum over a part of it and the sum over the rest.
LEMMA SumSplit ==
    ASSUME NEW T, IsFiniteSet(T), NEW S \in SUBSET T, NEW f, \A x \in T : f[x] \in Int
    PROVE  /\ SumFunctionOnSet(f, T) = SumFunctionOnSet(f, S) + SumFunctionOnSet(f, T \ S)
           /\ SumFunctionOnSet(f, S) \in Int /\ SumFunctionOnSet(f, T \ S) \in Int
<1> DEFINE g == [x \in T |-> IF x \in S THEN f[x] ELSE 0]
           h == [x \in T |-> IF x \in S THEN 0 ELSE f[x]]
           rest == T \ S
<1>1. \A x \in T : /\ g[x] \in Int /\ h[x] \in Int /\ f[x] = g[x] + h[x]
                   /\ x \in S => g[x] = f[x] /\ h[x] = 0
                   /\ x \in rest => h[x] = f[x] /\ g[x] = 0
  OBVIOUS
<1>2. rest \subseteq T /\ \A x \in T : x \in S <=> x \notin rest
  OBVIOUS
<1> HIDE DEF g, h, rest
<1>3. IsFiniteSet(S) /\ IsFiniteSet(rest)
  BY <1>2, FS_Subset
<1>4. SumFunctionOnSet(f, T) = SumFunctionOnSet(g, T) + SumFunctionOnSet(h, T)
  BY <1>1, SumPointwise
<1>5. SumFunctionOnSet(g, T) = SumFunctionOnSet(g, S)
  BY <1>1, <1>2, SumWithin
<1>6. SumFunctionOnSet(h, T) = SumFunctionOnSet(h, rest)
  BY <1>1, <1>2, SumWithin
<1>7. SumFunctionOnSet(g, S) = SumFunctionOnSet(f, S) /\ SumFunctionOnSet(f, S) \in Int
  BY <1>1, <1>3, SumAgree, SumRemove
<1>8. SumFunctionOnSet(h, rest) = SumFunctionOnSet(f, rest) /\ SumFunctionOnSet(f, rest) \in Int
  BY <1>1, <1>2, <1>3, SumAgree, SumRemove
<1> QED
  BY <1>4, <1>5, <1>6, <1>7, <1>8 DEF rest

\* Everything in T is in one of the groups S.
Groups(group, T, S) == \A y \in T : group[y] \in S

InGroup(group, T, x) == {y \in T : group[y] = x}

\* Sums by group add up to the sum of everything.
LEMMA SumGrouped ==
    ASSUME NEW T, IsFiniteSet(T), NEW f, \A y \in T : f[y] \in Int,
           NEW S, IsFiniteSet(S), NEW group, Groups(group, T, S),
           NEW r, \A x \in S : r[x] = SumFunctionOnSet(f, InGroup(group, T, x))
    PROVE  SumFunctionOnSet(r, S) = SumFunctionOnSet(f, T)
<1> DEFINE F == [x \in S |-> [y \in T |-> IF group[y] = x THEN f[y] ELSE 0]]
           G == [y \in T |-> [x \in S |-> IF group[y] = x THEN f[y] ELSE 0]]
           k == [y \in T |-> SumFunctionOnSet(G[y], S)]
<1>1. \A x \in S, y \in T : /\ F[x][y] \in Int /\ G[y][x] = F[x][y]
                            /\ group[y] = x => F[x][y] = f[y]
                            /\ group[y] # x => F[x][y] = 0
  OBVIOUS
<1>2. \A y \in T : k[y] = SumFunctionOnSet(G[y], S)
  OBVIOUS
<1> HIDE DEF F, G, k
<1>3. \A x \in S : r[x] = SumFunctionOnSet(F[x], T)
  <2> SUFFICES ASSUME NEW x \in S PROVE r[x] = SumFunctionOnSet(F[x], T)
    OBVIOUS
  <2> DEFINE g == F[x]
             mine == InGroup(group, T, x)
  <2>1. /\ \A y \in T : g[y] \in Int
        /\ \A y \in mine : f[y] \in Int /\ g[y] = f[y]
        /\ \A y \in T \ mine : g[y] = 0
    BY <1>1 DEF InGroup
  <2>2. mine \subseteq T /\ r[x] = SumFunctionOnSet(f, mine)
    BY DEF InGroup
  <2> HIDE DEF g, mine
  <2>3. IsFiniteSet(mine)
    BY <2>2, FS_Subset
  <2>4. SumFunctionOnSet(g, T) = SumFunctionOnSet(g, mine)
    BY <2>1, <2>2, SumWithin
  <2>5. SumFunctionOnSet(g, mine) = SumFunctionOnSet(f, mine)
    BY <2>1, <2>3, SumAgree
  <2> QED
    BY <2>2, <2>4, <2>5 DEF g
<1>4. SumFunctionOnSet(r, S) = SumFunctionOnSet(k, T)
  <2>1. RowsAndColumns(F, G, S, T)
    BY <1>1 DEF RowsAndColumns
  <2> QED
    BY <1>2, <1>3, <2>1, SumSwap
<1>5. ASSUME NEW y \in T PROVE k[y] = f[y]
  <2> DEFINE g == G[y]
             one == {group[y]}
  <2>1. \A x \in S : g[x] \in Int /\ (x \notin one => g[x] = 0)
    BY <1>1
  <2>2. one \in SUBSET S /\ group[y] \in one /\ one \ {group[y]} = {} /\ g[group[y]] = f[y]
    BY <1>1 DEF Groups
  <2>3. k[y] = SumFunctionOnSet(g, S)
    BY <1>2
  <2> HIDE DEF g, one
  <2>4. SumFunctionOnSet(g, S) = SumFunctionOnSet(g, one)
    BY <2>1, <2>2, SumWithin
  <2>5. IsFiniteSet(one) /\ \A x \in one : g[x] \in Int
    BY <2>1, <2>2, FS_Subset
  <2>6. SumFunctionOnSet(g, one) = g[group[y]] + SumFunctionOnSet(g, {})
    BY <2>2, <2>5, SumRemove
  <2>7. SumFunctionOnSet(g, {}) = 0
    BY FS_EmptySet, SumZero
  <2> QED
    BY <2>2, <2>3, <2>4, <2>6, <2>7
<1>6. SumFunctionOnSet(k, T) = SumFunctionOnSet(f, T)
  BY <1>5, SumAgree
<1> QED
  BY <1>4, <1>6

(***************************************************************************)
(* The summary.                                                            *)
(***************************************************************************)
\* What is owed on all invoices is what all customers owe.
LEMMA OwedAddsUp ==
    ASSUME TypeInv, DocumentsRefer, NEW owed, \A c \in DOMAIN customers : owed[c] = Owed(c),
           NEW due, \A i \in DOMAIN invoices : due[i] = invoices[i].currentDue
    PROVE  SumFunctionOnSet(owed, DOMAIN customers) = SumFunctionOnSet(due, DOMAIN invoices)
<1> DEFINE payer == [i \in DOMAIN invoices |-> invoices[i].customerId]
           mine(c) == InGroup(payer, DOMAIN invoices, c)
<1>1. Groups(payer, DOMAIN invoices, DOMAIN customers)
  BY DEF DocumentsRefer, Groups
<1>2. IsFiniteSet(DOMAIN invoices) /\ \A i \in DOMAIN invoices : due[i] \in Int
  BY InvoiceSetsFinite DEF InvoiceRow
<1>3. IsFiniteSet(DOMAIN customers)
  <2>1. DOMAIN customers = 1 .. Len(customers) /\ Len(customers) \in Nat
    BY LenProperties DEF TypeInv, TypeOK
  <2> QED
    BY <2>1, FS_Interval
<1>4. ASSUME NEW c \in DOMAIN customers
      PROVE  owed[c] = SumFunctionOnSet(due, InGroup(payer, DOMAIN invoices, c))
  <2>1. mine(c) = RowsOf(invoices, c)
    BY DEF RowsOf, InGroup
  <2>2. \A i \in mine(c) : due[i] = invoices[i].currentDue
    BY DEF InGroup
  <2> HIDE DEF mine
  <2>3. Owed(c) = SumFunctionOnSet(due, mine(c))
    BY <2>1, <2>2, OwedIsSum
  <2> QED
    BY <2>3 DEF mine
<1> HIDE DEF payer
<1> QED
  BY <1>1, <1>2, <1>3, <1>4, SumGrouped

\* The confirmed payments are finitely many payments.
LEMMA ConfirmedFinite ==
    ASSUME TypeInv
    PROVE  /\ IsFiniteSet(ConfirmedIn(payments))
           /\ \A p \in ConfirmedIn(payments) : p \in DOMAIN payments /\ payments[p] \in PaymentRow
<1> DEFINE P == ConfirmedIn(payments)
<1>1. /\ DOMAIN payments = 1 .. Len(payments) /\ Len(payments) \in Nat
      /\ \A p \in DOMAIN payments : payments[p] \in PaymentRow
  BY LenProperties, ElementOfSeq DEF TypeInv, TypeOK
<1>2. P \subseteq 1 .. Len(payments)
  BY <1>1 DEF ConfirmedIn
<1>3. IsFiniteSet(1 .. Len(payments))
  BY <1>1, FS_Interval
<1> HIDE DEF P
<1>4. IsFiniteSet(P)
  BY <1>2, <1>3, FS_Subset
<1> QED
  BY <1>1, <1>2, <1>4 DEF P

\* What is paid on all invoices is the amount of all confirmed payments.
LEMMA PaidAddsUp ==
    ASSUME TypeInv, DocumentsRefer, PaidByAllocations,
           NEW paid, \A i \in DOMAIN invoices : paid[i] = invoices[i].paidAmount,
           NEW amount, \A p \in ConfirmedIn(payments) : amount[p] = payments[p].amount
    PROVE  SumFunctionOnSet(paid, DOMAIN invoices)
               = SumFunctionOnSet(amount, ConfirmedIn(payments))
<1> DEFINE I == DOMAIN invoices
           P == ConfirmedIn(payments)
           F == [i \in I |-> [p \in P |-> payments[p].allocations[i]]]
           G == [p \in P |-> payments[p].allocations]
<1>1. /\ IsFiniteSet(I) /\ I \subseteq 1 .. MaxInvoices /\ IsFiniteSet(1 .. MaxInvoices)
  BY InvoiceSetsFinite
<1>2. /\ payments \in Seq(PaymentRow)
      /\ \A p \in P : p \in DOMAIN payments /\ payments[p] \in PaymentRow
  BY ConfirmedFinite DEF TypeInv, TypeOK
<1>3. IsFiniteSet(P)
  BY ConfirmedFinite
<1>4. RowsAndColumns(F, G, I, P)
  <2>1. \A i \in I : \A p \in P : payments[p].allocations[i] \in Int
    BY <1>1, <1>2, AllocatedType
  <2>2. \A i \in I : \A p \in P : F[i][p] = payments[p].allocations[i]
                                  /\ G[p][i] = payments[p].allocations[i]
    OBVIOUS
  <2> QED
    BY <2>1, <2>2 DEF RowsAndColumns
<1>5. ASSUME NEW i \in I PROVE paid[i] = SumFunctionOnSet(F[i], P)
  <2> DEFINE f == F[i]
  <2>1. \A p \in ConfirmedIn(payments) : f[p] = payments[p].allocations[i]
    OBVIOUS
  <2>2. paid[i] = PaidIn(payments, i)
    BY DEF PaidByAllocations, PaidIn, ConfirmedIn
  <2> HIDE DEF f, F, P
  <2>3. i \in 1 .. MaxInvoices
    BY <1>1
  <2>4. PaidIn(payments, i) = SumFunctionOnSet(f, ConfirmedIn(payments))
    BY <1>2, <2>1, <2>3, PaidIsSum
  <2> QED
    BY <2>2, <2>4 DEF f, P
<1>6. ASSUME NEW p \in P PROVE amount[p] = SumFunctionOnSet(G[p], I)
  <2> DEFINE g == payments[p].allocations
  <2>1. /\ DOMAIN g = 1 .. MaxInvoices /\ SumFunction(g) = payments[p].amount
        /\ \A i \in 1 .. MaxInvoices : g[i] > 0 => i \in I
    BY <1>2 DEF PaymentRow, Allocations, DocumentsRefer, RowsOf
  <2>2. \A i \in 1 .. MaxInvoices : g[i] \in Nat
    BY <1>2, AllocatedType
  <2>3. G[p] = g
    OBVIOUS
  <2> HIDE DEF g, I
  <2>4. \A i \in 1 .. MaxInvoices : g[i] \in Int /\ (i \notin I => g[i] = 0)
    BY <2>1, <2>2
  <2>5. SumFunctionOnSet(g, 1 .. MaxInvoices) = SumFunctionOnSet(g, I)
    BY <1>1, <2>4, SumWithin
  <2>6. SumFunction(g) = SumFunctionOnSet(g, 1 .. MaxInvoices)
    BY <2>1, SumOverDomain
  <2> QED
    BY <2>1, <2>3, <2>5, <2>6
<1> HIDE DEF F, G, I, P
<1>7. SumFunctionOnSet(paid, I) = SumFunctionOnSet(amount, P)
  <2>1. \A i \in I : paid[i] = SumFunctionOnSet(F[i], P)
    BY <1>5
  <2>2. \A p \in P : amount[p] = SumFunctionOnSet(G[p], I)
    BY <1>6
  <2>3. IsFiniteSet(I)
    BY <1>1
  <2> QED
    BY <1>3, <1>4, <2>1, <2>2, <2>3, SumSwap
<1> QED
  BY <1>7 DEF I, P

\* What was owed at the start and sold since, less what was collected and not
\* given back, is what the balance columns add up to.
LEMMA BooksBalance ==
    ASSUME TypeInv, DocumentsRefer, LedgerRunsToBalance, BalanceExplained, InvoicesSettled,
           PaidByAllocations
    PROVE  /\ SumFunction([c \in DOMAIN customers |-> OpeningBalance(c)])
                  + TotalSales - TotalCollections
              = SumOf(customers, "currentBalance", DOMAIN customers)
           /\ SumOf(customers, "currentBalance", DOMAIN customers)
              = TotalOutstandingDue
                  + SumOf(customers, "currentBalance", DOMAIN customers \ ActiveCustomers)
<1> DEFINE C       == DOMAIN customers
           I       == DOMAIN invoices
           P       == ConfirmedIn(payments)
           A       == ActiveCustomers
           others  == C \ A
           balance == [c \in C |-> customers[c].currentBalance]
           opening == [c \in C |-> OpeningBalance(c)]
           owed    == [c \in C |-> Owed(c)]
           due     == [i \in I |-> invoices[i].currentDue]
           paid    == [i \in I |-> invoices[i].paidAmount]
           total   == [i \in I |-> invoices[i].grandTotal]
           amount  == [p \in P |-> payments[p].amount]
<1>1. /\ IsFiniteSet(C) /\ A \subseteq C
      /\ \A c \in C : customers[c].currentBalance \in Int
  BY BalancesToAdd DEF ActiveCustomers
<1>2. IsFiniteSet(I) /\ \A i \in I : invoices[i] \in InvoiceRow
  BY InvoiceSetsFinite
<1>3. IsFiniteSet(P) /\ \A p \in P : payments[p] \in PaymentRow
  BY ConfirmedFinite
<1>4. \A c \in C : /\ balance[c] \in Int /\ opening[c] \in Int /\ owed[c] \in Int
                   /\ balance[c] = opening[c] + owed[c]
                   /\ balance[c] = customers[c]["currentBalance"]
  <2>1. ASSUME NEW c \in C
        PROVE  /\ OpeningBalance(c) \in Int /\ Owed(c) \in Int
               /\ customers[c].currentBalance = OpeningBalance(c) + Owed(c)
    <3>1. OpeningBalance(c) \in Int
      BY OpeningIsAmount
    <3>2. Owed(c) \in Int
      <4> DEFINE f == [i \in RowsOf(invoices, c) |-> invoices[i].currentDue]
      <4>1. \A i \in RowsOf(invoices, c) : f[i] = invoices[i].currentDue
        OBVIOUS
      <4> HIDE DEF f
      <4> QED
        BY <4>1, OwedIsSum
    <3> QED
      BY <3>1, <3>2 DEF BalanceExplained, Owed
  <2> QED
    BY <1>1, <2>1
<1>5. \A i \in I : /\ total[i] \in Int /\ paid[i] \in Int /\ due[i] \in Int
                   /\ total[i] = paid[i] + due[i]
                   /\ total[i] = invoices[i]["grandTotal"]
  <2>1. ASSUME NEW i \in I
        PROVE  /\ invoices[i].paidAmount \in Int /\ invoices[i].currentDue \in Int
               /\ invoices[i].grandTotal \in Int
               /\ invoices[i].grandTotal = invoices[i].paidAmount + invoices[i].currentDue
    BY <1>2 DEF InvoiceRow, InvoicesSettled, InvoiceSettled
  <2> QED
    BY <2>1
<1>6. \A p \in P : amount[p] \in Int /\ amount[p] = payments[p]["amount"]
  BY <1>3 DEF PaymentRow
<1>7. SumFunctionOnSet(owed, C) = SumFunctionOnSet(due, I)
  BY OwedAddsUp
<1>8. SumFunctionOnSet(paid, I) = SumFunctionOnSet(amount, P)
  BY PaidAddsUp
<1>9. SumFunction([c \in DOMAIN customers |-> OpeningBalance(c)]) = SumFunctionOnSet(opening, C)
  <2>1. [c \in DOMAIN customers |-> OpeningBalance(c)] = opening /\ DOMAIN opening = C
    OBVIOUS
  <2> HIDE DEF opening
  <2> QED
    BY <2>1, SumOverDomain
<1>10. others \subseteq C
  OBVIOUS
<1> HIDE DEF C, I, P, A, others, balance, opening, owed, due, paid, total, amount
<1>11. /\ SumFunctionOnSet(balance, C)
             = SumFunctionOnSet(opening, C) + SumFunctionOnSet(owed, C)
  BY <1>1, <1>4, SumPointwise
<1>12. SumFunctionOnSet(total, I) = SumFunctionOnSet(paid, I) + SumFunctionOnSet(due, I)
  BY <1>2, <1>5, SumPointwise
<1>13. TotalSales = SumFunctionOnSet(total, I)
  BY <1>2, <1>5, SumOfIs DEF TotalSales, I
<1>14. TotalCollections = SumFunctionOnSet(amount, P)
  <2>1. P = {p \in DOMAIN payments : payments[p].status = "CONFIRMED"}
    BY DEF P, ConfirmedIn
  <2> QED
    BY <1>3, <1>6, <2>1, SumOfIs DEF TotalCollections
<1>15. /\ SumOf(customers, "currentBalance", C) = SumFunctionOnSet(balance, C)
       /\ SumOf(customers, "currentBalance", A) = SumFunctionOnSet(balance, A)
       /\ SumOf(customers, "currentBalance", others) = SumFunctionOnSet(balance, others)
  <2>1. IsFiniteSet(A) /\ IsFiniteSet(others)
    BY <1>1, <1>10, FS_Subset
  <2> QED
    BY <1>1, <1>4, <1>10, <2>1, SumOfIs
<1>16. SumFunctionOnSet(balance, C) = SumFunctionOnSet(balance, A) + SumFunctionOnSet(balance, others)
  BY <1>1, <1>4, SumSplit DEF others
<1>17. /\ SumFunctionOnSet(opening, C) \in Int
       /\ SumFunctionOnSet(due, I) \in Int /\ SumFunctionOnSet(paid, I) \in Int
  BY <1>1, <1>2, <1>4, <1>5, SumRemove
<1>18. SumFunctionOnSet(opening, C) + TotalSales - TotalCollections
           = SumOf(customers, "currentBalance", C)
  BY <1>7, <1>8, <1>11, <1>12, <1>13, <1>14, <1>15, <1>17
<1>19. TotalOutstandingDue = SumOf(customers, "currentBalance", A)
  BY DEF TotalOutstandingDue, A
<1> QED
  BY <1>9, <1>15, <1>16, <1>18, <1>19 DEF C, A, others

\* A report under way is a report: its counters are counters, and what it read
\* has a place for it.
ReportTypeOK ==
    \/ report = Waiting
    \/ /\ report.phase = "dueAging"
       /\ report \in [phase : {"dueAging"}, commits : Nat, onlyPayments : BOOLEAN,
                      balances : {report.balances}]
    \/ /\ report.phase = "summary"
       /\ report \in [phase : {"summary"}, commits : Nat, onlyPayments : BOOLEAN,
                      read : {report.read}]

\* Until something is committed, what the summary read is still so.
ReadStillTrue ==
    report.phase = "summary" /\ report.commits = 0 =>
        \A name \in DOMAIN report.read : report.read[name] = Aggregate(name)

\* One more aggregate is read.
LEMMA ReadAggregateKeeps ==
    ASSUME ReportTypeOK, ReadStillTrue, NEW name \in Aggregates, ReadAggregate(name)
    PROVE  ReportTypeOK' /\ ReadStillTrue'
<1> DEFINE read == report.read
           more == [other \in DOMAIN read \cup {name} |->
                       IF other = name THEN Aggregate(name) ELSE read[other]]
<1>1. /\ report.phase = "summary"
      /\ report' = [report EXCEPT !.read = more]
      /\ UNCHANGED vars
  BY DEF ReadAggregate
<1>2. report \in [phase : {"summary"}, commits : Nat, onlyPayments : BOOLEAN, read : {read}]
  BY <1>1 DEF ReportTypeOK, Waiting
<1>3. \A other \in DOMAIN more : \/ other = name /\ more[other] = Aggregate(name)
                                 \/ other \in DOMAIN read /\ more[other] = read[other]
  OBVIOUS
<1> HIDE DEF more, read
<1>4. /\ report' \in [phase : {"summary"}, commits : Nat, onlyPayments : BOOLEAN, read : {more}]
      /\ report'.read = more /\ report'.commits = report.commits /\ report'.phase = "summary"
  BY <1>1, <1>2
<1>5. ReportTypeOK'
  BY <1>4 DEF ReportTypeOK
<1>6. \A other : Aggregate(other)' = Aggregate(other)
  BY <1>1 DEF vars, Aggregate, TotalSales, TotalCollections, TotalOutstandingDue, ActiveCustomers
<1>7. ReadStillTrue'
  BY <1>1, <1>3, <1>4, <1>6 DEF ReadStillTrue, read
<1> QED
  BY <1>5, <1>7

\* The two counters of a report change, and nothing else of it.
LEMMA AgingCounted ==
    ASSUME NEW N, NEW B, NEW V, NEW k \in N, NEW still \in B,
           NEW r \in [phase : {"dueAging"}, commits : N, onlyPayments : B, balances : V],
           NEW t, t = [r EXCEPT !.commits = k, !.onlyPayments = still]
    PROVE  /\ t \in [phase : {"dueAging"}, commits : N, onlyPayments : B, balances : V]
           /\ t.phase = "dueAging" /\ t.commits = k /\ t.onlyPayments = still
           /\ t.balances = r.balances
OBVIOUS

\* So for a summary.
LEMMA SummaryCounted ==
    ASSUME NEW N, NEW B, NEW V, NEW k \in N, NEW still \in B,
           NEW r \in [phase : {"summary"}, commits : N, onlyPayments : B, read : V],
           NEW t, t = [r EXCEPT !.commits = k, !.onlyPayments = still]
    PROVE  /\ t \in [phase : {"summary"}, commits : N, onlyPayments : B, read : V]
           /\ t.phase = "summary" /\ t.commits = k /\ t.onlyPayments = still
           /\ t.read = r.read
OBVIOUS

\* All that a step posts is payments.
OnlyPaymentsPosted ==
    \A c \in DOMAIN ledger :
        \A n \in Len(ledger[c]) + 1 .. Len(ledger'[c]) : ledger'[c][n].type = "PAYMENT"

\* A commit while a report is made is counted, and is noticed if it is no payment.
LEMMA MeanwhileCounted ==
    ASSUME ReportTypeOK, Meanwhile
    PROVE  /\ ReportTypeOK' /\ report'.phase = report.phase /\ report.phase \in {"dueAging", "summary"}
           /\ report'.commits # 0
           /\ report.phase = "dueAging" => report'.balances = report.balances
           /\ report'.onlyPayments => report.onlyPayments /\ OnlyPaymentsPosted
<1>1. PICK k, still : /\ k = report.commits + 1
                      /\ still = (report.onlyPayments /\ OnlyPaymentsPosted)
                      /\ report' = [report EXCEPT !.commits = k, !.onlyPayments = still]
  BY DEF Meanwhile, OnlyPaymentsPosted
<1>2. report # Waiting
  BY DEF Meanwhile
<1>3. still \in BOOLEAN
  BY <1>1
<1>4. CASE report.phase = "dueAging"
  <2> DEFINE V == {report.balances}
  <2>1. report \in [phase : {"dueAging"}, commits : Nat, onlyPayments : BOOLEAN, balances : V]
    BY <1>2, <1>4 DEF ReportTypeOK
  <2>2. k \in Nat /\ k # 0
    <3>1. report.commits \in Nat
      BY <2>1
    <3> QED
      BY <1>1, <3>1
  <2> HIDE DEF V
  <2>3. /\ report' \in [phase : {"dueAging"}, commits : Nat, onlyPayments : BOOLEAN, balances : V]
        /\ report'.phase = "dueAging" /\ report'.commits = k /\ report'.onlyPayments = still
        /\ report'.balances = report.balances
    BY <1>1, <1>3, <2>1, <2>2, AgingCounted
  <2> QED
    BY <1>1, <1>4, <2>2, <2>3 DEF V, ReportTypeOK
<1>5. CASE report.phase = "summary"
  <2> DEFINE V == {report.read}
  <2>1. report \in [phase : {"summary"}, commits : Nat, onlyPayments : BOOLEAN, read : V]
    BY <1>2, <1>5 DEF ReportTypeOK
  <2>2. k \in Nat /\ k # 0
    <3>1. report.commits \in Nat
      BY <2>1
    <3> QED
      BY <1>1, <3>1
  <2> HIDE DEF V
  <2>3. /\ report' \in [phase : {"summary"}, commits : Nat, onlyPayments : BOOLEAN, read : V]
        /\ report'.phase = "summary" /\ report'.commits = k /\ report'.onlyPayments = still
        /\ report'.read = report.read
    BY <1>1, <1>3, <2>1, <2>2, SummaryCounted
  <2> QED
    BY <1>1, <1>5, <2>2, <2>3 DEF V, ReportTypeOK
<1> QED
  BY <1>2, <1>4, <1>5 DEF ReportTypeOK

\* The types of the report, and that it is still true, are kept by every step.
LEMMA ReportKept == ReportTypeOK /\ ReadStillTrue /\ [ReadNext]_readVars => ReportTypeOK' /\ ReadStillTrue'
<1> SUFFICES ASSUME ReportTypeOK, ReadStillTrue, [ReadNext]_readVars
             PROVE  ReportTypeOK' /\ ReadStillTrue'
  OBVIOUS
<1>1. CASE BeginDueAging
  <2> DEFINE balances == [c \in InDebt |-> customers[c].currentBalance]
  <2>1. report' = [phase |-> "dueAging", commits |-> 0, onlyPayments |-> TRUE, balances |-> balances]
    BY <1>1 DEF BeginDueAging
  <2> HIDE DEF balances
  <2> QED
    BY <2>1 DEF ReportTypeOK, ReadStillTrue
<1>2. CASE BeginSummary
  <2> DEFINE read == [name \in {} |-> 0]
  <2>1. report' = [phase |-> "summary", commits |-> 0, onlyPayments |-> TRUE, read |-> read]
    BY <1>2 DEF BeginSummary
  <2>2. DOMAIN read = {}
    OBVIOUS
  <2> HIDE DEF read
  <2> QED
    BY <2>1, <2>2 DEF ReportTypeOK, ReadStillTrue
<1>3. CASE AnswerReport
  BY <1>3 DEF AnswerReport, ReportTypeOK, ReadStillTrue, Waiting
<1>4. CASE \E name \in Aggregates : ReadAggregate(name)
  BY <1>4, ReadAggregateKeeps
<1>5. CASE Meanwhile
  BY <1>5, MeanwhileCounted DEF ReadStillTrue
<1>6. CASE report = Waiting /\ UNCHANGED report
  BY <1>6 DEF ReportTypeOK, ReadStillTrue, Waiting
<1>7. CASE UNCHANGED <<vars, report>>
  <2>1. UNCHANGED vars /\ UNCHANGED report
    BY <1>7
  <2>2. \A name : Aggregate(name)' = Aggregate(name)
    BY <2>1 DEF vars, Aggregate, TotalSales, TotalCollections, TotalOutstandingDue, ActiveCustomers
  <2> QED
    BY <2>1, <2>2 DEF ReportTypeOK, ReadStillTrue
<1> QED
  BY <1>1, <1>2, <1>3, <1>4, <1>5, <1>6, <1>7 DEF ReadNext, ReportsNext, readVars

\* What a report read before anything was committed is what the tables say.
LEMMA ReportInvariance == ReadSpec => []ReportTypeOK /\ []ReadStillTrue
<1>1. ReadInit => ReportTypeOK /\ ReadStillTrue
  BY DEF ReadInit, ReportsInit, ReportTypeOK, ReadStillTrue, Waiting
<1> QED
  BY <1>1, ReportKept, PTL DEF ReadSpec

(***************************************************************************)
(* The summary balances: the books do, and it read the books.              *)
(***************************************************************************)
THEOREM SummaryStaysBalanced == ReadSpec => []SummaryBalances
<1>1. TypeInv /\ DocumentsRefer /\ LedgerRunsToBalance /\ BalanceExplained /\ InvoicesSettled
      /\ PaidByAllocations /\ ReadStillTrue => SummaryBalances
  <2> SUFFICES ASSUME TypeInv, DocumentsRefer, LedgerRunsToBalance, BalanceExplained,
                      InvoicesSettled, PaidByAllocations, ReadStillTrue,
                      report.phase = "summary", Complete, report.commits = 0
               PROVE  SumFunction([c \in DOMAIN customers |-> OpeningBalance(c)])
                      + report.read["totalSales"] - report.read["totalCollections"]
                          = report.read["totalOutstandingDue"]
                            + SumOf(customers, "currentBalance", DOMAIN customers \ ActiveCustomers)
    BY DEF SummaryBalances
  <2>1. DOMAIN report.read = Aggregates
    BY DEF Complete
  <2>2. /\ report.read["totalSales"] = Aggregate("totalSales")
        /\ report.read["totalCollections"] = Aggregate("totalCollections")
        /\ report.read["totalOutstandingDue"] = Aggregate("totalOutstandingDue")
    BY <2>1 DEF ReadStillTrue, Aggregates
  <2>3. /\ Aggregate("totalSales") = TotalSales
        /\ Aggregate("totalCollections") = TotalCollections
        /\ Aggregate("totalOutstandingDue") = TotalOutstandingDue
    BY DEF Aggregate
  <2> QED
    BY <2>2, <2>3, BooksBalance
<1> QED
  BY <1>1, ReportInvariance, BehaviorOfTables, TypeInvariance, RefersInvariance, LedgerStaysRunning,
     BalanceStaysExplained, InvoicesStaySettled, PaidStaysAllocated, PTL

(***************************************************************************)
(* The aging report.                                                       *)
(***************************************************************************)
\* An invoice's age puts it in one bucket.
LEMMA BucketOfAge ==
    ASSUME NEW age \in Int
    PROVE  /\ Bucket(age) \in Buckets
           /\ Bucket(age) = "90Plus" <=> age > 90
           /\ Bucket(age) = "61_90" <=> age > 60 /\ ~ age > 90
           /\ Bucket(age) = "31_60" <=> age > 30 /\ ~ age > 60
<1>1. CASE age <= 30
  BY <1>1 DEF Bucket, Buckets
<1>2. CASE age > 30 /\ age <= 60
  BY <1>2 DEF Bucket, Buckets
<1>3. CASE age > 60 /\ age <= 90
  BY <1>3 DEF Bucket, Buckets
<1>4. CASE age > 90
  BY <1>4 DEF Bucket, Buckets
<1> QED
  BY <1>1, <1>2, <1>3, <1>4

\* There are four buckets.
LEMMA BucketsFinite == IsFiniteSet(Buckets)
<1>1. IsFiniteSet({"0_30"})
  BY FS_Singleton
<1>2. IsFiniteSet({"0_30"} \cup {"31_60"})
  BY <1>1, FS_AddElement
<1>3. IsFiniteSet({"0_30"} \cup {"31_60"} \cup {"61_90"})
  BY <1>2, FS_AddElement
<1>4. IsFiniteSet({"0_30"} \cup {"31_60"} \cup {"61_90"} \cup {"90Plus"})
  BY <1>3, FS_AddElement
<1>5. Buckets = {"0_30"} \cup {"31_60"} \cup {"61_90"} \cup {"90Plus"}
  BY DEF Buckets
<1> QED
  BY <1>4, <1>5

\* What is added to one bucket is added to the total.
LEMMA AgingTotal ==
    ASSUME NEW sums \in [Buckets -> Int], NEW extra \in Int
    PROVE  /\ SumFunction(sums) \in Int
           /\ SumFunction([sums EXCEPT !["0_30"] = @ + extra]) = SumFunction(sums) + extra
<1> DEFINE aging == [sums EXCEPT !["0_30"] = @ + extra]
           rest  == Buckets \ {"0_30"}
<1>1. /\ DOMAIN aging = Buckets /\ DOMAIN sums = Buckets
      /\ aging["0_30"] = sums["0_30"] + extra
      /\ \A bucket \in Buckets : sums[bucket] \in Int /\ aging[bucket] \in Int
      /\ \A bucket \in rest : sums[bucket] \in Int /\ aging[bucket] = sums[bucket]
      /\ "0_30" \in Buckets /\ rest \subseteq Buckets
  BY DEF Buckets
<1>2. IsFiniteSet(Buckets)
  BY BucketsFinite
<1>3. IsFiniteSet(rest)
  BY <1>1, <1>2, FS_Subset
<1> HIDE DEF aging, rest
<1>4. SumFunctionOnSet(aging, rest) = SumFunctionOnSet(sums, rest)
  BY <1>1, <1>3, SumAgree
<1>5. SumFunctionOnSet(sums, rest) \in Int
  BY <1>1, <1>3, SumRemove
<1>6. SumFunctionOnSet(sums, Buckets) = sums["0_30"] + SumFunctionOnSet(sums, rest)
  BY <1>1, <1>2, SumRemove DEF rest
<1>7. SumFunctionOnSet(aging, Buckets) = aging["0_30"] + SumFunctionOnSet(aging, rest)
  BY <1>1, <1>2, SumRemove DEF rest
<1>8. /\ SumFunction(sums) = SumFunctionOnSet(sums, Buckets)
      /\ SumFunction(aging) = SumFunctionOnSet(aging, Buckets)
  BY <1>1, SumOverDomain
<1>9. SumFunction(sums) \in Int /\ SumFunction(aging) = SumFunction(sums) + extra
  BY <1>1, <1>4, <1>5, <1>6, <1>7, <1>8
<1> QED
  BY <1>9 DEF aging

\* What is due on some invoices; the invoices of a customer in a bucket, and
\* those older than a number of days.
Dues == [i \in DOMAIN invoices |-> invoices[i].currentDue]

DueOn(S) == SumFunctionOnSet(Dues, S)

Aged(c, now, bucket) ==
    {i \in RowsOf(invoices, c) : Bucket(now - invoices[i].invoiceDate) = bucket}

OlderThan(c, now, days) == {i \in RowsOf(invoices, c) : now - invoices[i].invoiceDate > days}

\* Invoices that are paid do not count, so a bucket holds the dues of all invoices
\* of its age, and so does what is older than an age.
LEMMA BucketSums ==
    ASSUME TypeInv, InvoicesSettled, NEW c \in DOMAIN customers, NEW now \in Int
    PROVE  /\ IsFiniteSet(RowsOf(invoices, c)) /\ RowsOf(invoices, c) \subseteq DOMAIN invoices
           /\ \A i \in DOMAIN invoices : Dues[i] \in Nat /\ Dues[i] \in Int
                                         /\ invoices[i].invoiceDate \in Nat
           /\ \A bucket : InvoiceSum(c, now, bucket) = DueOn(Aged(c, now, bucket))
           /\ \A days : SumOf(invoices, "currentDue", OlderThan(c, now, days))
                            = DueOn(OlderThan(c, now, days))
           /\ Owed(c) = DueOn(RowsOf(invoices, c))
<1> DEFINE R == RowsOf(invoices, c)
<1>1. R \subseteq DOMAIN invoices /\ IsFiniteSet(R) /\ \A S \in SUBSET R : IsFiniteSet(S)
  <2>1. R \subseteq DOMAIN invoices
    BY DEF RowsOf
  <2> QED
    BY <2>1, InvoiceSetsFinite
<1>2. \A i \in DOMAIN invoices : /\ Dues[i] \in Nat /\ Dues[i] \in Int
                                 /\ invoices[i]["currentDue"] = Dues[i]
                                 /\ invoices[i].invoiceDate \in Nat
  <2>1. \A i \in DOMAIN invoices : invoices[i].currentDue \in Int /\ invoices[i].invoiceDate \in Nat
    BY InvoiceSetsFinite DEF InvoiceRow
  <2>2. \A i \in DOMAIN invoices : invoices[i].currentDue >= 0
    BY DEF InvoicesSettled, InvoiceSettled
  <2> QED
    BY <2>1, <2>2 DEF Dues
<1>3. ASSUME NEW bucket
      PROVE  InvoiceSum(c, now, bucket) = DueOn(Aged(c, now, bucket))
  <2> DEFINE all    == Aged(c, now, bucket)
             chosen == {i \in DOMAIN invoices :
                           /\ invoices[i].customerId = c
                           /\ invoices[i].currentDue > 0
                           /\ Bucket(now - invoices[i].invoiceDate) = bucket}
  <2>1. InvoiceSum(c, now, bucket) = SumOf(invoices, "currentDue", chosen)
    BY DEF InvoiceSum
  <2>2. chosen = {i \in all : Dues[i] > 0}
    BY DEF RowsOf, Aged, Dues
  <2>3. all \subseteq R
    BY DEF Aged
  <2> HIDE DEF all, chosen, R
  <2>4. /\ chosen \in SUBSET all /\ IsFiniteSet(all) /\ IsFiniteSet(chosen)
        /\ \A i \in all : Dues[i] \in Int /\ invoices[i]["currentDue"] = Dues[i]
        /\ \A i \in all \ chosen : Dues[i] = 0
    BY <1>1, <1>2, <2>2, <2>3
  <2>5. SumOf(invoices, "currentDue", chosen) = SumFunctionOnSet(Dues, chosen)
    BY <2>4, SumOfIs
  <2>6. SumFunctionOnSet(Dues, all) = SumFunctionOnSet(Dues, chosen)
    BY <2>4, SumWithin
  <2> QED
    BY <2>1, <2>5, <2>6 DEF all, DueOn
<1>4. ASSUME NEW days
      PROVE  SumOf(invoices, "currentDue", OlderThan(c, now, days)) = DueOn(OlderThan(c, now, days))
  <2> DEFINE older == OlderThan(c, now, days)
  <2>1. older \subseteq R
    BY DEF OlderThan
  <2> HIDE DEF older, R
  <2>2. IsFiniteSet(older) /\ \A i \in older : Dues[i] \in Int /\ invoices[i]["currentDue"] = Dues[i]
    BY <1>1, <1>2, <2>1
  <2>3. SumOf(invoices, "currentDue", older) = SumFunctionOnSet(Dues, older)
    BY <2>2, SumOfIs
  <2> QED
    BY <2>3 DEF older, DueOn
<1>5. Owed(c) = DueOn(R)
  <2>1. \A i \in R : Dues[i] = invoices[i].currentDue
    BY <1>1 DEF Dues
  <2>2. Owed(c) = SumFunctionOnSet(Dues, R)
    BY <2>1, OwedIsSum
  <2> QED
    BY <2>2 DEF DueOn
<1> QED
  BY <1>1, <1>2, <1>3, <1>4, <1>5

\* The aging of a customer, whatever balance it is made for: the buckets add up to
\* the balance or to the dues, whichever is more, and hold what is of their age.
LEMMA AgingOfCustomer ==
    ASSUME TypeInv, InvoicesSettled, NEW c \in DOMAIN customers, NEW now \in Int,
           NEW balance \in Int, NEW aging, aging = CustomerAging(c, balance, now)
    PROVE  /\ Owed(c) \in Int
           /\ SumFunction(aging) = IF balance > Owed(c) THEN balance ELSE Owed(c)
           /\ aging["90Plus"] = SumOf(invoices, "currentDue", OlderThan(c, now, 90))
           /\ aging["61_90"] + aging["90Plus"]
                  = SumOf(invoices, "currentDue", OlderThan(c, now, 60))
           /\ aging["31_60"] + aging["61_90"] + aging["90Plus"]
                  = SumOf(invoices, "currentDue", OlderThan(c, now, 30))
<1> DEFINE R      == RowsOf(invoices, c)
           kept   == [i \in R |-> Bucket(now - invoices[i].invoiceDate)]
           sums   == [bucket \in Buckets |-> InvoiceSum(c, now, bucket)]
           over30 == OlderThan(c, now, 30)
           over60 == OlderThan(c, now, 60)
           over90 == OlderThan(c, now, 90)
<1>1. aging = [sums EXCEPT !["0_30"] = @ + Unallocated(balance, SumFunction(sums))]
  BY DEF CustomerAging
<1>2. DOMAIN sums = Buckets /\ \A bucket \in Buckets : sums[bucket] = DueOn(Aged(c, now, bucket))
  BY BucketSums
<1>3. /\ IsFiniteSet(R) /\ \A i \in R : Dues[i] \in Int
      /\ \A S \in SUBSET R : IsFiniteSet(S) /\ \A i \in S : Dues[i] \in Int
  BY BucketSums, FS_Subset
<1>4. \A i \in R : /\ kept[i] = Bucket(now - invoices[i].invoiceDate)
                   /\ kept[i] \in Buckets
                   /\ kept[i] = "90Plus" <=> now - invoices[i].invoiceDate > 90
                   /\ kept[i] = "61_90" <=> /\ now - invoices[i].invoiceDate > 60
                                            /\ ~ now - invoices[i].invoiceDate > 90
                   /\ kept[i] = "31_60" <=> /\ now - invoices[i].invoiceDate > 30
                                            /\ ~ now - invoices[i].invoiceDate > 60
  <2>1. \A i \in R : now - invoices[i].invoiceDate \in Int
    BY BucketSums
  <2>2. \A i \in R : kept[i] = Bucket(now - invoices[i].invoiceDate)
    OBVIOUS
  <2> HIDE DEF kept, R
  <2> QED
    BY <2>1, <2>2, BucketOfAge
<1>5. /\ \A bucket : Aged(c, now, bucket) = {i \in R : kept[i] = bucket}
      /\ over30 \subseteq R /\ over60 \subseteq over30 /\ over90 \subseteq over60
  <2>1. over60 \subseteq over30 /\ over90 \subseteq over60
    BY BucketSums DEF OlderThan
  <2> QED
    BY <2>1 DEF Aged, OlderThan
<1>6. /\ Aged(c, now, "90Plus") = over90
      /\ Aged(c, now, "61_90") = over60 \ over90
      /\ Aged(c, now, "31_60") = over30 \ over60
  BY <1>4 DEF Aged, OlderThan
<1>7. Groups(kept, R, Buckets)
  BY <1>4 DEF Groups
<1>8. Owed(c) = SumFunctionOnSet(Dues, R)
  BY BucketSums DEF DueOn
<1>9. /\ SumOf(invoices, "currentDue", over30) = DueOn(over30)
      /\ SumOf(invoices, "currentDue", over60) = DueOn(over60)
      /\ SumOf(invoices, "currentDue", over90) = DueOn(over90)
  BY BucketSums
<1> HIDE DEF R, kept, sums, over30, over60, over90
<1>10. \A bucket \in Buckets : sums[bucket] = SumFunctionOnSet(Dues, InGroup(kept, R, bucket))
  BY <1>2, <1>5 DEF DueOn, InGroup
<1>11. SumFunctionOnSet(sums, Buckets) = SumFunctionOnSet(Dues, R)
  <2>1. IsFiniteSet(R) /\ \A i \in R : Dues[i] \in Int
    BY <1>3
  <2>2. ASSUME NEW S, S = Buckets
        PROVE  SumFunctionOnSet(sums, S) = SumFunctionOnSet(Dues, R)
    <3>1. IsFiniteSet(S)
      BY <2>2, BucketsFinite
    <3>2. Groups(kept, R, S)
      BY <1>7, <2>2
    <3>3. \A x \in S : sums[x] = SumFunctionOnSet(Dues, InGroup(kept, R, x))
      BY <1>10, <2>2
    <3> QED
      BY <2>1, <3>1, <3>2, <3>3, SumGrouped
  <2> QED
    BY <2>2
<1>12. SumFunction(sums) = Owed(c) /\ Owed(c) \in Int
  <2>1. SumFunction(sums) = SumFunctionOnSet(sums, Buckets)
    BY <1>2, SumOverDomain
  <2>2. SumFunctionOnSet(Dues, R) \in Int
    BY <1>3, SumRemove
  <2> QED
    BY <1>8, <1>11, <2>1, <2>2
<1>13. \A S \in SUBSET R : DueOn(S) \in Int
  BY <1>3, SumRemove DEF DueOn
<1>14. sums \in [Buckets -> Int]
  <2>1. \A bucket : {i \in R : kept[i] = bucket} \in SUBSET R
    OBVIOUS
  <2>2. \A bucket \in Buckets : sums[bucket] \in Int
    BY <1>2, <1>5, <1>13, <2>1
  <2>3. sums = [bucket \in Buckets |-> sums[bucket]]
    BY DEF sums
  <2> QED
    BY <2>2, <2>3
<1>15. /\ aging["90Plus"] = sums["90Plus"] /\ aging["61_90"] = sums["61_90"]
       /\ aging["31_60"] = sums["31_60"]
       /\ "90Plus" \in Buckets /\ "61_90" \in Buckets /\ "31_60" \in Buckets
  BY <1>1, <1>14 DEF Buckets
<1>16. /\ aging["90Plus"] = DueOn(over90)
       /\ aging["61_90"] = DueOn(over60 \ over90)
       /\ aging["31_60"] = DueOn(over30 \ over60)
  BY <1>2, <1>6, <1>15
<1>17. /\ DueOn(over60) = DueOn(over90) + DueOn(over60 \ over90)
       /\ DueOn(over30) = DueOn(over60) + DueOn(over30 \ over60)
       /\ DueOn(over90) \in Int /\ DueOn(over60 \ over90) \in Int /\ DueOn(over30 \ over60) \in Int
  <2>1. \A T \in SUBSET R : \A S \in SUBSET T : DueOn(T) = DueOn(S) + DueOn(T \ S)
    BY <1>3, SumSplit DEF DueOn
  <2> QED
    BY <1>5, <1>13, <2>1
<1>18. /\ aging["90Plus"] = DueOn(over90)
       /\ aging["61_90"] + aging["90Plus"] = DueOn(over60)
       /\ aging["31_60"] + aging["61_90"] + aging["90Plus"] = DueOn(over30)
  BY <1>16, <1>17
<1>19. SumFunction(aging) = SumFunction(sums) + Unallocated(balance, SumFunction(sums))
  <2>1. Unallocated(balance, SumFunction(sums)) \in Int
    BY <1>12 DEF Unallocated
  <2> QED
    BY <1>1, <1>14, <2>1, AgingTotal
<1>20. SumFunction(aging) = IF balance > Owed(c) THEN balance ELSE Owed(c)
  BY <1>12, <1>19 DEF Unallocated
<1> QED
  BY <1>9, <1>12, <1>18, <1>20 DEF over30, over60, over90

\* A customer in the aging report still exists, and owes no more on invoices than
\* the balance that was read, unless something other than a payment was posted.
DuesBelowBalances ==
    report.phase = "dueAging" =>
        \A c \in DOMAIN report.balances :
            /\ c \in DOMAIN customers /\ report.balances[c] \in Int
            /\ report.onlyPayments => Owed(c) <= report.balances[c]

\* An opening balance is not negative.
LEMMA OpeningNotNegative ==
    ASSUME TypeInv, NEW c \in DOMAIN customers
    PROVE  OpeningBalance(c) \in Nat
<1>1. ledger[c] \in Seq(LedgerRow)
  BY LenProperties, ElementOfSeq DEF TypeInv, TypeOK, RowsRefer
<1>2. CASE ledger[c] = <<>>
  BY <1>2 DEF OpeningBalance
<1>3. CASE ledger[c] # <<>>
  <2>1. ledger[c][1] \in LedgerRow
    BY <1>1, <1>3, EmptySeq, LenProperties, ElementOfSeq
  <2>2. ledger[c][1].debit \in Nat
    BY <2>1 DEF LedgerRow
  <2> QED
    BY <2>2 DEF OpeningBalance
<1> QED
  BY <1>2, <1>3

\* A customer stays.
LEMMA CustomersStay ==
    ASSUME TypeInv, [Next]_vars, NEW c \in DOMAIN customers
    PROVE  c \in DOMAIN customers'
<1>1. ASSUME NEW limit \in Amounts, NEW opening \in Amounts, CreateCustomer(limit, opening)
      PROVE  c \in DOMAIN customers'
  <2> DEFINE row == [status |-> "ACTIVE", creditLimit |-> limit, currentBalance |-> opening]
  <2>1. row \in CustomerRow
    BY ConstantsAssumption DEF CustomerRow, CustomerStatuses
  <2>2. customers' = Append(customers, row)
    BY <1>1 DEF CreateCustomer
  <2> HIDE DEF row
  <2>3. /\ DOMAIN customers' = 1 .. Len(customers) + 1 /\ DOMAIN customers = 1 .. Len(customers)
        /\ Len(customers) \in Nat
    BY <2>1, <2>2, AppendRow, LenProperties DEF TypeInv, TypeOK
  <2> QED
    BY <2>3
<1>2. CASE \E d \in DOMAIN customers :
              \/ \E limit \in Amounts, status \in CustomerStatuses : UpdateCustomer(d, limit, status)
              \/ \E date \in Dates, net, paid \in Amounts : CreatePurchase(d, date, net, paid)
              \/ \E amount \in Amounts : \E plan \in Plans(amount) : CreatePayment(d, amount, plan)
  BY <1>2 DEF UpdateCustomer, CreatePurchase, CreatePayment
<1>3. CASE \E p \in DOMAIN payments : ReversePayment(p)
  BY <1>3 DEF ReversePayment
<1>4. CASE UNCHANGED vars
  BY <1>4 DEF vars
<1> QED
  BY <1>1, <1>2, <1>3, <1>4 DEF Next

\* The first of the entries that are posted is seen to be a payment or not.
LEMMA FirstPosted ==
    ASSUME TypeInv, NEW c \in DOMAIN customers, NEW entries \in Seq(LedgerRow),
           Len(entries) \in {1, 2}, ledger' = [ledger EXCEPT ![c] = ledger[c] \o entries],
           OnlyPaymentsPosted
    PROVE  entries[1].type = "PAYMENT"
<1>1. c \in DOMAIN ledger /\ ledger'[c] = ledger[c] \o entries
  BY PostingType DEF TypeInv, RowsRefer
<1>2. ledger[c] \in Seq(LedgerRow)
  BY LenProperties, ElementOfSeq DEF TypeInv, TypeOK, RowsRefer
<1>3. /\ Len(ledger[c]) \in Nat /\ Len(ledger'[c]) = Len(ledger[c]) + Len(entries)
      /\ ledger'[c][Len(ledger[c]) + 1] = entries[1]
  BY <1>1, <1>2, ConcatOneOrTwo
<1>4. Len(ledger[c]) + 1 \in Len(ledger[c]) + 1 .. Len(ledger'[c])
  BY <1>3
<1> QED
  BY <1>1, <1>3, <1>4 DEF OnlyPaymentsPosted

\* What a customer owes on invoices does not grow if all that is posted is payments.
LEMMA PaymentsLower ==
    ASSUME TypeInv, DocumentsRefer, Next, OnlyPaymentsPosted, NEW d \in DOMAIN customers
    PROVE  Owed(d) \in Int /\ Owed(d)' \in Int /\ Owed(d)' <= Owed(d)
<1>0. Owed(d) \in Int
  <2> DEFINE f == [i \in RowsOf(invoices, d) |-> invoices[i].currentDue]
  <2>1. \A i \in RowsOf(invoices, d) : f[i] = invoices[i].currentDue
    OBVIOUS
  <2> HIDE DEF f
  <2> QED
    BY <2>1, OwedIsSum
<1>1. CASE UNCHANGED invoices
  <2>1. Owed(d)' = Owed(d)
    BY <1>1 DEF Owed, RowsOf
  <2> QED
    BY <1>0, <2>1
<1>2. CASE \E limit, opening \in Amounts : CreateCustomer(limit, opening)
  BY <1>1, <1>2 DEF CreateCustomer
<1>3. CASE \E c \in DOMAIN customers : \E limit \in Amounts, status \in CustomerStatuses :
              UpdateCustomer(c, limit, status)
  BY <1>1, <1>3 DEF UpdateCustomer
<1>4. ASSUME NEW c \in DOMAIN customers, NEW date \in Dates, NEW net \in Amounts,
             NEW paid \in Amounts, CreatePurchase(c, date, net, paid)
      PROVE  FALSE
  <2> DEFINE previous == customers[c].currentBalance
             invoice  == Len(invoices) + 1
             payment  == Len(payments) + 1
             entries  == PurchasePostings(previous, net, paid, invoice, payment)
  <2>1. ledger' = [ledger EXCEPT ![c] = ledger[c] \o entries]
    BY <1>4 DEF CreatePurchase
  <2>2. /\ net \in Nat /\ paid \in Nat /\ previous \in Int /\ invoice \in Nat /\ payment \in Nat
    <3>1. customers[c] \in CustomerRow /\ Len(invoices) \in Nat /\ Len(payments) \in Nat
      BY LenProperties, ElementOfSeq DEF TypeInv, TypeOK
    <3> QED
      BY <3>1, ConstantsAssumption DEF CustomerRow
  <2> HIDE DEF previous, invoice, payment
  <2>3. entries \in Seq(LedgerRow)
    BY <2>2, PurchaseEntries
  <2>4. Len(entries) \in {1, 2}
    BY <2>2, PurchasePostingsRows
  <2>5. entries[1] = Debit("PURCHASE", net, previous + net, invoice)
    BY <2>2, PurchaseEntries
  <2> HIDE DEF entries
  <2>6. entries[1].type = "PAYMENT"
    BY <2>1, <2>3, <2>4, FirstPosted
  <2> QED
    BY <2>5, <2>6 DEF Debit
<1>5. ASSUME NEW c \in DOMAIN customers, NEW amount \in Amounts, NEW plan \in Plans(amount),
             CreatePayment(c, amount, plan)
      PROVE  Owed(d)' \in Int /\ Owed(d)' <= Owed(d)
  <2>1. amount \in Nat /\ plan \in Allocations
    BY ConstantsAssumption DEF Plans, Allocations
  <2>2. invoices' = SettleAll(plan, 1) /\ ValidPlan(c, amount, plan)
    BY <1>5 DEF CreatePayment
  <2>3. /\ SumFunction(plan) = amount
        /\ \A i \in 1 .. MaxInvoices : plan[i] > 0 => i \in RowsOf(invoices, c)
    BY <2>1, <2>2 DEF ValidPlan, Allocations, RowsOf
  <2>4. /\ d # c => Owed(d)' = Owed(d)
        /\ d = c => Owed(d)' = Owed(d) - SumFunction(plan)
    BY <2>1, <2>2, <2>3, PlanMovesOwed
  <2> QED
    BY <1>0, <2>1, <2>3, <2>4
<1>6. ASSUME NEW p \in DOMAIN payments, ReversePayment(p)
      PROVE  FALSE
  <2> DEFINE c       == payments[p].customerId
             amount  == payments[p].amount
             balance == customers[c].currentBalance + amount
             entry   == ReversalPosting(amount, balance, p)
  <2>1. payments[p] \in PaymentRow /\ p \in Nat /\ c \in DOMAIN customers
    BY LenProperties, ElementOfSeq DEF TypeInv, TypeOK, RowsRefer
  <2>2. amount \in Nat /\ balance \in Int
    <3>1. customers[c] \in CustomerRow
      BY <2>1, LenProperties, ElementOfSeq DEF TypeInv, TypeOK
    <3> QED
      BY <2>1, <3>1 DEF PaymentRow, CustomerRow
  <2>3. ledger' = [ledger EXCEPT ![c] = Append(ledger[c], entry)]
    BY <1>6 DEF ReversePayment
  <2> HIDE DEF c, amount, balance
  <2>4. entry \in LedgerRow /\ entry.type = "REVERSAL"
    BY <2>1, <2>2 DEF ReversalPosting, Debit, LedgerRow, EntryTypes
  <2> HIDE DEF entry
  <2>5. PICK entries \in Seq(LedgerRow) :
              /\ Len(entries) = 1 /\ entries[1] = entry
              /\ ledger' = [ledger EXCEPT ![c] = ledger[c] \o entries]
    BY <2>1, <2>3, <2>4, AppendPosts
  <2>6. entries[1].type = "PAYMENT"
    BY <2>1, <2>5, FirstPosted
  <2> QED
    BY <2>4, <2>5, <2>6
<1> QED
  BY <1>0, <1>2, <1>3, <1>4, <1>5, <1>6 DEF Next

\* Every step keeps the dues below the balances that were read.
LEMMA DuesKept ==
    TypeInv /\ DocumentsRefer /\ BalanceExplained /\ ReportTypeOK /\ DuesBelowBalances
        /\ [ReadNext]_readVars => DuesBelowBalances'
<1> SUFFICES ASSUME TypeInv, DocumentsRefer, BalanceExplained, ReportTypeOK, DuesBelowBalances,
                    [ReadNext]_readVars
             PROVE  DuesBelowBalances'
  OBVIOUS
<1>1. CASE BeginDueAging
  <2> DEFINE balances == [c \in InDebt |-> customers[c].currentBalance]
  <2>1. report' = [phase |-> "dueAging", commits |-> 0, onlyPayments |-> TRUE, balances |-> balances]
        /\ UNCHANGED vars
    BY <1>1 DEF BeginDueAging
  <2>2. DOMAIN balances = InDebt /\ \A c \in InDebt : balances[c] = customers[c].currentBalance
    OBVIOUS
  <2> HIDE DEF balances
  <2>3. report'.balances = balances
    BY <2>1
  <2>4. ASSUME NEW c \in InDebt
        PROVE  /\ c \in DOMAIN customers /\ balances[c] \in Int
               /\ Owed(c) <= balances[c]
    <3>1. c \in DOMAIN customers
      BY DEF InDebt, ActiveCustomers
    <3>2. customers[c].currentBalance \in Int
      <4>1. customers[c] \in CustomerRow
        BY <3>1, LenProperties, ElementOfSeq DEF TypeInv, TypeOK
      <4> QED
        BY <4>1 DEF CustomerRow
    <3>3. Owed(c) \in Int
      <4> DEFINE f == [i \in RowsOf(invoices, c) |-> invoices[i].currentDue]
      <4>1. \A i \in RowsOf(invoices, c) : f[i] = invoices[i].currentDue
        OBVIOUS
      <4> HIDE DEF f
      <4> QED
        BY <4>1, OwedIsSum
    <3>4. OpeningBalance(c) \in Nat
      BY <3>1, OpeningNotNegative
    <3>5. customers[c].currentBalance = OpeningBalance(c) + Owed(c)
      BY <3>1 DEF BalanceExplained, Owed
    <3> QED
      BY <2>2, <3>1, <3>2, <3>3, <3>4, <3>5
  <2>5. \A c : Owed(c)' = Owed(c)
    BY <2>1 DEF vars, Owed, RowsOf
  <2>6. customers' = customers
    BY <2>1 DEF vars
  <2> QED
    BY <2>2, <2>3, <2>4, <2>5, <2>6 DEF DuesBelowBalances
<1>2. CASE Meanwhile
  <2> SUFFICES ASSUME report'.phase = "dueAging", NEW c \in DOMAIN report'.balances
               PROVE  /\ c \in DOMAIN customers' /\ report'.balances[c] \in Int
                      /\ report'.onlyPayments => Owed(c)' <= report'.balances[c]
    BY DEF DuesBelowBalances
  <2>1. /\ report.phase = "dueAging" /\ report'.balances = report.balances
        /\ report'.onlyPayments => report.onlyPayments /\ OnlyPaymentsPosted
    BY <1>2, MeanwhileCounted
  <2>2. /\ c \in DOMAIN customers /\ report.balances[c] \in Int
        /\ report.onlyPayments => Owed(c) <= report.balances[c]
    BY <2>1 DEF DuesBelowBalances
  <2>3. Next
    BY <1>2 DEF Meanwhile
  <2>4. c \in DOMAIN customers'
    BY <2>2, <2>3, CustomersStay
  <2>5. ASSUME report'.onlyPayments PROVE Owed(c)' <= report.balances[c]
    <3>1. Owed(c) \in Int /\ Owed(c)' \in Int /\ Owed(c)' <= Owed(c)
      BY <2>1, <2>2, <2>3, <2>5, PaymentsLower
    <3> QED
      BY <2>1, <2>2, <2>5, <3>1
  <2> QED
    BY <2>1, <2>2, <2>4, <2>5
<1>3. CASE report'.phase # "dueAging"
  BY <1>3 DEF DuesBelowBalances
<1>4. CASE BeginSummary \/ AnswerReport
  BY <1>3, <1>4 DEF BeginSummary, AnswerReport, Waiting
<1>5. CASE \E name \in Aggregates : ReadAggregate(name)
  <2>1. PICK f : report' = [report EXCEPT !.read = f] /\ report.phase = "summary" /\ UNCHANGED vars
    BY <1>5 DEF ReadAggregate
  <2>2. report'.phase = "summary"
    <3>1. report \in [phase : {"summary"}, commits : Nat, onlyPayments : BOOLEAN, read : {report.read}]
      BY <2>1 DEF ReportTypeOK, Waiting
    <3> QED
      BY <2>1, <3>1
  <2> QED
    BY <1>3, <2>2
<1>6. CASE report = Waiting /\ UNCHANGED report
  BY <1>3, <1>6 DEF Waiting
<1>7. CASE UNCHANGED <<vars, report>>
  <2>1. UNCHANGED vars /\ UNCHANGED report
    BY <1>7
  <2>2. (\A c : Owed(c)' = Owed(c)) /\ customers' = customers
    BY <2>1 DEF vars, Owed, RowsOf
  <2> QED
    BY <2>1, <2>2 DEF DuesBelowBalances
<1> QED
  BY <1>1, <1>2, <1>4, <1>5, <1>6, <1>7 DEF ReadNext, ReportsNext, readVars

\* So the aging report adds up.
LEMMA DuesAddUp ==
    TypeInv /\ InvoicesSettled /\ DuesBelowBalances => AgingAddsUp
<1> SUFFICES ASSUME TypeInv, InvoicesSettled, DuesBelowBalances, report.phase = "dueAging",
                    NEW now \in ReportDays, NEW c \in DOMAIN report.balances,
                    NEW aging, aging = CustomerAging(c, report.balances[c], now)
             PROVE  /\ SumFunction(aging) >= report.balances[c]
                    /\ report.onlyPayments => SumFunction(aging) = report.balances[c]
                    /\ aging["90Plus"] = SumOf(invoices, "currentDue", OlderThan(c, now, 90))
                    /\ aging["61_90"] + aging["90Plus"]
                           = SumOf(invoices, "currentDue", OlderThan(c, now, 60))
                    /\ aging["31_60"] + aging["61_90"] + aging["90Plus"]
                           = SumOf(invoices, "currentDue", OlderThan(c, now, 30))
  BY DEF AgingAddsUp, OlderThan
<1>1. now \in Int
  BY ConstantsAssumption DEF ReportDays
<1>2. /\ c \in DOMAIN customers /\ report.balances[c] \in Int
      /\ report.onlyPayments => Owed(c) <= report.balances[c]
  BY DEF DuesBelowBalances
<1>3. /\ Owed(c) \in Int
      /\ SumFunction(aging) = IF report.balances[c] > Owed(c) THEN report.balances[c] ELSE Owed(c)
      /\ aging["90Plus"] = SumOf(invoices, "currentDue", OlderThan(c, now, 90))
      /\ aging["61_90"] + aging["90Plus"]
             = SumOf(invoices, "currentDue", OlderThan(c, now, 60))
      /\ aging["31_60"] + aging["61_90"] + aging["90Plus"]
             = SumOf(invoices, "currentDue", OlderThan(c, now, 30))
  BY <1>1, <1>2, AgingOfCustomer
<1>4. /\ SumFunction(aging) >= report.balances[c]
      /\ report.onlyPayments => SumFunction(aging) = report.balances[c]
  BY <1>2, <1>3
<1> QED
  BY <1>3, <1>4

(***************************************************************************)
(* The aging report adds up, for any dates and any day it is made on, and  *)
(* whatever is committed between its two queries.                          *)
(***************************************************************************)
THEOREM AgingStaysAddedUp == ReadSpec => []AgingAddsUp
<1>1. ReadInit => DuesBelowBalances
  BY DEF ReadInit, ReportsInit, DuesBelowBalances, Waiting
<1>2. ReadSpec => []TypeInv /\ []DocumentsRefer /\ []BalanceExplained /\ []InvoicesSettled
  BY BehaviorOfTables, TypeInvariance, RefersInvariance, BalanceStaysExplained, InvoicesStaySettled, PTL
<1>3. ReadSpec => []DuesBelowBalances
  BY <1>1, <1>2, DuesKept, ReportInvariance, PTL DEF ReadSpec
<1> QED
  BY <1>2, <1>3, DuesAddUp, PTL

(***************************************************************************)
(* The paged lists. A row that stays in the list moves towards the front   *)
(* by one place, at most, when another leaves; no two rows that are        *)
(* ordered have one place, so at most one row slips past the walk.         *)
(***************************************************************************)
\* The rows the order puts before a row, and how many they are.
Ahead(m) == {o \in Paged!Matching : Paged!Before(o, m)}

Place(m) == Cardinality(Ahead(m))

\* The rows that were in the list from the beginning and are still to be shown,
\* and those of them that the walk is already past.
Pending == walk.start \ (walk.seen \cup walk.moved \cup walk.tied)

Passed(k) == {m \in Pending : Place(m) < k}

WalkRecord == [phase : {"idle", "items", "count", "done"}, limit : Limits, page : Nat \ {0},
               seen : SUBSET Nat, start : SUBSET Nat, moved : SUBSET Nat, tied : SUBSET Nat,
               departures : Nat, writes : Nat]

ListTypeOK == rows \in Seq(Paged!Row) /\ walk \in WalkRecord

\* What is still to be shown is in the list and, once a page was read, in a
\* definite order.
PendingOrdered ==
    walk.phase \in {"items", "count"} =>
        /\ Pending \subseteq Paged!Matching
        /\ walk.phase = "count" \/ walk.page # 1 =>
               \A m, n \in Pending : m = n \/ Paged!Before(m, n) \/ Paged!Before(n, m)

\* The walk is past at most one row for each that left its place.
FewPassed ==
    /\ walk.phase = "items" =>
           Cardinality(Passed((walk.page - 1) * walk.limit)) <= walk.departures
    /\ walk.phase = "count" => Cardinality(Passed(walk.page * walk.limit)) <= walk.departures
    /\ walk.phase = "done"  => Cardinality(Pending) <= walk.departures

-----------------------------------------------------------------------------
\* The elements whose place is below k.
Below(place, S, k) == {m \in S : place[m] < k}

\* Of places that all differ, a step of one place each brings at most one below k.
LEMMA OneSlips ==
    ASSUME NEW P, IsFiniteSet(P), NEW Q \in SUBSET P, NEW f, NEW g, NEW k \in Int,
           \A m \in P : f[m] \in Nat, \A m \in Q : g[m] \in Nat /\ g[m] >= f[m] - 1,
           \A m, n \in P : f[m] = f[n] => m = n
    PROVE  Cardinality(Below(g, Q, k)) <= Cardinality(Below(f, P, k)) + 1
<1> DEFINE now    == Below(g, Q, k)
           before == Below(f, P, k)
<1>1. IsFiniteSet(before)
  BY FS_Subset DEF Below
<1>2. Cardinality(before) \in Nat
  BY <1>1, FS_CardinalityType
<1>3. CASE \E x \in P : f[x] = k
  <2>1. PICK x \in P : f[x] = k
    BY <1>3
  <2>2. now \subseteq before \cup {x}
    BY <2>1 DEF Below
  <2> HIDE DEF now, before
  <2>3. /\ IsFiniteSet(before \cup {x})
        /\ Cardinality(before \cup {x}) <= Cardinality(before) + 1
        /\ Cardinality(before \cup {x}) \in Nat
    BY <1>1, <1>2, FS_AddElement
  <2>4. IsFiniteSet(now) /\ Cardinality(now) <= Cardinality(before \cup {x})
    BY <2>2, <2>3, FS_Subset
  <2>5. Cardinality(now) \in Nat
    BY <2>4, FS_CardinalityType
  <2>6. Cardinality(now) <= Cardinality(before) + 1
    BY <1>2, <2>3, <2>4, <2>5
  <2> QED
    BY <2>6 DEF now, before
<1>4. CASE ~ \E x \in P : f[x] = k
  <2>1. now \subseteq before
    BY <1>4 DEF Below
  <2> HIDE DEF now, before
  <2>2. IsFiniteSet(now) /\ Cardinality(now) <= Cardinality(before)
    BY <1>1, <2>1, FS_Subset
  <2>3. Cardinality(now) \in Nat
    BY <2>2, FS_CardinalityType
  <2>4. Cardinality(now) <= Cardinality(before) + 1
    BY <1>2, <2>2, <2>3
  <2> QED
    BY <2>4 DEF now, before
<1> QED
  BY <1>3, <1>4

\* The rows of the list are finitely many of the rows there are.
LEMMA ListedRows ==
    ASSUME ListTypeOK
    PROVE  /\ DOMAIN rows = 1 .. Len(rows) /\ Len(rows) \in Nat
           /\ \A n \in DOMAIN rows : rows[n] \in Paged!Row /\ rows[n].value \in Int
           /\ Paged!Matching \subseteq DOMAIN rows
           /\ IsFiniteSet(Paged!Matching) /\ Cardinality(Paged!Matching) \in Nat
           /\ Cardinality(Paged!Matching) <= Len(rows)
<1>1. /\ DOMAIN rows = 1 .. Len(rows) /\ Len(rows) \in Nat
      /\ \A n \in DOMAIN rows : rows[n] \in Paged!Row
  BY LenProperties, ElementOfSeq DEF ListTypeOK
<1>2. \A n \in DOMAIN rows : rows[n].value \in Int
  <2>1. \A n \in DOMAIN rows : rows[n].value \in Values
    BY <1>1 DEF Paged!Row
  <2>2. \A v \in Values : v \in Int
    BY ListsAssumption
  <2> QED
    BY <2>1, <2>2
<1>3. Paged!Matching \subseteq 1 .. Len(rows)
  BY <1>1 DEF Paged!Matching
<1>4. IsFiniteSet(1 .. Len(rows)) /\ Cardinality(1 .. Len(rows)) = Len(rows)
  BY <1>1, FS_Interval
<1>5. /\ IsFiniteSet(Paged!Matching)
      /\ Cardinality(Paged!Matching) <= Cardinality(1 .. Len(rows))
  BY <1>3, <1>4, FS_Subset
<1> QED
  BY <1>1, <1>2, <1>3, <1>4, <1>5, FS_CardinalityType

\* What is before a row is finitely many of the other rows of the list.
LEMMA PlaceType ==
    ASSUME ListTypeOK, NEW m \in DOMAIN rows
    PROVE  /\ Ahead(m) \subseteq Paged!Matching /\ m \notin Ahead(m)
           /\ IsFiniteSet(Ahead(m)) /\ Place(m) \in Nat
           /\ m \in Paged!Matching => Place(m) < Cardinality(Paged!Matching)
<1>1. Ahead(m) \subseteq Paged!Matching /\ m \notin Ahead(m)
  BY ListedRows DEF Ahead, Paged!Before
<1>2. IsFiniteSet(Ahead(m)) /\ Cardinality(Ahead(m)) <= Cardinality(Paged!Matching)
      /\ (Cardinality(Ahead(m)) = Cardinality(Paged!Matching) => Ahead(m) = Paged!Matching)
  BY <1>1, ListedRows, FS_Subset
<1>3. Cardinality(Ahead(m)) \in Nat
  BY <1>2, FS_CardinalityType
<1> QED
  BY <1>1, <1>2, <1>3, ListedRows DEF Place

\* Every row has a place.
PlacesTyped == \A o \in DOMAIN rows : IsFiniteSet(Ahead(o)) /\ Place(o) \in Nat

\* In every state that is well formed.
LEMMA PlacesNow == ListTypeOK => PlacesTyped
BY PlaceType DEF PlacesTyped

\* So after a step.
LEMMA PlacesNext == ListTypeOK' => PlacesTyped'
BY PlacesNow, PTL

\* A row that is before another has a lower place.
LEMMA PlacesIncrease ==
    ASSUME ListTypeOK, NEW m \in Paged!Matching, NEW n \in DOMAIN rows, Paged!Before(m, n)
    PROVE  Place(m) < Place(n)
<1>1. Ahead(m) \subseteq Ahead(n) /\ m \in Ahead(n)
  BY ListedRows DEF Ahead, Paged!Before
<1>2. m \notin Ahead(m) /\ Place(m) \in Nat /\ Place(n) \in Nat /\ IsFiniteSet(Ahead(n))
  BY PlaceType, ListedRows
<1>3. /\ Cardinality(Ahead(m)) <= Cardinality(Ahead(n))
      /\ Cardinality(Ahead(m)) = Cardinality(Ahead(n)) => Ahead(m) = Ahead(n)
  BY <1>1, <1>2, FS_Subset
<1> QED
  BY <1>1, <1>2, <1>3 DEF Place

\* A write to row n leaves the other rows where they are, and what it may take out
\* of the list is n.
OnlyRow(n) ==
    /\ list' = list
    /\ \A o \in DOMAIN rows : o \in DOMAIN rows' /\ (o # n => rows'[o] = rows[o])

\* After a write to n a row of the list has all others before it that it had.
LEMMA AheadAfterWrite ==
    ASSUME ListTypeOK, ListTypeOK', NEW n, OnlyRow(n), NEW m \in Paged!Matching, m # n
    PROVE  /\ m \in Paged!Matching'
           /\ Ahead(m) \ {n} \subseteq Ahead(m)'
           /\ \A o \in Paged!Matching : o # n => (Paged!Before(o, m)' <=> Paged!Before(o, m))
           /\ Place(m) \in Nat /\ Place(m)' \in Nat
           /\ Place(m)' >= Place(m) - 1
           /\ n \notin Paged!Matching => Place(m)' >= Place(m)
<1>1. \A o \in Paged!Matching : o # n =>
          /\ o \in Paged!Matching' /\ (Paged!Before(o, m)' <=> Paged!Before(o, m))
  BY DEF OnlyRow, Paged!Matching, Paged!Before
<1>2. Ahead(m) \ {n} \subseteq Ahead(m)'
  BY <1>1 DEF Ahead
<1>3. /\ m \in DOMAIN rows /\ IsFiniteSet(Ahead(m)) /\ Place(m) \in Nat
      /\ Ahead(m) \subseteq Paged!Matching
  BY ListedRows, PlaceType
<1>4. m \in Paged!Matching' /\ IsFiniteSet(Ahead(m)') /\ Place(m)' \in Nat
  <2>1. \A o \in DOMAIN rows' : IsFiniteSet(Ahead(o)') /\ Place(o)' \in Nat
    BY PlacesNext DEF PlacesTyped
  <2>2. m \in DOMAIN rows'
    BY <1>3 DEF OnlyRow
  <2> QED
    BY <1>1, <2>1, <2>2
<1>5. /\ IsFiniteSet(Ahead(m) \ {n})
      /\ Cardinality(Ahead(m) \ {n}) = IF n \in Ahead(m) THEN Place(m) - 1 ELSE Place(m)
  BY <1>3, FS_RemoveElement DEF Place
<1>6. Cardinality(Ahead(m) \ {n}) <= Place(m)'
  BY <1>2, <1>4, FS_Subset DEF Place
<1>7. Place(m)' >= Place(m) - 1 /\ (n \notin Paged!Matching => Place(m)' >= Place(m))
  BY <1>3, <1>4, <1>5, <1>6
<1> QED
  BY <1>1, <1>2, <1>3, <1>4, <1>7

\* A write passes at most one row, and only if it takes a row out of the list.
LEMMA WritePasses ==
    ASSUME ListTypeOK, ListTypeOK', NEW n, OnlyRow(n),
           Pending \subseteq Paged!Matching, Pending' \subseteq Pending \ {n}, NEW k \in Int,
           k = 0 \/ \A m, o \in Pending : m = o \/ Paged!Before(m, o) \/ Paged!Before(o, m)
    PROVE  /\ Cardinality(Passed(k)) \in Nat /\ Cardinality(Passed(k)') \in Nat
           /\ Cardinality(Passed(k)') <= Cardinality(Passed(k)) + 1
           /\ n \notin Paged!Matching => Cardinality(Passed(k)') <= Cardinality(Passed(k))
<1> DEFINE P == Pending
           Q == Pending'
           f == [m \in P |-> Place(m)]
           g == [m \in Q |-> Place(m)']
           before == Below(f, P, k)
           now    == Below(g, Q, k)
<1>1. /\ P \subseteq Paged!Matching /\ Q \subseteq P /\ n \notin Q
      /\ \A m \in P : f[m] = Place(m)
      /\ \A m \in Q : g[m] = Place(m)'
  OBVIOUS
<1>2. Passed(k) = before /\ Passed(k)' = now
  BY DEF Passed, Below
<1> HIDE DEF P, Q, f, g, before, now
<1>3. \A m \in P : f[m] \in Nat
  BY <1>1, ListedRows, PlaceType
<1>4. \A m \in Q : /\ g[m] \in Nat /\ g[m] >= f[m] - 1
                   /\ n \notin Paged!Matching => g[m] >= f[m]
  BY <1>1, AheadAfterWrite
<1>5. IsFiniteSet(P) /\ IsFiniteSet(Q)
  BY <1>1, ListedRows, FS_Subset
<1>6. before \subseteq P /\ now \subseteq Q
  BY DEF before, now, Below
<1>7. /\ IsFiniteSet(before) /\ IsFiniteSet(now)
      /\ Cardinality(before) \in Nat /\ Cardinality(now) \in Nat
  BY <1>5, <1>6, FS_Subset, FS_CardinalityType
<1>8. CASE k = 0
  <2>1. now = {} /\ before = {}
    BY <1>3, <1>4, <1>8 DEF now, before, Below
  <2> QED
    BY <1>2, <1>7, <2>1
<1>9. CASE \A m, o \in Pending : m = o \/ Paged!Before(m, o) \/ Paged!Before(o, m)
  <2>1. ASSUME NEW m \in P, NEW o \in P, f[m] = f[o]
        PROVE  m = o
    <3>1. m \in Paged!Matching /\ o \in Paged!Matching /\ m \in DOMAIN rows /\ o \in DOMAIN rows
      BY <1>1, ListedRows
    <3>2. Paged!Before(m, o) => f[m] < f[o]
      BY <1>1, <3>1, PlacesIncrease
    <3>3. Paged!Before(o, m) => f[o] < f[m]
      BY <1>1, <3>1, PlacesIncrease
    <3> QED
      BY <1>3, <1>9, <2>1, <3>2, <3>3 DEF P
  <2>2. Cardinality(now) <= Cardinality(before) + 1
    <3>1. \A m, o \in P : f[m] = f[o] => m = o
      BY <2>1
    <3>2. Q \in SUBSET P /\ \A m \in Q : g[m] \in Nat /\ g[m] >= f[m] - 1
      BY <1>1, <1>4
    <3> QED
      BY <1>3, <1>5, <3>1, <3>2, OneSlips DEF now, before
  <2>3. n \notin Paged!Matching => Cardinality(now) <= Cardinality(before)
    <3>1. n \notin Paged!Matching => now \subseteq before
      BY <1>1, <1>3, <1>4 DEF now, before, Below
    <3> QED
      BY <1>7, <3>1, FS_Subset
  <2> QED
    BY <1>2, <1>7, <2>2, <2>3
<1> QED
  BY <1>8, <1>9

\* A write of another request.
ListWrite ==
    \/ \E value \in Values, matches \in BOOLEAN : Paged!Insert(value, matches)
    \/ \E n \in DOMAIN rows :
          Paged!ChangeFilter(n) \/ \E value \in Values : Paged!ChangeValue(n, value)

\* What a write does: to one row, which counts as moved if it was there, and as
\* departed if it was in the list.
WriteOf(n, moved, departed) ==
    /\ OnlyRow(n)
    /\ rows' \in Seq(Paged!Row)
    /\ n \in DOMAIN rows => n \in moved
    /\ n \in Paged!Matching => departed
    /\ ~ departed => n \notin Paged!Matching
    /\ walk' = Paged!Recorded(moved, departed)
    /\ walk.phase # "done"

\* An insertion adds a row at the end of the table.
LEMMA InsertWrites ==
    ASSUME ListTypeOK, NEW value \in Values, NEW matches \in BOOLEAN, Paged!Insert(value, matches)
    PROVE  \E n, moved, departed : /\ moved \in SUBSET Nat /\ departed \in BOOLEAN
                                   /\ WriteOf(n, moved, departed)
<1> DEFINE row == [value |-> value, matches |-> matches]
           n   == Len(rows) + 1
<1>1. row \in Paged!Row
  BY DEF Paged!Row
<1>2. /\ rows' = Append(rows, row) /\ list' = list /\ walk' = Paged!Recorded({}, FALSE)
      /\ walk.phase # "done"
  BY DEF Paged!Insert, Paged!Writing
<1> HIDE DEF row
<1>3. /\ rows' \in Seq(Paged!Row)
      /\ DOMAIN rows' = 1 .. Len(rows) + 1 /\ DOMAIN rows = 1 .. Len(rows) /\ Len(rows) \in Nat
      /\ \A o \in 1 .. Len(rows) : rows'[o] = rows[o]
  BY <1>1, <1>2, AppendRow, LenProperties DEF ListTypeOK
<1>4. n \notin DOMAIN rows /\ OnlyRow(n)
  BY <1>2, <1>3 DEF OnlyRow
<1>5. WriteOf(n, {}, FALSE)
  BY <1>2, <1>3, <1>4, ListedRows DEF WriteOf
<1> QED
  BY <1>5

\* An update of a row writes another row in its place.
LEMMA UpdateWrites ==
    ASSUME ListTypeOK, NEW n \in DOMAIN rows, NEW row \in Paged!Row,
           rows' = [rows EXCEPT ![n] = row], list' = list, Paged!Writing,
           walk' = Paged!Recorded({n}, rows[n].matches)
    PROVE  \E m, moved, departed : /\ moved \in SUBSET Nat /\ departed \in BOOLEAN
                                   /\ WriteOf(m, moved, departed)
<1>1. n \in Nat /\ rows[n] \in Paged!Row
  BY ListedRows
<1>2. rows[n].matches \in BOOLEAN
  BY <1>1 DEF Paged!Row
<1>3. OnlyRow(n)
  BY DEF OnlyRow
<1>4. rows' \in Seq(Paged!Row)
  BY ListedRows, ExceptSeq DEF ListTypeOK
<1>5. walk.phase # "done"
  BY DEF Paged!Writing
<1>6. n \in Paged!Matching <=> rows[n].matches
  BY DEF Paged!Matching
<1>7. WriteOf(n, {n}, rows[n].matches)
  BY <1>3, <1>4, <1>5, <1>6 DEF WriteOf
<1> QED
  BY <1>1, <1>2, <1>7

\* Every write is of one row.
LEMMA WritesOneRow ==
    ASSUME ListTypeOK, ListWrite
    PROVE  \E n, moved, departed : /\ moved \in SUBSET Nat /\ departed \in BOOLEAN
                                   /\ WriteOf(n, moved, departed)
<1>1. CASE \E value \in Values, matches \in BOOLEAN : Paged!Insert(value, matches)
  BY <1>1, InsertWrites
<1>2. ASSUME NEW n \in DOMAIN rows, Paged!ChangeFilter(n)
      PROVE  \E m, moved, departed : /\ moved \in SUBSET Nat /\ departed \in BOOLEAN
                                     /\ WriteOf(m, moved, departed)
  <2> DEFINE row == [rows[n] EXCEPT !.matches = ~ rows[n].matches]
  <2>1. row \in Paged!Row
    <3>1. rows[n] \in [value : Values, matches : BOOLEAN]
      BY ListedRows DEF Paged!Row
    <3>2. (~ rows[n].matches) \in BOOLEAN
      OBVIOUS
    <3>3. ASSUME NEW b \in BOOLEAN
          PROVE  [rows[n] EXCEPT !.matches = b] \in [value : Values, matches : BOOLEAN]
      BY <3>1
    <3> QED
      BY <3>2, <3>3 DEF Paged!Row
  <2>2. rows' = [rows EXCEPT ![n] = row] /\ list' = list /\ Paged!Writing
        /\ walk' = Paged!Recorded({n}, rows[n].matches)
    BY <1>2 DEF Paged!ChangeFilter
  <2> HIDE DEF row
  <2> QED
    BY <2>1, <2>2, UpdateWrites
<1>3. ASSUME NEW n \in DOMAIN rows, NEW value \in Values, Paged!ChangeValue(n, value)
      PROVE  \E m, moved, departed : /\ moved \in SUBSET Nat /\ departed \in BOOLEAN
                                     /\ WriteOf(m, moved, departed)
  <2> DEFINE row == [rows[n] EXCEPT !.value = value]
  <2>1. row \in Paged!Row
    BY ListedRows DEF Paged!Row
  <2>2. rows' = [rows EXCEPT ![n] = row] /\ list' = list /\ Paged!Writing
        /\ walk' = Paged!Recorded({n}, rows[n].matches)
    BY <1>3 DEF Paged!ChangeValue
  <2> HIDE DEF row
  <2> QED
    BY <2>1, <2>2, UpdateWrites
<1> QED
  BY <1>1, <1>2, <1>3 DEF ListWrite

\* What the walk records of a write.
LEMMA RecordedEffect ==
    ASSUME walk \in WalkRecord, NEW moved \in SUBSET Nat, NEW departed \in BOOLEAN,
           walk' = Paged!Recorded(moved, departed)
    PROVE  /\ walk' \in WalkRecord
           /\ walk'.phase = walk.phase /\ walk'.page = walk.page /\ walk'.limit = walk.limit
           /\ walk'.seen = walk.seen /\ walk'.start = walk.start /\ walk'.tied = walk.tied
           /\ walk.phase # "idle" =>
                 /\ walk'.moved = walk.moved \cup moved
                 /\ departed => walk'.departures = walk.departures + 1
                 /\ ~ departed => walk'.departures = walk.departures
<1>1. CASE walk.phase = "idle"
  BY <1>1 DEF Paged!Recorded
<1>2. CASE walk.phase # "idle"
  <2>1. PICK w, d : /\ walk' = [walk EXCEPT !.writes = w, !.moved = walk.moved \cup moved,
                                            !.departures = d]
                    /\ w \in Nat /\ d \in Nat
                    /\ departed => d = walk.departures + 1
                    /\ ~ departed => d = walk.departures
    <3>1. walk.writes \in Nat /\ walk.departures \in Nat
      BY DEF WalkRecord
    <3>2. CASE departed
      <4>1. walk' = [walk EXCEPT !.writes = walk.writes + 1, !.moved = walk.moved \cup moved,
                                 !.departures = walk.departures + 1]
        BY <1>2, <3>2 DEF Paged!Recorded
      <4>2. walk.writes + 1 \in Nat /\ walk.departures + 1 \in Nat
        BY <3>1
      <4> QED
        BY <3>2, <4>1, <4>2
    <3>3. CASE ~ departed
      <4>1. walk' = [walk EXCEPT !.writes = walk.writes + 1, !.moved = walk.moved \cup moved,
                                 !.departures = walk.departures]
        BY <1>2, <3>3 DEF Paged!Recorded
      <4>2. walk.writes + 1 \in Nat
        BY <3>1
      <4> QED
        BY <3>1, <3>3, <4>1, <4>2
    <3> QED
      BY <3>2, <3>3
  <2>2. walk.moved \cup moved \in SUBSET Nat
    BY DEF WalkRecord
  <2> QED
    BY <1>2, <2>1, <2>2 DEF WalkRecord
<1> QED
  BY <1>1, <1>2

\* The cardinality that Lists speaks of is that of the lemmas.
LEMMA SameCardinality == \A S : Paged!Cardinality(S) = Cardinality(S)
BY DEF Cardinality, Paged!Cardinality

\* The invariant of a walk.
ListInv == ListTypeOK /\ PendingOrdered /\ FewPassed

\* A page has one row at least.
LEMMA WalkTypes ==
    ASSUME ListTypeOK
    PROVE  /\ walk.page \in Nat \ {0} /\ walk.limit \in Nat \ {0}
           /\ (walk.page - 1) * walk.limit \in Nat /\ walk.page * walk.limit \in Nat
           /\ walk.departures \in Nat
<1>1. walk.page \in Nat \ {0} /\ walk.limit \in Nat \ {0} /\ walk.departures \in Nat
  BY ListsAssumption DEF ListTypeOK, WalkRecord
<1>2. walk.page - 1 \in Nat
  BY <1>1
<1> QED
  BY <1>1, <1>2

\* Writes of other requests keep the invariant.
LEMMA WriteKeeps == ListInv /\ ListWrite => ListInv'
<1> SUFFICES ASSUME ListInv, ListWrite
             PROVE  ListInv'
  OBVIOUS
<1> USE DEF ListInv
<1>1. PICK n, moved, departed : /\ moved \in SUBSET Nat /\ departed \in BOOLEAN
                                /\ WriteOf(n, moved, departed)
  BY WritesOneRow
<1>2. walk \in WalkRecord /\ walk' = Paged!Recorded(moved, departed)
  BY <1>1 DEF WriteOf, ListTypeOK
<1>3. /\ walk' \in WalkRecord
      /\ walk'.phase = walk.phase /\ walk'.page = walk.page /\ walk'.limit = walk.limit
      /\ walk'.seen = walk.seen /\ walk'.start = walk.start /\ walk'.tied = walk.tied
      /\ walk.phase # "idle" =>
            /\ walk'.moved = walk.moved \cup moved
            /\ departed => walk'.departures = walk.departures + 1
            /\ ~ departed => walk'.departures = walk.departures
  BY <1>1, <1>2, RecordedEffect
<1>4. ListTypeOK'
  BY <1>1, <1>3 DEF WriteOf, ListTypeOK
<1>5. walk.phase \in {"idle", "items", "count"}
  BY <1>1 DEF WriteOf, ListTypeOK, WalkRecord
<1>6. CASE walk.phase = "idle"
  BY <1>3, <1>4, <1>6 DEF PendingOrdered, FewPassed
<1>7. CASE walk.phase \in {"items", "count"}
  <2>1. Pending \subseteq Paged!Matching
    BY <1>7 DEF PendingOrdered
  <2>2. OnlyRow(n) /\ (n \in DOMAIN rows => n \in moved)
    BY <1>1 DEF WriteOf
  <2>3. Pending' \subseteq Pending \ {n}
    BY <1>3, <1>7, <2>1, <2>2, ListedRows DEF Pending
  <2>4. Pending' \subseteq Paged!Matching'
    BY <1>4, <2>1, <2>2, <2>3, AheadAfterWrite
  <2>5. ASSUME \A m, o \in Pending : m = o \/ Paged!Before(m, o) \/ Paged!Before(o, m)
        PROVE  \A m, o \in Pending' : m = o \/ Paged!Before(m, o)' \/ Paged!Before(o, m)'
    <3> SUFFICES ASSUME NEW m \in Pending', NEW o \in Pending', m # o
                 PROVE  Paged!Before(m, o)' \/ Paged!Before(o, m)'
      OBVIOUS
    <3>1. /\ m \in Paged!Matching /\ m # n /\ o \in Paged!Matching /\ o # n
          /\ Paged!Before(m, o) \/ Paged!Before(o, m)
      BY <2>1, <2>3, <2>5
    <3>2. Paged!Before(m, o)' <=> Paged!Before(m, o)
      BY <1>4, <2>2, <3>1, AheadAfterWrite
    <3>3. Paged!Before(o, m)' <=> Paged!Before(o, m)
      BY <1>4, <2>2, <3>1, AheadAfterWrite
    <3> QED
      BY <3>1, <3>2, <3>3
  <2>6. PendingOrdered'
    BY <1>3, <1>7, <2>4, <2>5 DEF PendingOrdered
  <2>7. PICK k \in Int : k = IF walk.phase = "items" THEN (walk.page - 1) * walk.limit
                                                     ELSE walk.page * walk.limit
    BY WalkTypes
  <2>8. k = 0 \/ \A m, o \in Pending : m = o \/ Paged!Before(m, o) \/ Paged!Before(o, m)
    <3>1. CASE walk.phase = "items" /\ walk.page = 1
      BY <2>7, <3>1, WalkTypes
    <3>2. CASE walk.phase = "count" \/ walk.page # 1
      BY <1>7, <3>2 DEF PendingOrdered
    <3> QED
      BY <1>7, <3>1, <3>2
  <2>9. /\ Cardinality(Passed(k)) \in Nat /\ Cardinality(Passed(k)') \in Nat
        /\ Cardinality(Passed(k)') <= Cardinality(Passed(k)) + 1
        /\ n \notin Paged!Matching => Cardinality(Passed(k)') <= Cardinality(Passed(k))
    BY <1>4, <2>1, <2>2, <2>3, <2>8, WritePasses
  <2>10. Cardinality(Passed(k)) <= walk.departures
    BY <1>7, <2>7 DEF FewPassed
  <2>11. Cardinality(Passed(k)') <= walk'.departures
    <3>1. departed \in BOOLEAN /\ (~ departed => n \notin Paged!Matching)
      BY <1>1 DEF WriteOf
    <3> QED
      BY <1>3, <1>7, <2>9, <2>10, <3>1, WalkTypes
  <2>12. FewPassed'
    <3>1. /\ walk'.phase = "items" => k = (walk'.page - 1) * walk'.limit
          /\ walk'.phase = "count" => k = walk'.page * walk'.limit
          /\ walk'.phase # "done"
      BY <1>3, <1>7, <2>7
    <3>2. walk'.phase = "items" => Passed((walk.page - 1) * walk.limit)' = Passed(k)'
      BY <3>1 DEF Passed
    <3>3. walk'.phase = "count" => Passed(walk.page * walk.limit)' = Passed(k)'
      BY <3>1 DEF Passed
    <3> QED
      BY <2>11, <3>1, <3>2, <3>3 DEF FewPassed
  <2> QED
    BY <1>4, <2>6, <2>12
<1> QED
  BY <1>5, <1>6, <1>7

\* A walk begins with the whole list still to be shown and nothing passed.
LEMMA BeginWalkKeeps ==
    ASSUME ListInv, NEW limit \in Limits, Paged!BeginWalk(limit)
    PROVE  ListInv'
<1> USE DEF ListInv
<1>1. /\ walk' = [phase |-> "items", limit |-> limit, page |-> 1, seen |-> {},
                  start |-> Paged!Matching, moved |-> {}, tied |-> {}, departures |-> 0, writes |-> 0]
      /\ rows' = rows /\ list' = list
  BY DEF Paged!BeginWalk, Paged!Fresh
<1>2. Paged!Matching \in SUBSET Nat
  BY ListedRows DEF ListTypeOK
<1>3. ListTypeOK'
  BY <1>1, <1>2 DEF ListTypeOK, WalkRecord
<1>4. Paged!Matching' = Paged!Matching
  BY <1>1 DEF Paged!Matching
<1>5. PendingOrdered'
  BY <1>1, <1>4 DEF PendingOrdered, Pending
<1>6. FewPassed'
  <2>1. (walk'.page - 1) * walk'.limit = 0
    <3>1. limit \in Nat
      BY ListsAssumption
    <3> QED
      BY <1>1, <3>1
  <2>2. Passed((walk.page - 1) * walk.limit)' = {}
    <3>1. \A m \in Pending' : m \in DOMAIN rows'
      BY <1>1, <1>2, <1>4, ListedRows DEF Pending
    <3>2. \A m \in Pending' : Place(m)' \in Nat
      BY <1>3, <3>1, PlacesNext DEF PlacesTyped
    <3>3. \A m \in Pending' : ~ (Place(m)' < 0)
      BY <3>2
    <3> QED
      BY <2>1, <3>3 DEF Passed
  <2> QED
    BY <1>1, <2>2, FS_EmptySet DEF FewPassed
<1> QED
  BY <1>3, <1>5, <1>6

\* Where nothing is written the list stays as it is.
LEMMA SamePlaces ==
    ASSUME UNCHANGED <<list, rows>>
    PROVE  /\ Paged!Matching' = Paged!Matching
           /\ \A m, o : Paged!Before(m, o)' <=> Paged!Before(m, o)
           /\ \A m : Place(m)' = Place(m)
<1>1. Paged!Matching' = Paged!Matching
  BY DEF Paged!Matching
<1>2. ASSUME NEW m, NEW o
      PROVE  Paged!Before(m, o)' <=> Paged!Before(m, o)
  BY DEF Paged!Before
<1>3. ASSUME NEW m
      PROVE  Place(m)' = Place(m)
  <2>1. Ahead(m)' = Ahead(m)
    BY <1>1 DEF Ahead, Paged!Before
  <2> QED
    BY <2>1 DEF Place
<1> QED
  BY <1>1, <1>2, <1>3

\* A row in a definite place that is not before a page and not on it is behind it.
LEMMA BehindThePage ==
    ASSUME ListTypeOK, NEW shown \in SUBSET Paged!Matching, Paged!ReadItems(shown),
           NEW m \in Paged!Matching, m \notin shown, m \notin Paged!Tied,
           Place(m) >= (walk.page - 1) * walk.limit
    PROVE  Place(m) >= walk.page * walk.limit
<1> DEFINE s    == (walk.page - 1) * walk.limit
           size == Cardinality(Paged!Matching)
<1>1. /\ s \in Nat /\ size \in Nat /\ walk.limit \in Nat \ {0}
      /\ walk.page * walk.limit = s + walk.limit
  <2>1. \A p, l \in Int : p * l = (p - 1) * l + l
    OBVIOUS
  <2> QED
    BY <2>1, WalkTypes, ListedRows
<1>2. /\ m \in DOMAIN rows /\ IsFiniteSet(Paged!Matching)
      /\ Ahead(m) \subseteq Paged!Matching /\ m \notin Ahead(m) /\ IsFiniteSet(Ahead(m))
      /\ Place(m) \in Nat /\ Place(m) < size
  BY ListedRows, PlaceType
<1>3. Place(m) >= s /\ Paged!Smaller(Paged!Skipped(walk.page, walk.limit), size) = s
  <2>1. Paged!Skipped(walk.page, walk.limit) = s
    BY DEF Paged!Skipped
  <2> HIDE DEF s, size
  <2>2. Place(m) >= s
    BY DEF s
  <2> QED
    BY <1>1, <1>2, <2>1, <2>2 DEF Paged!Smaller
<1>4. Cardinality(shown) = Paged!Smaller(walk.limit, size - s)
  BY <1>3, SameCardinality DEF Paged!ReadItems
<1>5. PICK skipped \in SUBSET (Paged!Matching \ shown) :
          /\ Cardinality(skipped) = s
          /\ Paged!InFront(skipped) /\ Paged!InFront(skipped \cup shown)
  BY <1>3, SameCardinality DEF Paged!ReadItems
<1> HIDE DEF s, size
<1>6. \A o \in Paged!Matching : o = m \/ Paged!Before(m, o) \/ Paged!Before(o, m)
  BY DEF Paged!Tied
<1>7. m \notin skipped
  <2> SUFFICES ASSUME m \in skipped
               PROVE  FALSE
    OBVIOUS
  <2>1. Ahead(m) \subseteq skipped \ {m}
    BY <1>2, <1>5 DEF Ahead, Paged!InFront
  <2>2. IsFiniteSet(skipped)
    BY <1>2, <1>5, FS_Subset
  <2>3. IsFiniteSet(skipped \ {m}) /\ Cardinality(skipped \ {m}) = s - 1
    BY <1>5, <2>2, FS_RemoveElement
  <2>4. Place(m) <= s - 1
    BY <2>1, <2>3, FS_Subset DEF Place
  <2> QED
    BY <1>1, <1>2, <1>3, <2>4
<1>8. skipped \cup shown \subseteq Ahead(m)
  BY <1>5, <1>6, <1>7 DEF Ahead, Paged!InFront
<1>9. IsFiniteSet(skipped \cup shown) /\ Cardinality(skipped \cup shown) = s + Cardinality(shown)
  <2>1. IsFiniteSet(skipped) /\ IsFiniteSet(shown)
    BY <1>2, <1>5, FS_Subset
  <2>2. skipped \cap shown = {}
    BY <1>5
  <2>3. Cardinality(skipped \cap shown) = 0
    BY <2>2, FS_EmptySet
  <2>4. Cardinality(shown) \in Nat
    BY <2>1, FS_CardinalityType
  <2>5. /\ IsFiniteSet(skipped \cup shown)
        /\ Cardinality(skipped \cup shown)
              = Cardinality(skipped) + Cardinality(shown) - Cardinality(skipped \cap shown)
    BY <2>1, FS_Union
  <2> QED
    BY <1>1, <1>5, <2>3, <2>4, <2>5
<1>10. s + Cardinality(shown) <= Place(m)
  BY <1>2, <1>8, <1>9, FS_Subset DEF Place
<1> QED
  BY <1>1, <1>2, <1>4, <1>10 DEF Paged!Smaller

\* Reading a page brings the walk past no row that is still to be shown.
LEMMA ReadItemsKeeps ==
    ASSUME ListInv, NEW shown \in SUBSET Paged!Matching, Paged!ReadItems(shown)
    PROVE  ListInv'
<1> USE DEF ListInv
<1>1. /\ walk.phase = "items" /\ UNCHANGED <<list, rows>>
      /\ walk' = [walk EXCEPT !.phase = "count", !.seen = walk.seen \cup shown,
                              !.tied = walk.tied \cup Paged!Tied]
  BY DEF Paged!ReadItems
<1>2. Paged!Matching \in SUBSET Nat /\ Paged!Tied \in SUBSET Nat
  BY ListedRows DEF ListTypeOK, Paged!Tied
<1>3. /\ walk' \in WalkRecord
      /\ walk'.phase = "count" /\ walk'.page = walk.page /\ walk'.limit = walk.limit
      /\ walk'.seen = walk.seen \cup shown /\ walk'.tied = walk.tied \cup Paged!Tied
      /\ walk'.start = walk.start /\ walk'.moved = walk.moved
      /\ walk'.departures = walk.departures
  BY <1>1, <1>2 DEF ListTypeOK, WalkRecord
<1>4. ListTypeOK'
  BY <1>1, <1>3 DEF ListTypeOK
<1>5. /\ Paged!Matching' = Paged!Matching
      /\ \A m, o : Paged!Before(m, o)' <=> Paged!Before(m, o)
      /\ \A m : Place(m)' = Place(m)
  BY <1>1, SamePlaces
<1>6. /\ Pending \subseteq Paged!Matching
      /\ Pending' = Pending \ (shown \cup Paged!Tied)
  BY <1>1, <1>3 DEF PendingOrdered, Pending
<1>7. PendingOrdered'
  <2>1. \A m, o \in Pending' : m = o \/ Paged!Before(m, o) \/ Paged!Before(o, m)
    BY <1>6 DEF Paged!Tied
  <2>2. \A m, o \in Pending' : m = o \/ Paged!Before(m, o)' \/ Paged!Before(o, m)'
    BY <1>5, <2>1
  <2> QED
    BY <1>3, <1>5, <1>6, <2>2 DEF PendingOrdered
<1>8. Passed(walk.page * walk.limit)' \subseteq Passed((walk.page - 1) * walk.limit)
  <2> SUFFICES ASSUME NEW m \in Pending', Place(m)' < walk'.page * walk'.limit
               PROVE  m \in Pending /\ Place(m) < (walk.page - 1) * walk.limit
    BY DEF Passed
  <2>1. /\ m \in Pending /\ m \in Paged!Matching /\ m \notin shown /\ m \notin Paged!Tied
        /\ Place(m) < walk.page * walk.limit
    BY <1>3, <1>5, <1>6
  <2>2. Place(m) \in Nat
    BY <2>1, ListedRows, PlaceType
  <2>3. ~ (Place(m) >= (walk.page - 1) * walk.limit)
    BY <2>1, <2>2, BehindThePage, WalkTypes
  <2> QED
    BY <2>1, <2>2, <2>3, WalkTypes
<1>9. FewPassed'
  <2> DEFINE before == Passed((walk.page - 1) * walk.limit)
             after  == Passed(walk.page * walk.limit)'
  <2>1. Cardinality(before) <= walk.departures
    BY <1>1 DEF FewPassed
  <2>2. IsFiniteSet(before)
    <3>1. before \subseteq Paged!Matching
      BY <1>6 DEF Passed
    <3> QED
      BY <3>1, ListedRows, FS_Subset
  <2> HIDE DEF before, after
  <2>3. after \subseteq before
    BY <1>8 DEF before, after
  <2>4. IsFiniteSet(after) /\ Cardinality(after) <= Cardinality(before)
    BY <2>2, <2>3, FS_Subset
  <2>5. Cardinality(after) \in Nat /\ Cardinality(before) \in Nat
    BY <2>2, <2>4, FS_CardinalityType
  <2>6. Cardinality(after) <= walk'.departures
    BY <1>3, <2>1, <2>4, <2>5, WalkTypes
  <2> QED
    BY <1>3, <2>6 DEF FewPassed, after
<1> QED
  BY <1>4, <1>7, <1>9

\* There is no page after the one that reaches the total.
LEMMA PagesCover ==
    ASSUME NEW total \in Nat, NEW limit \in Nat \ {0}, NEW page \in Nat,
           ~ (page < Paged!Pages(total, limit))
    PROVE  total <= page * limit
<1> DEFINE pages == Paged!Pages(total, limit)
<1>1. pages \in Nat /\ total + limit - 1 < (pages + 1) * limit
  <2>1. \A a \in Nat : \A b \in Nat \ {0} : a \div b \in Nat /\ a < ((a \div b) + 1) * b
    OBVIOUS
  <2>2. total + limit - 1 \in Nat
    OBVIOUS
  <2> QED
    BY <2>1, <2>2 DEF Paged!Pages
<1> HIDE DEF pages
<1>2. page >= pages
  BY <1>1 DEF pages
<1>3. pages * limit <= page * limit
  <2>1. \A p, q, l \in Nat : p >= q => q * l <= p * l
    OBVIOUS
  <2> QED
    BY <1>1, <1>2, <2>1
<1>4. (pages + 1) * limit = pages * limit + limit
  BY <1>1
<1>5. pages * limit \in Nat /\ page * limit \in Nat
  BY <1>1
<1> QED
  BY <1>1, <1>3, <1>4, <1>5

\* The walk that goes on has passed the same rows; the walk that ends has passed
\* all.
LEMMA ReadCountKeeps == ListInv /\ Paged!ReadCount => ListInv'
<1> SUFFICES ASSUME ListInv, Paged!ReadCount
             PROVE  ListInv'
  OBVIOUS
<1> USE DEF ListInv
<1> DEFINE total == IF list.countsAll THEN Len(rows) ELSE Cardinality(Paged!Matching)
<1>1. /\ walk.phase = "count" /\ UNCHANGED <<list, rows>>
      /\ walk' = IF walk.page < Paged!Pages(total, walk.limit)
                 THEN [walk EXCEPT !.phase = "items", !.page = walk.page + 1]
                 ELSE [walk EXCEPT !.phase = "done"]
  BY SameCardinality DEF Paged!ReadCount
<1>2. total \in Nat /\ Cardinality(Paged!Matching) <= total
  BY ListedRows
<1> HIDE DEF total
<1>3. /\ Paged!Matching' = Paged!Matching
      /\ \A m, o : Paged!Before(m, o)' <=> Paged!Before(m, o)
      /\ \A m : Place(m)' = Place(m)
  BY <1>1, SamePlaces
<1>4. /\ Pending \subseteq Paged!Matching
      /\ \A m, o \in Pending : m = o \/ Paged!Before(m, o) \/ Paged!Before(o, m)
      /\ Cardinality(Passed(walk.page * walk.limit)) <= walk.departures
  BY <1>1 DEF PendingOrdered, FewPassed
<1>5. CASE walk.page < Paged!Pages(total, walk.limit)
  <2>1. /\ walk' \in WalkRecord
        /\ walk'.phase = "items" /\ walk'.page = walk.page + 1 /\ walk'.limit = walk.limit
        /\ walk'.seen = walk.seen /\ walk'.tied = walk.tied
        /\ walk'.start = walk.start /\ walk'.moved = walk.moved
        /\ walk'.departures = walk.departures
    <3>1. walk' = [walk EXCEPT !.phase = "items", !.page = walk.page + 1]
      BY <1>1, <1>5
    <3>2. walk.page + 1 \in Nat \ {0}
      BY WalkTypes
    <3> QED
      BY <3>1, <3>2 DEF ListTypeOK, WalkRecord
  <2>2. ListTypeOK'
    BY <1>1, <2>1 DEF ListTypeOK
  <2>3. Pending' = Pending
    BY <2>1 DEF Pending
  <2>4. PendingOrdered'
    BY <1>3, <1>4, <2>1, <2>3 DEF PendingOrdered
  <2>5. (walk'.page - 1) * walk'.limit = walk.page * walk.limit
    BY <2>1, WalkTypes
  <2>6. Passed((walk.page - 1) * walk.limit)' = Passed(walk.page * walk.limit)
    BY <1>3, <2>3, <2>5 DEF Passed
  <2>7. FewPassed'
    BY <1>4, <2>1, <2>6 DEF FewPassed
  <2> QED
    BY <2>2, <2>4, <2>7
<1>6. CASE ~ (walk.page < Paged!Pages(total, walk.limit))
  <2>1. /\ walk' \in WalkRecord
        /\ walk'.phase = "done"
        /\ walk'.seen = walk.seen /\ walk'.tied = walk.tied
        /\ walk'.start = walk.start /\ walk'.moved = walk.moved
        /\ walk'.departures = walk.departures
    BY <1>1, <1>6 DEF ListTypeOK, WalkRecord
  <2>2. ListTypeOK'
    BY <1>1, <2>1 DEF ListTypeOK
  <2>3. Pending' = Pending
    BY <2>1 DEF Pending
  <2>4. Passed(walk.page * walk.limit) = Pending
    <3>1. total <= walk.page * walk.limit
      BY <1>2, <1>6, PagesCover, WalkTypes
    <3>2. \A m \in Pending : Place(m) \in Nat /\ Place(m) < Cardinality(Paged!Matching)
      BY <1>4, ListedRows, PlaceType
    <3>3. Cardinality(Paged!Matching) \in Nat /\ walk.page * walk.limit \in Nat
      BY ListedRows, WalkTypes
    <3>4. \A m \in Pending : Place(m) < walk.page * walk.limit
      BY <1>2, <3>1, <3>2, <3>3
    <3> QED
      BY <3>4 DEF Passed
  <2>5. FewPassed'
    BY <1>4, <2>1, <2>3, <2>4 DEF FewPassed
  <2>6. PendingOrdered'
    BY <2>1 DEF PendingOrdered
  <2> QED
    BY <2>2, <2>5, <2>6
<1> QED
  BY <1>5, <1>6

\* A walk not begun keeps nothing in mind.
LEMMA FreshKeeps == rows \in Seq(Paged!Row) /\ walk = Paged!Fresh => ListInv
<1>1. (CHOOSE l \in Limits : TRUE) \in Limits
  BY ListsAssumption
<1> QED
  BY <1>1 DEF ListInv, ListTypeOK, WalkRecord, PendingOrdered, FewPassed, Paged!Fresh

\* What a client and the writes beside it do keeps the invariant.
LEMMA ListKept == ListInv /\ [ReadNext]_readVars => ListInv'
<1> SUFFICES ASSUME ListInv, [ReadNext]_readVars
             PROVE  ListInv'
  OBVIOUS
<1>1. CASE ListWrite
  BY <1>1, WriteKeeps
<1>2. ASSUME NEW limit \in Limits, Paged!BeginWalk(limit)
      PROVE  ListInv'
  BY <1>2, BeginWalkKeeps
<1>3. ASSUME NEW shown \in SUBSET Paged!Matching, Paged!ReadItems(shown)
      PROVE  ListInv'
  BY <1>3, ReadItemsKeeps
<1>4. CASE Paged!ReadCount
  BY <1>4, ReadCountKeeps
<1>5. CASE Paged!EndWalk
  <2>1. (rows \in Seq(Paged!Row) /\ walk = Paged!Fresh)'
    BY <1>5 DEF Paged!EndWalk, ListInv, ListTypeOK, Paged!Fresh, Paged!Row
  <2>2. (rows \in Seq(Paged!Row) /\ walk = Paged!Fresh => ListInv)'
    BY FreshKeeps, PTL
  <2> QED
    BY <2>1, <2>2
<1>6. CASE UNCHANGED pagedVars
  <2>1. UNCHANGED <<list, rows>> /\ walk' = walk
    BY <1>6 DEF pagedVars
  <2>2. /\ Paged!Matching' = Paged!Matching
        /\ \A m, o : Paged!Before(m, o)' <=> Paged!Before(m, o)
        /\ \A m : Place(m)' = Place(m)
    BY <2>1, SamePlaces
  <2>3. Pending' = Pending
    BY <2>1 DEF Pending
  <2>4. ListTypeOK'
    BY <2>1 DEF ListInv, ListTypeOK, WalkRecord, Paged!Row
  <2>5. PendingOrdered'
    BY <2>1, <2>2, <2>3 DEF ListInv, PendingOrdered
  <2>6. /\ Passed((walk.page - 1) * walk.limit)' = Passed((walk.page - 1) * walk.limit)
        /\ Passed(walk.page * walk.limit)' = Passed(walk.page * walk.limit)
    BY <2>1, <2>2, <2>3 DEF Passed
  <2>7. FewPassed'
    BY <2>1, <2>3, <2>6 DEF ListInv, FewPassed
  <2> QED
    BY <2>4, <2>5, <2>7 DEF ListInv
<1>7. CASE Paged!Next
  BY <1>1, <1>2, <1>3, <1>4, <1>5, <1>7 DEF Paged!Next, ListWrite
<1> QED
  BY <1>6, <1>7 DEF ReadNext, readVars

\* Whoever reads any of the lists page by page, with pages of any size and among
\* writes of any number, misses at most one row for each that left its place, and
\* rows whose place the order leaves open (the skip and take of the list services,
\* and the pages a client counts from the total).
THEOREM WalkStaysComplete == ReadSpec => []WalkMisses
<1>1. ReadInit => ListInv
  <2>1. ReadInit => rows \in Seq(Paged!Row) /\ walk = Paged!Fresh
    BY EmptySeq DEF ReadInit, Paged!Init
  <2> QED
    BY <2>1, FreshKeeps
<1>2. ListInv => WalkMisses
  <2>1. Paged!Missed \ walk.tied = Pending
    BY DEF Paged!Missed, Pending
  <2> QED
    BY <2>1, SameCardinality DEF ListInv, FewPassed, WalkMisses, Paged!WalkMisses
<1> QED
  BY <1>1, <1>2, ListKept, PTL DEF ReadSpec
=============================================================================
