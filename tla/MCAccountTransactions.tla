----------------------- MODULE MCAccountTransactions -----------------------
(***************************************************************************)
(* Two requests at a time and one retry (the code has two; the third       *)
(* attempt starts like the second).  Requests of one customer race each    *)
(* other and a credit limit cut from 2 to 1, over two invoices; another    *)
(* customer names the same invoices in the opposite order, so that         *)
(* deadlocks happen.                                                       *)
(***************************************************************************)
EXTENDS AccountTransactions

Purchase(c, date, net, paid) ==
    [op |-> "createPurchase", customerId |-> c, date |-> date, net |-> net, paid |-> paid]

Payment(c, amount, order) ==
    [op |-> "createPayment", customerId |-> c, amount |-> amount,
     allocations |-> [k \in DOMAIN order |-> [invoiceId |-> order[k], amount |-> 1]]]

Customer(limit, opening) == [op |-> "createCustomer", limit |-> limit, opening |-> opening]

MCInputs ==
    {Customer(2, 0), Customer(2, 2),
     [op |-> "updateCustomer", customerId |-> 1, limit |-> 1, status |-> "ACTIVE"],
     Purchase(1, 2, 1, 0), Purchase(1, 1, 2, 1),
     Payment(1, 1, <<>>), Payment(1, 2, <<1, 2>>), Payment(2, 2, <<2, 1>>),
     [op |-> "reversePayment", paymentId |-> 1]}
=============================================================================
