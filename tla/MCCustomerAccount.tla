-------------------------- MODULE MCCustomerAccount --------------------------
(***************************************************************************)
(* Two customers, two invoices and two payments: enough for a payment      *)
(* over two invoices, an initial payment, a reversal between two payments  *)
(* and an invoice of the other customer in an allocation.                  *)
(***************************************************************************)
EXTENDS CustomerAccount

MCAmounts == {0, 1, 2}
=============================================================================
