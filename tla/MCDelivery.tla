----------------------------- MODULE MCDelivery -----------------------------
(***************************************************************************)
(* Instances of Delivery.  Slots are interchangeable: symmetry keeps one   *)
(* of each permutation of them.                                            *)
(***************************************************************************)
EXTENDS Delivery, TLC

SlotSymmetry == Permutations(Slots)
=============================================================================
