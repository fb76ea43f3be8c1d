--------------------------- MODULE MCIdempotency ---------------------------
(***************************************************************************)
(* Three requests with one key and two bodies: a request, its retry, and a *)
(* third one that meets whatever the two left behind.                      *)
(***************************************************************************)
EXTENDS Idempotency
=============================================================================
