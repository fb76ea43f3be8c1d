--------------------------- MODULE MCAuthSessions ---------------------------
(***************************************************************************)
(* Two requests at a time on three sessions of a user: a token presented   *)
(* twice, while its family has a live session.  MCAccess checks the other  *)
(* properties of AuthSessions.                                             *)
(***************************************************************************)
EXTENDS AuthSessions
=============================================================================
