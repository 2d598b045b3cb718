------------------------------ MODULE MCInbox ------------------------------
(***************************************************************************)
(* One user in two browsers, another who only receives, and three          *)
(* notifications: one can be read, one on its way and one new at the same  *)
(* time.  No symmetry is used, because the run checks liveness.            *)
(***************************************************************************)
EXTENDS Inbox

CONSTANTS u1, u2, b1, b2

LoggedIn == [b \in {b1, b2} |-> u1]
=============================================================================
