----------------------------- MODULE MCAccounts -----------------------------
(***************************************************************************)
(* Two browsers, two e-mail addresses and up to three accounts: enough for *)
(* a race on one address and for an address that is freed and registered   *)
(* again while a session of its first account is still open.               *)
(***************************************************************************)
EXTENDS Accounts, TLC

CONSTANTS s1, s2, e1, e2

(* Neither browsers nor addresses are told apart. *)
Interchangeable == Permutations({s1, s2}) \cup Permutations({e1, e2})
=============================================================================
