------------------------------ MODULE MCStartup ------------------------------
(***************************************************************************)
(* Two windows: one that imports and one that starts meanwhile or later.   *)
(***************************************************************************)
EXTENDS Startup

CONSTANTS w1, w2
=============================================================================
