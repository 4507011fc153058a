---------------------------- MODULE MCRateLimit -----------------------------
(* A small instance of RateLimit for TLC: the constants are given in the .cfg. *)
EXTENDS RateLimit
=============================================================================
