------------------------------ MODULE MCFunding ------------------------------
(* Instances of Funding for TLC: the constants are given in the .cfg files. *)
EXTENDS Funding, TLC

=============================================================================
