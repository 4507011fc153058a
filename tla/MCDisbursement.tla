--------------------------- MODULE MCDisbursement ---------------------------
(* Instances of Disbursement for TLC. *)
EXTENDS Disbursement

\* Two transitions with one leg each.
OneLegEach == [l \in Legs |-> l]

\* One transition that pays a vendor and a broker.
OneBatch == [l \in Legs |-> 1]

=============================================================================
