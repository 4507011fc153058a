------------------------------ MODULE MCSignIn ------------------------------
(* Instances of SignIn for TLC: the constants are given in the .cfg. *)
EXTENDS SignIn, TLC

\* Attempts, browsers and identities are interchangeable.
Symmetry == Permutations(Flows) \cup Permutations(Browsers) \cup Permutations(Subs)

=============================================================================
