------------------------------- MODULE Escrow -------------------------------
(***************************************************************************)
(* What the escrow promises about one buyer's money, with no mention of    *)
(* rows, timers or handlers.  Money comes into custody at most once and    *)
(* leaves it at most once, to one side only.  It may be released to the    *)
(* vendor's side only after a delivery or a contest; after a delivery it   *)
(* may go back to the buyer only through a contest.                        *)
(***************************************************************************)

VARIABLES
    custody,   \* where the buyer's money stands
    ground     \* what has been established about the delivery

vars == <<custody, ground>>

TypeOK ==
    /\ custody \in {"none", "held", "released", "returned", "void"}
    /\ ground \in {"none", "delivered", "contested"}

Init == custody = "none" /\ ground = "none"

Fund == custody = "none" /\ custody' = "held" /\ UNCHANGED ground

\* Closed before any money came in.
Void == custody = "none" /\ custody' = "void" /\ UNCHANGED ground

Deliver == custody = "held" /\ ground = "none" /\ ground' = "delivered" /\ UNCHANGED custody

Contest ==
    /\ custody = "held" /\ ground \in {"none", "delivered"}
    /\ ground' = "contested"
    /\ UNCHANGED custody

Release ==
    /\ custody = "held" /\ ground \in {"delivered", "contested"}
    /\ custody' = "released"
    /\ UNCHANGED ground

Return ==
    /\ custody = "held" /\ ground \in {"none", "contested"}
    /\ custody' = "returned"
    /\ UNCHANGED ground

Next == Fund \/ Void \/ Deliver \/ Contest \/ Release \/ Return

Spec == Init /\ [][Next]_vars

=============================================================================
