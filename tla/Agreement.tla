----------------------------- MODULE Agreement ------------------------------
(***************************************************************************)
(* What acceptance promises about a deal: it is sealed once, when every    *)
(* party is on record as having consented; the buyer's price never         *)
(* changes, nor any share a consent is recorded for.  A middleman may come *)
(* in only while the vendor's is not, and is paid out of the vendor's      *)
(* share.  Who pressed the button is not told apart here.                  *)
(***************************************************************************)
EXTENDS Integers

VARIABLES
    parties,   \* the roles that take part
    shares,    \* what the buyer pays and what the others receive
    agreed,    \* the parties whose consent is on record
    status     \* open, sealed, or off

vars == <<parties, shares, agreed, status>>

Roles == {"buyer", "vendor", "broker"}

TypeOK ==
    /\ parties \in SUBSET Roles /\ agreed \in SUBSET parties
    /\ shares \in [Roles -> Nat]
    /\ status \in {"open", "sealed", "off"}

Init ==
    /\ parties \in {{"buyer", "vendor"}, Roles}
    /\ shares \in [Roles -> Nat]
    /\ shares["vendor"] + shares["broker"] <= shares["buyer"]
    /\ \E proposer \in parties : agreed = {proposer}
    /\ status = "open"

Consent(r) ==
    /\ status = "open" /\ r \in parties \ agreed
    /\ agreed' = agreed \cup {r}
    /\ status' = IF agreed' = parties THEN "sealed" ELSE "open"
    /\ UNCHANGED <<parties, shares>>

Introduce(commission) ==
    /\ status = "open" /\ "broker" \notin parties /\ "vendor" \notin agreed
    /\ commission > 0 /\ commission < shares["vendor"]
    /\ parties' = parties \cup {"broker"} /\ agreed' = agreed \cup {"broker"}
    /\ shares' = [shares EXCEPT !["vendor"] = @ - commission, !["broker"] = commission]
    /\ UNCHANGED status

CallOff == status = "open" /\ status' = "off" /\ UNCHANGED <<parties, shares, agreed>>

Next ==
    \/ \E r \in parties : Consent(r)
    \/ \E commission \in 1 .. shares["vendor"] : Introduce(commission)
    \/ CallOff

Spec == Init /\ [][Next]_vars

=============================================================================
