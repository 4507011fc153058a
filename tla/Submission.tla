----------------------------- MODULE Submission -----------------------------
(***************************************************************************)
(* What one call of the gateway client promises about a request that must  *)
(* not be repeated: it takes effect at most once, and the answer is true.  *)
(* An ambiguous answer leaves it open, and a late effect is still possible *)
(* after it; any other answer is final.                                    *)
(***************************************************************************)

CONSTANT Calls

VARIABLES
    effect,   \* per call: whether the provider carried the request out
    answer    \* per call: what its caller was told, "none" while it waits

vars == <<effect, answer>>

Answers == {"ok", "rejected", "not_submitted", "ambiguous"}

Init ==
    /\ effect = [c \in Calls |-> FALSE]
    /\ answer = [c \in Calls |-> "none"]

CarryOut(c) ==
    /\ ~effect[c] /\ answer[c] \in {"none", "ambiguous"}
    /\ effect' = [effect EXCEPT ![c] = TRUE]
    /\ UNCHANGED answer

Tell(c, a) ==
    /\ answer[c] = "none"
    /\ a = "ok" => effect[c]
    /\ a \in {"rejected", "not_submitted"} => ~effect[c]
    /\ answer' = [answer EXCEPT ![c] = a]
    /\ UNCHANGED effect

Next == \E c \in Calls : CarryOut(c) \/ \E a \in Answers : Tell(c, a)

Spec == Init /\ [][Next]_vars

=============================================================================
