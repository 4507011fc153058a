------------------------------ MODULE Payment -------------------------------
(***************************************************************************)
(* What disbursement promises about the money of each settlement leg,      *)
(* whatever is lost, repeated or restarted on the way: an instruction goes *)
(* to the provider at most once, so the money moves at most once.          *)
(***************************************************************************)

CONSTANT Legs

VARIABLE money   \* per leg: held, underway at the provider, paid, or spent
                 \* without paying ("void")

TypeOK == money \in [Legs -> {"held", "underway", "paid", "void"}]

Init == money = [l \in Legs |-> "held"]

Move(l, from, to) == money[l] = from /\ money' = [money EXCEPT ![l] = to]

Submit(l) == Move(l, "held", "underway")
Pay(l)    == Move(l, "underway", "paid")
Void(l)   == Move(l, "underway", "void")

Next == \E l \in Legs : Submit(l) \/ Pay(l) \/ Void(l)

Spec == Init /\ [][Next]_money

=============================================================================
