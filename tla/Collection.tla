----------------------------- MODULE Collection -----------------------------
(***************************************************************************)
(* What funding promises about the buyer's payment of each pocket: it is   *)
(* credited only once it was made in full, for good, under one receipt; a  *)
(* payment that misses its pocket is stranded and never credited.          *)
(***************************************************************************)

CONSTANTS Pockets, Receipts

VARIABLES
    money,    \* per pocket: awaited, received, credited, stranded, or refused
              \* unpaid ("closed")
    receipt   \* the provider's identity of the credited payment

vars == <<money, receipt>>

TypeOK ==
    /\ money \in [Pockets -> {"awaited", "received", "credited", "stranded", "closed"}]
    /\ receipt \in [Pockets -> Receipts \cup {"none"}]

Init ==
    /\ money = [p \in Pockets |-> "awaited"]
    /\ receipt = [p \in Pockets |-> "none"]

Move(p, from, to) ==
    /\ money[p] = from
    /\ money' = [money EXCEPT ![p] = to]
    /\ UNCHANGED receipt

Receive(p) == Move(p, "awaited", "received") \/ Move(p, "closed", "stranded")
Close(p)   == Move(p, "awaited", "closed") \/ Move(p, "received", "stranded")
Credit(p)  == Move(p, "received", "credited")

Record(p) ==
    /\ money[p] = "credited" /\ receipt[p] = "none"
    /\ \E r \in Receipts : receipt' = [receipt EXCEPT ![p] = r]
    /\ UNCHANGED money

Next == \E p \in Pockets : Receive(p) \/ Close(p) \/ Credit(p) \/ Record(p)

Spec == Init /\ [][Next]_vars

=============================================================================
