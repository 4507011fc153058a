-------------------------- MODULE AcceptanceProofs --------------------------
(***************************************************************************)
(* Theorems of module Acceptance, for all drafts, any number of accounts   *)
(* and of requests in progress: type correctness, the rules of the seats,  *)
(* the log, what a claimed vendor's seat fixes, and the refinement of      *)
(* module Agreement.                                                       *)
(***************************************************************************)
EXTENDS Acceptance, TLAPS

\* One transaction or one answer.
Step(h) ==
    \/ \E u \in Users \cup {Nobody}, r \in Roles : Begin(h, u, r)
    \/ Claim(h) \/ Convert(h) \/ Accept(h) \/ Cancel(h) \/ GiveUp(h)

LEMMA NextIsStep == Next <=> \E h \in Handlers : Step(h)
BY DEF Next, Step

\* The split of a price into two positive parts is well typed.
LEMMA SplitTyped ==
    ASSUME terms \in Terms, NEW a \in Allocations
    PROVE  Split(a) \in Terms /\ a \in Nat /\ a > 0 /\ terms.amount - a > 0
<1>1. terms.amount \in Nat /\ a \in Nat /\ a > 0 /\ terms.amount - a > 0
      /\ terms.amount - a \in Nat
  BY DEF Allocations, Terms
<1> QED BY <1>1 DEF Split, Terms

\* A logged row is well typed.
LEMMA LogTyped ==
    ASSUME version \in Nat, events \in Seq({"DRAFT", "CREATED", "CANCELLED"}),
           NEW to \in {"DRAFT", "CREATED", "CANCELLED"}, LogRow(to)
    PROVE  version' \in Nat /\ events' \in Seq({"DRAFT", "CREATED", "CANCELLED"})
BY DEF LogRow

\* The row and its seats keep their types (Store.Claim, ConvertToBrokered, Accept, Cancel).
THEOREM TypeCorrect == Spec => []TypeOK
<1>1. Init => TypeOK
  BY AcceptanceAssumption DEF Init, TypeOK, Requests, NoRequest, Roles
<1>2. ASSUME TypeOK, NEW h \in Handlers, Step(h)
      PROVE  TypeOK'
  <2> USE <1>2 DEF TypeOK
  <2>0. NoRequest \in Requests
    BY DEF NoRequest, Requests, Roles
  <2>1. ASSUME NEW u \in Users \cup {Nobody}, NEW r \in Roles, Begin(h, u, r)
        PROVE  TypeOK'
    <3>1. PICK op \in {"claim", "convert", "accept", "cancel"} :
              req' = [req EXCEPT ![h] = [op |-> op, user |-> u, role |-> r]]
      BY <2>1 DEF Begin
    <3>2. req' \in [Handlers -> Requests]
      BY <3>1 DEF Requests
    <3> QED BY <2>1, <3>2 DEF Begin, row, seats
  <2>2. ASSUME Claim(h) PROVE TypeOK'
    <3>1. req' \in [Handlers -> Requests]
      BY <2>0, <2>2 DEF Claim, Commits
    <3>2. holder' \in [Roles -> Users \cup {Nobody}]
      BY <2>2 DEF Claim, Requests
    <3> QED BY <2>2, <3>1, <3>2 DEF Claim, row
  <2>3. ASSUME Convert(h) PROVE TypeOK'
    <3>1. req' \in [Handlers -> Requests]
      BY <2>0, <2>3 DEF Convert, Commits
    <3>2. terms' \in Terms
      BY <2>3, SplitTyped DEF Convert
    <3>3. /\ holder' \in [Roles -> Users \cup {Nobody}]
          /\ accepted' \in [Roles -> BOOLEAN] /\ creator' \in Roles
      BY <2>3 DEF Convert, SeatBroker, Requests, Roles
    <3> QED BY <2>3, <3>1, <3>2, <3>3, LogTyped DEF Convert
  <2>4. ASSUME Accept(h) PROVE TypeOK'
    <3>1. req' \in [Handlers -> Requests] /\ accepted' \in [Roles -> BOOLEAN]
      BY <2>0, <2>4 DEF Accept, Commits, Requests
    <3>2. /\ state' \in {"DRAFT", "CREATED", "CANCELLED"}
          /\ version' \in Nat /\ events' \in Seq({"DRAFT", "CREATED", "CANCELLED"})
      BY <2>4, LogTyped DEF Accept
    <3> QED BY <2>4, <3>1, <3>2 DEF Accept
  <2>5. ASSUME Cancel(h) PROVE TypeOK'
    <3>1. req' \in [Handlers -> Requests]
      BY <2>0, <2>5 DEF Cancel, Commits
    <3> QED BY <2>5, <3>1, LogTyped DEF Cancel, seats
  <2>6. ASSUME GiveUp(h) PROVE TypeOK'
    <3>1. req' \in [Handlers -> Requests]
      BY <2>0, <2>6 DEF GiveUp
    <3> QED BY <2>6, <3>1 DEF GiveUp, row, seats
  <2> QED BY <2>1, <2>2, <2>3, <2>4, <2>5, <2>6 DEF Step
<1>3. TypeOK /\ [Next]_vars => TypeOK'
  <2>1. CASE UNCHANGED vars
    BY <2>1 DEF TypeOK, vars, row, seats
  <2> QED BY <1>2, <2>1, NextIsStep
<1> QED BY <1>1, <1>3, PTL DEF Spec

-----------------------------------------------------------------------------
(* The rules of the seats. *)

LEMMA RulesInit == Init => SeatRules
<1> SUFFICES ASSUME Init PROVE SeatRules
  OBVIOUS
<1> USE DEF Init
<1>1. PICK u \in Users : holder = [r \in Roles |-> IF r = creator THEN u ELSE Nobody]
  OBVIOUS
<1>2. u # Nobody
  BY AcceptanceAssumption
<1>3. OneSeatEach
  BY <1>1 DEF OneSeatEach
<1>4. creator \in Participants /\ (terms.structure = "brokered" => creator = "broker")
      /\ creator \in Roles
  BY AcceptanceAssumption DEF WellFormed, Participants, Roles, Terms
<1>5. \E r \in Participants : ~accepted[r]
  BY <1>4 DEF Participants, Roles
<1>6. DraftsCanComplete
  BY <1>1, <1>2, <1>4, <1>5 DEF DraftsCanComplete
<1>7. BuyerAcceptsLast
  BY <1>4 DEF BuyerAcceptsLast, Roles
<1>8. Seating
  BY <1>1, <1>4 DEF Seating, NoRequest, Roles
<1> QED BY <1>3, <1>6, <1>7, <1>8 DEF SeatRules

\* A request that is let in, or answered, leaves the rules alone.
LEMMA RulesRequest ==
    ASSUME TypeOK, SeatRules, UNCHANGED <<row, seats>>,
           \A h \in Handlers :
              /\ req'[h].op # "none" => req'[h].role \in Participants
              /\ req'[h].op \in {"claim", "convert"} => req'[h].user \in Users
    PROVE  SeatRules'
BY DEF SeatRules, OneSeatEach, DraftsCanComplete, BuyerAcceptsLast, Seating, WellFormed,
       Participants, row, seats

\* A transaction frees its handler and can only add participants.
LEMMA RequestsKept ==
    ASSUME TypeOK, Seating, NEW h \in Handlers, req' = [req EXCEPT ![h] = NoRequest],
           Participants \subseteq Participants'
    PROVE  \A k \in Handlers :
              /\ req'[k].op # "none" => req'[k].role \in Participants'
              /\ req'[k].op \in {"claim", "convert"} => req'[k].user \in Users
BY DEF TypeOK, Seating, NoRequest

LEMMA RulesStep == ASSUME TypeOK, SeatRules, NEW h \in Handlers, Step(h) PROVE SeatRules'
<1> USE DEF SeatRules
<1>0. /\ \A r \in Roles : holder[r] \in Users \cup {Nobody}
      /\ req[h].role \in Roles
  BY DEF TypeOK, Requests
<1>1. ASSUME NEW u \in Users \cup {Nobody}, NEW r \in Roles, Begin(h, u, r)
      PROVE  SeatRules'
  <2>1. PICK op \in {"claim", "convert", "accept", "cancel"} :
            /\ op = "claim" => InvitedTo(u, r)
            /\ op = "convert" => InvitedTo(u, r) /\ r = "vendor"
            /\ op \in {"accept", "cancel"} => SpeaksFor(u, r)
            /\ req' = [req EXCEPT ![h] = [op |-> op, user |-> u, role |-> r]]
    BY <1>1 DEF Begin
  <2>2. r \in Participants /\ (op \in {"claim", "convert"} => u \in Users)
    BY <2>1 DEF InvitedTo, SpeaksFor
  <2>3. \A k \in Handlers :
            /\ req'[k].op # "none" => req'[k].role \in Participants
            /\ req'[k].op \in {"claim", "convert"} => req'[k].user \in Users
    BY <2>1, <2>2 DEF Seating, TypeOK
  <2> QED BY <1>1, <2>3, RulesRequest DEF Begin
<1>2. ASSUME GiveUp(h) PROVE SeatRules'
  <2>1. \A k \in Handlers :
            /\ req'[k].op # "none" => req'[k].role \in Participants
            /\ req'[k].op \in {"claim", "convert"} => req'[k].user \in Users
    BY <1>2 DEF GiveUp, NoRequest, Seating, TypeOK
  <2> QED BY <1>2, <2>1, RulesRequest DEF GiveUp
<1>3. ASSUME Claim(h) PROVE SeatRules'
  <2> DEFINE u == req[h].user
             r == req[h].role
  <2>1. /\ holder' = [holder EXCEPT ![r] = u]
        /\ UNCHANGED <<terms, creator, state, version, events, accepted>>
        /\ req' = [req EXCEPT ![h] = NoRequest]
        /\ req[h].op = "claim"
    BY <1>3 DEF Claim, Commits, row
  <2>2. u \in Users /\ u # Nobody /\ r \in Participants
    BY <2>1, AcceptanceAssumption DEF Seating
  <2>3. holder[r] = u \/ (holder[r] = Nobody /\ u \notin Seated)
    BY <1>3 DEF Claim, MayClaim
  <2>4. \A s \in Roles : holder'[s] = IF s = r THEN u ELSE holder[s]
    BY <2>1 DEF TypeOK
  <2>5. \A s \in Roles \ {r} : holder[s] # u
    BY <2>2, <2>3, <1>0 DEF Seated, OneSeatEach
  <2>6. OneSeatEach'
    BY <2>4, <2>5, <1>0 DEF OneSeatEach
  <2>7. Participants' = Participants /\ WellFormed' = WellFormed
    BY <2>1 DEF Participants, WellFormed
  <2>8. DraftsCanComplete'
    BY <2>1, <2>2, <2>4, <2>7 DEF DraftsCanComplete
  <2>9. BuyerAcceptsLast'
    BY <2>1 DEF BuyerAcceptsLast
  <2>10. Seating'
    <3>1. \A s \in Roles : holder'[s] # Nobody => s \in Participants'
      BY <2>2, <2>4, <2>7 DEF Seating
    <3> QED BY <2>1, <2>7, <3>1, RequestsKept DEF Seating
  <2> QED BY <2>6, <2>8, <2>9, <2>10
<1>4. ASSUME Convert(h) PROVE SeatRules'
  <2> DEFINE u == req[h].user
  <2>1. /\ req[h].op = "convert" /\ state = "DRAFT" /\ state' = "DRAFT"
        /\ req' = [req EXCEPT ![h] = NoRequest]
        /\ terms.structure = "p2p" /\ creator = "buyer"
        /\ holder["vendor"] = Nobody /\ u \notin Seated
        /\ holder' = [holder EXCEPT !["broker"] = u]
        /\ accepted' = [accepted EXCEPT !["broker"] = TRUE]
        /\ creator' = "broker"
        /\ events' = Append(events, "DRAFT")
    BY <1>4 DEF Convert, Commits, MayConvert, SeatBroker, LogRow
  <2>2. PICK a \in Allocations : terms' = Split(a)
    BY <1>4 DEF Convert
  <2>3. a \in Nat /\ a > 0 /\ terms.amount - a \in Nat
    BY <2>2, SplitTyped DEF TypeOK, Split, Terms
  <2>4. /\ terms'.structure = "brokered" /\ terms'.amount = a
        /\ terms'.inspection = terms.inspection /\ terms'.mode = terms.mode
        /\ terms'.delivery = terms.delivery /\ terms'.ttl = terms.ttl
    BY <2>2 DEF Split, TypeOK, Terms
  <2>5. Participants' = Roles /\ Participants = {"buyer", "vendor"}
    BY <2>1, <2>4 DEF Participants
  <2>6. WellFormed'
    BY <2>1, <2>3, <2>4 DEF WellFormed, ValidTerms, DraftsCanComplete
  <2>7. u \in Users /\ u # Nobody
    BY <2>1, AcceptanceAssumption DEF Seating
  <2>8. /\ \A s \in Roles : holder'[s] = IF s = "broker" THEN u ELSE holder[s]
        /\ \A s \in Roles : accepted'[s] = IF s = "broker" THEN TRUE ELSE accepted[s]
    BY <2>1 DEF TypeOK
  <2>9. OneSeatEach'
    BY <2>1, <2>7, <2>8, <1>0 DEF OneSeatEach, Seated
  <2>10. ~accepted["vendor"]
    BY <2>1 DEF DraftsCanComplete, Roles
  <2>11. DraftsCanComplete'
    BY <2>5, <2>6, <2>7, <2>8, <2>10 DEF DraftsCanComplete, Roles
  <2>12. BuyerAcceptsLast'
    <3>1. Len(events) + 1 \in DOMAIN events' /\ events'[Len(events) + 1] = "DRAFT"
      BY <2>1 DEF TypeOK
    <3> QED BY <3>1 DEF BuyerAcceptsLast
  <2>13. Seating'
    <3>1. \A s \in Roles : holder'[s] # Nobody => s \in Participants'
      BY <2>5
    <3>2. accepted'["broker"]
      BY <2>8 DEF Roles
    <3>3. Participants \subseteq Participants'
      BY <2>5 DEF Roles
    <3> QED BY <2>1, <3>1, <3>2, <3>3, RequestsKept DEF Seating
  <2> QED BY <2>9, <2>11, <2>12, <2>13
<1>5. ASSUME Accept(h) PROVE SeatRules'
  <2> DEFINE r == req[h].role
             waiting == {p \in Participants \ {r} : ~accepted[p]}
  <2>1. /\ req[h].op = "accept" /\ state = "DRAFT"
        /\ req' = [req EXCEPT ![h] = NoRequest]
        /\ MayAccept(r)
        /\ accepted' = [accepted EXCEPT ![r] = TRUE]
        /\ UNCHANGED <<terms, creator, holder>>
    BY <1>5 DEF Accept, Commits
  <2>2. \/ waiting # {} /\ UNCHANGED <<state, version, events>>
        \/ waiting = {} /\ state' = "CREATED"
    BY <1>5 DEF Accept
  <2>3. r \in Participants /\ r \in Roles /\ holder[r] # Nobody
    BY <2>1, <1>0 DEF Seating, MayAccept
  <2>4. \A s \in Roles : accepted'[s] = IF s = r THEN TRUE ELSE accepted[s]
    BY <2>1 DEF TypeOK
  <2>5. Participants' = Participants /\ (WellFormed' <=> WellFormed)
    BY <2>1 DEF Participants, WellFormed
  <2>6. Participants \subseteq Roles
    BY DEF Participants, Roles
  <2>7. OneSeatEach'
    BY <2>1 DEF OneSeatEach
  <2>8. DraftsCanComplete'
    <3>1. state' = "DRAFT" => \E p \in Participants' : ~accepted'[p]
      BY <2>2, <2>4, <2>5, <2>6
    <3>2. \A s \in Roles : accepted'[s] => s \in Participants' /\ holder'[s] # Nobody
      BY <2>1, <2>3, <2>4, <2>5 DEF DraftsCanComplete
    <3> QED BY <2>5, <3>1, <3>2 DEF DraftsCanComplete
  <2>9. BuyerAcceptsLast'
    <3>1. CASE r # "buyer" \/ terms.structure # "brokered" \/ state' # "DRAFT"
      BY <3>1, <2>1, <2>2, <2>4 DEF BuyerAcceptsLast, Roles
    <3>2. CASE r = "buyer" /\ terms.structure = "brokered"
      <4>1. accepted["vendor"] /\ accepted["broker"]
        BY <3>2, <2>1 DEF MayAccept, Seating
      <4>2. waiting = {}
        BY <3>2, <4>1, <2>6 DEF Roles
      <4> QED BY <2>2, <4>2 DEF BuyerAcceptsLast
    <3> QED BY <3>1, <3>2
  <2>10. Seating'
    <3>1. terms'.structure = "brokered" => accepted'["broker"]
      BY <2>1, <2>4 DEF Seating, Roles
    <3>2. \A s \in Roles : holder'[s] # Nobody => s \in Participants'
      BY <2>1, <2>5 DEF Seating
    <3> QED BY <2>1, <2>5, <3>1, <3>2, RequestsKept DEF Seating
  <2> QED BY <2>7, <2>8, <2>9, <2>10
<1>6. ASSUME Cancel(h) PROVE SeatRules'
  <2>1. /\ UNCHANGED <<terms, creator, holder, accepted>> /\ state' = "CANCELLED"
        /\ req' = [req EXCEPT ![h] = NoRequest]
    BY <1>6 DEF Cancel, Commits, seats
  <2>2. Participants' = Participants /\ (WellFormed' <=> WellFormed)
    BY <2>1 DEF Participants, WellFormed
  <2>3. OneSeatEach' /\ DraftsCanComplete' /\ BuyerAcceptsLast'
    BY <2>1, <2>2 DEF OneSeatEach, DraftsCanComplete, BuyerAcceptsLast
  <2>4. Seating'
    BY <2>1, <2>2, RequestsKept DEF Seating
  <2> QED BY <2>3, <2>4
<1> QED BY <1>1, <1>2, <1>3, <1>4, <1>5, <1>6 DEF Step

\* The seats, the acceptances and the requests in progress always fit together:
\* no account is on two sides, no draft is stuck, no brokered buyer is first.
THEOREM SeatRulesHold == Spec => []SeatRules
<1>1. TypeOK /\ SeatRules /\ [Next]_vars => SeatRules'
  <2> SUFFICES ASSUME TypeOK, SeatRules, [Next]_vars PROVE SeatRules'
    OBVIOUS
  <2>1. CASE UNCHANGED vars
    <3>1. /\ UNCHANGED <<row, seats>> /\ req' = req
      BY <2>1 DEF vars, row, seats
    <3> QED BY <3>1, RulesRequest DEF SeatRules, Seating
  <2>2. CASE Next
    BY <2>2, RulesStep, NextIsStep
  <2> QED BY <2>1, <2>2
<1> QED BY <1>1, RulesInit, TypeCorrect, PTL DEF Spec

\* claimParticipantTx: no account is on two sides of one deal.
THEOREM OneSeat == Spec => []OneSeatEach
<1>1. SeatRules => OneSeatEach
  BY DEF SeatRules
<1> QED BY <1>1, SeatRulesHold, PTL

\* Store.Accept: every draft can be completed, and pocket.New never refuses it.
THEOREM NoDraftIsStuck == Spec => []DraftsCanComplete
<1>1. SeatRules => DraftsCanComplete
  BY DEF SeatRules
<1> QED BY <1>1, SeatRulesHold, PTL

\* Store.Accept, ErrAwaitingVendor: a brokered buyer is bound last.
THEOREM VendorFirst == Spec => []BuyerAcceptsLast
<1>1. SeatRules => BuyerAcceptsLast
  BY DEF SeatRules
<1> QED BY <1>1, SeatRulesHold, PTL

\* What Lifecycle assumes of the terms it starts from (LifecycleAssumption).
THEOREM AgreedTermsAreValid == Spec => [](state = "CREATED" => terms \in Terms /\ ValidTerms(terms))
<1>1. TypeOK /\ SeatRules => (state = "CREATED" => terms \in Terms /\ ValidTerms(terms))
  BY DEF TypeOK, SeatRules, DraftsCanComplete, WellFormed
<1> QED BY <1>1, TypeCorrect, SeatRulesHold, PTL

\* One audit row per version of the row, and the last tells the state.
THEOREM LogIsFaithful == Spec => []LogFollowsRow
<1>1. Init => LogFollowsRow
  BY DEF Init, LogFollowsRow
<1>2. ASSUME TypeOK, LogFollowsRow, NEW to \in {"DRAFT", "CREATED", "CANCELLED"}, LogRow(to),
             state' = to
      PROVE  LogFollowsRow'
  <2>1. events' = Append(events, to) /\ version' = version + 1
    BY <1>2 DEF LogRow
  <2>2. Len(events') = version' /\ events'[Len(events')] = to /\ events' # <<>>
    BY <1>2, <2>1 DEF TypeOK, LogFollowsRow
  <2> QED BY <1>2, <2>2 DEF LogFollowsRow
<1>3. TypeOK /\ LogFollowsRow /\ [Next]_vars => LogFollowsRow'
  <2> SUFFICES ASSUME TypeOK, LogFollowsRow, [Next]_vars PROVE LogFollowsRow'
    OBVIOUS
  <2>1. CASE UNCHANGED <<state, version, events>>
    BY <2>1 DEF LogFollowsRow
  <2>2. CASE \E h \in Handlers : Convert(h) \/ Accept(h) \/ Cancel(h)
    BY <2>1, <2>2, <1>2 DEF Convert, Accept, Cancel, Commits
  <2> QED BY <2>1, <2>2 DEF Next, Begin, Claim, GiveUp, vars, row
<1> QED BY <1>1, <1>3, TypeCorrect, PTL DEF Spec

-----------------------------------------------------------------------------
(* What no step may do. *)

\* ConvertToBrokered: a claimed vendor's seat fixes the terms.
THEOREM ClaimFreezes == Spec => ClaimFreezesTerms
<1>1. [Next]_vars => (holder["vendor"] # Nobody => UNCHANGED <<terms, creator>>)
  BY DEF Next, Begin, Claim, Convert, MayConvert, Accept, Cancel, GiveUp, vars, row
<1>2. [Next]_vars => [holder["vendor"] # Nobody => UNCHANGED <<terms, creator>>]_vars
  BY <1>1
<1> QED BY <1>2, PTL DEF Spec, ClaimFreezesTerms

\* claimParticipantTx and ConvertToBrokered: a seat once taken is kept.
THEOREM SeatsAreKept == Spec => HoldersKeepSeats
<1>1. ASSUME TypeOK, SeatRules, [Next]_vars, NEW r \in Roles, holder[r] # Nobody
      PROVE  holder'[r] = holder[r]
  <2>1. CASE UNCHANGED holder
    BY <2>1
  <2>2. ASSUME NEW h \in Handlers, Claim(h) PROVE holder'[r] = holder[r]
    <3>1. /\ holder' = [holder EXCEPT ![req[h].role] = req[h].user]
          /\ holder[req[h].role] \in {Nobody, req[h].user}
      BY <2>2 DEF Claim, MayClaim
    <3> QED BY <1>1, <3>1 DEF TypeOK
  <2>3. ASSUME NEW h \in Handlers, Convert(h) PROVE holder'[r] = holder[r]
    <3>1. r # "broker"
      BY <1>1, <2>3 DEF Convert, MayConvert, SeatRules, Seating, Participants
    <3>2. holder' = [holder EXCEPT !["broker"] = req[h].user]
      BY <2>3 DEF Convert, SeatBroker
    <3> QED BY <1>1, <3>1, <3>2 DEF TypeOK
  <2> QED
    BY <1>1, <2>1, <2>2, <2>3 DEF Next, Begin, Accept, Cancel, GiveUp, vars, seats
<1>2. TypeOK /\ SeatRules /\ [Next]_vars
        => [\A r \in Roles : holder[r] # Nobody => holder'[r] = holder[r]]_vars
  BY <1>1
<1> QED BY <1>2, TypeCorrect, SeatRulesHold, PTL DEF Spec, HoldersKeepSeats

\* A claim keeps its seat, and the vendor's claim the terms.
THEOREM ClaimsKept == Spec => ClaimsAreKept
BY ClaimFreezes, SeatsAreKept DEF ClaimsAreKept

-----------------------------------------------------------------------------
(* Refinement of module Agreement. *)

Agreed == {r \in Roles : accepted[r]}

LEMMA AgreementInit == Init => A!Init
<1> SUFFICES ASSUME Init PROVE A!Init
  OBVIOUS
<1> USE DEF Init
<1>1. terms \in Terms /\ terms.amount \in Nat /\ terms.commission \in Nat /\ terms.premium \in Nat
  BY AcceptanceAssumption DEF Terms
<1>2. SharesBar \in [Roles -> Nat]
  BY <1>1 DEF SharesBar, BuyerTotal, Roles
<1>3. SharesBar["vendor"] + SharesBar["broker"] <= SharesBar["buyer"]
  BY <1>1 DEF SharesBar, BuyerTotal, Roles
<1>4. creator \in Participants /\ Agreed = {creator}
  BY DEF WellFormed, Participants, Roles, Agreed
<1> QED BY <1>2, <1>3, <1>4 DEF A!Init, A!Roles, Roles, Participants, StatusBar, Agreed

LEMMA AgreementStep ==
    ASSUME TypeOK, SeatRules, [Next]_vars
    PROVE  [A!Next]_(A!vars)
<1> USE DEF SeatRules
<1>1. CASE UNCHANGED <<row, accepted>>
  BY <1>1 DEF A!vars, row, Participants, SharesBar, StatusBar, BuyerTotal
<1>2. ASSUME NEW h \in Handlers, Accept(h) PROVE A!Next
  <2> DEFINE r == req[h].role
             waiting == {p \in Participants \ {r} : ~accepted[p]}
  <2>1. /\ state = "DRAFT" /\ req[h].op = "accept" /\ ~accepted[r]
        /\ accepted' = [accepted EXCEPT ![r] = TRUE]
        /\ UNCHANGED <<terms, creator, holder>>
    BY <1>2 DEF Accept, Commits, MayAccept
  <2>2. r \in Participants /\ Participants \subseteq Roles /\ Participants' = Participants
    BY <2>1 DEF Seating, Participants, Roles
  <2>3. Agreed' = Agreed \cup {r} /\ r \notin Agreed
    BY <2>1, <2>2 DEF Agreed, TypeOK
  <2>4. Agreed \subseteq Participants
    BY DEF Agreed, DraftsCanComplete
  <2>5. /\ waiting # {} => StatusBar' = "open"
        /\ waiting = {} => StatusBar' = "sealed"
    BY <1>2, <2>1 DEF Accept, StatusBar
  <2>6. waiting = {} <=> Agreed' = Participants
    BY <2>2, <2>3, <2>4 DEF Agreed
  <2>7. A!Consent(r)
    BY <2>1, <2>2, <2>3, <2>5, <2>6 DEF A!Consent, Agreed, StatusBar, SharesBar, BuyerTotal
  <2> QED BY <2>2, <2>7 DEF A!Next, A!Consent
<1>3. ASSUME NEW h \in Handlers, Convert(h) PROVE A!Next
  <2>1. PICK a \in Allocations : terms' = Split(a)
    BY <1>3 DEF Convert
  <2> DEFINE c == terms.amount - a
  <2>2. /\ state = "DRAFT" /\ UNCHANGED state
        /\ terms.structure = "p2p" /\ terms'.structure = "brokered"
        /\ holder["vendor"] = Nobody
        /\ accepted' = [accepted EXCEPT !["broker"] = TRUE]
    BY <1>3, <2>1 DEF Convert, Commits, MayConvert, SeatBroker, Split, TypeOK, Terms
  <2>3. /\ terms.amount \in Nat /\ terms.premium \in Nat /\ terms.commission = 0
        /\ a \in Nat /\ c \in Nat /\ c > 0 /\ c < terms.amount
    BY <2>2 DEF TypeOK, Terms, Allocations, DraftsCanComplete, WellFormed, ValidTerms
  <2>4. terms'.amount = a /\ terms'.commission = c /\ terms'.premium = terms.premium
    BY <2>1 DEF Split, TypeOK, Terms
  <2>5. SharesBar' = [SharesBar EXCEPT !["vendor"] = @ - c, !["broker"] = c]
    <3>1. BuyerTotal(terms') = BuyerTotal(terms)
      BY <2>3, <2>4 DEF BuyerTotal
    <3>2. terms.amount - c = a
      BY <2>3
    <3>3. \A s \in Roles :
              SharesBar'[s] = IF s = "vendor" THEN SharesBar["vendor"] - c
                              ELSE IF s = "broker" THEN c ELSE SharesBar[s]
      BY <2>4, <3>1, <3>2 DEF SharesBar, Roles
    <3>4. /\ DOMAIN SharesBar = Roles /\ DOMAIN SharesBar' = Roles
          /\ SharesBar = [s \in Roles |-> SharesBar[s]]
          /\ SharesBar' = [s \in Roles |-> SharesBar'[s]]
      BY DEF SharesBar
    <3> QED BY <3>3, <3>4
  <2>6. Participants = {"buyer", "vendor"} /\ Participants' = Participants \cup {"broker"}
    BY <2>2 DEF Participants, Roles
  <2>7. Agreed' = Agreed \cup {"broker"} /\ "vendor" \notin Agreed
    BY <2>2 DEF Agreed, TypeOK, DraftsCanComplete, Roles
  <2>8. A!Introduce(c)
    BY <2>2, <2>3, <2>5, <2>6, <2>7 DEF A!Introduce, Agreed, StatusBar, SharesBar, Roles
  <2>9. c \in 1 .. SharesBar["vendor"]
    BY <2>3 DEF SharesBar, Roles
  <2> QED BY <2>8, <2>9 DEF A!Next, A!Introduce
<1>4. ASSUME NEW h \in Handlers, Cancel(h) PROVE A!Next
  <2>1. state = "DRAFT" /\ state' = "CANCELLED" /\ UNCHANGED <<terms, creator, accepted>>
    BY <1>4 DEF Cancel, Commits, seats
  <2>2. A!CallOff
    BY <2>1 DEF A!CallOff, StatusBar, Participants, SharesBar, BuyerTotal
  <2> QED BY <2>2 DEF A!Next
<1> QED
  BY <1>1, <1>2, <1>3, <1>4 DEF Next, Begin, Claim, GiveUp, vars, row, seats

\* Acceptance implements module Agreement: a deal is sealed once, when an
\* acceptance is on record for every seat, at the buyer's price, and no share
\* with one on record ever changes.
THEOREM ImplementsAgreement == Spec => AgreementSpec
<1>1. TypeOK /\ SeatRules /\ [Next]_vars => [A!Next]_(A!vars)
  BY AgreementStep
<1> QED
  BY <1>1, AgreementInit, TypeCorrect, SeatRulesHold, PTL DEF Spec, AgreementSpec, A!Spec

-----------------------------------------------------------------------------
(* What an agreement promises, whatever implements it.                      *)

\* Nobody is promised more than the buyer pays, and a deal is sealed exactly
\* when a consent is on record for every party.
SoundDeal ==
    /\ A!TypeOK /\ {"buyer", "vendor"} \subseteq Participants
    /\ SharesBar["vendor"] + SharesBar["broker"] <= SharesBar["buyer"]
    /\ StatusBar = "sealed" <=> Agreed = Participants

\* The buyer's price is fixed, and so is every share with a consent on record;
\* consents and seats are not taken back, and a decided deal is left alone.
DealMoves ==
    /\ SharesBar'["buyer"] = SharesBar["buyer"]
    /\ \A r \in Agreed : SharesBar'[r] = SharesBar[r]
    /\ Agreed \subseteq Agreed' /\ Participants \subseteq Participants'
    /\ StatusBar \in {"sealed", "off"} => UNCHANGED A!vars

DealIsKept == [][DealMoves]_(A!vars)

\* A deal starts with one party's consent, out of two or three.
LEMMA DealInit == A!Init => SoundDeal
<1> SUFFICES ASSUME A!Init PROVE SoundDeal
    OBVIOUS
<1>1. PICK proposer \in Participants : Agreed = {proposer}
  BY DEF A!Init, Agreed
<1>2. A!TypeOK BY <1>1 DEF A!Init, A!TypeOK, A!Roles, Agreed
<1>3. {"buyer", "vendor"} \subseteq Participants /\ Agreed # Participants /\ StatusBar # "sealed"
  <2>1. "buyer" \in Participants /\ "vendor" \in Participants BY DEF A!Init, A!Roles
  <2> QED BY <1>1, <2>1 DEF A!Init
<1>4. SharesBar["vendor"] + SharesBar["broker"] <= SharesBar["buyer"] BY DEF A!Init
<1> QED BY <1>2, <1>3, <1>4 DEF SoundDeal

\* A step of an agreement keeps it sound and takes nothing back.
LEMMA DealStep == SoundDeal /\ [A!Next]_(A!vars) => SoundDeal' /\ [DealMoves]_(A!vars)
<1> SUFFICES ASSUME SoundDeal, [A!Next]_(A!vars) PROVE SoundDeal' /\ [DealMoves]_(A!vars)
    OBVIOUS
<1> USE DEF SoundDeal, A!TypeOK, A!Roles
<1>1. CASE UNCHANGED A!vars
  BY <1>1 DEF A!vars, Agreed
<1>2. ASSUME NEW r \in Participants, A!Consent(r) PROVE SoundDeal' /\ DealMoves
  BY <1>2 DEF A!Consent, DealMoves, Agreed
<1>3. ASSUME NEW c \in 1 .. SharesBar["vendor"], A!Introduce(c) PROVE SoundDeal' /\ DealMoves
  <2>1. /\ StatusBar = "open" /\ StatusBar' = "open"
        /\ "broker" \notin Participants /\ "vendor" \notin Agreed
        /\ c > 0 /\ c < SharesBar["vendor"]
        /\ Participants' = Participants \cup {"broker"} /\ Agreed' = Agreed \cup {"broker"}
        /\ SharesBar' = [SharesBar EXCEPT !["vendor"] = @ - c, !["broker"] = c]
    BY <1>3 DEF A!Introduce, Agreed
  <2>2. /\ SharesBar' \in [A!Roles -> Nat]
        /\ SharesBar'["buyer"] = SharesBar["buyer"]
        /\ SharesBar'["vendor"] = SharesBar["vendor"] - c /\ SharesBar'["broker"] = c
    <3> HIDE DEF SharesBar
    <3> QED BY <2>1
  <2>3. SharesBar["vendor"] \in Nat /\ SharesBar["broker"] \in Nat /\ SharesBar["buyer"] \in Nat
    OBVIOUS
  <2>4. SharesBar'["vendor"] + SharesBar'["broker"] <= SharesBar'["buyer"]
    BY <2>1, <2>2, <2>3
  <2>5. Agreed \subseteq Participants BY DEF Agreed
  <2>6. (Agreed \cup {"broker"}) # (Participants \cup {"broker"})
    BY <2>1
  <2>7. A!TypeOK' BY <2>1, <2>2, <2>5 DEF Agreed
  <2>8. SoundDeal' BY <2>1, <2>4, <2>6, <2>7
  <2>9. DealMoves BY <2>1, <2>2, <2>5 DEF DealMoves
  <2> QED BY <2>8, <2>9
<1>4. CASE A!CallOff
  BY <1>4 DEF A!CallOff, DealMoves, Agreed
<1> QED BY <1>1, <1>2, <1>3, <1>4 DEF A!Next

\* So what the buyer pays and a share that was accepted for a seat never
\* change, and the deal that was accepted is the deal that is sealed.
THEOREM DealHolds == Spec => []SoundDeal /\ DealIsKept
<1>1. Spec => A!Init /\ [][A!Next]_(A!vars)
  BY ImplementsAgreement DEF AgreementSpec, A!Spec
<1> QED BY <1>1, DealInit, DealStep, PTL DEF DealIsKept

=============================================================================
