----------------------------- MODULE Acceptance -----------------------------
(***************************************************************************)
(* A draft from its creation to CREATED or CANCELLED: invited accounts     *)
(* claim seats, a middleman may convert it to brokered, every participant  *)
(* accepts, and the last acceptance constructs the pocket (store/          *)
(* executor.go, participants.go, convert.go, httpapi/public.go, auth.go).  *)
(*                                                                         *)
(* A request first resolves, from an unlocked read, the seat its session   *)
(* or its invitation speaks for; its transaction comes later and locks the *)
(* pockets row.  Invitations pass from hand to hand, so anyone may present *)
(* the current one of any seat; their hashes are left out.                 *)
(***************************************************************************)
EXTENDS Pocket, Sequences

CONSTANTS
    Drafts,     \* the terms Create may be given
    Users,      \* accounts
    Nobody,     \* a request without a session, a seat without a holder
    Handlers    \* requests in progress

ASSUME AcceptanceAssumption ==
    /\ Drafts \subseteq Terms
    /\ Nobody \notin Users

VARIABLES
    terms,      \* the terms columns of the pockets row
    creator,    \* pockets.creator_role
    state,      \* pockets.state
    version,    \* pockets.version
    events,     \* pocket_events: the state each row leads to
    holder,     \* pocket_participants.user_id, by role
    accepted,   \* accepted_at IS NOT NULL, by role
    req         \* what each handler carries into its transaction

row == <<terms, creator, state, version, events>>
seats == <<holder, accepted>>
vars == <<terms, creator, state, version, events, holder, accepted, req>>

Requests == [op : {"none", "claim", "convert", "accept", "cancel"},
             user : Users \cup {Nobody}, role : Roles]
NoRequest == [op |-> "none", user |-> Nobody, role |-> "buyer"]

\* The participant rows of the pocket.
Participants == IF terms.structure = "p2p" THEN {"buyer", "vendor"} ELSE Roles

\* Spec.validate, with the rule on the creator's role.
WellFormed ==
    /\ ValidTerms(terms)
    /\ creator \in (IF terms.structure = "p2p" THEN {"buyer", "vendor"} ELSE {"broker"})

Seated == {holder[r] : r \in Roles} \ {Nobody}

-----------------------------------------------------------------------------

\* App.Create: valid terms, the creator seated and accepted.
Init ==
    /\ terms \in Drafts /\ creator \in Roles /\ WellFormed
    /\ state = "DRAFT" /\ version = 0 /\ events = <<>>
    /\ \E u \in Users : holder = [r \in Roles |-> IF r = creator THEN u ELSE Nobody]
    /\ accepted = [r \in Roles |-> r = creator]
    /\ req = [h \in Handlers |-> NoRequest]

\* authParticipant: an account that holds a seat speaks for it; anyone else may
\* speak for an unclaimed seat with its invitation.
SpeaksFor(u, r) ==
    r \in Participants /\ holder[r] = (IF u \in Seated THEN u ELSE Nobody)

\* inviteRole: an unclaimed seat, or one's own.
InvitedTo(u, r) == r \in Participants /\ u \in Users /\ holder[r] \in {Nobody, u}

\* A handler resolves the caller's seat.
Begin(h, u, r) ==
    /\ req[h].op = "none"
    /\ \E op \in {"claim", "convert", "accept", "cancel"} :
          /\ op = "claim" => InvitedTo(u, r)
          /\ op = "convert" => InvitedTo(u, r) /\ r = "vendor"
          /\ op \in {"accept", "cancel"} => SpeaksFor(u, r)
          /\ req' = [req EXCEPT ![h] = [op |-> op, user |-> u, role |-> r]]
    /\ UNCHANGED <<row, seats>>

\* Its transaction, if it is of this kind and finds a draft; the answer ends it.
Commits(h, op) ==
    /\ req[h].op = op /\ state = "DRAFT"
    /\ req' = [req EXCEPT ![h] = NoRequest]

\* Its transaction is refused or fails, or the process dies before it.
GiveUp(h) ==
    /\ req[h].op # "none"
    /\ req' = [req EXCEPT ![h] = NoRequest]
    /\ UNCHANGED <<row, seats>>

\* A row of pocket_events and the version that goes with it.
LogRow(to) == version' = version + 1 /\ events' = Append(events, to)

-----------------------------------------------------------------------------

\* Bug: an account may take a second seat.
MayClaimTwice(u, r) == holder[r] \in {Nobody, u}

\* claimParticipantTx: one's own seat, or a free one if one has none.
MayClaim(u, r) ==
    /\ holder[r] \in {Nobody, u}
    /\ holder[r] = u \/ u \notin Seated

Claim(h) ==
    LET me == req[h] IN
    /\ Commits(h, "claim")
    /\ MayClaim(me.user, me.role)
    /\ holder' = [holder EXCEPT ![me.role] = me.user]
    /\ UNCHANGED <<row, accepted>>

\* Bug: the vendor's seat may be taken already.
MayConvertClaimed(u) ==
    terms.structure = "p2p" /\ creator = "buyer" /\ u \notin Seated

\* A p2p draft of the buyer whose vendor's seat is free, and a caller without one.
MayConvert(u) ==
    /\ terms.structure = "p2p" /\ creator = "buyer"
    /\ holder["vendor"] = Nobody /\ u \notin Seated

\* Bug: the split is not bounded by the price.
AnyAllocation == 1 .. terms.amount + 1

\* The vendor's allocations that ErrInvalidSplit leaves.
Allocations == 1 .. terms.amount - 1

\* Bug: the commission comes on top of the price.
SplitOnTop(allocation) ==
    [terms EXCEPT !.structure = "brokered", !.commission = terms.amount - allocation]

\* The vendor's part of the price and the broker's.
Split(allocation) ==
    [terms EXCEPT !.structure = "brokered", !.amount = allocation,
                  !.commission = terms.amount - allocation]

\* The broker takes its seat and the pocket; naming the split is its acceptance.
SeatBroker(u) ==
    /\ holder' = [holder EXCEPT !["broker"] = u]
    /\ accepted' = [accepted EXCEPT !["broker"] = TRUE]
    /\ creator' = "broker"

\* Store.ConvertToBrokered.
Convert(h) ==
    /\ Commits(h, "convert")
    /\ MayConvert(req[h].user)
    /\ \E allocation \in Allocations : terms' = Split(allocation)
    /\ SeatBroker(req[h].user)
    /\ LogRow("DRAFT")
    /\ UNCHANGED state

\* A claimed seat, once; a brokered buyer after the vendor.
MayAccept(r) ==
    /\ holder[r] # Nobody /\ ~accepted[r]
    /\ terms.structure = "brokered" /\ r = "buyer" => accepted["vendor"]

\* Store.Accept; the last acceptance runs pocket.New on the terms of the row.
Accept(h) ==
    LET r == req[h].role
        waiting == {p \in Participants \ {r} : ~accepted[p]}
    IN
    /\ Commits(h, "accept")
    /\ MayAccept(r)
    /\ accepted' = [accepted EXCEPT ![r] = TRUE]
    /\ \/ waiting # {} /\ UNCHANGED <<state, version, events>>
       \/ waiting = {} /\ WellFormed /\ state' = "CREATED" /\ LogRow("CREATED")
    /\ UNCHANGED <<terms, creator, holder>>

\* Store.Cancel of a draft; that of a CREATED pocket is in Lifecycle.
Cancel(h) ==
    /\ Commits(h, "cancel")
    /\ state' = "CANCELLED" /\ LogRow("CANCELLED")
    /\ UNCHANGED <<terms, creator, seats>>

-----------------------------------------------------------------------------

Next ==
    \E h \in Handlers :
        \/ \E u \in Users \cup {Nobody}, r \in Roles : Begin(h, u, r)
        \/ Claim(h) \/ Convert(h) \/ Accept(h) \/ Cancel(h) \/ GiveUp(h)

Spec == Init /\ [][Next]_vars

-----------------------------------------------------------------------------
(* Properties. *)

TypeOK ==
    /\ terms \in Terms /\ creator \in Roles
    /\ state \in {"DRAFT", "CREATED", "CANCELLED"}
    /\ version \in Nat /\ events \in Seq({"DRAFT", "CREATED", "CANCELLED"})
    /\ holder \in [Roles -> Users \cup {Nobody}]
    /\ accepted \in [Roles -> BOOLEAN]
    /\ req \in [Handlers -> Requests]

\* claimParticipantTx: no account ends up on two sides of one deal, whichever
\* of its claims and conversions race.
OneSeatEach ==
    \A r, s \in Roles : r # s /\ holder[r] # Nobody => holder[r] # holder[s]

\* convert.go, "well-formed when transition #1 constructs the CREATED
\* aggregate": the terms in force can always be constructed, an acceptance is
\* outstanding in every draft, and none stands for an empty seat.
DraftsCanComplete ==
    /\ WellFormed
    /\ state = "DRAFT" => \E r \in Participants : ~accepted[r]
    /\ \A r \in Roles : accepted[r] => r \in Participants /\ holder[r] # Nobody

\* Store.Accept, "brokered acceptance is vendor-first": in a brokered draft no
\* buyer is bound before the vendor, but one who created it as p2p.
BuyerAcceptsLast ==
    state = "DRAFT" /\ terms.structure = "brokered" /\ accepted["buyer"] =>
        \E i \in DOMAIN events : events[i] = "DRAFT"

\* Seats are held where there is a participant, and a brokered pocket's broker
\* is one that consented; a request carries a seat that was there when it was
\* let in, and an account if it is to take one.
Seating ==
    /\ \A r \in Roles : holder[r] # Nobody => r \in Participants
    /\ terms.structure = "brokered" => accepted["broker"]
    /\ \A h \in Handlers :
          /\ req[h].op # "none" => req[h].role \in Participants
          /\ req[h].op \in {"claim", "convert"} => req[h].user \in Users

\* Store.Accept, claimParticipantTx and ConvertToBrokered, each after an unlocked
\* read of the seats: together they keep every draft able to complete with one
\* account per seat and the brokered buyer last.  This is inductive.
SeatRules == OneSeatEach /\ DraftsCanComplete /\ BuyerAcceptsLast /\ Seating

\* ConvertToBrokered, "Only an unclaimed vendor seat": the terms a claimant of
\* the vendor's seat is shown are those it accepts, whatever was on its way.
ClaimFreezesTerms ==
    [][holder["vendor"] # Nobody => UNCHANGED <<terms, creator>>]_vars

\* auth.go, "A seat already claimed": it stays with its account although every
\* request was let in on an unlocked read.
HoldersKeepSeats ==
    [][\A r \in Roles : holder[r] # Nobody => holder'[r] = holder[r]]_vars

\* What a claim gives its holder is not taken back by what was on its way.
ClaimsAreKept == ClaimFreezesTerms /\ HoldersKeepSeats

\* "Every state change ... appends exactly one audit-log row" (docs/API.md),
\* conversions included, and the last row tells the state.
LogFollowsRow ==
    /\ Len(events) = version
    /\ state = IF events = <<>> THEN "DRAFT" ELSE events[Len(events)]

\* Acceptance implements the promise of module Agreement.  A party agrees when
\* an acceptance is recorded for its claimed seat, whoever sent the request.
SharesBar ==
    [r \in Roles |-> CASE r = "buyer" -> BuyerTotal(terms)
                       [] r = "vendor" -> terms.amount
                       [] OTHER -> terms.commission]

StatusBar ==
    IF state = "CREATED" THEN "sealed" ELSE IF state = "CANCELLED" THEN "off" ELSE "open"

A == INSTANCE Agreement WITH
        parties <- Participants, shares <- SharesBar,
        agreed <- {r \in Roles : accepted[r]}, status <- StatusBar

AgreementSpec == A!Spec

-----------------------------------------------------------------------------
(* What a document or a comment says of the code, and the code does not do. *)

\* handleClaim: "Once bound, only that account's session can act on the seat".
OnlyHoldersAccept ==
    [][\A h \in Handlers : Accept(h) => req[h].user = holder[req[h].role]]_vars

=============================================================================
