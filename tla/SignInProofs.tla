---------------------------- MODULE SignInProofs ----------------------------
(***************************************************************************)
(* Theorems about SignIn, for any number of attempts, browsers, identities *)
(* and keys.                                                               *)
(***************************************************************************)
EXTENDS SignIn, TLAPS

-----------------------------------------------------------------------------
(* The inductive invariant *)

\* The unique indexes of the users table.
UniqueSubs ==
    \A a, b \in Accounts : users[a].sub = users[b].sub /\ users[a].sub # Nobody => a = b

UniqueEmails ==
    \A a, b \in Accounts : users[a].email = users[b].email /\ users[a].email # Nobody => a = b

\* An attempt's own row is there only once it was inserted, with its subject.
RowOf(f) ==
    /\ users[f].sub = Nobody => users[f].email = Nobody
    /\ flow[f].pc \notin {"issue", "ended"} => users[f].sub = Nobody

\* What an attempt has at each of its stages.  One that is about to insert has
\* seen that nobody waits for its email, and nobody will.
StageOf(f) ==
    /\ flow[f].pc \in {"new", "provider"} => flow[f].sub = Nobody /\ flow[f].email = Nobody
    /\ flow[f].pc \notin {"new", "provider", "ended"} => flow[f].sub # Nobody
    /\ flow[f].pc # "new" => flow[f].browser # Nobody
    /\ flow[f].pc # "ended" => standing[f] = "none"
    /\ flow[f].pc = "issue" => flow[f].account # Nobody
    /\ standing[f] = "open" => flow[f].account # Nobody
    /\ flow[f].account # Nobody =>
          flow[f].sub # Nobody /\ users[flow[f].account].sub = flow[f].sub
    /\ flow[f].pc = "insert" =>
          \A a \in Accounts : HasEmail(a, f) => users[a].sub # Nobody

Rest ==
    /\ UniqueSubs
    /\ UniqueEmails
    /\ \A f \in Flows : RowOf(f) /\ StageOf(f)

IInv == TypeOK /\ Rest

-----------------------------------------------------------------------------
(* How the attempts' records change *)

LEMMA FlowTyped ==
    ASSUME TypeOK, NEW f \in Flows
    PROVE  flow[f] \in FlowStates
BY DEF TypeOK

\* Only f's record changes, and of what it knows of its person nothing.
Moves(f, pc) ==
    /\ flow' \in [Flows -> FlowStates]
    /\ flow'[f].pc = pc
    /\ flow'[f].browser = flow[f].browser
    /\ flow'[f].sub = flow[f].sub
    /\ flow'[f].email = flow[f].email
    /\ flow'[f].account = flow[f].account
    /\ \A g \in Flows : g # f => flow'[g] = flow[g]

LEMMA GoToMoves ==
    ASSUME TypeOK, NEW f \in Flows, NEW pc \in PCs, GoTo(f, pc)
    PROVE  Moves(f, pc)
<1> DEFINE me == [flow[f] EXCEPT !.pc = pc]
<1>1. flow' = [flow EXCEPT ![f] = me]
  BY Zenon DEF GoTo
<1>2. me \in FlowStates
  BY FlowTyped DEF FlowStates
<1> QED
  BY <1>1, <1>2, FlowTyped DEF Moves, TypeOK, FlowStates

LEMMA KeyMoves ==
    ASSUME TypeOK, NEW f \in Flows, NEW pc \in PCs, NEW k \in Keys \cup {0},
           WithKey(f, pc, k)
    PROVE  Moves(f, pc)
<1> DEFINE me == [flow[f] EXCEPT !.pc = pc, !.kid = k]
<1>1. flow' = [flow EXCEPT ![f] = me]
  BY Zenon DEF WithKey
<1>2. me \in FlowStates
  BY FlowTyped DEF FlowStates
<1> QED
  BY <1>1, <1>2, FlowTyped DEF Moves, TypeOK, FlowStates

LEMMA ListMoves ==
    ASSUME TypeOK, NEW f \in Flows, NEW pc \in PCs, NEW list \in SUBSET Keys,
           WithList(f, pc, list)
    PROVE  Moves(f, pc) /\ flow'[f].jwks = list
<1> DEFINE me == [flow[f] EXCEPT !.pc = pc, !.jwks = list]
<1>1. flow' = [flow EXCEPT ![f] = me]
  BY Zenon DEF WithList
<1>2. me \in FlowStates
  BY FlowTyped DEF FlowStates
<1> QED
  BY <1>1, <1>2, FlowTyped DEF Moves, TypeOK, FlowStates

LEMMA FinishMoves ==
    ASSUME TypeOK, NEW f \in Flows, Finish(f)
    PROVE  Moves(f, "ended")
<1>1. "ended" \in PCs /\ {} \in SUBSET Keys
  BY DEF PCs
<1> QED
  BY <1>1, ListMoves DEF Finish

\* An attempt learns its account.
Learns(f, a) ==
    /\ flow' \in [Flows -> FlowStates]
    /\ flow'[f].pc = "issue"
    /\ flow'[f].browser = flow[f].browser
    /\ flow'[f].sub = flow[f].sub
    /\ flow'[f].email = flow[f].email
    /\ flow'[f].account = a
    /\ \A g \in Flows : g # f => flow'[g] = flow[g]

LEMMA AccountLearns ==
    ASSUME TypeOK, NEW f \in Flows, NEW a \in Accounts,
           WithAccount(f, a)
    PROVE  Learns(f, a)
<1> DEFINE me == [flow[f] EXCEPT !.pc = "issue", !.account = a]
<1>1. flow' = [flow EXCEPT ![f] = me]
  BY Zenon DEF WithAccount
<1>2. me \in FlowStates
  BY FlowTyped DEF FlowStates, PCs
<1> QED
  BY <1>1, <1>2, FlowTyped DEF Learns, TypeOK, FlowStates

-----------------------------------------------------------------------------
(* Steps that leave the table and what became of the sign-ins alone *)

\* Between its return and its insert, an attempt has nothing but its identity.
Mid == {"returned", "exchange", "verify", "fetch", "fetched", "lookup", "look", "link"}

View == <<Mail, Owner, Proof, standing, caller>>

\* What holds of an attempt holds until its record or the table changes.
LEMMA Untouched ==
    ASSUME Rest, NEW g \in Flows, flow'[g] = flow[g], standing'[g] = standing[g],
           users' = users
    PROVE  RowOf(g)' /\ StageOf(g)'
<1>1. RowOf(g) /\ StageOf(g)
  BY DEF Rest
<1> QED
  BY <1>1 DEF RowOf, StageOf, HasEmail

LEMMA QuietRest ==
    ASSUME IInv, NEW f \in Flows, NEW pc \in PCs, Moves(f, pc),
           users' = users, standing' = standing,
           \/ pc = "ended" /\ flow[f].pc # "new"
           \/ pc \in Mid /\ flow[f].pc \in Mid
    PROVE  Rest'
<1>1. UniqueSubs' /\ UniqueEmails'
  BY DEF IInv, Rest, UniqueSubs, UniqueEmails
<1>2. ASSUME NEW g \in Flows, g # f
      PROVE  RowOf(g)' /\ StageOf(g)'
  BY <1>2, Untouched DEF IInv, Moves
<1>3. RowOf(f)' /\ StageOf(f)'
  BY DEF IInv, Rest, RowOf, StageOf, Moves, Mid
<1> QED
  BY <1>1, <1>2, <1>3 DEF Rest

\* Nothing of the promise's state changes.
LEMMA QuietView ==
    ASSUME NEW f \in Flows, NEW pc \in PCs, Moves(f, pc),
           users' = users, standing' = standing, caller' = caller
    PROVE  UNCHANGED View
<1>1. Mail' = Mail /\ Owner' = Owner
  BY DEF Mail, Owner
<1>2. ASSUME NEW g \in Flows
      PROVE  flow'[g].sub = flow[g].sub /\ flow'[g].email = flow[g].email
               /\ flow'[g].browser = flow[g].browser
  BY DEF Moves
<1>3. Proof' = Proof
  BY <1>2 DEF Proof
<1> QED
  BY <1>1, <1>3 DEF View

LEMMA Quiet ==
    ASSUME IInv, NEW f \in Flows, NEW pc \in PCs, Moves(f, pc),
           users' = users, standing' = standing, caller' = caller,
           flowCookie' \in [Browsers -> Flows \cup {Nobody}],
           keys' \subseteq Keys, published' = published,
           \/ pc = "ended" /\ flow[f].pc # "new"
           \/ pc \in Mid /\ flow[f].pc \in Mid
    PROVE  IInv' /\ UNCHANGED View
<1>1. TypeOK'
  BY DEF IInv, TypeOK, Moves
<1> QED
  BY <1>1, QuietRest, QuietView DEF IInv

\* The response that ends a sign-in, when nothing else happens.
LEMMA FinishQuiet ==
    ASSUME IInv, NEW f \in Flows, flow[f].pc # "new", Finish(f),
           UNCHANGED <<users, standing, caller, signing>>
    PROVE  IInv' /\ UNCHANGED View
<1>1. TypeOK /\ "ended" \in PCs
  BY DEF IInv, PCs
<1>2. Moves(f, "ended")
  BY <1>1, FinishMoves
<1>3. flowCookie' \in [Browsers -> Flows \cup {Nobody}]
  BY <1>1 DEF Finish, TypeOK
<1> QED
  BY <1>1, <1>2, <1>3, Quiet DEF TypeOK, signing

\* The exchange and the check of the ID token, and the first statement of the
\* upsert when it sends the attempt on to the second.
LEMMA ExchangeQuiet ==
    ASSUME IInv, NEW f \in Flows,
           \/ \E b \in Browsers : Callback(f, b)
           \/ Declined(f) \/ Exchanged(f) \/ CachedKey(f) \/ FetchKeys(f) \/ ListKeys(f)
           \/ StoreKeys(f) \/ FetchedKey(f) \/ UnknownKey(f) \/ ExchangeFails(f)
           \/ UpsertFails(f) \/ IssueFails(f)
    PROVE  IInv' /\ UNCHANGED View
<1>0. TypeOK
  BY DEF IInv
<1>1. CASE Declined(f) \/ UnknownKey(f) \/ ExchangeFails(f) \/ UpsertFails(f) \/ IssueFails(f)
  <2>1. flow[f].pc # "new" /\ Finish(f) /\ UNCHANGED <<users, standing, caller, signing>>
    BY <1>1 DEF Declined, UnknownKey, ExchangeFails, UpsertFails, IssueFails
  <2> QED
    BY <2>1, FinishQuiet
<1>2. CASE \E b \in Browsers : Callback(f, b)
  <2>1. "exchange" \in PCs /\ "exchange" \in Mid /\ "returned" \in Mid
    BY DEF PCs, Mid
  <2>2. Moves(f, "exchange")
    BY <1>0, <1>2, <2>1, GoToMoves DEF Callback, GoTo
  <2> QED
    BY <1>0, <1>2, <2>1, <2>2, Quiet DEF Callback, TypeOK, web, signing
<1>3. CASE Exchanged(f)
  <2>1. "verify" \in PCs /\ "verify" \in Mid /\ "exchange" \in Mid
    BY DEF PCs, Mid
  <2>2. PICK k \in Keys : WithKey(f, "verify", k)
    BY <1>0, <1>3 DEF Exchanged, TypeOK
  <2>3. Moves(f, "verify")
    BY <1>0, <2>1, <2>2, KeyMoves
  <2> QED
    BY <1>0, <1>3, <2>1, <2>3, Quiet DEF Exchanged, TypeOK, web, signing
<1>4. CASE CachedKey(f) \/ FetchedKey(f)
  <2>1. "look" \in PCs /\ "look" \in Mid /\ "verify" \in Mid /\ "lookup" \in Mid
    BY DEF PCs, Mid
  <2>2. Moves(f, "look")
    BY <1>0, <1>4, <2>1, KeyMoves DEF CachedKey, FetchedKey, Verified
  <2> QED
    BY <1>0, <1>4, <2>1, <2>2, Quiet DEF CachedKey, FetchedKey, TypeOK, web, signing
<1>5. CASE FetchKeys(f)
  <2>1. "fetch" \in PCs /\ "fetch" \in Mid /\ "verify" \in Mid
    BY DEF PCs, Mid
  <2>2. Moves(f, "fetch")
    BY <1>0, <1>5, <2>1, GoToMoves DEF FetchKeys
  <2> QED
    BY <1>0, <1>5, <2>1, <2>2, Quiet DEF FetchKeys, TypeOK, web, signing
<1>6. CASE ListKeys(f)
  <2>1. "fetched" \in PCs /\ "fetched" \in Mid /\ "fetch" \in Mid
    BY DEF PCs, Mid
  <2>2. PICK list \in SUBSET Keys : WithList(f, "fetched", list)
    BY <1>0, <1>6 DEF ListKeys, TypeOK
  <2>3. Moves(f, "fetched")
    BY <1>0, <2>1, <2>2, ListMoves
  <2> QED
    BY <1>0, <1>6, <2>1, <2>3, Quiet DEF ListKeys, TypeOK, web, signing
<1>7. CASE StoreKeys(f)
  <2>1. "lookup" \in PCs /\ "lookup" \in Mid /\ "fetched" \in Mid
    BY DEF PCs, Mid
  <2>2. Moves(f, "lookup")
    BY <1>0, <1>7, <2>1, ListMoves DEF StoreKeys
  <2>3. flow[f].jwks \subseteq Keys
    BY <1>0, FlowTyped DEF FlowStates
  <2> QED
    BY <1>0, <1>7, <2>1, <2>2, <2>3, Quiet DEF StoreKeys, TypeOK, web
<1> QED
  BY <1>1, <1>2, <1>3, <1>4, <1>5, <1>6, <1>7

-----------------------------------------------------------------------------
(* The other steps *)

\* No step of an attempt, and nothing of the promise changes.
LEMMA OtherQuiet ==
    ASSUME IInv,
           \/ UNCHANGED vars
           \/ \E f \in Flows, b \in Browsers : CallbackRefused(f, b)
           \/ \E k \in Keys : Publish(k) \/ Withdraw(k)
    PROVE  IInv' /\ UNCHANGED View
<1>1. /\ UNCHANGED <<users, flow, standing, caller>>
      /\ flowCookie' \in [Browsers -> Flows \cup {Nobody}]
      /\ keys' \subseteq Keys /\ published' \subseteq Keys
  BY DEF vars, CallbackRefused, Publish, Withdraw, web, signing, IInv, TypeOK
<1>2. TypeOK'
  BY <1>1 DEF IInv, TypeOK
<1>3. Rest'
  BY <1>1 DEF IInv, Rest, UniqueSubs, UniqueEmails, RowOf, StageOf, HasEmail
<1>4. UNCHANGED View
  BY <1>1 DEF View, Mail, Owner, Proof
<1> QED
  BY <1>2, <1>3, <1>4 DEF IInv

LEMMA StartStep ==
    ASSUME IInv, NEW f \in Flows, NEW b \in Browsers, Start(f, b)
    PROVE  IInv' /\ UNCHANGED View
<1> DEFINE me == [flow[f] EXCEPT !.pc = "provider", !.browser = b]
<1>0. TypeOK /\ Rest
  BY DEF IInv
<1>1. flow' = [flow EXCEPT ![f] = me]
  BY Zenon DEF Start
<1>2. me \in FlowStates
  BY <1>0, FlowTyped DEF FlowStates, PCs
<1>3. /\ flow' \in [Flows -> FlowStates]
      /\ flow'[f] = me
      /\ \A g \in Flows : g # f => flow'[g] = flow[g]
  BY <1>0, <1>1, <1>2 DEF TypeOK
<1>4. /\ me.pc = "provider" /\ me.browser = b /\ me.sub = flow[f].sub
      /\ me.email = flow[f].email /\ me.account = flow[f].account
  BY <1>0, FlowTyped DEF FlowStates
<1>5. flow[f].pc = "new" /\ UNCHANGED <<users, standing, caller, signing>>
  BY DEF Start
<1>6. TypeOK'
  BY <1>0, <1>3, <1>5 DEF TypeOK, Start, signing
<1>7. Rest'
  <2>1. UniqueSubs' /\ UniqueEmails'
    BY <1>0, <1>5 DEF Rest, UniqueSubs, UniqueEmails
  <2>2. ASSUME NEW g \in Flows, g # f
        PROVE  RowOf(g)' /\ StageOf(g)'
    BY <1>0, <1>3, <1>5, <2>2, Untouched
  <2>3. RowOf(f)' /\ StageOf(f)'
    BY <1>0, <1>3, <1>4, <1>5, SignInAssumption DEF Rest, RowOf, StageOf
  <2> QED
    BY <2>1, <2>2, <2>3 DEF Rest
<1>8. flow[f].sub = Nobody
  BY <1>0, <1>5 DEF Rest, StageOf
<1>9. Proof' = Proof
  <2>1. ASSUME NEW g \in Flows
        PROVE  /\ flow'[g].sub = flow[g].sub /\ flow'[g].email = flow[g].email
               /\ flow[g].sub # Nobody => flow'[g].browser = flow[g].browser
    BY <1>3, <1>4, <1>8
  <2> QED
    BY <2>1 DEF Proof
<1> QED
  BY <1>5, <1>6, <1>7, <1>9 DEF IInv, View, Mail, Owner

\* The person proves who they are.
LEMMA AuthenticateStep ==
    ASSUME IInv, NEW f \in Flows, Authenticate(f)
    PROVE  IInv' /\ R!Prove(f)
<1>0. TypeOK /\ Rest
  BY DEF IInv
<1>1. PICK s \in Subs, e \in Emails \cup {Nobody} :
         flow' = [flow EXCEPT ![f].pc = "returned", ![f].sub = s, ![f].email = e]
  BY DEF Authenticate
<1> DEFINE me == [flow[f] EXCEPT !.pc = "returned", !.sub = s, !.email = e]
<1>2. flow' = [flow EXCEPT ![f] = me]
  BY <1>1, Zenon
<1>3. me \in FlowStates
  BY <1>0, FlowTyped DEF FlowStates, PCs
<1>4. /\ flow' \in [Flows -> FlowStates]
      /\ flow'[f] = me
      /\ \A g \in Flows : g # f => flow'[g] = flow[g]
  BY <1>0, <1>2, <1>3 DEF TypeOK
<1>5. /\ me.pc = "returned" /\ me.browser = flow[f].browser /\ me.sub = s
      /\ me.email = e /\ me.account = flow[f].account
  BY <1>0, FlowTyped DEF FlowStates
<1>6. flow[f].pc = "provider" /\ UNCHANGED <<users, standing, web, signing>>
  BY DEF Authenticate
<1>7. /\ flow[f].sub = Nobody /\ flow[f].email = Nobody
      /\ flow[f].browser \in Browsers /\ s # Nobody
  BY <1>0, <1>6, FlowTyped, SignInAssumption DEF Rest, StageOf, FlowStates
<1>8. TypeOK'
  BY <1>0, <1>4, <1>6 DEF TypeOK, web, signing
<1>9. Rest'
  <2>1. UniqueSubs' /\ UniqueEmails'
    BY <1>0, <1>6 DEF Rest, UniqueSubs, UniqueEmails, web
  <2>2. ASSUME NEW g \in Flows, g # f
        PROVE  RowOf(g)' /\ StageOf(g)'
    BY <1>0, <1>4, <1>6, <2>2 DEF Rest, RowOf, StageOf, HasEmail
  <2>3. RowOf(f)' /\ StageOf(f)'
    BY <1>0, <1>4, <1>5, <1>6, <1>7 DEF Rest, RowOf, StageOf
  <2> QED
    BY <2>1, <2>2, <2>3 DEF Rest
<1>10. Mail' = Mail /\ Owner' = Owner
  BY <1>6 DEF Mail, Owner
<1>11. Proof[f] = R!NoProof
  BY <1>7 DEF Proof, R!NoProof
<1>12. Proof' = [Proof EXCEPT ![f] = [sub |-> s, email |-> e, browser |-> flow[f].browser]]
  <2>1. ASSUME NEW g \in Flows, g # f
        PROVE  flow'[g].sub = flow[g].sub /\ flow'[g].email = flow[g].email
                 /\ flow'[g].browser = flow[g].browser
    BY <1>4, <2>1
  <2>2. flow'[f].sub = s /\ flow'[f].email = e /\ flow'[f].browser = flow[f].browser
    BY <1>4, <1>5
  <2> QED
    BY <1>7, <2>1, <2>2 DEF Proof
<1>13. R!Prove(f)
  BY <1>6, <1>7, <1>10, <1>11, <1>12 DEF R!Prove, web
<1> QED
  BY <1>8, <1>9, <1>13 DEF IInv

-----------------------------------------------------------------------------
(* Owners *)

LEMMA OwnerIs ==
    ASSUME NEW table, NEW s, NEW a \in Accounts, table[a].sub = s,
           \A c \in Accounts : table[c].sub = s => c = a
    PROVE  OwnerIn(table, s) = a
<1>1. (CHOOSE c \in Accounts : table[c].sub = s) = a
  OBVIOUS
<1> QED
  BY <1>1 DEF OwnerIn

LEMMA NoOwner ==
    ASSUME NEW table, NEW s, \A a \in Accounts : table[a].sub # s
    PROVE  OwnerIn(table, s) = Nobody
BY DEF OwnerIn

LEMMA OwnerOf ==
    ASSUME NEW s \in Subs, Owner[s] # Nobody
    PROVE  Owner[s] \in Accounts /\ users[Owner[s]].sub = s
BY DEF Owner, OwnerIn

LEMMA AccountsAreSomebody == Nobody \notin Accounts
BY SignInAssumption DEF Accounts

LEMMA OwnedHasSub ==
    ASSUME TypeOK, UniqueSubs, NEW a \in Accounts
    PROVE  R!Owned(a) <=> users[a].sub # Nobody
<1>1. ASSUME R!Owned(a) PROVE users[a].sub # Nobody
  <2>1. PICK s \in Subs : Owner[s] = a
    BY <1>1 DEF R!Owned
  <2> QED
    BY <2>1, OwnerOf, AccountsAreSomebody, SignInAssumption
<1>2. ASSUME users[a].sub # Nobody PROVE R!Owned(a)
  <2>1. users[a].sub \in Subs
    BY <1>2 DEF TypeOK, Rows
  <2>2. \A c \in Accounts : users[c].sub = users[a].sub => c = a
    BY <1>2 DEF UniqueSubs
  <2>3. Owner[users[a].sub] = a
    BY <2>1, <2>2, OwnerIs DEF Owner
  <2> QED
    BY <2>1, <2>3 DEF R!Owned
<1> QED
  BY <1>1, <1>2

-----------------------------------------------------------------------------
(* The upsert *)

\* The subject is found, or there is no email to link by.
LEMMA LookStep ==
    ASSUME IInv, NEW f \in Flows, Look(f)
    PROVE  IInv' /\ UNCHANGED View
<1>0. TypeOK /\ Rest
  BY DEF IInv
<1>1. flow[f].pc = "look" /\ UNCHANGED <<users, standing, web, signing>>
  BY DEF Look
<1>2. flow[f].sub # Nobody /\ standing[f] = "none" /\ flow[f].browser # Nobody
        /\ users[f].sub = Nobody /\ users[f].email = Nobody
  BY <1>0, <1>1 DEF Rest, StageOf, RowOf
<1>3. ASSUME NEW a \in Accounts, HasSub(a, f), WithAccount(f, a)
      PROVE  IInv' /\ UNCHANGED View
  <2>1. Learns(f, a)
    BY <1>0, <1>3, AccountLearns
  <2>2. TypeOK'
    BY <1>0, <1>1, <2>1 DEF TypeOK, Learns, web, signing
  <2>3. UniqueSubs' /\ UniqueEmails'
    BY <1>0, <1>1 DEF Rest, UniqueSubs, UniqueEmails, web
  <2>4. ASSUME NEW g \in Flows, g # f
        PROVE  RowOf(g)' /\ StageOf(g)'
    BY <1>0, <1>1, <2>1, <2>4 DEF Rest, RowOf, StageOf, HasEmail, Learns
  <2>5. RowOf(f)' /\ StageOf(f)'
    BY <1>1, <1>2, <1>3, <2>1, AccountsAreSomebody DEF RowOf, StageOf, Learns, HasSub
  <2>6. Proof' = Proof
    <3>1. ASSUME NEW g \in Flows
          PROVE  flow'[g].sub = flow[g].sub /\ flow'[g].email = flow[g].email
                   /\ flow'[g].browser = flow[g].browser
      BY <2>1 DEF Learns
    <3> QED
      BY <3>1 DEF Proof
  <2> QED
    BY <1>1, <2>2, <2>3, <2>4, <2>5, <2>6 DEF IInv, Rest, View, Mail, Owner, web
<1>4. CASE flow[f].email # Nobody /\ GoTo(f, "link")
  <2>1. "link" \in PCs /\ "link" \in Mid /\ "look" \in Mid
    BY DEF PCs, Mid
  <2>2. Moves(f, "link")
    BY <1>0, <1>4, <2>1, GoToMoves
  <2> QED
    BY <1>0, <1>1, <2>1, <2>2, Quiet DEF TypeOK, web, signing
<1>5. CASE flow[f].email = Nobody /\ GoTo(f, "insert")
  <2>1. "insert" \in PCs
    BY DEF PCs
  <2>2. Moves(f, "insert")
    BY <1>0, <1>5, <2>1, GoToMoves
  <2>3. TypeOK'
    BY <1>0, <1>1, <2>2 DEF TypeOK, Moves, web, signing
  <2>4. UniqueSubs' /\ UniqueEmails'
    BY <1>0, <1>1 DEF Rest, UniqueSubs, UniqueEmails, web
  <2>5. ASSUME NEW g \in Flows, g # f
        PROVE  RowOf(g)' /\ StageOf(g)'
    BY <1>0, <1>1, <2>2, <2>5 DEF Rest, RowOf, StageOf, HasEmail, Moves
  <2>6. RowOf(f)' /\ StageOf(f)'
    BY <1>0, <1>1, <1>2, <1>5, <2>2 DEF Rest, RowOf, StageOf, Moves, HasEmail
  <2>7. UNCHANGED View
    BY <1>1, <2>1, <2>2, QuietView DEF web
  <2> QED
    BY <2>3, <2>4, <2>5, <2>6, <2>7 DEF IInv, Rest
<1> QED
  BY <1>3, <1>4, <1>5 DEF Look

\* No row to link.
LEMMA PassStep ==
    ASSUME IInv, NEW f \in Flows, flow[f].pc = "link", \A a \in Accounts : ~Linkable(a, f),
           GoTo(f, "insert"), UNCHANGED <<users, standing, web, signing>>
    PROVE  IInv' /\ UNCHANGED View
<1>0. TypeOK /\ Rest
  BY DEF IInv
<1>1. "insert" \in PCs
  BY DEF PCs
<1>2. Moves(f, "insert")
  BY <1>0, <1>1, GoToMoves
<1>3. TypeOK'
  BY <1>0, <1>2 DEF TypeOK, Moves, web, signing
<1>4. UniqueSubs' /\ UniqueEmails'
  BY <1>0 DEF Rest, UniqueSubs, UniqueEmails, web
<1>5. ASSUME NEW g \in Flows, g # f
      PROVE  RowOf(g)' /\ StageOf(g)'
  BY <1>0, <1>2, <1>5 DEF Rest, RowOf, StageOf, HasEmail, Moves
<1>6. RowOf(f)' /\ StageOf(f)'
  BY <1>0, <1>2 DEF Rest, RowOf, StageOf, Moves, HasEmail, Linkable
<1>7. UNCHANGED View
  BY <1>1, <1>2, QuietView DEF web
<1> QED
  BY <1>3, <1>4, <1>5, <1>6, <1>7 DEF IInv, Rest

\* A row with the attempt's subject and email, where there was none with
\* either, or none but the account that waits for the email.
LEMMA CommitStep ==
    ASSUME IInv, NEW f \in Flows, flow[f].pc \in {"link", "insert"}, NEW a \in Accounts,
           Commit(f, a, [sub |-> flow[f].sub, email |-> flow[f].email]),
           \A c \in Accounts : ~HasSub(c, f),
           \/ a = f /\ \A c \in Accounts : ~HasEmail(c, f)
           \/ Linkable(a, f)
    PROVE  IInv' /\ R!Adopt(f)
<1> DEFINE s == flow[f].sub
           e == flow[f].email
           row == [sub |-> s, email |-> e]
<1>0. TypeOK /\ Rest
  BY DEF IInv
<1>1. /\ s \in Subs /\ s # Nobody /\ e \in Emails \cup {Nobody}
      /\ standing[f] = "none" /\ flow[f].browser # Nobody /\ users[f].sub = Nobody
      /\ flow[f].account = Nobody \/ users[flow[f].account].sub = s
  BY <1>0, FlowTyped DEF Rest, StageOf, RowOf, FlowStates
<1>2. flow[f].account = Nobody
  BY <1>0, <1>1, FlowTyped DEF HasSub, FlowStates
<1>3. users[a].sub = Nobody /\ (a # f => a \in Waiting /\ a \notin Flows)
  <2>1. CASE a = f
    BY <1>1, <2>1
  <2>2. CASE Linkable(a, f)
    <3>1. users[a].sub = Nobody /\ users[a].email # Nobody
      BY <2>2 DEF Linkable, HasEmail
    <3>2. a \notin Flows
      BY <1>0, <3>1 DEF Rest, RowOf
    <3> QED
      BY <3>1, <3>2 DEF Accounts
  <2> QED
    BY <2>1, <2>2
<1>4. /\ users' = [users EXCEPT ![a] = row]
      /\ UNCHANGED <<standing, caller, signing>>
  BY DEF Commit
<1>5. /\ users' \in [Accounts -> Rows]
      /\ users'[a] = row
      /\ \A c \in Accounts : c # a => users'[c] = users[c]
  <2>1. row \in Rows
    BY <1>1 DEF Rows
  <2> QED
    BY <1>0, <1>4, <2>1 DEF TypeOK
<1>6. Moves(f, "ended") \/ Learns(f, a)
  BY <1>0, FinishMoves, AccountLearns DEF Commit
<1>7. TypeOK'
  <2>1. flow' \in [Flows -> FlowStates]
    BY <1>6 DEF Moves, Learns
  <2>2. flowCookie' \in [Browsers -> Flows \cup {Nobody}]
    BY <1>0 DEF Commit, Finish, TypeOK
  <2> QED
    BY <1>0, <1>4, <1>5, <2>1, <2>2 DEF TypeOK, signing
<1>8. UniqueSubs'
  <2>1. \A c \in Accounts : users[c].sub # s
    BY DEF HasSub
  <2> QED
    BY <1>0, <1>5, <2>1 DEF Rest, UniqueSubs
<1>9. \A c \in Accounts : c # a /\ e # Nobody => users[c].email # e
  BY <1>0 DEF HasEmail, Linkable, Rest, UniqueEmails
<1>10. UniqueEmails'
  BY <1>0, <1>5, <1>9 DEF Rest, UniqueEmails
<1>11. ASSUME NEW g \in Flows, g # f
       PROVE  RowOf(g)' /\ StageOf(g)'
  <2>1. flow'[g] = flow[g] /\ users'[g] = users[g] /\ g \in Accounts
    BY <1>3, <1>5, <1>6, <1>11 DEF Moves, Learns, Accounts
  <2>2. RowOf(g)'
    BY <1>0, <2>1 DEF Rest, RowOf
  <2>3. flow[g].account # Nobody => users'[flow[g].account].sub = flow[g].sub
    <3>1. SUFFICES ASSUME flow[g].account # Nobody
                   PROVE  users'[flow[g].account].sub = flow[g].sub
      OBVIOUS
    <3>2. flow[g].account \in Accounts
      BY <1>0, <3>1, FlowTyped DEF FlowStates
    <3>3. flow[g].sub # Nobody /\ users[flow[g].account].sub = flow[g].sub
      BY <1>0, <3>1 DEF Rest, StageOf
    <3> QED
      BY <1>3, <1>5, <3>2, <3>3
  <2>4. flow[g].pc = "insert" => \A c \in Accounts : HasEmail(c, g)' => users'[c].sub # Nobody
    BY <1>0, <1>1, <1>5, <2>1 DEF Rest, StageOf, HasEmail
  <2>5. StageOf(g)'
    BY <1>0, <1>4, <2>1, <2>3, <2>4 DEF Rest, StageOf
  <2> QED
    BY <2>2, <2>5
<1>12. RowOf(f)' /\ StageOf(f)'
  <2>1. f \in Accounts /\ users'[f].sub = Nobody => users'[f].email = Nobody
    BY <1>0, <1>1, <1>5 DEF Rest, RowOf, Accounts
  <2>2. flow'[f].pc \in {"issue", "ended"} /\ flow'[f].sub = s /\ flow'[f].browser # Nobody
    BY <1>1, <1>6 DEF Moves, Learns
  <2>3. \/ flow'[f].pc = "issue" /\ flow'[f].account = a
        \/ flow'[f].pc = "ended" /\ flow'[f].account = Nobody
    BY <1>2, <1>6 DEF Moves, Learns
  <2>4. RowOf(f)'
    BY <2>1, <2>2 DEF RowOf, Accounts
  <2>5. StageOf(f)'
    BY <1>1, <1>4, <1>5, <2>2, <2>3, AccountsAreSomebody DEF StageOf
  <2> QED
    BY <2>4, <2>5
<1>13. Rest'
  BY <1>8, <1>10, <1>11, <1>12 DEF Rest
<1>14. Proof[f].sub = s /\ Proof[f].email = e /\ Proof' = Proof
  <2>1. ASSUME NEW g \in Flows
        PROVE  flow'[g].sub = flow[g].sub /\ flow'[g].email = flow[g].email
                 /\ flow'[g].browser = flow[g].browser
    BY <1>6 DEF Moves, Learns
  <2> QED
    BY <2>1 DEF Proof
<1>15. Owner[s] = Nobody
  BY <1>1, NoOwner DEF Owner, HasSub
<1>16. Owner' = [Owner EXCEPT ![s] = a]
  <2>1. OwnerIn(users', s) = a
    BY <1>5, OwnerIs DEF HasSub
  <2>2. ASSUME NEW t \in Subs, t # s
        PROVE  OwnerIn(users', t) = OwnerIn(users, t)
    <3>0. t # Nobody
      BY SignInAssumption
    <3>1. \A c \in Accounts : users'[c].sub = t <=> users[c].sub = t
      BY <1>3, <1>5, <2>2, <3>0
    <3>2. CASE \E c \in Accounts : users[c].sub = t
      <4>1. PICK c \in Accounts : users[c].sub = t
        BY <3>2
      <4>2. \A d \in Accounts : users[d].sub = t => d = c
        BY <1>0, <3>0, <4>1 DEF Rest, UniqueSubs
      <4>3. OwnerIn(users, t) = c
        BY <4>1, <4>2, OwnerIs
      <4>4. OwnerIn(users', t) = c
        BY <3>1, <4>1, <4>2, OwnerIs
      <4> QED
        BY <4>3, <4>4
    <3>3. CASE \A c \in Accounts : users[c].sub # t
      BY <3>1, <3>3, NoOwner
    <3> QED
      BY <3>2, <3>3
  <2> QED
    BY <1>1, <2>1, <2>2 DEF Owner
<1>17. Mail' = [Mail EXCEPT ![a] = e]
  <2>1. users'[a].email = e /\ \A c \in Accounts : c # a => users'[c].email = users[c].email
    BY <1>5
  <2> QED
    BY <2>1 DEF Mail
<1>18. \A c, d \in Accounts : Mail'[c] = Mail'[d] /\ Mail'[c] # Nobody => c = d
  BY <1>10 DEF Mail, UniqueEmails
<1>19. ~R!Owned(a)
  BY <1>0, <1>3, OwnedHasSub DEF Rest
<1> DEFINE waiting == {c \in Waiting : e # Nobody /\ Mail[c] = e /\ ~R!Owned(c)}
<1>20. a \in IF waiting # {} THEN waiting ELSE Accounts \ Waiting
  <2>1. \A c \in Accounts : Mail[c] = users[c].email
    BY DEF Mail
  <2>2. CASE Linkable(a, f)
    <3>1. e # Nobody /\ Mail[a] = e
      BY <2>1, <2>2 DEF Linkable, HasEmail
    <3>2. a \in Waiting
      BY <1>3, <2>2, <1>0, <3>1, <2>1 DEF Rest, RowOf, Linkable
    <3> QED
      BY <1>19, <3>1, <3>2
  <2>3. CASE a = f /\ \A c \in Accounts : ~HasEmail(c, f)
    <3>1. waiting = {}
      BY <2>1, <2>3 DEF HasEmail, Accounts
    <3>2. f \in Accounts \ Waiting
      BY SignInAssumption DEF Accounts
    <3> QED
      BY <2>3, <3>1, <3>2
  <2> QED
    BY <2>2, <2>3
<1>21. R!Adopt(f)
  BY <1>1, <1>4, <1>14, <1>15, <1>16, <1>17, <1>18, <1>19, <1>20 DEF R!Adopt
<1> QED
  BY <1>7, <1>13, <1>21 DEF IInv

\* A row with the attempt's subject or email is there already.
LEMMA ConflictStep ==
    ASSUME IInv, NEW f \in Flows, flow[f].pc \in {"link", "insert"}, Conflict(f),
           \/ \E c \in Accounts : HasSub(c, f)
           \/ flow[f].pc = "insert" /\ \E c \in Accounts : HasEmail(c, f)
    PROVE  IInv' /\ R!TurnAway(f)
<1> DEFINE s == flow[f].sub
           e == flow[f].email
<1>0. TypeOK /\ Rest
  BY DEF IInv
<1>1. /\ s \in Subs /\ s # Nobody
      /\ standing[f] = "none" /\ flow[f].browser # Nobody
  BY <1>0, FlowTyped DEF Rest, StageOf, FlowStates
<1>2. Moves(f, "ended")
  BY <1>0, FinishMoves DEF Conflict
<1>3. /\ standing' = [standing EXCEPT ![f] = "turned away"]
      /\ UNCHANGED <<users, caller, signing>>
  BY DEF Conflict
<1>4. TypeOK'
  <2>1. flowCookie' \in [Browsers -> Flows \cup {Nobody}]
    BY <1>0 DEF Conflict, Finish, TypeOK
  <2> QED
    BY <1>0, <1>2, <1>3, <2>1 DEF TypeOK, Moves, signing
<1>5. /\ standing'[f] = "turned away"
      /\ \A g \in Flows : g # f => standing'[g] = standing[g]
  BY <1>0, <1>3 DEF TypeOK
<1>6. Rest'
  <2>1. UniqueSubs' /\ UniqueEmails'
    BY <1>0, <1>3 DEF Rest, UniqueSubs, UniqueEmails
  <2>2. ASSUME NEW g \in Flows, g # f
        PROVE  RowOf(g)' /\ StageOf(g)'
    BY <1>0, <1>2, <1>3, <1>5, <2>2, Untouched DEF Moves
  <2>3. RowOf(f)' /\ StageOf(f)'
    BY <1>0, <1>1, <1>2, <1>3, <1>5 DEF Rest, RowOf, StageOf, Moves
  <2> QED
    BY <2>1, <2>2, <2>3 DEF Rest
<1>7. Mail' = Mail /\ Owner' = Owner
  BY <1>3 DEF Mail, Owner
<1>8. Proof[f].sub = s /\ Proof[f].email = e /\ Proof' = Proof
  <2>1. ASSUME NEW g \in Flows
        PROVE  flow'[g].sub = flow[g].sub /\ flow'[g].email = flow[g].email
                 /\ flow'[g].browser = flow[g].browser
    BY <1>2 DEF Moves
  <2> QED
    BY <2>1 DEF Proof
<1>9. Owner[s] # Nobody \/ (e # Nobody /\ \E c \in Accounts : Mail[c] = e /\ R!Owned(c))
  <2>1. CASE \E c \in Accounts : HasSub(c, f)
    <3>1. PICK c \in Accounts : users[c].sub = s
      BY <2>1 DEF HasSub
    <3>2. \A d \in Accounts : users[d].sub = s => d = c
      BY <1>0, <1>1, <3>1 DEF Rest, UniqueSubs
    <3>3. Owner[s] = c
      BY <1>1, <3>1, <3>2, OwnerIs DEF Owner
    <3> QED
      BY <3>3, AccountsAreSomebody
  <2>2. CASE flow[f].pc = "insert" /\ \E c \in Accounts : HasEmail(c, f)
    <3>1. PICK c \in Accounts : HasEmail(c, f)
      BY <2>2
    <3>2. e # Nobody /\ Mail[c] = e
      BY <3>1 DEF HasEmail, Mail
    <3>3. users[c].sub # Nobody
      BY <1>0, <2>2, <3>1 DEF Rest, StageOf
    <3> QED
      BY <1>0, <3>2, <3>3, OwnedHasSub DEF Rest
  <2> QED
    BY <2>1, <2>2
<1>10. R!TurnAway(f)
  BY <1>1, <1>3, <1>7, <1>8, <1>9 DEF R!TurnAway
<1> QED
  BY <1>4, <1>6, <1>10 DEF IInv

\* The three ends of the second and third statement.
LEMMA UpsertStep ==
    ASSUME IInv, NEW f \in Flows, Link(f) \/ Insert(f)
    PROVE  IInv' /\ (R!Adopt(f) \/ R!TurnAway(f) \/ UNCHANGED View)
<1>0. TypeOK
  BY DEF IInv
<1>1. CASE Link(f)
  <2>1. flow[f].pc = "link"
    BY <1>1 DEF Link
  <2>2. ASSUME NEW a \in Accounts, Linkable(a, f),
               Commit(f, a, [users[a] EXCEPT !.sub = flow[f].sub]),
               ~\E c \in Accounts : HasSub(c, f)
        PROVE  IInv' /\ R!Adopt(f)
    <3>1. [users[a] EXCEPT !.sub = flow[f].sub] = [sub |-> flow[f].sub, email |-> flow[f].email]
      <4>1. users[a] \in Rows /\ users[a].email = flow[f].email
        BY <1>0, <2>2 DEF TypeOK, Linkable, HasEmail
      <4> QED
        BY <4>1 DEF Rows
    <3>2. Commit(f, a, [sub |-> flow[f].sub, email |-> flow[f].email])
      BY <2>2, <3>1, Zenon
    <3> QED
      BY <2>1, <2>2, <3>2, CommitStep
  <2>3. ASSUME NEW a \in Accounts, Conflict(f), \E c \in Accounts : HasSub(c, f)
        PROVE  IInv' /\ R!TurnAway(f)
    BY <2>1, <2>3, ConflictStep
  <2>4. CASE /\ \A a \in Accounts : ~Linkable(a, f)
             /\ GoTo(f, "insert")
             /\ UNCHANGED <<users, standing, web, signing>>
    BY <2>1, <2>4, PassStep
  <2> QED
    BY <1>1, <2>2, <2>3, <2>4, Zenon DEF Link
<1>2. CASE Insert(f)
  <2>1. flow[f].pc = "insert" /\ f \in Accounts
    BY <1>2 DEF Insert, Accounts
  <2>2. CASE Conflict(f) /\ \E a \in Accounts : HasSub(a, f) \/ HasEmail(a, f)
    BY <2>1, <2>2, ConflictStep
  <2>3. CASE /\ Commit(f, f, [sub |-> flow[f].sub, email |-> flow[f].email])
             /\ ~\E a \in Accounts : HasSub(a, f) \/ HasEmail(a, f)
    BY <2>1, <2>3, CommitStep
  <2> QED
    BY <1>2, <2>2, <2>3, Zenon DEF Insert
<1> QED
  BY <1>1, <1>2

-----------------------------------------------------------------------------
(* Sessions *)

\* A change of what became of one ended attempt.
LEMMA StandingRest ==
    ASSUME IInv, NEW f \in Flows, flow[f].pc = "ended", standing[f] = "open",
           standing' = [standing EXCEPT ![f] = "over"],
           UNCHANGED <<users, flow>>
    PROVE  Rest'
<1>0. TypeOK /\ Rest
  BY DEF IInv
<1>1. /\ standing'[f] = "over"
      /\ \A g \in Flows : g # f => standing'[g] = standing[g]
  BY <1>0 DEF TypeOK
<1>2. UniqueSubs' /\ UniqueEmails'
  BY <1>0 DEF Rest, UniqueSubs, UniqueEmails
<1>3. ASSUME NEW g \in Flows
      PROVE  RowOf(g)' /\ StageOf(g)'
  <2>1. CASE g # f
    BY <1>0, <1>1, <2>1, Untouched
  <2>2. CASE g = f
    BY <1>0, <1>1, <2>2 DEF Rest, RowOf, StageOf
  <2> QED
    BY <2>1, <2>2
<1> QED
  BY <1>2, <1>3 DEF Rest

LEMMA IssueStep ==
    ASSUME IInv, NEW f \in Flows, Issue(f)
    PROVE  IInv' /\ R!Open(f)
<1>0. TypeOK /\ Rest
  BY DEF IInv
<1>1. /\ flow[f].pc = "issue"
      /\ standing' = [standing EXCEPT ![f] = "open"]
      /\ UNCHANGED <<users, caller, signing>>
  BY DEF Issue
<1>2. /\ flow[f].sub \in Subs /\ flow[f].sub # Nobody
      /\ standing[f] = "none" /\ flow[f].browser # Nobody
      /\ flow[f].account # Nobody /\ flow[f].account \in Accounts
      /\ users[flow[f].account].sub = flow[f].sub
  BY <1>0, <1>1, FlowTyped DEF Rest, StageOf, FlowStates
<1>3. Moves(f, "ended")
  BY <1>0, FinishMoves DEF Issue
<1>4. TypeOK'
  <2>1. flowCookie' \in [Browsers -> Flows \cup {Nobody}]
    BY <1>0 DEF Issue, Finish, TypeOK
  <2> QED
    BY <1>0, <1>1, <1>3, <2>1 DEF TypeOK, Moves, signing
<1>5. /\ standing'[f] = "open"
      /\ \A g \in Flows : g # f => standing'[g] = standing[g]
  BY <1>0, <1>1 DEF TypeOK
<1>6. Rest'
  <2>1. UniqueSubs' /\ UniqueEmails'
    BY <1>0, <1>1 DEF Rest, UniqueSubs, UniqueEmails
  <2>2. ASSUME NEW g \in Flows, g # f
        PROVE  RowOf(g)' /\ StageOf(g)'
    BY <1>0, <1>1, <1>3, <1>5, <2>2, Untouched DEF Moves
  <2>3. RowOf(f)' /\ StageOf(f)'
    BY <1>0, <1>1, <1>2, <1>3, <1>5 DEF Rest, RowOf, StageOf, Moves
  <2> QED
    BY <2>1, <2>2, <2>3 DEF Rest
<1>7. Mail' = Mail /\ Owner' = Owner
  BY <1>1 DEF Mail, Owner
<1>8. Proof[f].sub = flow[f].sub /\ Proof' = Proof
  <2>1. ASSUME NEW g \in Flows
        PROVE  flow'[g].sub = flow[g].sub /\ flow'[g].email = flow[g].email
                 /\ flow'[g].browser = flow[g].browser
    BY <1>3 DEF Moves
  <2> QED
    BY <2>1 DEF Proof
<1>9. Owner[flow[f].sub] # Nobody
  <2>1. \A d \in Accounts : users[d].sub = flow[f].sub => d = flow[f].account
    BY <1>0, <1>2 DEF Rest, UniqueSubs
  <2>2. Owner[flow[f].sub] = flow[f].account
    BY <1>2, <2>1, OwnerIs DEF Owner
  <2> QED
    BY <1>2, <2>2
<1>10. Proof[f] # R!NoProof
  BY <1>2, <1>8 DEF R!NoProof
<1>11. R!Open(f)
  BY <1>1, <1>2, <1>7, <1>8, <1>9, <1>10 DEF R!Open
<1> QED
  BY <1>4, <1>6, <1>11 DEF IInv

\* What expiry and logout do: a session is over.
Ends(f) ==
    /\ UNCHANGED <<users, flow, flowCookie, caller, signing>>
    /\ standing' = [standing EXCEPT ![f] = "over"]
    /\ standing[f] \in {"open", "over"}

\* The session of the request's cookie is over, if it was not already.
LEMMA CloseStep ==
    ASSUME IInv, NEW f \in Flows,
           \/ Expire(f)
           \/ \E b \in Browsers : Logout(b, f)
    PROVE  IInv' /\ (R!Close(f) \/ UNCHANGED View)
<1>0. TypeOK /\ Rest
  BY DEF IInv
<1>1. Ends(f)
  BY DEF Ends, Expire, Logout, Carries, web
<1>2. TypeOK'
  BY <1>0, <1>1 DEF Ends, TypeOK, signing
<1>3. Mail' = Mail /\ Owner' = Owner /\ Proof' = Proof
  BY <1>1 DEF Ends, Mail, Owner, Proof
<1>4. flow[f].pc = "ended"
  BY <1>0, <1>1 DEF Ends, Rest, StageOf
<1>5. CASE standing[f] = "open"
  <2>1. Rest'
    BY <1>1, <1>4, <1>5, StandingRest DEF Ends
  <2>2. R!Close(f)
    BY <1>1, <1>3, <1>5 DEF Ends, R!Close
  <2> QED
    BY <1>2, <2>1, <2>2 DEF IInv
<1>6. CASE standing[f] = "over"
  <2>1. standing' = standing
    BY <1>0, <1>1, <1>6 DEF Ends, TypeOK
  <2>2. Rest'
    BY <1>0, <1>1, <2>1 DEF Ends, Rest, UniqueSubs, UniqueEmails, RowOf, StageOf, HasEmail
  <2> QED
    BY <1>1, <1>2, <1>3, <2>1, <2>2 DEF Ends, IInv, View
<1> QED
  BY <1>1, <1>5, <1>6 DEF Ends

\* A request is served for the account of the session it came with.
LEMMA RequestStep ==
    ASSUME IInv, NEW b \in Browsers, NEW f \in Flows, Request(b, f)
    PROVE  IInv' /\ R!Request(b)
<1>0. TypeOK /\ Rest
  BY DEF IInv
<1>1. UNCHANGED <<users, flow, standing, flowCookie, signing>> /\ flow[f].browser = b
  BY DEF Request, Carries
<1>2. flow[f].account \in Accounts \cup {Nobody}
  BY <1>0, FlowTyped DEF FlowStates
<1>3. TypeOK'
  BY <1>0, <1>1, <1>2 DEF TypeOK, Request, signing
<1>4. Rest'
  BY <1>0, <1>1 DEF Rest, UniqueSubs, UniqueEmails, RowOf, StageOf, HasEmail
<1>5. Mail' = Mail /\ Owner' = Owner /\ Proof' = Proof
  BY <1>1 DEF Mail, Owner, Proof
<1>6. CASE standing[f] = "open"
  <2>1. /\ flow[f].sub \in Subs /\ flow[f].sub # Nobody /\ flow[f].account \in Accounts
        /\ users[flow[f].account].sub = flow[f].sub
    BY <1>0, <1>2, <1>6, FlowTyped DEF Rest, StageOf, FlowStates
  <2>2. \A d \in Accounts : users[d].sub = flow[f].sub => d = flow[f].account
    BY <1>0, <2>1 DEF Rest, UniqueSubs
  <2>3. Owner[flow[f].sub] = flow[f].account
    BY <2>1, <2>2, OwnerIs DEF Owner
  <2>4. Proof[f].sub = flow[f].sub /\ Proof[f].browser = b
    BY <1>1, <2>1 DEF Proof
  <2>5. caller' = [browser |-> b, account |-> Owner[Proof[f].sub]]
    BY <1>6, <2>3, <2>4 DEF Request
  <2> QED
    BY <1>1, <1>3, <1>4, <1>5, <1>6, <2>4, <2>5 DEF R!Request, IInv
<1>7. CASE standing[f] # "open"
  <2>1. caller' = [browser |-> b, account |-> Nobody]
    BY <1>7 DEF Request
  <2> QED
    BY <1>1, <1>3, <1>4, <1>5, <2>1 DEF R!Request, IInv
<1> QED
  BY <1>6, <1>7

-----------------------------------------------------------------------------
(* The invariant and the promise *)

LEMMA InitIInv == Init => IInv /\ R!Init
<1> SUFFICES ASSUME Init PROVE IInv /\ R!Init
  OBVIOUS
<1> DEFINE start == [pc |-> "new", browser |-> Nobody, sub |-> Nobody,
                     email |-> Nobody, kid |-> 0, jwks |-> {}, account |-> Nobody]
<1>1. \A f \in Flows : flow[f] = start
  BY Zenon DEF Init
<1>2. start \in FlowStates
  BY DEF FlowStates, PCs
<1>3. flow \in [Flows -> FlowStates]
  BY <1>2 DEF Init
<1>4. TypeOK
  BY <1>3, SignInAssumption DEF Init, TypeOK
<1>5. \A a \in Accounts : users[a].sub = Nobody /\ (users[a].email # Nobody => a \in Waiting)
  BY DEF Init
<1>6. Rest
  <2>1. UniqueSubs
    BY <1>5 DEF UniqueSubs
  <2>2. UniqueEmails
    BY <1>5 DEF UniqueEmails, Init
  <2>3. ASSUME NEW f \in Flows
        PROVE  RowOf(f) /\ StageOf(f)
    <3>1. users[f].sub = Nobody /\ users[f].email = Nobody
      BY <1>5, SignInAssumption DEF Accounts
    <3> QED
      BY <1>1, <3>1 DEF RowOf, StageOf, Init
  <2> QED
    BY <2>1, <2>2, <2>3 DEF Rest
<1>7. R!Init
  <2>1. Mail \in [Accounts -> Emails \cup {Nobody}]
    BY <1>4 DEF Mail, TypeOK, Rows
  <2>2. \A a \in Accounts : Mail[a] = users[a].email
    BY DEF Mail
  <2>3. \A a \in Accounts : Mail[a] # Nobody => a \in Waiting
    BY <1>5, <2>2
  <2>4. \A a, b \in Waiting : Mail[a] = Mail[b] /\ Mail[a] # Nobody => a = b
    BY <2>2 DEF Init, Accounts
  <2>5. Owner = [s \in Subs |-> Nobody]
    <3>1. ASSUME NEW s \in Subs
          PROVE  OwnerIn(users, s) = Nobody
      BY <1>5, NoOwner, SignInAssumption
    <3> QED
      BY <3>1 DEF Owner
  <2>6. Proof = [f \in Flows |-> R!NoProof]
    BY <1>1 DEF Proof, R!NoProof
  <2> QED
    BY <2>1, <2>3, <2>4, <2>5, <2>6 DEF R!Init, Init
<1> QED
  BY <1>4, <1>6, <1>7 DEF IInv

LEMMA NextStep ==
    ASSUME IInv, [Next]_vars
    PROVE  IInv' /\ (R!Next \/ UNCHANGED View)
<1>1. CASE \/ UNCHANGED vars
           \/ \E f \in Flows, b \in Browsers : CallbackRefused(f, b)
           \/ \E k \in Keys : Publish(k) \/ Withdraw(k)
  BY <1>1, OtherQuiet
<1>2. ASSUME NEW f \in Flows,
             \/ \E b \in Browsers : Callback(f, b)
             \/ Declined(f) \/ Exchanged(f) \/ CachedKey(f) \/ FetchKeys(f) \/ ListKeys(f)
             \/ StoreKeys(f) \/ FetchedKey(f) \/ UnknownKey(f) \/ ExchangeFails(f)
             \/ UpsertFails(f) \/ IssueFails(f)
      PROVE  IInv' /\ UNCHANGED View
  BY <1>2, ExchangeQuiet
<1>3. ASSUME NEW f \in Flows, Look(f) \/ \E b \in Browsers : Start(f, b)
      PROVE  IInv' /\ UNCHANGED View
  BY <1>3, LookStep, StartStep
<1>4. ASSUME NEW f \in Flows, Authenticate(f)
      PROVE  IInv' /\ R!Next
  BY <1>4, AuthenticateStep DEF R!Next
<1>5. ASSUME NEW f \in Flows, Link(f) \/ Insert(f)
      PROVE  IInv' /\ (R!Next \/ UNCHANGED View)
  BY <1>5, UpsertStep DEF R!Next
<1>6. ASSUME NEW f \in Flows, Issue(f)
      PROVE  IInv' /\ R!Next
  BY <1>6, IssueStep DEF R!Next
<1>7. ASSUME NEW f \in Flows, Expire(f) \/ \E b \in Browsers : Logout(b, f)
      PROVE  IInv' /\ (R!Next \/ UNCHANGED View)
  BY <1>7, CloseStep DEF R!Next
<1>8. ASSUME NEW f \in Flows, NEW b \in Browsers, Request(b, f)
      PROVE  IInv' /\ R!Next
  BY <1>8, RequestStep DEF R!Next
<1> QED
  BY <1>1, <1>2, <1>3, <1>4, <1>5, <1>6, <1>7, <1>8 DEF Next

THEOREM Invariance == Spec => []IInv
<1>1. Init => IInv
  BY InitIInv
<1>2. IInv /\ [Next]_vars => IInv'
  BY NextStep
<1> QED
  BY <1>1, <1>2, PTL DEF Spec

\* Whatever tabs, callbacks and upserts do to each other, the users table, the
\* flow cookies and the sessions stay in their domains (UpsertUserByGoogle, Issue).
THEOREM TypeCorrect == Spec => []TypeOK
<1>1. IInv => TypeOK
  BY DEF IInv
<1> QED
  BY <1>1, Invariance, PTL

\* Sign-ins that race on one identity or one email leave one account for each
\* identity, and a browser acts for that account only (UpsertUserByGoogle's
\* read, link and insert; Issue; UserFromRequest).
THEOREM ImplementsRegistry == Spec => RegistrySpec
<1>1. Init => R!Init
  BY InitIInv
<1>2. IInv /\ [Next]_vars => [R!Next]_(R!vars)
  BY NextStep DEF View, R!vars
<1> QED
  BY <1>1, <1>2, Invariance, PTL DEF Spec, RegistrySpec, R!Spec

-----------------------------------------------------------------------------
(* What a registry promises, whatever implements it.                        *)

RegistryTyped ==
    /\ Mail \in [Accounts -> Emails \cup {Nobody}]
    /\ Owner \in [Subs -> Accounts \cup {Nobody}]
    /\ DOMAIN Proof = Flows
    /\ \A f \in Flows : /\ Proof[f] # R!NoProof => Proof[f].sub \in Subs
                        /\ Proof[f].email \in Emails \cup {Nobody}
    /\ standing \in [Flows -> {"none", "open", "over", "turned away"}]

\* An email is one account's, a session is somebody's who proved who they are,
\* and the latest request acted for nobody, or for the account of an identity
\* that was proved from the same browser and let in.
Admitted(f) == Proof[f] # R!NoProof /\ Owner[Proof[f].sub] # Nobody

SoundRegistry ==
    /\ RegistryTyped
    /\ \A a, b \in Accounts : Mail[a] = Mail[b] /\ Mail[a] # Nobody => a = b
    /\ \A f \in Flows : standing[f] \in {"open", "over"} => Admitted(f)
    /\ caller.account # Nobody =>
          \E f \in Flows :
              /\ Admitted(f) /\ standing[f] \in {"open", "over"}
              /\ Proof[f].browser = caller.browser
              /\ Owner[Proof[f].sub] = caller.account

\* An identity keeps its account and the account its email; a proof is given
\* once, and a sign-in that was turned away or ended stays so.
RegistryMoves ==
    /\ \A s \in Subs : Owner[s] # Nobody =>
          Owner'[s] = Owner[s] /\ Mail'[Owner[s]] = Mail[Owner[s]]
    /\ \A f \in Flows : Proof[f] # R!NoProof => Proof'[f] = Proof[f]
    /\ \A f \in Flows : standing[f] \in {"over", "turned away"} => standing'[f] = standing[f]
    /\ \A f \in Flows : standing[f] = "open" => standing'[f] \in {"open", "over"}

RegistryIsKept == [][RegistryMoves]_(R!vars)

\* A registry starts with waiting accounts only.
LEMMA RegistryInit == R!Init => SoundRegistry
<1> SUFFICES ASSUME R!Init PROVE SoundRegistry
    OBVIOUS
<1>1. RegistryTyped
  BY DEF R!Init, RegistryTyped, R!NoProof
<1>2. \A a, b \in Accounts : Mail[a] = Mail[b] /\ Mail[a] # Nobody => a = b
  BY DEF R!Init
<1> QED
  BY <1>1, <1>2 DEF R!Init, SoundRegistry

\* Nothing a step does takes away what was given.
LEMMA RegistryGoesOn ==
    SoundRegistry /\ [R!Next]_(R!vars) => SoundRegistry' /\ [RegistryMoves]_(R!vars)
<1> SUFFICES ASSUME SoundRegistry, [R!Next]_(R!vars)
             PROVE  SoundRegistry' /\ [RegistryMoves]_(R!vars)
    OBVIOUS
<1> USE DEF SoundRegistry, RegistryTyped, Admitted
<1> HIDE DEF Mail, Owner, Proof
<1>0. R!NoProof' = R!NoProof
  BY DEF R!NoProof
<1>1. CASE UNCHANGED R!vars
  BY <1>0, <1>1 DEF R!vars
<1>2. ASSUME NEW f \in Flows, R!Prove(f) PROVE SoundRegistry' /\ RegistryMoves
  <2>1. UNCHANGED <<Mail, Owner, standing, caller>> /\ Proof[f] = R!NoProof
    BY <1>2 DEF R!Prove
  <2>2. \A g \in Flows : Proof[g] # R!NoProof => Proof'[g] = Proof[g]
    BY <1>2, <2>1 DEF R!Prove
  <2> PICK s \in Subs, e \in Emails \cup {Nobody}, b \in Browsers :
         Proof' = [Proof EXCEPT ![f] = [sub |-> s, email |-> e, browser |-> b]]
    BY <1>2 DEF R!Prove
  <2>3. RegistryTyped'
    BY <1>0, <2>1, <2>2
  <2>4. \A g \in Flows : Admitted(g) => Admitted(g)' /\ Proof'[g] = Proof[g]
    BY <1>0, <2>1, <2>2
  <2>5. SoundRegistry'
    BY <1>0, <2>1, <2>3, <2>4
  <2> QED
    BY <2>1, <2>2, <2>5 DEF RegistryMoves
<1>3. ASSUME NEW f \in Flows, R!Adopt(f) PROVE SoundRegistry' /\ RegistryMoves
  <2> DEFINE s == Proof[f].sub
             e == Proof[f].email
  <2>1. /\ UNCHANGED <<Proof, standing, caller>>
        /\ s # Nobody /\ Owner[s] = Nobody
        /\ \A a, b \in Accounts : Mail'[a] = Mail'[b] /\ Mail'[a] # Nobody => a = b
    BY <1>3 DEF R!Adopt
  <2>2. PICK a \in Accounts : /\ ~R!Owned(a)
                              /\ Owner' = [Owner EXCEPT ![s] = a]
                              /\ Mail' = [Mail EXCEPT ![a] = e]
    BY <1>3 DEF R!Adopt, Accounts
  <2>3. \A t \in Subs : Owner[t] # Nobody =>
            Owner'[t] = Owner[t] /\ Mail'[Owner[t]] = Mail[Owner[t]]
    BY <2>1, <2>2 DEF R!Owned
  <2>4. Owner' \in [Subs -> Accounts \cup {Nobody}]
    BY <2>2
  <2>5. Mail' \in [Accounts -> Emails \cup {Nobody}]
    BY <2>2
  <2>6. RegistryTyped'
    BY <1>0, <2>1, <2>4, <2>5
  <2>7. \A g \in Flows : Admitted(g) => Admitted(g)' /\ Owner'[Proof'[g].sub] = Owner[Proof[g].sub]
    BY <1>0, <2>1, <2>3
  <2>8. SoundRegistry'
    BY <1>0, <2>1, <2>6, <2>7
  <2> QED
    BY <2>1, <2>3, <2>8 DEF RegistryMoves
<1>4. ASSUME NEW f \in Flows, R!TurnAway(f) PROVE SoundRegistry' /\ RegistryMoves
  BY <1>0, <1>4 DEF R!TurnAway, RegistryMoves
<1>5. ASSUME NEW f \in Flows, R!Open(f) PROVE SoundRegistry' /\ RegistryMoves
  BY <1>0, <1>5 DEF R!Open, RegistryMoves
<1>6. ASSUME NEW f \in Flows, R!Close(f) PROVE SoundRegistry' /\ RegistryMoves
  BY <1>0, <1>6 DEF R!Close, RegistryMoves
<1>7. ASSUME NEW b \in Browsers, R!Request(b) PROVE SoundRegistry' /\ RegistryMoves
  <2>1. UNCHANGED <<Mail, Owner, Proof, standing>>
    BY <1>7 DEF R!Request
  <2>2. \A f \in Flows : Admitted(f)' <=> Admitted(f)
    BY <1>0, <2>1
  <2>3. caller'.account # Nobody =>
           \E f \in Flows : /\ standing[f] = "open" /\ Proof[f].browser = caller'.browser
                            /\ Owner[Proof[f].sub] = caller'.account
    <3>1. CASE caller' = [browser |-> b, account |-> Nobody]
      BY <3>1
    <3>2. ASSUME NEW f \in Flows, standing[f] = "open", Proof[f].browser = b,
                 caller' = [browser |-> b, account |-> Owner[Proof[f].sub]]
          PROVE  \E g \in Flows : /\ standing[g] = "open" /\ Proof[g].browser = caller'.browser
                                  /\ Owner[Proof[g].sub] = caller'.account
      BY <3>2
    <3> QED
      BY <1>7, <3>1, <3>2 DEF R!Request
  <2>4. SoundRegistry'
    BY <1>0, <2>1, <2>2, <2>3
  <2> QED
    BY <2>1, <2>4 DEF RegistryMoves
<1> QED
  BY <1>1, <1>2, <1>3, <1>4, <1>5, <1>6, <1>7 DEF R!Next

\* So no identity ever changes accounts, no account changes hands or its email,
\* and no request is ever served for anybody but an identity that was proved
\* from the browser it came from.
THEOREM RegistryHolds == Spec => []SoundRegistry /\ RegistryIsKept
<1>1. Spec => R!Init /\ [][R!Next]_(R!vars)
  BY ImplementsRegistry DEF RegistrySpec, R!Spec
<1> QED
  BY <1>1, RegistryInit, RegistryGoesOn, PTL DEF RegistryIsKept

-----------------------------------------------------------------------------
(* The signing keys *)

\* A step that neither fetches, stores nor withdraws leaves a rotation settled.
LEMMA SettledAlone ==
    ASSUME NEW k, Settled(k), k \in published', keys' = keys,
           \A g \in Flows : flow'[g].pc = "fetched" /\ flow'[g].jwks # {}
                              => flow[g].pc = "fetched" /\ flow'[g].jwks = flow[g].jwks
    PROVE  Settled(k)'
BY DEF Settled

\* A step of f that does not leave it with a fetched list.
LEMMA SettledMove ==
    ASSUME NEW k, Settled(k), k \in published', keys' = keys,
           NEW f \in Flows, flow'[f].pc # "fetched",
           \A g \in Flows : g # f => flow'[g] = flow[g]
    PROVE  Settled(k)'
BY DEF Settled

LEMMA MovesPC ==
    ASSUME TypeOK, NEW f \in Flows,
           \/ \E pc \in PCs \ {"fetched"} :
                 \/ GoTo(f, pc)
                 \/ \E j \in Keys \cup {0} : WithKey(f, pc, j)
                 \/ \E list \in SUBSET Keys : WithList(f, pc, list)
           \/ \E a \in Accounts : WithAccount(f, a)
           \/ Finish(f)
    PROVE  flow'[f].pc # "fetched" /\ \A g \in Flows : g # f => flow'[g] = flow[g]
<1>1. ASSUME NEW pc \in PCs \ {"fetched"},
             \/ GoTo(f, pc)
             \/ \E j \in Keys \cup {0} : WithKey(f, pc, j)
             \/ \E list \in SUBSET Keys : WithList(f, pc, list)
      PROVE  Moves(f, pc) /\ pc # "fetched"
  BY <1>1, GoToMoves, KeyMoves, ListMoves
<1>2. ASSUME NEW a \in Accounts, WithAccount(f, a)
      PROVE  Learns(f, a)
  BY <1>2, AccountLearns
<1>3. ASSUME Finish(f)
      PROVE  Moves(f, "ended")
  BY <1>3, FinishMoves
<1> QED
  BY <1>1, <1>2, <1>3 DEF Moves, Learns

\* The steps that put no list on its way and store none.
LEMMA AttemptGoesOn ==
    ASSUME TypeOK, NEW f \in Flows,
           \/ \E b \in Browsers : Start(f, b) \/ Callback(f, b)
           \/ Authenticate(f) \/ Declined(f) \/ Exchanged(f) \/ CachedKey(f) \/ FetchKeys(f)
           \/ FetchedKey(f) \/ UnknownKey(f) \/ ExchangeFails(f) \/ Look(f)
           \/ Link(f) \/ Insert(f) \/ UpsertFails(f) \/ Issue(f) \/ IssueFails(f)
    PROVE  /\ keys' = keys
           /\ flow'[f].pc # "fetched"
           /\ \A g \in Flows : g # f => flow'[g] = flow[g]
<1>0. {"exchange", "verify", "fetch", "look", "link", "insert"} \subseteq PCs \ {"fetched"}
  BY DEF PCs
<1>1. CASE Authenticate(f) \/ \E b \in Browsers : Start(f, b)
  <2>1. \E r : r.pc # "fetched" /\ flow' = [flow EXCEPT ![f] = r]
    <3>1. ASSUME NEW t \in Subs, NEW e \in Emails \cup {Nobody},
                 flow' = [flow EXCEPT ![f].pc = "returned", ![f].sub = t, ![f].email = e]
          PROVE  \E r : r.pc # "fetched" /\ flow' = [flow EXCEPT ![f] = r]
      <4> DEFINE me == [flow[f] EXCEPT !.pc = "returned", !.sub = t, !.email = e]
      <4>1. flow' = [flow EXCEPT ![f] = me]
        BY <3>1, Zenon
      <4>2. me.pc = "returned"
        BY FlowTyped DEF FlowStates
      <4> QED
        BY <4>1, <4>2
    <3>2. ASSUME NEW b \in Browsers, Start(f, b)
          PROVE  \E r : r.pc # "fetched" /\ flow' = [flow EXCEPT ![f] = r]
      <4> DEFINE me == [flow[f] EXCEPT !.pc = "provider", !.browser = b]
      <4>1. flow' = [flow EXCEPT ![f] = me]
        BY <3>2, Zenon DEF Start
      <4>2. me.pc = "provider"
        BY FlowTyped DEF FlowStates
      <4> QED
        BY <4>1, <4>2
    <3> QED
      BY <1>1, <3>1, <3>2 DEF Authenticate
  <2> QED
    BY <1>1, <2>1 DEF Authenticate, Start, signing, TypeOK
<1>2. CASE FetchKeys(f) \/ \E b \in Browsers : Callback(f, b)
  BY <1>0, <1>2, MovesPC DEF FetchKeys, Callback, signing
<1>3. CASE Exchanged(f) \/ CachedKey(f) \/ FetchedKey(f)
  BY <1>0, <1>3, MovesPC DEF Exchanged, CachedKey, FetchedKey, Verified, signing, TypeOK
<1>4. CASE Declined(f) \/ UnknownKey(f) \/ ExchangeFails(f) \/ UpsertFails(f) \/ IssueFails(f)
           \/ Issue(f)
  BY <1>4, MovesPC
     DEF Declined, UnknownKey, ExchangeFails, UpsertFails, IssueFails, Issue, signing
<1>5. CASE Look(f) \/ Link(f) \/ Insert(f)
  <2>1. /\ keys' = keys
        /\ \/ \E a \in Accounts : WithAccount(f, a)
           \/ GoTo(f, "link") \/ GoTo(f, "insert")
           \/ Finish(f)
    <3>1. CASE Look(f)
      BY <3>1 DEF Look, signing
    <3>2. CASE Link(f)
      BY <3>2 DEF Link, Commit, Conflict, signing
    <3>3. CASE Insert(f)
      BY <3>3 DEF Insert, Commit, Conflict, signing, Accounts
    <3> QED
      BY <1>5, <3>1, <3>2, <3>3
  <2> QED
    BY <1>0, <2>1, MovesPC
<1> QED
  BY <1>1, <1>2, <1>3, <1>4, <1>5

LEMMA SettledStep ==
    ASSUME IInv, [Next]_vars, NEW k, Settled(k), k \in published'
    PROVE  Settled(k)'
<1>0. TypeOK
  BY DEF IInv
<1>1. CASE flow' = flow /\ keys' = keys
  BY <1>1, SettledAlone
<1>2. ASSUME NEW f \in Flows, ListKeys(f)
      PROVE  Settled(k)'
  <2>1. PICK list \in {published, {}} : WithList(f, "fetched", list)
    BY <1>2 DEF ListKeys
  <2>2. "fetched" \in PCs /\ list \in SUBSET Keys
    BY <1>0 DEF PCs, TypeOK
  <2>3. flow'[f].jwks = list /\ \A g \in Flows : g # f => flow'[g] = flow[g]
    BY <1>0, <2>1, <2>2, ListMoves DEF Moves
  <2>4. keys' = keys
    BY <1>2 DEF ListKeys, signing
  <2> QED
    BY <2>1, <2>3, <2>4 DEF Settled
<1>3. ASSUME NEW f \in Flows, StoreKeys(f)
      PROVE  Settled(k)'
  <2>1. WithList(f, "lookup", {}) /\ "lookup" \in PCs /\ {} \in SUBSET Keys
    BY <1>3 DEF StoreKeys, PCs
  <2>2. flow'[f].pc = "lookup" /\ \A g \in Flows : g # f => flow'[g] = flow[g]
    BY <1>0, <2>1, ListMoves DEF Moves
  <2>3. keys' = flow[f].jwks /\ k \in flow[f].jwks
    BY <1>3 DEF StoreKeys, Settled
  <2> QED
    BY <2>2, <2>3 DEF Settled
<1>4. ASSUME NEW f \in Flows,
             \/ \E b \in Browsers : Start(f, b) \/ Callback(f, b)
             \/ Authenticate(f) \/ Declined(f) \/ Exchanged(f) \/ CachedKey(f) \/ FetchKeys(f)
             \/ FetchedKey(f) \/ UnknownKey(f) \/ ExchangeFails(f) \/ Look(f)
             \/ Link(f) \/ Insert(f) \/ UpsertFails(f) \/ Issue(f) \/ IssueFails(f)
      PROVE  Settled(k)'
  BY <1>0, <1>4, AttemptGoesOn, SettledMove
<1>5. CASE \/ \E f \in Flows : Expire(f)
           \/ \E f \in Flows, b \in Browsers : CallbackRefused(f, b) \/ Logout(b, f) \/ Request(b, f)
           \/ \E j \in Keys : Publish(j) \/ Withdraw(j)
           \/ UNCHANGED vars
  BY <1>1, <1>5 DEF Expire, CallbackRefused, Request, Logout, web, Publish, Withdraw, vars, signing
<1> QED
  BY <1>2, <1>3, <1>4, <1>5 DEF Next

\* Once no list from before a rotation is about, the new key stays known until
\* the issuer withdraws it, whatever the fetches answer and in whatever order
\* their answers are stored (signingKey, fetchKeys).
THEOREM KeysStayKnown == Spec => RotationsSettle
<1>1. IInv /\ [Next]_vars => [\A k \in Keys : Settled(k) /\ k \in published' => Settled(k)']_vars
  BY SettledStep
<1> QED
  BY <1>1, Invariance, PTL DEF Spec, RotationsSettle

=============================================================================
