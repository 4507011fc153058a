------------------------------- MODULE SignIn -------------------------------
(***************************************************************************)
(* Signing in with Google, from the redirect to the session, and what a    *)
(* session is good for (httpapi/session_handlers.go, internal/auth,        *)
(* store/users.go, store/sessions.go).  A browser has one flow cookie,     *)
(* whatever its tabs are doing; callbacks run in parallel, and the         *)
(* statements of their upserts interleave.                                 *)
(*                                                                         *)
(* Google is external: who signs in there and with which verified email,   *)
(* which keys it publishes, whether and how fast it answers.               *)
(***************************************************************************)
EXTENDS Naturals

CONSTANTS
    Flows,       \* sign-in attempts, each with its state, nonce and verifier
    Browsers,
    Subs,        \* Google subjects
    Emails,
    Waiting,     \* accounts that may have been provisioned with an email
    Nobody,
    Keys         \* the issuer's signing keys, in the order of their rotation

ASSUME SignInAssumption ==
    /\ Keys \subseteq Nat \ {0} /\ 1 \in Keys
    /\ Waiting \cap Flows = {}
    /\ Nobody \notin Flows \cup Waiting \cup Subs \cup Emails \cup Browsers

VARIABLES
    users,       \* the users table
    flow,        \* each sign-in attempt
    standing,    \* what became of it: the sessions row it led to, if any
    flowCookie,  \* each browser's cookie of the sign-in under way
    caller,      \* the browser of the latest request, and the account it was served for
    keys,        \* the cached signing keys
    published    \* the keys on the issuer's list

vars == <<users, flow, standing, flowCookie, caller, keys, published>>
web == <<flowCookie, caller>>
signing == <<keys, published>>

\* An inserted row is named by the attempt that inserts it.
Accounts == Waiting \cup Flows

Rows == [sub : Subs \cup {Nobody}, email : Emails \cup {Nobody}]

\* Sent to Google and returned with a code; exchange of the code and check of
\* the ID token; the statements of the upsert; the session.
PCs == {"new", "provider", "returned",
        "exchange", "verify", "fetch", "fetched", "lookup",
        "look", "link", "insert", "issue", "ended"}

FlowStates == [pc : PCs, browser : Browsers \cup {Nobody}, sub : Subs \cup {Nobody},
               email : Emails \cup {Nobody}, kid : Keys \cup {0}, jwks : SUBSET Keys,
               account : Accounts \cup {Nobody}]

Init ==
    /\ users \in [Accounts -> Rows]
    /\ \A a \in Accounts : users[a].sub = Nobody /\ (users[a].email # Nobody => a \in Waiting)
    /\ \A a, b \in Waiting : users[a].email = users[b].email /\ users[a].email # Nobody => a = b
    /\ flow = [f \in Flows |-> [pc |-> "new", browser |-> Nobody, sub |-> Nobody,
                                email |-> Nobody, kid |-> 0, jwks |-> {}, account |-> Nobody]]
    /\ standing = [f \in Flows |-> "none"]
    /\ flowCookie = [b \in Browsers |-> Nobody]
    /\ caller = [browser |-> Nobody, account |-> Nobody]
    /\ keys = {}
    /\ published = {1}

\* The attempt goes on, with the key its ID token is signed with, the list of
\* keys it was answered, or its account.
GoTo(f, pc) == flow' = [flow EXCEPT ![f].pc = pc]
WithKey(f, pc, k) == flow' = [flow EXCEPT ![f].pc = pc, ![f].kid = k]
WithList(f, pc, list) == flow' = [flow EXCEPT ![f].pc = pc, ![f].jwks = list]
WithAccount(f, a) == flow' = [flow EXCEPT ![f].pc = "issue", ![f].account = a]

\* The response that ends a sign-in, well or not, clears the browser's flow
\* cookie, whichever sign-in that cookie is of by now.
Finish(f) ==
    /\ WithList(f, "ended", {})
    /\ flowCookie' = [flowCookie EXCEPT ![flow[f].browser] = Nobody]

-----------------------------------------------------------------------------
(* handleGoogleStart and handleGoogleCallback up to the exchange. *)

Start(f, b) ==
    /\ flow[f].pc = "new"
    /\ flow' = [flow EXCEPT ![f].pc = "provider", ![f].browser = b]
    /\ flowCookie' = [flowCookie EXCEPT ![b] = f]
    /\ UNCHANGED <<users, standing, caller, signing>>

\* The person signs in at Google (external), or does not.
Authenticate(f) ==
    /\ flow[f].pc = "provider"
    /\ \E s \in Subs, e \in Emails \cup {Nobody} :
          flow' = [flow EXCEPT ![f].pc = "returned", ![f].sub = s, ![f].email = e]
    /\ UNCHANGED <<users, standing, web, signing>>

Declined(f) ==
    /\ flow[f].pc = "provider"
    /\ Finish(f)
    /\ UNCHANGED <<users, standing, caller, signing>>

\* The callback arrives in a browser that holds this attempt's cookie.
Callback(f, b) ==
    /\ flow[f].pc = "returned" /\ flowCookie[b] = f
    /\ GoTo(f, "exchange")
    /\ UNCHANGED <<users, standing, web, signing>>

\* It arrives where another attempt's cookie or none is, too late, or again
\* when its code is spent: nothing but the browser's flow cookie changes.
CallbackRefused(f, b) ==
    /\ flow[f].pc \notin {"new", "provider"}
    /\ flowCookie[b] # Nobody
    /\ flowCookie' = [flowCookie EXCEPT ![b] = Nobody]
    /\ UNCHANGED <<users, flow, standing, caller, signing>>

-----------------------------------------------------------------------------
(* Exchange, verifyIDToken, signingKey and fetchKeys. *)

\* The token endpoint answers with an ID token signed with the newest key.
Exchanged(f) ==
    /\ flow[f].pc = "exchange"
    /\ \E k \in published :
          /\ \A j \in published : j <= k
          /\ WithKey(f, "verify", k)
    /\ UNCHANGED <<users, standing, web, signing>>

Verified(f) == WithKey(f, "look", 0)

CachedKey(f) ==
    /\ flow[f].pc = "verify" /\ flow[f].kid \in keys
    /\ Verified(f)
    /\ UNCHANGED <<users, standing, web, signing>>

\* The key is not in the cache, or the cache is more than an hour old.
FetchKeys(f) ==
    /\ flow[f].pc = "verify"
    /\ GoTo(f, "fetch")
    /\ UNCHANGED <<users, standing, web, signing>>

\* The issuer reads its list, or answers with nothing usable.
ListKeys(f) ==
    /\ flow[f].pc = "fetch"
    /\ \E list \in {published, {}} : WithList(f, "fetched", list)
    /\ UNCHANGED <<users, standing, web, signing>>

\* Bug: an answer without a usable key empties the cache.
StoreAnyKeys(f) ==
    /\ flow[f].pc = "fetched"
    /\ keys' = flow[f].jwks
    /\ WithList(f, "lookup", {})
    /\ UNCHANGED <<users, standing, web, published>>

\* The answer replaces the cached list, even one that was read later.
StoreKeys(f) ==
    /\ flow[f].pc = "fetched" /\ flow[f].jwks # {}
    /\ keys' = flow[f].jwks
    /\ WithList(f, "lookup", {})
    /\ UNCHANGED <<users, standing, web, published>>

FetchedKey(f) ==
    /\ flow[f].pc = "lookup"
    /\ flow[f].kid \in keys
    /\ Verified(f)
    /\ UNCHANGED <<users, standing, web, signing>>

UnknownKey(f) ==
    /\ flow[f].pc = "lookup"
    /\ flow[f].kid \notin keys
    /\ Finish(f)
    /\ UNCHANGED <<users, standing, caller, signing>>

\* No answer, an error, or an ID token that is not for this attempt.
ExchangeFails(f) ==
    /\ flow[f].pc \in {"exchange", "verify", "fetch", "fetched"}
    /\ Finish(f)
    /\ UNCHANGED <<users, standing, caller, signing>>

-----------------------------------------------------------------------------
(* UpsertUserByGoogle, statement by statement. *)

HasSub(a, f) == users[a].sub = flow[f].sub
HasEmail(a, f) == flow[f].email # Nobody /\ users[a].email = flow[f].email

Look(f) ==
    /\ flow[f].pc = "look"
    /\ \/ \E a \in Accounts :
             /\ HasSub(a, f)
             /\ WithAccount(f, a)
       \/ /\ \A a \in Accounts : ~HasSub(a, f)
          /\ GoTo(f, IF flow[f].email # Nobody THEN "link" ELSE "insert")
    /\ UNCHANGED <<users, standing, web, signing>>

\* The transaction that gives account a the row commits; its caller may not
\* learn of it.
Commit(f, a, row) ==
    /\ users' = [users EXCEPT ![a] = row]
    /\ \/ /\ WithAccount(f, a)
          /\ UNCHANGED flowCookie
       \/ Finish(f)
    /\ UNCHANGED <<standing, caller, signing>>

\* A unique index rejects the row.
Conflict(f) ==
    /\ standing' = [standing EXCEPT ![f] = "turned away"]
    /\ Finish(f)
    /\ UNCHANGED <<users, caller, signing>>

\* Bug: the email alone decides.
LinkableByEmail(a, f) == HasEmail(a, f)

Linkable(a, f) == HasEmail(a, f) /\ users[a].sub = Nobody

Link(f) ==
    /\ flow[f].pc = "link"
    /\ \/ \E a \in Accounts :
             /\ Linkable(a, f)
             /\ IF \E c \in Accounts : HasSub(c, f)
                THEN Conflict(f)
                ELSE Commit(f, a, [users[a] EXCEPT !.sub = flow[f].sub])
       \/ /\ \A a \in Accounts : ~Linkable(a, f)
          /\ GoTo(f, "insert")
          /\ UNCHANGED <<users, standing, web, signing>>

\* Bug: an address that is not known is stored as one, without NULLIF.
InsertBlank(f) ==
    /\ flow[f].pc = "insert"
    /\ IF \E a \in Accounts : HasSub(a, f) \/ HasEmail(a, f)
       THEN Conflict(f)
       ELSE Commit(f, f, [sub |-> flow[f].sub,
                          email |-> IF flow[f].email = Nobody THEN "" ELSE flow[f].email])

Insert(f) ==
    /\ flow[f].pc = "insert"
    /\ IF \E a \in Accounts : HasSub(a, f) \/ HasEmail(a, f)
       THEN Conflict(f)
       ELSE Commit(f, f, [sub |-> flow[f].sub, email |-> flow[f].email])

UpsertFails(f) ==
    /\ flow[f].pc \in {"look", "link", "insert"}
    /\ Finish(f)
    /\ UNCHANGED <<users, standing, caller, signing>>

-----------------------------------------------------------------------------
(* Issue, Revoke and UserFromRequest. *)

\* The response brings the session's cookie and clears the flow cookie.
Issue(f) ==
    /\ flow[f].pc = "issue"
    /\ standing' = [standing EXCEPT ![f] = "open"]
    /\ Finish(f)
    /\ UNCHANGED <<users, caller, signing>>

\* Should the row be there nevertheless, nobody has its token.
IssueFails(f) ==
    /\ flow[f].pc = "issue"
    /\ Finish(f)
    /\ UNCHANGED <<users, standing, caller, signing>>

\* A request may still carry the cookie of a session that was logged out, or
\* replaced in its browser, while the request was on its way.
Carries(b, f) == flow[f].browser = b /\ standing[f] \in {"open", "over"}

\* The row of the session is revoked, if it was not already.
Logout(b, f) ==
    /\ Carries(b, f)
    /\ standing' = [standing EXCEPT ![f] = "over"]
    /\ UNCHANGED <<users, flow, web, signing>>

Expire(f) ==
    /\ standing[f] = "open"
    /\ standing' = [standing EXCEPT ![f] = "over"]
    /\ UNCHANGED <<users, flow, web, signing>>

Request(b, f) ==
    /\ Carries(b, f)
    /\ caller' = [browser |-> b,
                  account |-> IF standing[f] = "open" THEN flow[f].account ELSE Nobody]
    /\ UNCHANGED <<users, flow, standing, flowCookie, signing>>

-----------------------------------------------------------------------------
(* The issuer's list (external). *)

Publish(k) ==
    /\ k \notin published /\ \A j \in published : j < k
    /\ published' = published \cup {k}
    /\ UNCHANGED <<users, flow, standing, web, keys>>

Withdraw(k) ==
    /\ k \in published /\ \E j \in published : j > k
    /\ published' = published \ {k}
    /\ UNCHANGED <<users, flow, standing, web, keys>>

Next ==
    \/ \E f \in Flows :
         \/ Authenticate(f) \/ Declined(f) \/ Exchanged(f) \/ CachedKey(f)
         \/ FetchKeys(f) \/ ListKeys(f) \/ StoreKeys(f) \/ FetchedKey(f) \/ UnknownKey(f)
         \/ ExchangeFails(f) \/ Look(f) \/ Link(f) \/ Insert(f) \/ UpsertFails(f)
         \/ Issue(f) \/ IssueFails(f) \/ Expire(f)
         \/ \E b \in Browsers : Start(f, b) \/ Callback(f, b) \/ CallbackRefused(f, b)
                                   \/ Logout(b, f) \/ Request(b, f)
    \/ \E k \in Keys : Publish(k) \/ Withdraw(k)

Spec == Init /\ [][Next]_vars

-----------------------------------------------------------------------------
(* Properties *)

\* Every variable stays in its domain.
TypeOK ==
    /\ users \in [Accounts -> Rows]
    /\ flow \in [Flows -> FlowStates]
    /\ standing \in [Flows -> {"none", "open", "over", "turned away"}]
    /\ flowCookie \in [Browsers -> Flows \cup {Nobody}]
    /\ caller \in [browser : Browsers \cup {Nobody}, account : Accounts \cup {Nobody}]
    /\ keys \subseteq Keys
    /\ published \subseteq Keys

Mail == [a \in Accounts |-> users[a].email]

\* The account with a subject in a users table.
OwnerIn(table, s) ==
    IF \E a \in Accounts : table[a].sub = s
    THEN CHOOSE a \in Accounts : table[a].sub = s
    ELSE Nobody

Owner == [s \in Subs |-> OwnerIn(users, s)]

Proof == [f \in Flows |->
    [sub |-> flow[f].sub, email |-> flow[f].email,
     browser |-> IF flow[f].sub = Nobody THEN Nobody ELSE flow[f].browser]]

R == INSTANCE Registry WITH mail <- Mail, owner <- Owner, proof <- Proof

\* Racing upserts, linking by email and sessions keep the promise of module
\* Registry: one account per identity, and sessions for no other.
RegistrySpec == R!Spec

\* The key is cached, and on every list on its way to the cache.
Settled(k) ==
    /\ k \in published
    /\ k \in keys
    /\ \A f \in Flows : flow[f].pc = "fetched" /\ flow[f].jwks # {} => k \in flow[f].jwks

\* signingKey, "refetching once on an unknown kid (key rotation)": an older
\* list may still replace a newer one and turn a sign-in away, but only while a
\* list from before the rotation is about.  From then on the key stays cached
\* until the issuer withdraws it, whatever its list is answered with.
RotationsSettle ==
    [][\A k \in Keys : Settled(k) /\ k \in published' => Settled(k)']_vars

=============================================================================
