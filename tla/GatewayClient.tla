--------------------------- MODULE GatewayClient ----------------------------
(***************************************************************************)
(* The authenticated calls of the payment gateway's client and the bearer  *)
(* token they share (gateway/nomba/client.go).  The mutex is held while a  *)
(* new token is asked for, and only then for longer than a step.  A call   *)
(* that is told 401 drops the token it used and tries once more.           *)
(*                                                                         *)
(* The provider (external) issues tokens, lets them expire, may revoke     *)
(* them before, and may answer late, wrongly or not at all.                *)
(***************************************************************************)
EXTENDS Integers

CONSTANTS
    Calls,      \* concurrent calls, each of one request that must not repeat
    NoCall,
    Tokens,     \* the access tokens the provider may issue, in order
    Lifetime,   \* tokenLifetime
    Margin,     \* tokenTTLMargin
    Timeout,    \* the HTTP client's timeout
    MaxTime     \* bound on the clock

ASSUME GatewayClientAssumption ==
    /\ NoCall \notin Calls
    /\ Tokens \subseteq Nat \ {0}
    /\ Timeout \in Nat /\ MaxTime \in Nat
    /\ Margin \in Nat /\ Lifetime \in Nat
    /\ 2 * Timeout <= Margin /\ Margin < Lifetime

NoToken == 0
NoTime == -1
Times == Nat \cup {NoTime}

VARIABLES
    tok,       \* the cached token: access, whether it has a refresh credential, renewAt
    mu,        \* the call that holds the mutex over an HTTP request
    call,      \* what each call holds in memory
    request,   \* the request of each call, as the provider sees it
    grant,     \* the token minted for a call's grant, its answer on the way
    born,      \* when each token was issued
    revoked,   \* tokens the provider gave up before their time
    clock

vars == <<tok, mu, call, request, grant, born, revoked, clock>>
provider == <<grant, born, revoked>>

Cached == [access : Tokens \cup {NoToken}, refresh : BOOLEAN, renewAt : Times]
Nothing == [access |-> NoToken, refresh |-> FALSE, renewAt |-> NoTime]

Answers == {"none", "ok", "rejected", "not_submitted", "ambiguous"}

\* A call asks for a bearer token, has it refreshed or issued if need be, sends
\* the request, waits; on a 401 it is about to drop the stale token.
PCs == {"idle", "bearer", "refresh", "issue", "send", "wait", "stale", "done"}
CallStates == [pc : PCs, access : Tokens \cup {NoToken}, attempt : {1, 2},
               since : Times, answer : Answers]

\* Not sent, on the wire, carried out, refused for good, or turned away by 401.
Places == {"none", "wire", "carried_out", "refused", "turned_away"}

Alive(t) == t \notin revoked /\ clock < born[t] + Lifetime

Init ==
    /\ tok = Nothing
    /\ mu = NoCall
    /\ call = [c \in Calls |-> [pc |-> "idle", access |-> NoToken, attempt |-> 1,
                                since |-> NoTime, answer |-> "none"]]
    /\ request = [c \in Calls |-> "none"]
    /\ grant = [c \in Calls |-> NoToken]
    /\ born = [t \in Tokens |-> NoTime]
    /\ revoked = {}
    /\ clock = 0

GoTo(c, pc) == call' = [call EXCEPT ![c].pc = pc, ![c].since = NoTime]

\* An HTTP request starts now.
Await(c, pc) == call' = [call EXCEPT ![c].pc = pc, ![c].since = clock]

\* The token in hand, on the way to the request.
Hold(c, t) ==
    call' = [call EXCEPT ![c].pc = "send", ![c].access = t, ![c].since = NoTime]

Return(c, answer) ==
    call' = [call EXCEPT ![c].pc = "done", ![c].answer = answer, ![c].since = NoTime]

-----------------------------------------------------------------------------
(* bearer, under the mutex. *)

Start(c) ==
    /\ call[c].pc = "idle"
    /\ GoTo(c, "bearer")
    /\ UNCHANGED <<tok, mu, request, provider, clock>>

Fresh == tok.access # NoToken /\ clock < tok.renewAt

UseCached(c) ==
    /\ call[c].pc = "bearer" /\ mu = NoCall
    /\ Fresh
    /\ Hold(c, tok.access)
    /\ UNCHANGED <<tok, mu, request, provider, clock>>

Renew(c) ==
    /\ call[c].pc = "bearer" /\ mu = NoCall
    /\ ~Fresh
    /\ mu' = c
    /\ Await(c, IF tok.refresh THEN "refresh" ELSE "issue")
    /\ UNCHANGED <<tok, request, provider, clock>>

\* Bug: the token is kept until the end of its documented life.
GrantedForLife(c) ==
    /\ call[c].pc \in {"refresh", "issue"} /\ grant[c] # NoToken
    /\ \E refresh \in BOOLEAN :
          tok' = [access |-> grant[c], refresh |-> refresh, renewAt |-> clock + Lifetime]
    /\ mu' = NoCall
    /\ Hold(c, grant[c])
    /\ grant' = [grant EXCEPT ![c] = NoToken]
    /\ UNCHANGED <<request, born, revoked, clock>>

\* tokenGrant succeeded; a refresh credential may come with the token.
Granted(c) ==
    /\ call[c].pc \in {"refresh", "issue"} /\ grant[c] # NoToken
    /\ \E refresh \in BOOLEAN :
          tok' = [access |-> grant[c], refresh |-> refresh,
                  renewAt |-> clock + (Lifetime - Margin)]
    /\ mu' = NoCall
    /\ Hold(c, grant[c])
    /\ grant' = [grant EXCEPT ![c] = NoToken]
    /\ UNCHANGED <<request, born, revoked, clock>>

\* Any failure of the refresh, a lost answer included: issue a new token.
RefreshFails(c) ==
    /\ call[c].pc = "refresh"
    /\ Await(c, "issue")
    /\ grant' = [grant EXCEPT ![c] = NoToken]
    /\ UNCHANGED <<tok, mu, request, born, revoked, clock>>

\* Bugs: the error path leaves the mutex locked, or has a class of its own.
IssueFailsLocked(c) ==
    /\ call[c].pc = "issue"
    /\ \E answer \in {"rejected", "not_submitted", "ambiguous"} : Return(c, answer)
    /\ grant' = [grant EXCEPT ![c] = NoToken]
    /\ UNCHANGED <<tok, mu, request, born, revoked, clock>>

IssueFailsUnclassed(c) ==
    /\ call[c].pc = "issue"
    /\ Return(c, "no_token")
    /\ mu' = NoCall
    /\ grant' = [grant EXCEPT ![c] = NoToken]
    /\ UNCHANGED <<tok, request, born, revoked, clock>>

\* The grant's own error, by its class, becomes the call's.
IssueFails(c) ==
    /\ call[c].pc = "issue"
    /\ \E answer \in {"rejected", "not_submitted", "ambiguous"} : Return(c, answer)
    /\ mu' = NoCall
    /\ grant' = [grant EXCEPT ![c] = NoToken]
    /\ UNCHANGED <<tok, request, born, revoked, clock>>

-----------------------------------------------------------------------------
(* call and do. *)

Send(c) ==
    /\ call[c].pc = "send"
    /\ Await(c, "wait")
    /\ request' = [request EXCEPT ![c] = "wire"]
    /\ UNCHANGED <<tok, mu, provider, clock>>

\* requestNeverSent: the dial failed.
NotDialed(c) ==
    /\ call[c].pc = "send"
    /\ Return(c, "not_submitted")
    /\ UNCHANGED <<tok, mu, request, provider, clock>>

\* A definite answer: success, or a rejection as apiError.Unwrap classifies it.
Answered(c) ==
    /\ call[c].pc = "wait"
    /\ \/ request[c] = "carried_out" /\ Return(c, "ok")
       \/ request[c] = "refused" /\ Return(c, "rejected")
    /\ UNCHANGED <<tok, mu, request, provider, clock>>

\* Bug: any failure of the first attempt is tried again.
UnclearRetried(c) ==
    /\ call[c].pc = "wait"
    /\ IF call[c].attempt = 1 THEN GoTo(c, "stale") ELSE Return(c, "ambiguous")
    /\ UNCHANGED <<tok, mu, request, provider, clock>>

\* Whatever became of the request: do fails without a class that apiError.Unwrap
\* knows (timeout, broken connection, 5xx, 408, 429, data that does not decode),
\* or it lets a 2xx without a readable envelope pass as a success with no data,
\* in which transfer then finds no id (transfers.go:77).
Unclear(c) ==
    /\ call[c].pc = "wait"
    /\ Return(c, "ambiguous")
    /\ UNCHANGED <<tok, mu, request, provider, clock>>

\* 401: the first is answered by another attempt, the second is ambiguous.
Unauthorized(c) ==
    /\ call[c].pc = "wait" /\ request[c] = "turned_away"
    /\ IF call[c].attempt = 1 THEN GoTo(c, "stale") ELSE Return(c, "ambiguous")
    /\ UNCHANGED <<tok, mu, request, provider, clock>>

\* Bugs: whatever is cached is dropped, or nothing is.
InvalidateAny(c) ==
    /\ call[c].pc = "stale" /\ mu = NoCall
    /\ tok' = Nothing
    /\ call' = [call EXCEPT ![c].pc = "bearer", ![c].attempt = 2]
    /\ UNCHANGED <<mu, request, provider, clock>>

InvalidateNone(c) ==
    /\ call[c].pc = "stale" /\ mu = NoCall
    /\ call' = [call EXCEPT ![c].pc = "bearer", ![c].attempt = 2]
    /\ UNCHANGED <<tok, mu, request, provider, clock>>

\* invalidate, and on to the second bearer.
Invalidate(c) ==
    /\ call[c].pc = "stale" /\ mu = NoCall
    /\ tok' = IF tok.access = call[c].access THEN Nothing ELSE tok
    /\ call' = [call EXCEPT ![c].pc = "bearer", ![c].attempt = 2]
    /\ UNCHANGED <<mu, request, provider, clock>>

-----------------------------------------------------------------------------
(* The provider (external). *)

\* A token for a grant that is being asked for.
Mint(c, t) ==
    /\ call[c].pc \in {"refresh", "issue"} /\ grant[c] = NoToken
    /\ born[t] = NoTime /\ \A u \in Tokens : u < t => born[u] # NoTime
    /\ grant' = [grant EXCEPT ![c] = t]
    /\ born' = [born EXCEPT ![t] = clock]
    /\ UNCHANGED <<tok, mu, call, request, revoked, clock>>

\* A request may arrive after its call gave up.
Serve(c) ==
    /\ request[c] = "wire"
    /\ \E place \in IF Alive(call[c].access) THEN {"carried_out", "refused"}
                                             ELSE {"turned_away"} :
          request' = [request EXCEPT ![c] = place]
    /\ UNCHANGED <<tok, mu, call, provider, clock>>

Revoke(t) ==
    /\ born[t] # NoTime /\ t \notin revoked
    /\ revoked' = revoked \cup {t}
    /\ UNCHANGED <<tok, mu, call, request, grant, born, clock>>

-----------------------------------------------------------------------------

\* Time passes while calls wait for the mutex or for an answer, for the latter
\* not beyond the client's timeout; the steps in between take none.
Tick ==
    /\ clock < MaxTime
    /\ \A c \in Calls :
         /\ call[c].pc # "send"
         /\ call[c].pc \in {"refresh", "issue", "wait"} => clock < call[c].since + Timeout
    /\ clock' = clock + 1
    /\ UNCHANGED <<tok, mu, call, request, provider>>

Next ==
    \/ \E c \in Calls :
         \/ Start(c) \/ UseCached(c) \/ Renew(c) \/ Granted(c) \/ RefreshFails(c)
         \/ IssueFails(c) \/ Send(c) \/ NotDialed(c) \/ Answered(c) \/ Unclear(c)
         \/ Unauthorized(c) \/ Invalidate(c) \/ Serve(c)
         \/ \E t \in Tokens : Mint(c, t)
    \/ \E t \in Tokens : Revoke(t)
    \/ Tick

Spec == Init /\ [][Next]_vars

(***************************************************************************)
(* A started call goes on; an HTTP request ends at the latest by its       *)
(* timeout; Go's mutex does not pass over a waiting goroutine for ever.    *)
(***************************************************************************)
Fairness ==
    \A c \in Calls :
       /\ SF_vars(UseCached(c) \/ Renew(c)) /\ SF_vars(Invalidate(c))
       /\ WF_vars(Granted(c) \/ RefreshFails(c) \/ IssueFails(c))
       /\ WF_vars(Send(c) \/ NotDialed(c))
       /\ WF_vars(Answered(c) \/ Unclear(c) \/ Unauthorized(c))

FairSpec == Spec /\ Fairness

-----------------------------------------------------------------------------
(* Properties *)

\* Every variable stays in its domain; answers are classes the payer knows.
TypeOK ==
    /\ tok \in Cached
    /\ mu \in Calls \cup {NoCall}
    /\ call \in [Calls -> CallStates]
    /\ request \in [Calls -> Places]
    /\ grant \in [Calls -> Tokens \cup {NoToken}]
    /\ born \in [Tokens -> Times]
    /\ revoked \subseteq Tokens
    /\ clock \in Nat

\* tokenTTLMargin: renewing early "keeps in-flight requests clear of the expiry
\* edge": no call waits on a request whose token has expired, however long its
\* grant and the request took.
BearersOutliveTheirCalls ==
    \A c \in Calls :
        call[c].pc = "wait" => clock < born[call[c].access] + Lifetime

\* invalidate drops the cached token only "if it is still the one that just
\* failed": no late 401 throws away a token that is still good.
OnlyDeadTokensDropped ==
    [][tok' = Nothing /\ tok # Nothing => ~Alive(tok.access)]_vars

\* bearer renews under the mutex: a call that waited behind a renewal uses its
\* result, and no token is replaced before it is due.
RenewsOnlyWhenDue ==
    [][tok' # tok /\ tok' # Nothing => ~Fresh]_vars

\* The shared token changes for cause only, by either of the two.
TokenIsKept == OnlyDeadTokensDropped /\ RenewsOnlyWhenDue

\* call: "retrying exactly once with a fresh token" outlives the revocation of
\* any one token, whoever else was told 401 meanwhile.
OneRevocationIsSurvived ==
    (\A t, u \in revoked : t = u) =>
        \A c \in Calls :
            call[c].attempt = 2 /\ call[c].pc = "wait" => request[c] # "turned_away"

\* call submits what must not be repeated at most once, and tells the truth of
\* it: the promise of module Submission.
Effect == [c \in Calls |-> request[c] = "carried_out"]
Told == [c \in Calls |-> call[c].answer]

S == INSTANCE Submission WITH effect <- Effect, answer <- Told

SubmissionSpec == S!Spec

\* Every call is answered, whatever the provider does.
EveryCallEnds == \A c \in Calls : call[c].pc = "bearer" ~> call[c].pc = "done"

=============================================================================
