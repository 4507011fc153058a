------------------------ MODULE GatewayClientProofs -------------------------
(***************************************************************************)
(* Theorems about GatewayClient, for any calls, tokens and durations that  *)
(* GatewayClientAssumption admits.                                         *)
(***************************************************************************)
EXTENDS GatewayClient, TLAPS

-----------------------------------------------------------------------------
(* Types *)

LEMMA InitTyped == Init => TypeOK
BY GatewayClientAssumption
   DEF Init, TypeOK, Cached, Nothing, CallStates, PCs, Answers, Places, Times, NoToken, NoTime

LEMMA CallTyped ==
    ASSUME TypeOK, NEW c \in Calls
    PROVE  call[c] \in CallStates
BY DEF TypeOK

\* The updates of a call's record keep its type.
LEMMA GoToTyped ==
    ASSUME TypeOK, NEW c \in Calls, NEW pc \in PCs, GoTo(c, pc) \/ Await(c, pc)
    PROVE  call' \in [Calls -> CallStates]
BY CallTyped DEF GoTo, Await, TypeOK, CallStates, Times, NoTime

LEMMA HoldTyped ==
    ASSUME TypeOK, NEW c \in Calls, NEW t \in Tokens \cup {NoToken}, Hold(c, t)
    PROVE  call' \in [Calls -> CallStates]
<1> "send" \in PCs /\ NoTime \in Times
  BY DEF PCs, Times
<1> DEFINE me == [call[c] EXCEPT !.pc = "send", !.access = t, !.since = NoTime]
<1>1. me \in CallStates
  BY CallTyped DEF CallStates
<1>2. call' = [call EXCEPT ![c] = me]
  BY Zenon DEF Hold
<1> QED
  BY <1>1, <1>2 DEF TypeOK

LEMMA ReturnTyped ==
    ASSUME TypeOK, NEW c \in Calls, NEW a \in Answers, Return(c, a)
    PROVE  call' \in [Calls -> CallStates]
<1> "done" \in PCs /\ NoTime \in Times
  BY DEF PCs, Times
<1> DEFINE me == [call[c] EXCEPT !.pc = "done", !.answer = a, !.since = NoTime]
<1>1. me \in CallStates
  BY CallTyped DEF CallStates
<1>2. call' = [call EXCEPT ![c] = me]
  BY Zenon DEF Return
<1> QED
  BY <1>1, <1>2 DEF TypeOK

LEMMA StepTyped == TypeOK /\ [Next]_vars => TypeOK'
<1> SUFFICES ASSUME TypeOK, [Next]_vars PROVE TypeOK'
  OBVIOUS
<1> USE GatewayClientAssumption
<1>1. ASSUME NEW c \in Calls PROVE Start(c) => TypeOK'
  <2>1. "bearer" \in PCs
    BY DEF PCs
  <2> QED
    BY <2>1, GoToTyped DEF Start, TypeOK, provider
<1>2. ASSUME NEW c \in Calls PROVE UseCached(c) => TypeOK'
  <2>1. tok.access \in Tokens \cup {NoToken}
    BY DEF TypeOK, Cached
  <2> QED
    BY <2>1, HoldTyped DEF UseCached, TypeOK, provider
<1>3. ASSUME NEW c \in Calls PROVE Renew(c) => TypeOK'
  <2>1. (IF tok.refresh THEN "refresh" ELSE "issue") \in PCs
    BY DEF PCs
  <2> QED
    BY <2>1, GoToTyped DEF Renew, TypeOK, provider
<1>4. ASSUME NEW c \in Calls PROVE Granted(c) => TypeOK'
  <2> SUFFICES ASSUME Granted(c) PROVE TypeOK'
    OBVIOUS
  <2>1. grant[c] \in Tokens \cup {NoToken}
    BY DEF TypeOK
  <2>2. call' \in [Calls -> CallStates]
    BY <2>1, HoldTyped DEF Granted
  <2>3. clock + (Lifetime - Margin) \in Times
    BY DEF TypeOK, Times
  <2>4. tok' \in Cached
    BY <2>1, <2>3 DEF Granted, Cached
  <2> QED
    BY <2>2, <2>4 DEF Granted, TypeOK, NoToken
<1>5. ASSUME NEW c \in Calls PROVE RefreshFails(c) => TypeOK'
  <2>1. "issue" \in PCs
    BY DEF PCs
  <2> QED
    BY <2>1, GoToTyped DEF RefreshFails, TypeOK
<1>6. ASSUME NEW c \in Calls PROVE IssueFails(c) => TypeOK'
  <2>1. {"rejected", "not_submitted", "ambiguous"} \subseteq Answers
    BY DEF Answers
  <2> QED
    BY <2>1, ReturnTyped DEF IssueFails, TypeOK
<1>7. ASSUME NEW c \in Calls PROVE Send(c) => TypeOK'
  <2>1. "wait" \in PCs /\ "wire" \in Places
    BY DEF PCs, Places
  <2> QED
    BY <2>1, GoToTyped DEF Send, TypeOK, provider
<1>8. ASSUME NEW c \in Calls PROVE NotDialed(c) \/ Answered(c) \/ Unclear(c) => TypeOK'
  <2>1. {"ok", "rejected", "not_submitted", "ambiguous"} \subseteq Answers
    BY DEF Answers
  <2> QED
    BY <2>1, ReturnTyped DEF NotDialed, Answered, Unclear, TypeOK, provider
<1>9. ASSUME NEW c \in Calls PROVE Unauthorized(c) => TypeOK'
  <2>1. "stale" \in PCs /\ "ambiguous" \in Answers
    BY DEF PCs, Answers
  <2> QED
    BY <2>1, GoToTyped, ReturnTyped DEF Unauthorized, TypeOK, provider
<1>10. ASSUME NEW c \in Calls PROVE Invalidate(c) => TypeOK'
  <2> SUFFICES ASSUME Invalidate(c) PROVE TypeOK'
    OBVIOUS
  <2>1. tok' \in Cached
    BY DEF Invalidate, TypeOK, Cached, Nothing, Times, NoTime
  <2>2. "bearer" \in PCs
    BY DEF PCs
  <2> DEFINE me == [call[c] EXCEPT !.pc = "bearer", !.attempt = 2]
  <2>3. me \in CallStates
    BY <2>2, CallTyped DEF CallStates
  <2>4. call' = [call EXCEPT ![c] = me]
    BY Zenon DEF Invalidate
  <2>5. call' \in [Calls -> CallStates]
    BY <2>3, <2>4 DEF TypeOK
  <2> QED
    BY <2>1, <2>5 DEF Invalidate, TypeOK, provider
<1>11. ASSUME NEW c \in Calls PROVE Serve(c) => TypeOK'
  <2> SUFFICES ASSUME Serve(c) PROVE TypeOK'
    OBVIOUS
  <2>1. PICK place \in Places : request' = [request EXCEPT ![c] = place]
    BY DEF Serve, Places
  <2> QED
    BY <2>1 DEF Serve, TypeOK, provider
<1>12. ASSUME NEW c \in Calls, NEW t \in Tokens PROVE Mint(c, t) => TypeOK'
  BY DEF Mint, TypeOK, Times
<1>13. ASSUME NEW t \in Tokens PROVE Revoke(t) => TypeOK'
  BY DEF Revoke, TypeOK
<1>14. Tick => TypeOK'
  BY DEF Tick, TypeOK, provider
<1>15. UNCHANGED vars => TypeOK'
  BY DEF vars, TypeOK
<1> QED
  BY <1>1, <1>2, <1>3, <1>4, <1>5, <1>6, <1>7, <1>8, <1>9, <1>10, <1>11, <1>12, <1>13,
     <1>14, <1>15 DEF Next

\* Every variable of the client stays in its domain.
THEOREM TypeCorrect == Spec => []TypeOK
BY InitTyped, StepTyped, PTL DEF Spec

-----------------------------------------------------------------------------
(* What an update of one call's record changes. *)

\* Only the record of c changes, and of it the answer only on its return.
Touches(c) == \A d \in Calls : d # c => call'[d] = call[d]

LEMMA GoToSets ==
    ASSUME TypeOK, NEW c \in Calls, NEW pc, GoTo(c, pc)
    PROVE  /\ Touches(c)
           /\ call'[c].pc = pc /\ call'[c].access = call[c].access
           /\ call'[c].attempt = call[c].attempt /\ call'[c].answer = call[c].answer
BY CallTyped DEF GoTo, Touches, TypeOK, CallStates

LEMMA AwaitSets ==
    ASSUME TypeOK, NEW c \in Calls, NEW pc, Await(c, pc)
    PROVE  /\ Touches(c)
           /\ call'[c].pc = pc /\ call'[c].access = call[c].access
           /\ call'[c].since = clock
           /\ call'[c].attempt = call[c].attempt /\ call'[c].answer = call[c].answer
BY CallTyped DEF Await, Touches, TypeOK, CallStates

LEMMA HoldSets ==
    ASSUME TypeOK, NEW c \in Calls, NEW t, Hold(c, t)
    PROVE  /\ Touches(c)
           /\ call'[c].pc = "send" /\ call'[c].access = t
           /\ call'[c].attempt = call[c].attempt /\ call'[c].answer = call[c].answer
BY CallTyped DEF Hold, Touches, TypeOK, CallStates

LEMMA ReturnSets ==
    ASSUME TypeOK, NEW c \in Calls, NEW a, Return(c, a)
    PROVE  /\ Touches(c)
           /\ call'[c].pc = "done" /\ call'[c].access = call[c].access
           /\ call'[c].attempt = call[c].attempt /\ call'[c].answer = a
BY CallTyped DEF Return, Touches, TypeOK, CallStates

LEMMA InvalidateSets ==
    ASSUME TypeOK, NEW c \in Calls, Invalidate(c)
    PROVE  /\ Touches(c)
           /\ call'[c].pc = "bearer" /\ call'[c].access = call[c].access
           /\ call'[c].attempt = 2 /\ call'[c].answer = call[c].answer
BY CallTyped DEF Invalidate, Touches, TypeOK, CallStates

-----------------------------------------------------------------------------
(* The mutex *)

Renewing(c) == call[c].pc \in {"refresh", "issue"}

\* The mutex is held by the call that renews, and only while there is no token
\* to use: time does not make one fresh, and nobody else writes the cache.
MutexRule ==
    /\ \A c \in Calls : Renewing(c) <=> mu = c
    /\ mu # NoCall => ~Fresh

LEMMA MutexInit == Init => MutexRule
BY GatewayClientAssumption DEF Init, MutexRule, Renewing

LEMMA MutexStep == TypeOK /\ MutexRule /\ [Next]_vars => MutexRule'
<1> SUFFICES ASSUME TypeOK, MutexRule, [Next]_vars PROVE MutexRule'
  OBVIOUS
<1> USE GatewayClientAssumption DEF MutexRule, Renewing
<1>1. ASSUME NEW c \in Calls, Start(c) \/ Send(c) PROVE MutexRule'
  BY <1>1, GoToSets, AwaitSets DEF Start, Send, Touches, Fresh
<1>2. ASSUME NEW c \in Calls, UseCached(c) PROVE MutexRule'
  BY <1>2, HoldSets DEF UseCached, Touches
<1>3. ASSUME NEW c \in Calls, Renew(c) PROVE MutexRule'
  BY <1>3, AwaitSets DEF Renew, Touches, Fresh
<1>4. ASSUME NEW c \in Calls, Granted(c) PROVE MutexRule'
  BY <1>4, HoldSets DEF Granted, Touches
<1>5. ASSUME NEW c \in Calls, RefreshFails(c) PROVE MutexRule'
  BY <1>5, AwaitSets DEF RefreshFails, Touches, Fresh
<1>6. ASSUME NEW c \in Calls, IssueFails(c) PROVE MutexRule'
  BY <1>6, ReturnSets DEF IssueFails, Touches
<1>7. ASSUME NEW c \in Calls, NotDialed(c) \/ Answered(c) \/ Unclear(c) PROVE MutexRule'
  BY <1>7, ReturnSets DEF NotDialed, Answered, Unclear, Touches, Fresh
<1>8. ASSUME NEW c \in Calls, Unauthorized(c) PROVE MutexRule'
  BY <1>8, GoToSets, ReturnSets DEF Unauthorized, Touches, Fresh
<1>9. ASSUME NEW c \in Calls, Invalidate(c) PROVE MutexRule'
  BY <1>9, InvalidateSets DEF Invalidate, Touches
<1>10. ASSUME NEW c \in Calls, Serve(c) PROVE MutexRule'
  BY <1>10 DEF Serve, Fresh
<1>11. ASSUME NEW c \in Calls, NEW t \in Tokens, Mint(c, t) PROVE MutexRule'
  BY <1>11 DEF Mint, Fresh
<1>12. ASSUME NEW t \in Tokens, Revoke(t) PROVE MutexRule'
  BY <1>12 DEF Revoke, Fresh
<1>13. CASE Tick
  BY <1>13 DEF Tick, Fresh, TypeOK, Cached, Times, NoTime
<1>14. CASE UNCHANGED vars
  BY <1>14 DEF vars, Fresh
<1> QED
  BY <1>1, <1>2, <1>3, <1>4, <1>5, <1>6, <1>7, <1>8, <1>9, <1>10, <1>11, <1>12, <1>13,
     <1>14 DEF Next

\* RenewsOnlyWhenDue: the cache gets a token only from a renewal, and a renewal
\* goes on only while the cached one is not fit for use.
THEOREM RenewalsAreDue == Spec => RenewsOnlyWhenDue
<1>1. TypeOK /\ MutexRule /\ [Next]_vars => (tok' # tok /\ tok' # Nothing => ~Fresh)
  <2> SUFFICES ASSUME TypeOK, MutexRule, [Next]_vars, tok' # tok, tok' # Nothing
               PROVE  ~Fresh
    OBVIOUS
  <2>1. PICK c \in Calls : Granted(c)
    BY DEF Next, Start, UseCached, Renew, RefreshFails, IssueFails, Send, NotDialed,
           Answered, Unclear, Unauthorized, Invalidate, Serve, Mint, Revoke, Tick, vars
  <2> QED
    BY <2>1, GatewayClientAssumption DEF Granted, MutexRule, Renewing
<1>2. Spec => [](TypeOK /\ MutexRule)
  BY InitTyped, StepTyped, MutexInit, MutexStep, PTL DEF Spec
<1> QED
  BY <1>1, <1>2, PTL DEF Spec, RenewsOnlyWhenDue

-----------------------------------------------------------------------------
(* Expiry *)

\* The time a token has been alive: a request that waits was sent with a token
\* whose end was further off than the timeout.
GrantRule(c) ==
    /\ grant[c] # NoToken =>
          Renewing(c) /\ born[grant[c]] # NoTime /\ call[c].since <= born[grant[c]]
    /\ Renewing(c) \/ call[c].pc = "wait" =>
          /\ call[c].since \in Nat /\ call[c].since <= clock
          /\ clock <= call[c].since + Timeout

CacheRule ==
    tok.access # NoToken =>
       /\ born[tok.access] # NoTime
       /\ tok.renewAt + Margin <= born[tok.access] + Timeout + Lifetime

BearerRule(c) ==
    /\ call[c].pc \in {"send", "wait", "stale"} =>
          call[c].access # NoToken /\ born[call[c].access] # NoTime
    /\ call[c].pc = "send" =>
          clock + Margin < born[call[c].access] + Timeout + Lifetime
    /\ call[c].pc = "wait" =>
          call[c].since + Margin < born[call[c].access] + Timeout + Lifetime

ExpiryRule ==
    CacheRule /\ (\A c \in Calls : GrantRule(c) /\ BearerRule(c))

LEMMA ExpiryInit == Init => ExpiryRule
BY DEF Init, ExpiryRule, CacheRule, GrantRule, BearerRule, Renewing, Nothing

\* The facts about one call that the arithmetic of this section needs.
LEMMA TimesTyped ==
    ASSUME TypeOK, NEW c \in Calls
    PROVE  /\ call[c].since \in Times /\ call[c].access \in Tokens \cup {NoToken}
           /\ grant[c] \in Tokens \cup {NoToken}
           /\ tok.renewAt \in Times /\ tok.access \in Tokens \cup {NoToken}
           /\ clock \in Nat
           /\ \A t \in Tokens : born[t] \in Times
BY CallTyped DEF TypeOK, CallStates, Cached

LEMMA CacheTyped ==
    ASSUME TypeOK, tok.access # NoToken
    PROVE  /\ tok.access \in Tokens /\ tok.renewAt \in Times /\ clock \in Nat
           /\ born[tok.access] \in Times
<1>1. tok.access \in Tokens /\ tok.renewAt \in Times
  BY DEF TypeOK, Cached
<1> QED
  BY <1>1 DEF TypeOK

LEMMA ExpiryStep == TypeOK /\ TypeOK' /\ ExpiryRule /\ [Next]_vars => ExpiryRule'
<1> SUFFICES ASSUME TypeOK, TypeOK', ExpiryRule, [Next]_vars PROVE ExpiryRule'
  OBVIOUS
<1> USE GatewayClientAssumption DEF Renewing
<1>a. /\ CacheRule
      /\ \A c \in Calls : GrantRule(c) /\ BearerRule(c)
  BY DEF ExpiryRule
\* A step of c that leaves the rows of the others and the provider's alone.
<1>b. ASSUME NEW c \in Calls, Touches(c), UNCHANGED <<born, clock>>,
             \A d \in Calls : d # c => grant'[d] = grant[d]
      PROVE  \A d \in Calls : d # c => (GrantRule(d) /\ BearerRule(d))'
  BY <1>a, <1>b DEF Touches, GrantRule, BearerRule
<1>c. ASSUME UNCHANGED <<tok, born>> PROVE CacheRule'
  BY <1>a, <1>c DEF CacheRule
<1>1. ASSUME NEW c \in Calls, Start(c) PROVE ExpiryRule'
  <2>1. GrantRule(c)' /\ BearerRule(c)'
    BY <1>a, <1>1, GoToSets DEF Start, GrantRule, BearerRule, provider
  <2> QED
    BY <1>b, <1>c, <1>1, <2>1, GoToSets DEF Start, ExpiryRule, provider
<1>2. ASSUME NEW c \in Calls, UseCached(c) PROVE ExpiryRule'
  <2>1. /\ tok.access # NoToken /\ clock < tok.renewAt
        /\ born[tok.access] # NoTime
        /\ tok.renewAt + Margin <= born[tok.access] + Timeout + Lifetime
        /\ UNCHANGED <<tok, grant, born, clock>>
    BY <1>a, <1>2 DEF UseCached, Fresh, CacheRule, provider
  <2>2. clock + Margin < born[tok.access] + Timeout + Lifetime
    <3>0. Times \subseteq Int /\ Nat \subseteq Int
      BY DEF Times, NoTime
    <3>1. tok.access \in Tokens /\ tok.renewAt \in Times /\ clock \in Nat
      BY <2>1, CacheTyped
    <3>2. born[tok.access] \in Times
      BY <2>1, CacheTyped
    <3>3. tok.renewAt \in Int /\ clock \in Int /\ born[tok.access] \in Int
      BY <3>0, <3>1, <3>2, Zenon
    <3> QED
      BY <2>1, <3>3
  <2>3. /\ Touches(c) /\ call'[c].pc = "send" /\ call'[c].access = tok.access
        /\ grant[c] = NoToken
    BY <1>a, <1>2, HoldSets DEF UseCached, GrantRule
  <2>4. GrantRule(c)' /\ BearerRule(c)'
    BY <2>1, <2>2, <2>3 DEF GrantRule, BearerRule
  <2> QED
    BY <1>b, <1>c, <2>1, <2>3, <2>4 DEF ExpiryRule
<1>3. ASSUME NEW c \in Calls, Renew(c) PROVE ExpiryRule'
  <2>1. GrantRule(c)' /\ BearerRule(c)'
    BY <1>a, <1>3, AwaitSets, TimesTyped DEF Renew, GrantRule, BearerRule, provider
  <2> QED
    BY <1>b, <1>c, <1>3, <2>1, AwaitSets DEF Renew, ExpiryRule, provider
<1>4. ASSUME NEW c \in Calls, Granted(c) PROVE ExpiryRule'
  <2>1. /\ born[grant[c]] # NoTime /\ call[c].since <= born[grant[c]]
        /\ call[c].since \in Nat /\ clock <= call[c].since + Timeout
        /\ clock \in Nat /\ born[grant[c]] \in Nat
    BY <1>a, <1>4, TimesTyped DEF Granted, GrantRule, Times
  <2>2. tok'.access = grant[c] /\ tok'.renewAt = clock + (Lifetime - Margin) /\ born' = born
    BY <1>4 DEF Granted
  <2>3. CacheRule'
    BY <2>1, <2>2 DEF CacheRule
  <2>4. GrantRule(c)' /\ BearerRule(c)'
    BY <1>4, <2>1, HoldSets DEF Granted, GrantRule, BearerRule, TypeOK
  <2>5. \A d \in Calls : d # c => grant'[d] = grant[d]
    BY <1>4 DEF Granted
  <2> QED
    BY <1>b, <1>4, <2>3, <2>4, <2>5, HoldSets DEF Granted, ExpiryRule
<1>5. ASSUME NEW c \in Calls, RefreshFails(c) PROVE ExpiryRule'
  <2>1. GrantRule(c)' /\ BearerRule(c)'
    BY <1>a, <1>5, AwaitSets, TimesTyped DEF RefreshFails, GrantRule, BearerRule, TypeOK
  <2> QED
    BY <1>b, <1>c, <1>5, <2>1, AwaitSets DEF RefreshFails, ExpiryRule
<1>6. ASSUME NEW c \in Calls, IssueFails(c) PROVE ExpiryRule'
  <2>1. GrantRule(c)' /\ BearerRule(c)'
    BY <1>a, <1>6, ReturnSets DEF IssueFails, GrantRule, BearerRule, TypeOK
  <2> QED
    BY <1>b, <1>c, <1>6, <2>1, ReturnSets DEF IssueFails, ExpiryRule
<1>7. ASSUME NEW c \in Calls, Send(c) PROVE ExpiryRule'
  <2>1. GrantRule(c)' /\ BearerRule(c)'
    BY <1>a, <1>7, AwaitSets, TimesTyped DEF Send, GrantRule, BearerRule, provider
  <2> QED
    BY <1>b, <1>c, <1>7, <2>1, AwaitSets DEF Send, ExpiryRule, provider
<1>8. ASSUME NEW c \in Calls, NotDialed(c) \/ Answered(c) \/ Unclear(c) PROVE ExpiryRule'
  <2>1. Touches(c) /\ call'[c].pc = "done" /\ UNCHANGED <<tok, grant, born, clock>>
        /\ call[c].pc \in {"send", "wait"}
    BY <1>8, ReturnSets DEF NotDialed, Answered, Unclear, provider
  <2>2. GrantRule(c)' /\ BearerRule(c)'
    BY <1>a, <2>1 DEF GrantRule, BearerRule
  <2> QED
    BY <1>b, <1>c, <2>1, <2>2 DEF ExpiryRule
<1>9. ASSUME NEW c \in Calls, Unauthorized(c) PROVE ExpiryRule'
  <2>1. /\ Touches(c) /\ call'[c].pc \in {"stale", "done"} /\ call'[c].access = call[c].access
        /\ UNCHANGED <<tok, grant, born, clock>> /\ call[c].pc = "wait"
    BY <1>9, GoToSets, ReturnSets DEF Unauthorized, provider
  <2>2. GrantRule(c)' /\ BearerRule(c)'
    BY <1>a, <2>1 DEF GrantRule, BearerRule
  <2> QED
    BY <1>b, <1>c, <2>1, <2>2 DEF ExpiryRule
<1>10. ASSUME NEW c \in Calls, Invalidate(c) PROVE ExpiryRule'
  <2>1. GrantRule(c)' /\ BearerRule(c)'
    BY <1>a, <1>10, InvalidateSets DEF Invalidate, GrantRule, BearerRule, provider
  <2>2. CacheRule'
    BY <1>a, <1>10 DEF Invalidate, CacheRule, Nothing, provider
  <2> QED
    BY <1>b, <1>10, <2>1, <2>2, InvalidateSets DEF Invalidate, ExpiryRule, provider
<1>11. ASSUME NEW c \in Calls, Serve(c) PROVE ExpiryRule'
  BY <1>a, <1>11 DEF Serve, ExpiryRule, CacheRule, GrantRule, BearerRule, provider
<1>12. ASSUME NEW c \in Calls, NEW t \in Tokens, Mint(c, t) PROVE ExpiryRule'
  <2>1. \A u \in Tokens : born[u] # NoTime => born'[u] = born[u]
    BY <1>12 DEF Mint, TypeOK
  <2>2. t # NoToken /\ born'[t] = clock /\ clock # NoTime /\ clock \in Nat
    BY <1>12, TimesTyped DEF Mint, TypeOK, NoToken, NoTime
  <2>3. grant'[c] = t /\ (\A d \in Calls : d # c => grant'[d] = grant[d])
    BY <1>12 DEF Mint, TypeOK
  <2>4. UNCHANGED <<tok, call, clock>> /\ Renewing(c)
    BY <1>12 DEF Mint
  <2>5. CacheRule'
    BY <1>a, <2>1, <2>4, <1>12, TimesTyped DEF CacheRule
  <2>6. \A d \in Calls : BearerRule(d)'
    BY <1>a, <2>1, <2>4, TimesTyped DEF BearerRule
  <2>7. GrantRule(c)'
    BY <1>a, <2>2, <2>3, <2>4 DEF GrantRule
  <2>8. ASSUME NEW d \in Calls, d # c PROVE GrantRule(d)'
    <3>1. grant[d] # NoToken => born'[grant[d]] = born[grant[d]]
      BY <1>a, <2>1, TimesTyped DEF GrantRule
    <3> QED
      BY <1>a, <2>3, <2>4, <2>8, <3>1 DEF GrantRule
  <2> QED
    BY <2>5, <2>6, <2>7, <2>8 DEF ExpiryRule
<1>13. ASSUME NEW t \in Tokens, Revoke(t) PROVE ExpiryRule'
  BY <1>a, <1>13 DEF Revoke, ExpiryRule, CacheRule, GrantRule, BearerRule
<1>14. CASE Tick
  <2>1. UNCHANGED <<tok, call, grant, born>> /\ clock' = clock + 1
    BY <1>14 DEF Tick, provider
  <2>2. ASSUME NEW d \in Calls PROVE GrantRule(d)' /\ BearerRule(d)'
    BY <1>a, <1>14, <2>1, TimesTyped DEF Tick, GrantRule, BearerRule
  <2> QED
    BY <1>c, <2>1, <2>2 DEF ExpiryRule
<1>15. CASE UNCHANGED vars
  BY <1>a, <1>15 DEF vars, ExpiryRule, CacheRule, GrantRule, BearerRule
<1> QED
  BY <1>1, <1>2, <1>3, <1>4, <1>5, <1>6, <1>7, <1>8, <1>9, <1>10, <1>11, <1>12, <1>13,
     <1>14, <1>15 DEF Next

LEMMA BearersOutlive == TypeOK /\ ExpiryRule => BearersOutliveTheirCalls
<1> SUFFICES ASSUME TypeOK, ExpiryRule, NEW c \in Calls, call[c].pc = "wait"
             PROVE  clock < born[call[c].access] + Lifetime
  BY DEF BearersOutliveTheirCalls
<1>1. /\ call[c].access \in Tokens /\ born[call[c].access] \in Nat
      /\ call[c].since \in Nat /\ clock <= call[c].since + Timeout
      /\ call[c].since + Margin < born[call[c].access] + Timeout + Lifetime
      /\ clock \in Nat
  BY TimesTyped DEF ExpiryRule, GrantRule, BearerRule, Times
<1> QED
  BY <1>1, GatewayClientAssumption

\* BearersOutliveTheirCalls: the margin covers a grant and a request that take as
\* long as the HTTP client lets them.
THEOREM BearersLive == Spec => []BearersOutliveTheirCalls
<1>1. Spec => [](TypeOK /\ ExpiryRule)
  BY InitTyped, StepTyped, ExpiryInit, ExpiryStep, PTL DEF Spec
<1> QED
  BY <1>1, BearersOutlive, PTL

-----------------------------------------------------------------------------
(* The request and what is told of it *)

\* How far the request of a call has come, by what the call is about to do; a
\* call that was turned away holds a dead token.
RequestRule(c) ==
    /\ call[c].answer = "none" <=> call[c].pc # "done"
    /\ call[c].pc \in {"idle", "bearer", "refresh", "issue", "send"} =>
          request[c] \in {"none", "turned_away"}
    /\ call[c].pc = "stale" => request[c] = "turned_away"
    /\ call[c].pc \in {"wait", "stale"} /\ request[c] = "turned_away" =>
          ~Alive(call[c].access)
    /\ request[c] = "wire" => call[c].pc = "wait" \/ call[c].answer = "ambiguous"

RequestRules == \A c \in Calls : RequestRule(c)

LEMMA InitCalls ==
    ASSUME Init, NEW c \in Calls
    PROVE  call[c].pc = "idle" /\ call[c].answer = "none" /\ request[c] = "none"
BY DEF Init

LEMMA RequestInit == Init => RequestRules
BY InitCalls DEF RequestRules, RequestRule

\* A dead token stays dead: tokens do not come back, and time goes on.
LEMMA DeadStaysDead ==
    ASSUME TypeOK, TypeOK', [Next]_vars, NEW t \in Tokens, born[t] # NoTime, ~Alive(t)
    PROVE  ~Alive(t)'
<1>1. born'[t] = born[t]
  BY DEF Next, vars, provider, Start, UseCached, Renew, Granted, RefreshFails, IssueFails,
         Send, NotDialed, Answered, Unclear, Unauthorized, Invalidate, Serve, Mint, Revoke,
         Tick, TypeOK
<1>2. revoked \subseteq revoked'
  BY DEF Next, vars, provider, Start, UseCached, Renew, Granted, RefreshFails, IssueFails,
         Send, NotDialed, Answered, Unclear, Unauthorized, Invalidate, Serve, Mint, Revoke,
         Tick
<1>3. clock' = clock \/ clock' = clock + 1
  BY DEF Next, vars, provider, Start, UseCached, Renew, Granted, RefreshFails, IssueFails,
         Send, NotDialed, Answered, Unclear, Unauthorized, Invalidate, Serve, Mint, Revoke,
         Tick
<1>4. clock \in Nat /\ born[t] \in Times
  BY DEF TypeOK
<1> QED
  BY <1>1, <1>2, <1>3, <1>4, GatewayClientAssumption DEF Alive, Times, NoTime

LEMMA RequestStep ==
    TypeOK /\ TypeOK' /\ ExpiryRule /\ RequestRules /\ [Next]_vars => RequestRules'
<1> SUFFICES ASSUME TypeOK, TypeOK', ExpiryRule, RequestRules, [Next]_vars
             PROVE  RequestRules'
  OBVIOUS
\* Other calls than the one that moves: their tokens, once dead, stay so.
<1>a. ASSUME NEW d \in Calls, call'[d] = call[d], request'[d] = request[d]
      PROVE  RequestRule(d)'
  <2>1. RequestRule(d)
    BY DEF RequestRules
  <2>2. call[d].pc \in {"wait", "stale"} =>
           call[d].access \in Tokens /\ born[call[d].access] # NoTime
    BY TimesTyped DEF ExpiryRule, BearerRule
  <2>3. ASSUME call[d].pc \in {"wait", "stale"}, request[d] = "turned_away"
        PROVE  ~(Alive(call[d].access)')
    <3>1. PICK t \in Tokens : t = call[d].access
      BY <2>2, <2>3
    <3>2. ~(Alive(t)')
      BY <2>1, <2>2, <2>3, <3>1, DeadStaysDead DEF RequestRule
    <3> QED
      BY <1>a, <3>1, <3>2 DEF Alive
  <2> QED
    BY <1>a, <2>1, <2>3 DEF RequestRule
<1>b. ASSUME NEW c \in Calls, Touches(c), \A d \in Calls : d # c => request'[d] = request[d],
             RequestRule(c)'
      PROVE  RequestRules'
  BY <1>a, <1>b DEF RequestRules, Touches
<1>c. \A c \in Calls : RequestRule(c)
  BY DEF RequestRules
<1>1. ASSUME NEW c \in Calls, Start(c) PROVE RequestRules'
  <2>1. RequestRule(c)'
    BY <1>c, <1>1, GoToSets DEF Start, RequestRule
  <2> QED
    BY <1>b, <1>1, <2>1, GoToSets DEF Start
<1>2. ASSUME NEW c \in Calls, UseCached(c) PROVE RequestRules'
  <2>1. RequestRule(c)'
    BY <1>c, <1>2, HoldSets DEF UseCached, RequestRule
  <2> QED
    BY <1>b, <1>2, <2>1, HoldSets DEF UseCached
<1>3. ASSUME NEW c \in Calls, Renew(c) PROVE RequestRules'
  <2>1. RequestRule(c)'
    BY <1>c, <1>3, AwaitSets DEF Renew, RequestRule
  <2> QED
    BY <1>b, <1>3, <2>1, AwaitSets DEF Renew
<1>4. ASSUME NEW c \in Calls, Granted(c) PROVE RequestRules'
  <2>1. RequestRule(c)'
    BY <1>c, <1>4, HoldSets DEF Granted, RequestRule
  <2> QED
    BY <1>b, <1>4, <2>1, HoldSets DEF Granted
<1>5. ASSUME NEW c \in Calls, RefreshFails(c) PROVE RequestRules'
  <2>1. RequestRule(c)'
    BY <1>c, <1>5, AwaitSets DEF RefreshFails, RequestRule
  <2> QED
    BY <1>b, <1>5, <2>1, AwaitSets DEF RefreshFails
<1>6. ASSUME NEW c \in Calls, IssueFails(c) PROVE RequestRules'
  <2>1. PICK a \in {"rejected", "not_submitted", "ambiguous"} : Return(c, a)
    BY <1>6 DEF IssueFails
  <2>2. RequestRule(c)'
    BY <1>c, <1>6, <2>1, ReturnSets DEF IssueFails, RequestRule
  <2> QED
    BY <1>b, <1>6, <2>1, <2>2, ReturnSets DEF IssueFails
<1>7. ASSUME NEW c \in Calls, Send(c) PROVE RequestRules'
  <2>1. request'[c] = "wire" /\ (\A d \in Calls : d # c => request'[d] = request[d])
    BY <1>7 DEF Send, TypeOK
  <2>2. RequestRule(c)'
    BY <1>c, <1>7, <2>1, AwaitSets DEF Send, RequestRule
  <2> QED
    BY <1>b, <1>7, <2>1, <2>2, AwaitSets DEF Send
<1>8. ASSUME NEW c \in Calls, NotDialed(c) \/ Answered(c) \/ Unclear(c) PROVE RequestRules'
  <2>1. /\ Touches(c) /\ call'[c].pc = "done" /\ UNCHANGED request
        /\ call'[c].answer # "none"
        /\ request[c] = "wire" => call'[c].answer = "ambiguous"
    BY <1>c, <1>8, ReturnSets DEF NotDialed, Answered, Unclear, RequestRule
  <2>2. RequestRule(c)'
    BY <1>c, <2>1 DEF RequestRule
  <2> QED
    BY <1>b, <2>1, <2>2
<1>9. ASSUME NEW c \in Calls, Unauthorized(c) PROVE RequestRules'
  <2>1. /\ UNCHANGED <<request, born, revoked, clock>>
        /\ call[c].pc = "wait" /\ request[c] = "turned_away"
    BY <1>9 DEF Unauthorized, provider
  <2>2. CASE GoTo(c, "stale")
    <3>1. RequestRule(c)'
      BY <1>c, <2>1, <2>2, GoToSets DEF RequestRule, Alive
    <3> QED
      BY <1>b, <2>1, <2>2, <3>1, GoToSets
  <2>3. CASE Return(c, "ambiguous")
    <3>1. RequestRule(c)'
      BY <1>c, <2>1, <2>3, ReturnSets DEF RequestRule
    <3> QED
      BY <1>b, <2>1, <2>3, <3>1, ReturnSets
  <2> QED
    BY <1>9, <2>2, <2>3 DEF Unauthorized
<1>10. ASSUME NEW c \in Calls, Invalidate(c) PROVE RequestRules'
  <2>1. RequestRule(c)'
    BY <1>c, <1>10, InvalidateSets DEF Invalidate, RequestRule
  <2> QED
    BY <1>b, <1>10, <2>1, InvalidateSets DEF Invalidate
<1>11. ASSUME NEW c \in Calls, Serve(c) PROVE RequestRules'
  <2>1. /\ UNCHANGED <<call, born, revoked, clock>>
        /\ request'[c] \in {"carried_out", "refused", "turned_away"}
        /\ request'[c] = "turned_away" => ~Alive(call[c].access)
        /\ \A d \in Calls : d # c => request'[d] = request[d]
    BY <1>11 DEF Serve, provider, TypeOK
  <2>2. call[c].pc \in {"wait", "done"}
    BY <1>c, <1>11 DEF Serve, RequestRule
  <2>3. RequestRule(c)'
    BY <1>c, <2>1, <2>2 DEF RequestRule, Alive
  <2> QED
    BY <1>b, <2>1, <2>3 DEF Touches
<1>12. ASSUME UNCHANGED <<call, request>> PROVE RequestRules'
  BY <1>a, <1>12 DEF RequestRules
<1> QED
  BY <1>1, <1>2, <1>3, <1>4, <1>5, <1>6, <1>7, <1>8, <1>9, <1>10, <1>11, <1>12
     DEF Next, Mint, Revoke, Tick, vars

LEMMA ClientInvariant == Spec => [](TypeOK /\ ExpiryRule /\ RequestRules)
BY InitTyped, StepTyped, ExpiryInit, ExpiryStep, RequestInit, RequestStep, PTL DEF Spec

\* OnlyDeadTokensDropped: what a 401 makes invalidate drop is the very token that
\* was refused, whoever renewed the cache in the meantime.
THEOREM FreshTokensAreKept == Spec => OnlyDeadTokensDropped
<1>1. TypeOK /\ ExpiryRule /\ RequestRules /\ [Next]_vars =>
         (tok' = Nothing /\ tok # Nothing => ~Alive(tok.access))
  <2> SUFFICES ASSUME TypeOK, ExpiryRule, RequestRules, [Next]_vars,
                      tok' = Nothing, tok # Nothing
               PROVE  ~Alive(tok.access)
    OBVIOUS
  <2>1. ASSUME NEW c \in Calls, Granted(c) PROVE FALSE
    BY <2>1 DEF Granted, Nothing
  <2>2. PICK c \in Calls : Invalidate(c)
    BY <2>1 DEF Next, Start, UseCached, Renew, RefreshFails, IssueFails, Send, NotDialed,
           Answered, Unclear, Unauthorized, Serve, Mint, Revoke, Tick, vars
  <2>3. tok.access = call[c].access
    BY <2>2 DEF Invalidate
  <2> QED
    BY <2>2, <2>3 DEF Invalidate, RequestRules, RequestRule
<1> QED
  BY <1>1, ClientInvariant, PTL DEF Spec, OnlyDeadTokensDropped

\* TokenIsKept: no call takes a good token from the others.
THEOREM TokenKept == Spec => TokenIsKept
BY RenewalsAreDue, FreshTokensAreKept DEF TokenIsKept

\* bearer holds the mutex over an HTTP request: at most one call renews at a time,
\* the one that holds the mutex, and the request it waits for (since when is told
\* by "since") takes no longer than the client's timeout.
OneRenewal ==
    /\ \A c, d \in Calls : Renewing(c) /\ Renewing(d) => c = d
    /\ mu # NoCall => Renewing(mu) /\ clock <= call[mu].since + Timeout

\* While a call holds the mutex it goes from the refresh grant to the issue grant,
\* never back, and begins a new wait with that step alone.
RenewalMovesOn ==
    [][mu # NoCall /\ mu' # NoCall =>
           /\ mu' = mu
           /\ \/ call'[mu] = call[mu]
              \/ call[mu].pc = "refresh" /\ call'[mu].pc = "issue"]_vars

\* bearer: a burst of calls on an expired token asks for one token at a time, and
\* the mutex is held over two requests at most, a refresh and then an issue, each
\* no longer than the client's timeout.
THEOREM RenewalsAreSingle == Spec => []OneRenewal /\ RenewalMovesOn
<1>1. TypeOK /\ MutexRule /\ ExpiryRule => OneRenewal
  BY DEF TypeOK, MutexRule, ExpiryRule, GrantRule, OneRenewal
<1>2. Spec => []MutexRule
  BY InitTyped, StepTyped, MutexInit, MutexStep, PTL DEF Spec
<1>3. TypeOK /\ MutexRule /\ [Next]_vars =>
        (mu # NoCall /\ mu' # NoCall =>
            /\ mu' = mu
            /\ \/ call'[mu] = call[mu]
               \/ call[mu].pc = "refresh" /\ call'[mu].pc = "issue")
  <2> SUFFICES ASSUME TypeOK, MutexRule, [Next]_vars, mu # NoCall, mu' # NoCall
               PROVE  /\ mu' = mu
                      /\ \/ call'[mu] = call[mu]
                         \/ call[mu].pc = "refresh" /\ call'[mu].pc = "issue"
    OBVIOUS
  <2> USE DEF TypeOK, MutexRule, Renewing
  <2>1. mu \in Calls /\ call[mu].pc \in {"refresh", "issue"}
    OBVIOUS
  <2>2. ASSUME NEW c \in Calls, Start(c) \/ Send(c)
        PROVE  mu' = mu /\ call'[mu] = call[mu]
    BY <2>1, <2>2 DEF Start, Send, GoTo, Await
  <2>3. ASSUME NEW c \in Calls, NotDialed(c) \/ Answered(c) \/ Unclear(c) \/ Unauthorized(c)
        PROVE  mu' = mu /\ call'[mu] = call[mu]
    BY <2>1, <2>3 DEF NotDialed, Answered, Unclear, Unauthorized, Return, GoTo
  <2>4. ASSUME NEW c \in Calls, UseCached(c) \/ Renew(c) \/ Invalidate(c)
        PROVE  FALSE
    BY <2>4 DEF UseCached, Renew, Invalidate
  <2>5. ASSUME NEW c \in Calls, Granted(c) \/ IssueFails(c)
        PROVE  FALSE
    BY <2>5 DEF Granted, IssueFails
  <2>6. ASSUME NEW c \in Calls, RefreshFails(c)
        PROVE  mu' = mu /\ call[mu].pc = "refresh" /\ call'[mu].pc = "issue"
    <3>1. c = mu BY <2>6 DEF RefreshFails
    <3> QED BY <2>6, <3>1 DEF RefreshFails, Await
  <2>7. ASSUME NEW c \in Calls, Serve(c) \/ \E t \in Tokens : Mint(c, t)
        PROVE  mu' = mu /\ call'[mu] = call[mu]
    BY <2>7 DEF Serve, Mint
  <2>8. ASSUME (\E t \in Tokens : Revoke(t)) \/ Tick \/ UNCHANGED vars
        PROVE  mu' = mu /\ call'[mu] = call[mu]
    BY <2>8 DEF Revoke, Tick, vars
  <2> QED
    BY <2>2, <2>3, <2>4, <2>5, <2>6, <2>7, <2>8 DEF Next
<1> QED
  BY <1>1, <1>2, <1>3, ClientInvariant, PTL DEF Spec, RenewalMovesOn

-----------------------------------------------------------------------------
(* The second attempt *)

\* A token on its way to a call is its own: it is neither cached, nor held by
\* another call, nor the answer to a second grant.
OwnGrants ==
    \A c \in Calls : grant[c] # NoToken =>
        /\ tok.access # grant[c]
        /\ \A d \in Calls : call[d].access # grant[c] /\ (grant[d] = grant[c] => d = c)

HeldWereIssued ==
    \A c \in Calls : call[c].access # NoToken => born[call[c].access] # NoTime

TokenRule == OwnGrants /\ HeldWereIssued

LEMMA TokenInit == Init => TokenRule
BY DEF Init, TokenRule, OwnGrants, HeldWereIssued

LEMMA TokenStep ==
    TypeOK /\ ExpiryRule /\ TokenRule /\ [Next]_vars => TokenRule'
<1> SUFFICES ASSUME TypeOK, ExpiryRule, TokenRule, [Next]_vars PROVE TokenRule'
  OBVIOUS
<1>a. OwnGrants /\ HeldWereIssued
  BY DEF TokenRule
\* A step in which the tokens in hand, cached and on their way grow no more.
<1>b. ASSUME NEW c \in Calls, Touches(c),
             call'[c].access = call[c].access,
             tok'.access \in {tok.access, NoToken},
             \A d \in Calls : grant'[d] \in {grant[d], NoToken},
             UNCHANGED born
      PROVE  TokenRule'
  <2>1. \A d \in Calls : call'[d].access = call[d].access
    BY <1>b DEF Touches
  <2>2. OwnGrants'
    BY <1>a, <1>b, <2>1 DEF OwnGrants
  <2> QED
    BY <1>a, <1>b, <2>1, <2>2 DEF HeldWereIssued, TokenRule
<1>1. ASSUME NEW c \in Calls,
             Start(c) \/ Renew(c) \/ RefreshFails(c) \/ IssueFails(c) \/ Send(c)
                \/ NotDialed(c) \/ Answered(c) \/ Unclear(c) \/ Unauthorized(c) \/ Invalidate(c)
      PROVE  TokenRule'
  <2>1. Touches(c) /\ call'[c].access = call[c].access
    BY <1>1, GoToSets, AwaitSets, ReturnSets, InvalidateSets
       DEF Start, Renew, RefreshFails, IssueFails, Send, NotDialed, Answered, Unclear,
           Unauthorized, Invalidate
  <2>2. tok' = tok \/ tok' = Nothing
    BY <1>1 DEF Start, Renew, RefreshFails, IssueFails, Send, NotDialed, Answered, Unclear,
       Unauthorized, Invalidate
  <2>3. UNCHANGED born /\ \A d \in Calls : grant'[d] \in {grant[d], NoToken}
    BY <1>1 DEF Start, Renew, RefreshFails, IssueFails, Send, NotDialed, Answered, Unclear,
       Unauthorized, Invalidate, provider, TypeOK
  <2>4. tok'.access \in {tok.access, NoToken}
    BY <2>2 DEF Nothing
  <2> QED
    BY <1>b, <2>1, <2>3, <2>4
<1>2. ASSUME NEW c \in Calls, UseCached(c) PROVE TokenRule'
  <2>1. /\ Touches(c) /\ call'[c].access = tok.access
        /\ UNCHANGED <<tok, grant, born>>
    BY <1>2, HoldSets DEF UseCached, provider
  <2>2. tok.access # NoToken /\ born[tok.access] # NoTime
    BY <1>2 DEF UseCached, Fresh, ExpiryRule, CacheRule
  <2>3. OwnGrants'
    BY <1>a, <2>1 DEF OwnGrants, Touches
  <2> QED
    BY <1>a, <2>1, <2>2, <2>3 DEF HeldWereIssued, TokenRule, Touches
<1>3. ASSUME NEW c \in Calls, Granted(c) PROVE TokenRule'
  <2>1. /\ Touches(c) /\ call'[c].access = grant[c] /\ UNCHANGED born
        /\ tok'.access = grant[c] /\ grant'[c] = NoToken
        /\ \A d \in Calls : d # c => grant'[d] = grant[d]
    BY <1>3, HoldSets DEF Granted, TypeOK
  <2>2. grant[c] # NoToken /\ born[grant[c]] # NoTime
    BY <1>3 DEF Granted, ExpiryRule, GrantRule
  <2>3. OwnGrants'
    BY <1>a, <2>1 DEF OwnGrants, Touches
  <2> QED
    BY <1>a, <2>1, <2>2, <2>3 DEF HeldWereIssued, TokenRule, Touches
<1>4. ASSUME NEW c \in Calls, NEW t \in Tokens, Mint(c, t) PROVE TokenRule'
  <2>1. /\ UNCHANGED <<tok, call>> /\ born[t] = NoTime /\ grant'[c] = t
        /\ \A d \in Calls : d # c => grant'[d] = grant[d]
        /\ \A u \in Tokens : u # t => born'[u] = born[u]
        /\ t # NoToken
    BY <1>4, GatewayClientAssumption DEF Mint, TypeOK, NoToken
  <2>2. /\ tok.access # t
        /\ \A d \in Calls : call[d].access # t /\ grant[d] # t
    BY <1>a, <2>1 DEF ExpiryRule, CacheRule, GrantRule, HeldWereIssued
  <2>3. OwnGrants'
    BY <1>a, <2>1, <2>2 DEF OwnGrants
  <2>4. HeldWereIssued'
    BY <1>a, <2>1, <2>2, TimesTyped DEF HeldWereIssued
  <2> QED
    BY <2>3, <2>4 DEF TokenRule
<1>5. ASSUME UNCHANGED <<tok, call, grant, born>> PROVE TokenRule'
  BY <1>a, <1>5 DEF OwnGrants, HeldWereIssued, TokenRule
<1> QED
  BY <1>1, <1>2, <1>3, <1>4, <1>5 DEF Next, Serve, Revoke, Tick, vars, provider

\* Between the two attempts of a call, the token of the first was given up by
\* the provider and is out of reach; the token of the second is another one.
Again(c) == call[c].attempt = 2 /\ call[c].pc \in {"bearer", "refresh", "issue"}

SecondChance(c) ==
    /\ call[c].pc = "idle" => call[c].attempt = 1
    /\ Again(c) \/ call[c].pc = "stale" => call[c].access \in revoked
    /\ Again(c) => /\ tok.access # call[c].access
                   /\ \A d \in Calls : grant[d] # call[c].access
    /\ call[c].attempt = 2 /\ call[c].pc \in {"send", "wait"} =>
          \E t \in revoked : t # call[c].access

SecondChances == \A c \in Calls : SecondChance(c)

LEMMA ChanceInit == Init => SecondChances
<1> SUFFICES ASSUME Init, NEW c \in Calls PROVE SecondChance(c)
  BY DEF SecondChances
<1>1. call[c].pc = "idle" /\ call[c].attempt = 1
  BY DEF Init
<1> QED
  BY <1>1 DEF SecondChance, Again

\* The provider turns away a waiting call for one reason: it gave the token up.
LEMMA TurnedAwayIsRevoked ==
    ASSUME TypeOK, ExpiryRule, RequestRules, NEW c \in Calls,
           call[c].pc = "wait", request[c] = "turned_away"
    PROVE  call[c].access \in revoked
<1>1. ~Alive(call[c].access)
  BY DEF RequestRules, RequestRule
<1>2. clock < born[call[c].access] + Lifetime
  BY BearersOutlive DEF BearersOutliveTheirCalls
<1> QED
  BY <1>1, <1>2 DEF Alive

LEMMA ChanceStep ==
    TypeOK /\ ExpiryRule /\ RequestRules /\ TokenRule /\ SecondChances /\ [Next]_vars =>
        SecondChances'
<1> SUFFICES ASSUME TypeOK, ExpiryRule, RequestRules, TokenRule, SecondChances, [Next]_vars
             PROVE  SecondChances'
  OBVIOUS
<1>a. \A c \in Calls : SecondChance(c)
  BY DEF SecondChances
\* A call that does not move keeps its chance if no token it gave up comes back.
<1>b. ASSUME NEW d \in Calls, call'[d] = call[d], revoked \subseteq revoked',
             Again(d) => /\ tok'.access # call[d].access
                         /\ \A e \in Calls : grant'[e] # call[d].access
      PROVE  SecondChance(d)'
  BY <1>a, <1>b DEF SecondChance, Again
<1>c. \A d \in Calls : Again(d) => call[d].access # NoToken
  BY <1>a, GatewayClientAssumption DEF SecondChance, TypeOK, NoToken
<1>d. ASSUME NEW c \in Calls, Touches(c), SecondChance(c)', UNCHANGED revoked,
             tok' \in {tok, Nothing},
             \A e \in Calls : grant'[e] \in {grant[e], NoToken}
      PROVE  SecondChances'
  <2>1. ASSUME NEW d \in Calls, d # c PROVE SecondChance(d)'
    <3>1. Again(d) => /\ tok'.access # call[d].access
                      /\ \A e \in Calls : grant'[e] # call[d].access
      BY <1>a, <1>c, <1>d DEF SecondChance, Nothing
    <3> QED
      BY <1>b, <1>d, <2>1, <3>1 DEF Touches
  <2> QED
    BY <1>d, <2>1 DEF SecondChances
<1>1. ASSUME NEW c \in Calls, Start(c) PROVE SecondChances'
  <2>1. /\ Touches(c) /\ call'[c].pc = "bearer" /\ call'[c].attempt = call[c].attempt
        /\ UNCHANGED <<tok, grant, revoked>>
    BY <1>1, GoToSets DEF Start, provider
  <2>2. call[c].attempt # 2
    BY <1>a, <1>1 DEF Start, SecondChance
  <2>3. SecondChance(c)'
    BY <2>1, <2>2 DEF SecondChance, Again
  <2> QED
    BY <1>d, <2>1, <2>3
<1>2. ASSUME NEW c \in Calls, UseCached(c) PROVE SecondChances'
  <2>1. /\ Touches(c) /\ call'[c].pc = "send" /\ call'[c].access = tok.access
        /\ call'[c].attempt = call[c].attempt /\ UNCHANGED <<tok, grant, revoked>>
    BY <1>2, HoldSets DEF UseCached, provider
  <2>2. call[c].attempt = 2 => call[c].access \in revoked /\ call[c].access # tok.access
    BY <1>a, <1>2 DEF UseCached, SecondChance, Again
  <2>3. SecondChance(c)'
    BY <2>1, <2>2 DEF SecondChance, Again
  <2> QED
    BY <1>d, <2>1, <2>3
<1>3. ASSUME NEW c \in Calls, Renew(c) \/ RefreshFails(c) PROVE SecondChances'
  <2>1. /\ Touches(c) /\ call'[c].pc \in {"refresh", "issue"}
        /\ call'[c].access = call[c].access /\ call'[c].attempt = call[c].attempt
        /\ UNCHANGED <<tok, revoked>>
        /\ \A e \in Calls : grant'[e] \in {grant[e], NoToken}
    BY <1>3, AwaitSets DEF Renew, RefreshFails, provider, TypeOK
  <2>2. Again(c)' => Again(c)
    BY <1>3, <2>1 DEF Renew, RefreshFails, Again
  <2>3. SecondChance(c)'
    BY <1>a, <1>c, <2>1, <2>2 DEF SecondChance, Again
  <2> QED
    BY <1>d, <2>1, <2>3
<1>4. ASSUME NEW c \in Calls, Granted(c) PROVE SecondChances'
  <2>1. /\ Touches(c) /\ call'[c].pc = "send" /\ call'[c].access = grant[c]
        /\ call'[c].attempt = call[c].attempt /\ UNCHANGED revoked
        /\ tok'.access = grant[c]
        /\ \A e \in Calls : grant'[e] \in {grant[e], NoToken}
    BY <1>4, HoldSets DEF Granted, TypeOK
  <2>2. \A d \in Calls : Again(d) =>
           /\ call[d].access \in revoked /\ grant[c] # call[d].access
           /\ \A e \in Calls : grant'[e] # call[d].access
    BY <1>a, <1>c, <2>1 DEF SecondChance
  <2>3. call[c].attempt = 2 => Again(c)
    BY <1>4 DEF Granted, Again
  <2>4. SecondChance(c)'
    BY <2>1, <2>2, <2>3 DEF SecondChance, Again
  <2>5. ASSUME NEW d \in Calls, d # c PROVE SecondChance(d)'
    BY <1>b, <2>1, <2>2, <2>5 DEF Touches
  <2> QED
    BY <2>4, <2>5 DEF SecondChances
<1>5. ASSUME NEW c \in Calls, Send(c) PROVE SecondChances'
  <2>1. /\ Touches(c) /\ call'[c].pc = "wait" /\ call'[c].access = call[c].access
        /\ call'[c].attempt = call[c].attempt /\ UNCHANGED <<tok, grant, revoked>>
    BY <1>5, AwaitSets DEF Send, provider
  <2>2. SecondChance(c)'
    BY <1>a, <1>5, <2>1 DEF Send, SecondChance, Again
  <2> QED
    BY <1>d, <2>1, <2>2
<1>6. ASSUME NEW c \in Calls, IssueFails(c) \/ NotDialed(c) \/ Answered(c) \/ Unclear(c)
      PROVE  SecondChances'
  <2>1. /\ Touches(c) /\ call'[c].pc = "done" /\ UNCHANGED <<tok, revoked>>
        /\ \A e \in Calls : grant'[e] \in {grant[e], NoToken}
    BY <1>6, ReturnSets DEF IssueFails, NotDialed, Answered, Unclear, provider, TypeOK
  <2>2. SecondChance(c)'
    BY <2>1 DEF SecondChance, Again
  <2> QED
    BY <1>d, <2>1, <2>2
<1>7. ASSUME NEW c \in Calls, Unauthorized(c) PROVE SecondChances'
  <2>1. UNCHANGED <<tok, grant, revoked>> /\ call[c].access \in revoked
    BY <1>7, TurnedAwayIsRevoked DEF Unauthorized, provider
  <2>2. /\ Touches(c) /\ call'[c].pc \in {"stale", "done"}
        /\ call'[c].access = call[c].access
    BY <1>7, GoToSets, ReturnSets DEF Unauthorized
  <2>3. SecondChance(c)'
    BY <2>1, <2>2 DEF SecondChance, Again
  <2> QED
    BY <1>d, <2>1, <2>2, <2>3
<1>8. ASSUME NEW c \in Calls, Invalidate(c) PROVE SecondChances'
  <2>1. /\ Touches(c) /\ call'[c].pc = "bearer" /\ call'[c].access = call[c].access
        /\ tok' \in {tok, Nothing} /\ UNCHANGED <<grant, revoked>>
    BY <1>8, InvalidateSets DEF Invalidate, provider
  <2>2. call[c].access \in revoked /\ call[c].access # NoToken
    BY <1>a, <1>8, GatewayClientAssumption DEF Invalidate, SecondChance, TypeOK, NoToken
  <2>3. tok'.access # call[c].access
    BY <1>8, <2>2 DEF Invalidate, Nothing
  <2>4. \A e \in Calls : grant[e] # call[c].access
    BY <2>2 DEF TokenRule, OwnGrants
  <2>5. SecondChance(c)'
    BY <2>1, <2>2, <2>3, <2>4 DEF SecondChance, Again
  <2> QED
    BY <1>d, <2>1, <2>5
<1>9. ASSUME NEW c \in Calls, NEW t \in Tokens, Mint(c, t) PROVE SecondChances'
  <2>1. /\ UNCHANGED <<tok, call, revoked>> /\ born[t] = NoTime
        /\ \A e \in Calls : grant'[e] \in {grant[e], t}
    BY <1>9 DEF Mint, TypeOK
  <2>2. \A d \in Calls : Again(d) => call[d].access # t
    BY <1>c, <2>1 DEF TokenRule, HeldWereIssued
  <2>3. ASSUME NEW d \in Calls PROVE SecondChance(d)'
    BY <1>a, <1>b, <2>1, <2>2 DEF SecondChance
  <2> QED
    BY <2>3 DEF SecondChances
<1>10. ASSUME UNCHANGED <<tok, call, grant>>, revoked \subseteq revoked' PROVE SecondChances'
  BY <1>a, <1>b, <1>10 DEF SecondChances, SecondChance
<1> QED
  BY <1>1, <1>2, <1>3, <1>4, <1>5, <1>6, <1>7, <1>8, <1>9, <1>10
     DEF Next, Serve, Revoke, Tick, vars, provider

\* OneRevocationIsSurvived: the provider has to give up two tokens to turn one
\* call away twice, whatever the other calls do between its two attempts.
THEOREM OneRevocationSurvived == Spec => []OneRevocationIsSurvived
<1>1. TypeOK /\ ExpiryRule /\ RequestRules /\ SecondChances => OneRevocationIsSurvived
  <2> SUFFICES ASSUME TypeOK, ExpiryRule, RequestRules, SecondChances,
                      \A t, u \in revoked : t = u,
                      NEW c \in Calls, call[c].attempt = 2, call[c].pc = "wait",
                      request[c] = "turned_away"
               PROVE  FALSE
    BY DEF OneRevocationIsSurvived
  <2>1. call[c].access \in revoked
    BY TurnedAwayIsRevoked
  <2>2. \E t \in revoked : t # call[c].access
    BY DEF SecondChances, SecondChance
  <2> QED
    BY <2>1, <2>2
<1>2. Spec => [](TokenRule /\ SecondChances)
  BY ClientInvariant, TokenInit, TokenStep, ChanceInit, ChanceStep, PTL DEF Spec
<1> QED
  BY <1>1, <1>2, ClientInvariant, PTL

-----------------------------------------------------------------------------
(* Refinement *)

LEMMA TellsTrue ==
    ASSUME TypeOK, NEW c \in Calls, NEW a \in {"ok", "rejected", "not_submitted", "ambiguous"},
           Return(c, a), UNCHANGED request, call[c].answer = "none",
           a = "ok" => request[c] = "carried_out",
           a \in {"rejected", "not_submitted"} => request[c] # "carried_out"
    PROVE  S!Next
<1>1. Told' = [Told EXCEPT ![c] = a]
  BY ReturnSets DEF Told, Touches
<1>2. Effect' = Effect /\ Effect[c] = (request[c] = "carried_out") /\ Told[c] = "none"
  BY DEF Effect, Told
<1>3. S!Tell(c, a)
  BY <1>1, <1>2 DEF S!Tell
<1> QED
  BY <1>3 DEF S!Next, S!Answers

LEMMA SameAnswers ==
    ASSUME NEW c \in Calls, Touches(c), call'[c].answer = call[c].answer
    PROVE  Told' = Told
BY DEF Told, Touches

LEMMA SameEffects ==
    ASSUME NEW c \in Calls, \A d \in Calls : d # c => request'[d] = request[d],
           request[c] # "carried_out", request'[c] # "carried_out"
    PROVE  Effect' = Effect
BY DEF Effect

LEMMA SubmissionStep ==
    TypeOK /\ RequestRules /\ [Next]_vars => S!Next \/ UNCHANGED <<Effect, Told>>
<1> SUFFICES ASSUME TypeOK, RequestRules, [Next]_vars
             PROVE  S!Next \/ UNCHANGED <<Effect, Told>>
  OBVIOUS
<1>a. \A c \in Calls : RequestRule(c)
  BY DEF RequestRules
<1>b. request' = request => Effect' = Effect
  BY DEF Effect
<1>1. ASSUME NEW c \in Calls,
             Start(c) \/ UseCached(c) \/ Renew(c) \/ Granted(c) \/ RefreshFails(c) \/ Invalidate(c)
      PROVE  UNCHANGED <<Effect, Told>>
  <2>1. request' = request /\ Touches(c) /\ call'[c].answer = call[c].answer
    BY <1>1, GoToSets, HoldSets, AwaitSets, InvalidateSets
       DEF Start, UseCached, Renew, Granted, RefreshFails, Invalidate
  <2> QED
    BY <1>b, <2>1, SameAnswers
<1>2. ASSUME NEW c \in Calls, IssueFails(c) PROVE S!Next
  <2>1. PICK a \in {"rejected", "not_submitted", "ambiguous"} : Return(c, a)
    BY <1>2 DEF IssueFails
  <2>2. /\ call[c].answer = "none" /\ request' = request
        /\ request[c] # "carried_out"
    BY <1>a, <1>2 DEF IssueFails, RequestRule
  <2> QED
    BY <2>1, <2>2, TellsTrue
<1>3. ASSUME NEW c \in Calls, Send(c) PROVE UNCHANGED <<Effect, Told>>
  <2>1. /\ request'[c] = "wire" /\ (\A d \in Calls : d # c => request'[d] = request[d])
        /\ request[c] # "carried_out" /\ Touches(c) /\ call'[c].answer = call[c].answer
    BY <1>a, <1>3, AwaitSets DEF Send, RequestRule, TypeOK
  <2> QED
    BY <2>1, SameAnswers, SameEffects
<1>4. ASSUME NEW c \in Calls, NotDialed(c) \/ Answered(c) \/ Unclear(c) PROVE S!Next
  <2>1. PICK a \in {"ok", "rejected", "not_submitted", "ambiguous"} :
           /\ Return(c, a)
           /\ a = "ok" => request[c] = "carried_out"
           /\ a = "rejected" => request[c] = "refused"
           /\ a = "not_submitted" => call[c].pc = "send"
    BY <1>4 DEF NotDialed, Answered, Unclear
  <2>2. /\ call[c].answer = "none" /\ request' = request
        /\ call[c].pc = "send" => request[c] # "carried_out"
    BY <1>a, <1>4 DEF NotDialed, Answered, Unclear, RequestRule
  <2> QED
    BY <2>1, <2>2, TellsTrue
<1>5. ASSUME NEW c \in Calls, Unauthorized(c) PROVE S!Next \/ UNCHANGED <<Effect, Told>>
  <2>1. call[c].answer = "none" /\ request' = request
    BY <1>a, <1>5 DEF Unauthorized, RequestRule
  <2>2. CASE GoTo(c, "stale")
    BY <1>b, <2>1, <2>2, GoToSets, SameAnswers
  <2>3. CASE Return(c, "ambiguous")
    BY <2>1, <2>3, TellsTrue
  <2> QED
    BY <1>5, <2>2, <2>3 DEF Unauthorized
<1>6. ASSUME NEW c \in Calls, Serve(c) PROVE S!Next \/ UNCHANGED <<Effect, Told>>
  <2>1. PICK place \in {"carried_out", "refused", "turned_away"} :
           request' = [request EXCEPT ![c] = place]
    BY <1>6 DEF Serve
  <2>2. /\ Told' = Told /\ request[c] = "wire"
        /\ Told[c] \in {"none", "ambiguous"} /\ Effect[c] = FALSE
    BY <1>a, <1>6 DEF Serve, Told, Effect, RequestRule
  <2>3. CASE place = "carried_out"
    <3>1. Effect' = [Effect EXCEPT ![c] = TRUE]
      BY <2>1, <2>3 DEF Effect, TypeOK
    <3>2. S!CarryOut(c)
      BY <2>2, <3>1 DEF S!CarryOut
    <3> QED
      BY <3>2 DEF S!Next
  <2>4. CASE place # "carried_out"
    BY <2>1, <2>2, <2>4, SameEffects DEF TypeOK
  <2> QED
    BY <2>3, <2>4
<1>7. ASSUME UNCHANGED <<call, request>> PROVE UNCHANGED <<Effect, Told>>
  BY <1>7 DEF Effect, Told
<1> QED
  BY <1>1, <1>2, <1>3, <1>4, <1>5, <1>6, <1>7 DEF Next, Mint, Revoke, Tick, vars

\* SubmissionSpec: a request is carried out at most once by the one or two
\* attempts of its call, and what the call returns is true of it.
THEOREM ImplementsSubmission == Spec => SubmissionSpec
<1>1. Init => S!Init
  BY InitCalls DEF S!Init, Effect, Told
<1>2. TypeOK /\ RequestRules /\ [Next]_vars => [S!Next]_(S!vars)
  BY SubmissionStep DEF S!vars
<1> QED
  BY <1>1, <1>2, ClientInvariant, PTL DEF Spec, SubmissionSpec, S!Spec

-----------------------------------------------------------------------------
(* What a submission promises, whatever implements it.                      *)

\* A caller that is told "ok" may rely on the effect, and one that is told
\* "rejected" or "not_submitted" may rely on there being none.
TruthfulAnswers ==
    /\ Effect \in [Calls -> BOOLEAN] /\ Told \in [Calls -> S!Answers \cup {"none"}]
    /\ \A c \in Calls : /\ Told[c] = "ok" => Effect[c]
                        /\ Told[c] \in {"rejected", "not_submitted"} => ~Effect[c]

\* No effect is undone or comes late, but after "ambiguous", and no answer is revised.
AnswerStands ==
    \A c \in Calls :
        /\ Effect[c] => Effect'[c]
        /\ Told[c] # "none" => Told'[c] = Told[c]
        /\ Told[c] \notin {"none", "ambiguous"} => Effect'[c] = Effect[c]

AnswersStand == [][AnswerStands]_(S!vars)

\* A submission starts without effect and without answer.
LEMMA AnswersInit == S!Init => TruthfulAnswers
<1> HIDE DEF Effect, Told
<1> QED BY DEF S!Init, TruthfulAnswers

\* It is carried out while it is open, and answered once.
LEMMA AnswersStep ==
    TruthfulAnswers /\ [S!Next]_(S!vars) => TruthfulAnswers' /\ [AnswerStands]_(S!vars)
<1> SUFFICES ASSUME TruthfulAnswers, [S!Next]_(S!vars)
             PROVE  TruthfulAnswers' /\ [AnswerStands]_(S!vars)
    OBVIOUS
<1> HIDE DEF Effect, Told
<1>0. S!Answers' = S!Answers BY DEF S!Answers
<1>1. CASE UNCHANGED S!vars
  BY <1>0, <1>1 DEF S!vars, TruthfulAnswers
<1>2. ASSUME NEW c \in Calls, S!CarryOut(c) PROVE TruthfulAnswers' /\ AnswerStands
  BY <1>0, <1>2 DEF S!CarryOut, TruthfulAnswers, AnswerStands
<1>3. ASSUME NEW c \in Calls, NEW a \in S!Answers, S!Tell(c, a)
      PROVE  TruthfulAnswers' /\ AnswerStands
  BY <1>0, <1>3 DEF S!Tell, TruthfulAnswers, AnswerStands
<1> QED BY <1>1, <1>2, <1>3 DEF S!Next

\* So an answer of the gateway client other than "ambiguous" is true when it is
\* given and stays true: settlement may act on it at any later time.
THEOREM AnswersHold == Spec => []TruthfulAnswers /\ AnswersStand
<1>1. Spec => S!Init /\ [][S!Next]_(S!vars)
  BY ImplementsSubmission DEF SubmissionSpec, S!Spec
<1> QED BY <1>1, AnswersInit, AnswersStep, PTL DEF AnswersStand

=============================================================================
