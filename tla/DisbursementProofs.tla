------------------------- MODULE DisbursementProofs -------------------------
(***************************************************************************)
(* Theorems of module Disbursement, for every set of legs and any way of   *)
(* batching them: type correctness, and the claim protocol of payLeg with  *)
(* its consequence that a leg is submitted at most once.                   *)
(***************************************************************************)
EXTENDS Disbursement, TLAPS

\* The sweeper and the payers are workers, and a batch number is not -1.
LEMMA WorkersAre ==
    /\ Sweeper \in Workers
    /\ \A b \in Batches : b \in Workers
    /\ Workers \subseteq Int
    /\ Legs \subseteq Int
BY DisbursementAssumption DEF Workers, Batches, Sweeper

\* A worker at rest, alone or about to list.
LEMMA IdleTyped == IdleWorker \in WorkerStates /\ [IdleWorker EXCEPT !.pc = "list"] \in WorkerStates
BY DEF IdleWorker, WorkerStates, PCs, Answers

\* Changing the pc and the answer of a worker keeps it in its domain.
LEMMA StepTyped ==
    ASSUME NEW r \in WorkerStates, NEW p \in PCs, NEW a \in Answers
    PROVE  /\ [r EXCEPT !.pc = p] \in WorkerStates
           /\ [r EXCEPT !.pc = p, !.answer = a] \in WorkerStates
BY DEF WorkerStates

\* Replacing one worker's record keeps the workers in their domain.
LEMMA WorkerTyped ==
    ASSUME worker \in [Workers -> WorkerStates], NEW w, NEW r \in WorkerStates,
           worker' = [worker EXCEPT ![w] = r]
    PROVE  worker' \in [Workers -> WorkerStates]
OBVIOUS

\* The initial state is well typed.
LEMMA TypeInit == Init => TypeOK
<1> SUFFICES ASSUME Init PROVE TypeOK
    OBVIOUS
<1>1. status \in [Legs -> Statuses] BY DEF Init, Statuses
<1>2. worker \in [Workers -> WorkerStates]
  BY IdleTyped DEF Init
<1>3. provider \in [Legs -> [Places -> Nat]] BY DEF Init
<1>4. /\ sent \subseteq Notices /\ checked \subseteq Notices
      /\ applied \subseteq Notices /\ processed \subseteq Notices
      /\ stable \in BOOLEAN
  BY DEF Init
<1> QED BY <1>1, <1>2, <1>3, <1>4 DEF TypeOK

\* What moving one submission from one place to another does to the counters.
LEMMA ShiftEffect ==
    ASSUME NEW l \in Legs, NEW from \in Places, NEW to \in Places, from # to,
           provider \in [Legs -> [Places -> Nat]], Shift(l, from, to)
    PROVE  /\ provider' \in [Legs -> [Places -> Nat]]
           /\ provider[l][from] > 0
           /\ provider'[l][from] = provider[l][from] - 1
           /\ provider'[l][to] = provider[l][to] + 1
           /\ \A p \in Places \ {from, to} : provider'[l][p] = provider[l][p]
           /\ \A m \in Legs \ {l} : provider'[m] = provider[m]
<1> DEFINE row == [provider[l] EXCEPT ![from] = @ - 1, ![to] = @ + 1]
<1>1. provider[l] \in [Places -> Nat] OBVIOUS
<1>2. provider[l][from] > 0 BY DEF Shift
<1>3. row \in [Places -> Nat] BY <1>1, <1>2
<1>4. provider' = [provider EXCEPT ![l] = row] BY <1>1 DEF Shift
<1> QED BY <1>1, <1>2, <1>3, <1>4

\* The conditional updates keep the status column in its domain.
LEMMA UpdatesTyped ==
    ASSUME status \in [Legs -> Statuses], NEW l,
           \/ ConfirmSettlement(l) \/ FailSettlementLeg(l) \/ ReleaseSettlementLeg(l)
    PROVE  status' \in [Legs -> Statuses]
BY DEF ConfirmSettlement, FailSettlementLeg, ReleaseSettlementLeg, Statuses

\* An answer is written within its domain.
LEMMA AnswerTyped ==
    ASSUME worker \in [Workers -> WorkerStates], NEW w \in Workers, NEW a \in Answers,
           Answer(w, a)
    PROVE  worker' \in [Workers -> WorkerStates]
<1> "answered" \in PCs BY DEF PCs
<1>1. [worker[w] EXCEPT !.pc = "answered", !.answer = a] \in WorkerStates BY StepTyped
<1> QED BY <1>1 DEF Answer

\* So is a new pc.
LEMMA GoToTyped ==
    ASSUME worker \in [Workers -> WorkerStates], NEW w \in Workers, NEW p \in PCs, GoTo(w, p)
    PROVE  worker' \in [Workers -> WorkerStates]
<1>1. [worker[w] EXCEPT !.pc = p] \in WorkerStates BY DEF WorkerStates
<1> QED BY <1>1 DEF GoTo

\* A reply only changes the answer of a worker, within its domain.
LEMMA ReplyTyped ==
    ASSUME worker \in [Workers -> WorkerStates], NEW l, NEW a \in Answers, Reply(l, a)
    PROVE  worker' \in [Workers -> WorkerStates]
<1>1. CASE UNCHANGED worker BY <1>1
<1>2. ASSUME NEW w \in Workers, Answer(w, a) PROVE worker' \in [Workers -> WorkerStates]
  BY <1>2, AnswerTyped
<1> QED BY <1>1, <1>2 DEF Reply

\* Type correctness of every step.
LEMMA TypeStep == TypeOK /\ [Next]_vars => TypeOK'
<1> SUFFICES ASSUME TypeOK, [Next]_vars PROVE TypeOK'
    OBVIOUS
<1> USE WorkersAre DEF TypeOK
<1>1. ASSUME NEW b \in Batches, RecordBatch(b) PROVE TypeOK'
  BY <1>1 DEF RecordBatch, Statuses, hooks, WorkerStates, PCs
<1>2. ASSUME NEW w \in Workers, WorkerStep(w) PROVE TypeOK'
  <2> USE IdleTyped DEF hooks
  <2>0. /\ {"not_submitted", "rejected", "ambiguous", "none"} \subseteq Answers
        /\ {"wait", "list", "query", "claim"} \subseteq PCs
    BY DEF Answers, PCs
  <2>1. CASE List(w)
    <3>1. [pc |-> "claim",
           queue |-> {l \in Legs : status[l] = "pending" /\ (w = Sweeper \/ BatchOf[l] = w)},
           leg |-> -1, answer |-> "none"] \in WorkerStates
      BY <2>0 DEF WorkerStates
    <3> QED BY <2>1, <3>1 DEF List
  <2>2. CASE Claim(w)
    <3> PICK l \in Legs : /\ worker[w].pc = "claim" /\ Oldest(worker[w].queue, l)
                          /\ IF status[l] = "pending"
                             THEN /\ status' = [status EXCEPT ![l] = "inflight"]
                                  /\ worker' = [worker EXCEPT ![w] =
                                       [pc |-> "call", queue |-> @.queue \ {l}, leg |-> l,
                                        answer |-> "none"]]
                             ELSE /\ worker' = [worker EXCEPT ![w].queue = @ \ {l}]
                                  /\ UNCHANGED status
                          /\ UNCHANGED <<provider, hooks>>
      BY <2>2 DEF Claim
    <3>1. [pc |-> "call", queue |-> worker[w].queue \ {l}, leg |-> l, answer |-> "none"]
              \in WorkerStates
      BY DEF WorkerStates, PCs, Answers
    <3>2. [worker[w] EXCEPT !.queue = @ \ {l}] \in WorkerStates BY DEF WorkerStates
    <3>3. worker' \in [Workers -> WorkerStates] BY <3>1, <3>2
    <3>4. status' \in [Legs -> Statuses] BY DEF Statuses
    <3> QED BY <3>3, <3>4
  <2>3. CASE Finish(w) BY <2>3 DEF Finish
  <2>4. CASE Submit(w)
    <3>1. [provider[worker[w].leg] EXCEPT !["wire"] = @ + 1] \in [Places -> Nat]
          \/ worker[w].leg \notin Legs
      BY DEF Places
    <3>2. provider' = [provider EXCEPT ![worker[w].leg] =
                          [provider[worker[w].leg] EXCEPT !["wire"] = @ + 1]]
      BY <2>4 DEF Submit
    <3>3. provider' \in [Legs -> [Places -> Nat]] BY <3>1, <3>2
    <3> QED BY <2>0, <2>4, <3>3, GoToTyped DEF Submit
  <2>5. CASE NotSubmitted(w) BY <2>5, <2>0, AnswerTyped DEF NotSubmitted
  <2>6. CASE TokenRefused(w) BY <2>6, <2>0, AnswerTyped DEF TokenRefused
  <2>7. CASE Timeout(w) BY <2>7, <2>0, AnswerTyped DEF Timeout
  <2>8. CASE Act(w)
    <3>1. status' \in [Legs -> Statuses] BY <2>8, UpdatesTyped DEF Act
    <3>2. [worker[w] EXCEPT !.pc = "claim", !.answer = "none"] \in WorkerStates
      BY <2>0, StepTyped
    <3>3. worker' \in [Workers -> WorkerStates] BY <2>8, <3>2, WorkerTyped DEF Act
    <3> QED BY <2>8, <3>1, <3>3 DEF Act
  <2>9. CASE StoreFails(w)
    <3>1. \/ worker' = [worker EXCEPT ![w] = IdleWorker]
          \/ worker' = [worker EXCEPT ![w] = [IdleWorker EXCEPT !.pc = "list"]]
      BY <2>9 DEF StoreFails
    <3>2. worker' \in [Workers -> WorkerStates] BY <3>1, WorkerTyped
    <3> QED BY <2>9, <3>2 DEF StoreFails
  <2>10. CASE Tick
    <3>1. [pc |-> "query", queue |-> {l \in Legs : status[l] = "inflight"},
           leg |-> -1, answer |-> "none"] \in WorkerStates
      BY DEF WorkerStates, PCs, Answers
    <3>2. worker' \in [Workers -> WorkerStates]
      BY <2>0, <2>10, <3>1, WorkerTyped, GoToTyped DEF Tick
    <3> QED BY <2>10, <3>2 DEF Tick
  <2>11. CASE Query
    <3>1. CASE GoTo(Sweeper, "list") BY <2>0, <2>11, <3>1, GoToTyped DEF Query
    <3>2. ASSUME NEW l \in Legs, NEW a \in {"executed", "absent", "unknown"},
                 worker' = [worker EXCEPT ![Sweeper] =
                     [pc |-> "resolve", queue |-> @.queue \ {l}, leg |-> l, answer |-> a]]
          PROVE  TypeOK'
      <4>1. [pc |-> "resolve", queue |-> worker[Sweeper].queue \ {l}, leg |-> l, answer |-> a]
                \in WorkerStates
        BY DEF WorkerStates, PCs, Answers
      <4> QED BY <2>11, <3>2, <4>1 DEF Query
    <3> QED BY <2>11, <3>1, <3>2 DEF Query
  <2>12. CASE Resolve
    <3>1. status' \in [Legs -> Statuses] BY <2>12, UpdatesTyped DEF Resolve
    <3> QED BY <2>0, <2>12, <3>1, GoToTyped DEF Resolve
  <2> QED BY <1>2, <2>1, <2>2, <2>3, <2>4, <2>5, <2>6, <2>7, <2>8, <2>9, <2>10, <2>11, <2>12
          DEF WorkerStep
<1>3. ASSUME NEW l \in Legs, ProviderStep(l) PROVE TypeOK'
  <2> USE DEF hooks
  <2>0. /\ {"wire", "open", "void", "moved", "lost"} = Places
        /\ {"ok", "rejected"} \subseteq Answers
    BY DEF Places, Answers
  <2>1. CASE Accept(l) BY <2>1, <2>0, ShiftEffect, ReplyTyped DEF Accept
  <2>2. CASE Reject(l) BY <2>2, <2>0, ShiftEffect, ReplyTyped DEF Reject, Notify, Notices
  <2>3. CASE LoseRequest(l) BY <2>3, <2>0, ShiftEffect DEF LoseRequest
  <2>4. CASE Execute(l) BY <2>4, <2>0, ShiftEffect DEF Execute, Notify, Notices
  <2>5. CASE Return(l) BY <2>5, <2>0, ShiftEffect DEF Return, Notify, Notices
  <2> QED BY <1>3, <2>1, <2>2, <2>3, <2>4, <2>5 DEF ProviderStep
<1>4. ASSUME NEW n \in Notices, NoticeStep(n) PROVE TypeOK'
  <2>1. CASE ReceiveNotice(n) BY <2>1 DEF ReceiveNotice
  <2>2. CASE ApplyNotice(n) BY <2>2, UpdatesTyped DEF ApplyNotice
  <2>3. CASE MarkWebhookProcessed(n) BY <2>3 DEF MarkWebhookProcessed
  <2> QED BY <1>4, <2>1, <2>2, <2>3 DEF NoticeStep
<1>5. CASE Crash BY <1>5 DEF Crash, WorkerStates, IdleWorker, PCs, Answers
<1>6. CASE Stabilise \/ UNCHANGED vars BY <1>6 DEF Stabilise, vars
<1> QED BY <1>1, <1>2, <1>3, <1>4, <1>5, <1>6 DEF Next

\* Every column, process and counter stays in its domain.
THEOREM TypeCorrect == Spec => []TypeOK
BY TypeInit, TypeStep, PTL DEF Spec

-----------------------------------------------------------------------------
(* What holds of every gateway, the one that can be queried included.       *)

\* A leg that is not recorded yet has reached no worker and no provider.
Unrecorded ==
    \A l \in Legs : status[l] = "none" =>
        /\ \A p \in Places : provider[l][p] = 0
        /\ \A w \in Workers : l \notin worker[w].queue /\ worker[w].leg # l

\* Nobody is told, or acts on, what the provider did not do.
NoticesAreTrue ==
    /\ \A l \in Legs : /\ Paid(l) \in sent => provider[l]["moved"] > 0
                       /\ Returned(l) \in sent => provider[l]["void"] > 0
    /\ checked \cup applied \cup processed \subseteq sent

\* A notification that was applied stays obeyed.
NoticesAreObeyed ==
    \A l \in Legs :
        /\ Paid(l) \in applied \cup processed => status[l] \in {"confirmed", "failed"}
        /\ Returned(l) \in applied \cup processed => status[l] = "failed"

\* A worker was told that the provider has the transfer.
HasWord(w, l) ==
    /\ worker[w].leg = l
    /\ \/ worker[w].pc = "answered" /\ worker[w].answer = "ok"
       \/ worker[w].pc = "resolve" /\ worker[w].answer = "executed"

\* A leg is confirmed, or about to be, on the provider's word alone.
ConfirmedOnRecord ==
    \A l \in Legs :
        status[l] = "confirmed" \/ (\E w \in Workers : HasWord(w, l)) => OnRecord(l) > 0

\* A confirmed leg is never claimed or released again, and a failed one never changes.
SettledLegsStay ==
    [][\A l \in Legs :
           /\ status[l] = "failed" => status'[l] = "failed"
           /\ status[l] = "confirmed" => status'[l] \in {"confirmed", "failed"}]_vars

\* What the provider has on record of a leg it keeps on record.
RecordsGrow ==
    \A l \in Legs :
        /\ OnRecord(l)' >= OnRecord(l)
        /\ provider'[l]["moved"] >= provider[l]["moved"]
        /\ provider'[l]["void"] >= provider[l]["void"]

\* A submission moves on towards the record, or along it.
LEMMA ShiftGrows ==
    ASSUME TypeOK, NEW l \in Legs, NEW from \in {"wire", "open"}, NEW to \in Places \ {"wire"},
           from # to, from = "open" => to # "lost", Shift(l, from, to)
    PROVE  RecordsGrow /\ (to # "lost" => OnRecord(l)' > 0) /\ provider'[l][to] > 0
<1> USE DEF Places
<1>1. /\ provider[l][from] > 0 /\ provider'[l][from] = provider[l][from] - 1
      /\ provider'[l][to] = provider[l][to] + 1
      /\ \A p \in Places \ {from, to} : provider'[l][p] = provider[l][p]
      /\ \A m \in Legs \ {l} : provider'[m] = provider[m]
  BY ShiftEffect DEF TypeOK
<1>2. \A m \in Legs, p \in Places : provider[m][p] \in Nat BY DEF TypeOK
<1>3. ASSUME NEW m \in Legs \ {l}
      PROVE  /\ OnRecord(m)' >= OnRecord(m)
             /\ provider'[m]["moved"] >= provider[m]["moved"]
             /\ provider'[m]["void"] >= provider[m]["void"]
  BY <1>1, <1>2, <1>3 DEF OnRecord
<1>4. /\ OnRecord(l)' >= OnRecord(l)
      /\ provider'[l]["moved"] >= provider[l]["moved"]
      /\ provider'[l]["void"] >= provider[l]["void"]
      /\ (to # "lost" => OnRecord(l)' > 0) /\ provider'[l][to] > 0
  <2>1. CASE from = "wire"
    <3>1. CASE to = "lost" BY <1>1, <1>2, <2>1, <3>1 DEF OnRecord
    <3>2. CASE to = "open" BY <1>1, <1>2, <2>1, <3>2 DEF OnRecord
    <3>3. CASE to = "moved" BY <1>1, <1>2, <2>1, <3>3 DEF OnRecord
    <3>4. CASE to = "void" BY <1>1, <1>2, <2>1, <3>4 DEF OnRecord
    <3> QED BY <3>1, <3>2, <3>3, <3>4
  <2>2. CASE from = "open"
    <3>1. CASE to = "moved" BY <1>1, <1>2, <2>2, <3>1 DEF OnRecord
    <3>2. CASE to = "void" BY <1>1, <1>2, <2>2, <3>2 DEF OnRecord
    <3> QED BY <2>2, <3>1, <3>2
  <2> QED BY <2>1, <2>2
<1> QED BY <1>3, <1>4 DEF RecordsGrow

\* No step takes anything off the provider's record.
LEMMA GrowStep == TypeOK /\ [Next]_vars => RecordsGrow
<1> SUFFICES ASSUME TypeOK, [Next]_vars PROVE RecordsGrow
    OBVIOUS
<1>0. \A m \in Legs, p \in Places : provider[m][p] \in Nat BY DEF TypeOK
<1>1. CASE UNCHANGED provider
  BY <1>0, <1>1 DEF RecordsGrow, OnRecord, Places
<1>2. ASSUME NEW w \in Workers, Submit(w) PROVE RecordsGrow
  BY <1>0, <1>2 DEF Submit, RecordsGrow, OnRecord, Places, TypeOK
<1>3. ASSUME NEW l \in Legs, ProviderStep(l) PROVE RecordsGrow
  BY <1>3, ShiftGrows DEF ProviderStep, Accept, Reject, LoseRequest, Execute, Return, Places
<1>4. (\E w \in Workers : Submit(w)) \/ (\E l \in Legs : ProviderStep(l)) \/ UNCHANGED provider
  BY DEF Next, vars, RecordBatch, WorkerStep, List, Claim, Finish, NotSubmitted, TokenRefused,
     Timeout, Act, StoreFails, Tick, Query, Resolve, NoticeStep, ReceiveNotice, ApplyNotice,
     MarkWebhookProcessed, Crash, Stabilise
<1> QED BY <1>1, <1>2, <1>3, <1>4

\* Before the first leg is recorded, all of this holds.
LEMMA EveryGatewayInit ==
    Init => Unrecorded /\ NoticesAreTrue /\ NoticesAreObeyed /\ ConfirmedOnRecord
<1> SUFFICES ASSUME Init
             PROVE  Unrecorded /\ NoticesAreTrue /\ NoticesAreObeyed /\ ConfirmedOnRecord
    OBVIOUS
<1>1. \A w \in Workers : worker[w] = IdleWorker BY DEF Init
<1>2. Unrecorded BY <1>1, DisbursementAssumption DEF Init, Unrecorded, IdleWorker
<1>3. ConfirmedOnRecord BY <1>1 DEF Init, ConfirmedOnRecord, HasWord, IdleWorker
<1>4. NoticesAreTrue /\ NoticesAreObeyed BY DEF Init, NoticesAreTrue, NoticesAreObeyed
<1> QED BY <1>2, <1>3, <1>4

\* The notifications stay true, since what they tell of is never undone.
LEMMA TruthStep == TypeOK /\ NoticesAreTrue /\ [Next]_vars => NoticesAreTrue'
<1> SUFFICES ASSUME TypeOK, NoticesAreTrue, [Next]_vars PROVE NoticesAreTrue'
    OBVIOUS
<1>0. RecordsGrow BY GrowStep
<1>1. \A l \in Legs : provider[l]["moved"] \in Nat /\ provider[l]["void"] \in Nat
                      /\ provider'[l]["moved"] \in Nat /\ provider'[l]["void"] \in Nat
  BY TypeStep DEF TypeOK, Places
<1>2. \A l \in Legs : /\ Paid(l) \in sent => provider'[l]["moved"] > 0
                      /\ Returned(l) \in sent => provider'[l]["void"] > 0
  BY <1>0, <1>1 DEF NoticesAreTrue, RecordsGrow
<1>3. ASSUME NEW l \in Legs, Notify(l, "payout_failed"), provider'[l]["void"] > 0,
             UNCHANGED <<checked, applied, processed>>
      PROVE  NoticesAreTrue'
  BY <1>2, <1>3 DEF Notify, NoticesAreTrue, Paid, Returned
<1>4. ASSUME NEW l \in Legs, Notify(l, "payout_succeeded"), provider'[l]["moved"] > 0,
             UNCHANGED <<checked, applied, processed>>
      PROVE  NoticesAreTrue'
  BY <1>2, <1>4 DEF Notify, NoticesAreTrue, Paid, Returned
<1>5. CASE /\ UNCHANGED sent
           /\ checked' \cup applied' \cup processed' \subseteq checked \cup applied \cup processed \cup sent
  BY <1>2, <1>5 DEF NoticesAreTrue
<1>6. ASSUME NEW l \in Legs, ProviderStep(l) PROVE NoticesAreTrue'
  <2> USE DEF Places, hooks
  <2>1. CASE Accept(l) BY <1>5, <2>1 DEF Accept
  <2>2. CASE Reject(l)
    <3>1. provider'[l]["void"] > 0 BY <2>2, ShiftGrows DEF Reject
    <3> QED BY <1>3, <1>5, <2>2, <3>1 DEF Reject
  <2>3. CASE LoseRequest(l) BY <1>5, <2>3 DEF LoseRequest
  <2>4. CASE Execute(l)
    <3>1. provider'[l]["moved"] > 0 BY <2>4, ShiftGrows DEF Execute
    <3> QED BY <1>4, <2>4, <3>1 DEF Execute
  <2>5. CASE Return(l)
    <3>1. provider'[l]["void"] > 0 BY <2>5, ShiftGrows DEF Return
    <3> QED BY <1>3, <2>5, <3>1 DEF Return
  <2> QED BY <1>6, <2>1, <2>2, <2>3, <2>4, <2>5 DEF ProviderStep
<1>7. (\E l \in Legs : ProviderStep(l))
      \/ /\ UNCHANGED sent
         /\ checked' \cup applied' \cup processed' \subseteq checked \cup applied \cup processed \cup sent
  <2>1. (\E l \in Legs : ProviderStep(l)) \/ (\E n \in Notices : NoticeStep(n)) \/ Crash
        \/ UNCHANGED <<sent, checked, applied, processed>>
    BY DEF Next, vars, hooks, RecordBatch, WorkerStep, List, Claim, Finish, Submit, NotSubmitted,
       TokenRefused, Timeout, Act, StoreFails, Tick, Query, Resolve, Stabilise
  <2>2. ASSUME NEW n \in Notices, NoticeStep(n)
        PROVE  /\ UNCHANGED sent
               /\ checked' \cup applied' \cup processed'
                      \subseteq checked \cup applied \cup processed \cup sent
    BY <2>2 DEF NoticeStep, ReceiveNotice, ApplyNotice, MarkWebhookProcessed
  <2> QED BY <2>1, <2>2 DEF Crash
<1> QED BY <1>5, <1>6, <1>7

\* What a step may do to the column once a leg is recorded,
RowsAdvance ==
    \A l \in Legs :
        \/ status'[l] = status[l]
        \/ status[l] = "pending" /\ status'[l] = "inflight"
        \/ status[l] = "inflight" /\ status'[l] = "pending"
        \/ status[l] \in {"pending", "inflight"} /\ status'[l] = "confirmed"
        \/ status[l] \in {"pending", "inflight", "confirmed"} /\ status'[l] = "failed"

\* which is what each update of the column does.
LEMMA UpdatesMove ==
    ASSUME TypeOK, NEW l,
           \/ ConfirmSettlement(l) \/ FailSettlementLeg(l) \/ ReleaseSettlementLeg(l)
           \/ UNCHANGED status
    PROVE  RowsAdvance
BY DEF TypeOK, RowsAdvance, ConfirmSettlement, FailSettlementLeg, ReleaseSettlementLeg

\* Every step but the one that records a batch does no more than that.
LEMMA AdvanceStep ==
    ASSUME TypeOK,
           \/ \E w \in Workers : WorkerStep(w)
           \/ \E l \in Legs : ProviderStep(l)
           \/ \E n \in Notices : NoticeStep(n)
           \/ Crash \/ Stabilise \/ UNCHANGED vars
    PROVE  RowsAdvance
<1>2. ASSUME NEW w \in Workers, Claim(w) PROVE RowsAdvance
  BY <1>2 DEF Claim, RowsAdvance, TypeOK
<1>3. ASSUME NEW w \in Workers, Act(w) PROVE RowsAdvance
  BY <1>3, UpdatesMove DEF Act
<1>4. CASE Resolve BY <1>4, UpdatesMove DEF Resolve
<1>5. ASSUME NEW n \in Notices, ApplyNotice(n) PROVE RowsAdvance
  BY <1>5, UpdatesMove DEF ApplyNotice
<1>6. \/ UNCHANGED status \/ Resolve
      \/ \E w \in Workers : Claim(w) \/ Act(w)
      \/ \E n \in Notices : ApplyNotice(n)
  BY DEF vars, hooks, WorkerStep, List, Finish, Submit, NotSubmitted, TokenRefused,
     Timeout, StoreFails, Tick, Query, ProviderStep, Accept, Reject, LoseRequest, Execute, Return,
     NoticeStep, ReceiveNotice, MarkWebhookProcessed, Crash, Stabilise
<1> QED BY <1>2, <1>3, <1>4, <1>5, <1>6, UpdatesMove

\* The whole life of a leg's status column.
StatusMoves ==
    \/ RowsAdvance
    \/ \A l \in Legs :
          \/ status'[l] = status[l]
          \/ status[l] = "none" /\ status'[l] = "pending"

LEMMA MovesStep == TypeOK /\ [Next]_vars => StatusMoves
<1>1. ASSUME TypeOK, NEW b \in Batches, RecordBatch(b) PROVE StatusMoves
  <2>1. \A l \in Legs : status'[l] = IF BatchOf[l] = b THEN "pending" ELSE status[l]
    BY <1>1 DEF RecordBatch
  <2>2. \A l \in Legs : BatchOf[l] = b => status[l] = "none"
    BY <1>1, DisbursementAssumption DEF RecordBatch, Batches
  <2> QED BY <2>1, <2>2 DEF StatusMoves
<1> QED BY <1>1, AdvanceStep DEF StatusMoves, Next

\* A settled leg stays settled: no worker, sweep or late notification makes it
\* payable again.
THEOREM SettledStay == Spec => SettledLegsStay
<1>1. TypeOK /\ [Next]_vars =>
          [\A l \in Legs :
              /\ status[l] = "failed" => status'[l] = "failed"
              /\ status[l] = "confirmed" => status'[l] \in {"confirmed", "failed"}]_vars
  BY MovesStep DEF StatusMoves, RowsAdvance
<1> QED BY <1>1, TypeCorrect, PTL DEF Spec, SettledLegsStay

\* Nothing is queued, claimed or sent of a leg before its transition committed.
LEMMA UnrecordedStep == TypeOK /\ Unrecorded /\ [Next]_vars => Unrecorded'
<1> SUFFICES ASSUME TypeOK, Unrecorded, [Next]_vars, NEW l \in Legs, status'[l] = "none"
             PROVE  /\ \A p \in Places : provider'[l][p] = 0
                    /\ \A v \in Workers : l \notin worker'[v].queue /\ worker'[v].leg # l
    BY DEF Unrecorded
<1> DEFINE Untouched == \A v \in Workers : l \notin worker'[v].queue /\ worker'[v].leg # l
<1>1. status[l] = "none" BY MovesStep DEF StatusMoves, RowsAdvance
<1>2. /\ \A p \in Places : provider[l][p] = 0
      /\ \A v \in Workers : l \notin worker[v].queue /\ worker[v].leg # l
  BY <1>1 DEF Unrecorded
<1>3. provider'[l] = provider[l]
  <2>1. ASSUME NEW w \in Workers, Submit(w) PROVE provider'[l] = provider[l]
    <3>1. worker[w].leg # l BY <1>2
    <3> QED BY <2>1, <3>1 DEF Submit, TypeOK
  <2>2. ASSUME NEW m \in Legs, ProviderStep(m) PROVE provider'[l] = provider[l]
    <3>1. ASSUME NEW from \in Places, NEW to \in Places, Shift(m, from, to)
          PROVE  provider'[l] = provider[l]
      <4>1. m # l BY <1>2, <3>1 DEF Shift
      <4> QED BY <3>1, <4>1 DEF Shift, TypeOK
    <3> QED BY <2>2, <3>1 DEF ProviderStep, Accept, Reject, LoseRequest, Execute, Return, Places
  <2>3. \/ \E w \in Workers : Submit(w)
        \/ \E m \in Legs : ProviderStep(m)
        \/ UNCHANGED provider
    BY DEF Next, vars, hooks, RecordBatch, WorkerStep, List, Claim, Finish, NotSubmitted,
       TokenRefused, Timeout, Act, StoreFails, Tick, Query, Resolve, NoticeStep, ReceiveNotice,
       ApplyNotice, MarkWebhookProcessed, Crash, Stabilise
  <2> QED BY <2>1, <2>2, <2>3
<1>4. Untouched
  <2> USE DEF TypeOK
  <2>0. l # -1 BY DisbursementAssumption
  <2>8. l \notin IdleWorker.queue /\ IdleWorker.leg # l BY <2>0 DEF IdleWorker
  <2>1. ASSUME NEW w \in Workers, NEW r, worker' = [worker EXCEPT ![w] = r],
               l \notin r.queue, r.leg # l
        PROVE  Untouched
    BY <1>2, <2>1
  <2>7. ASSUME NEW w \in Workers, NEW pc, NEW a,
               \/ worker' = [worker EXCEPT ![w].pc = pc]
               \/ worker' = [worker EXCEPT ![w] = [@ EXCEPT !.pc = pc, !.answer = a]]
        PROVE  Untouched
    <3>1. \A r \in WorkerStates : /\ [r EXCEPT !.pc = pc].leg = r.leg
                                  /\ [r EXCEPT !.pc = pc].queue = r.queue
                                  /\ [r EXCEPT !.pc = pc, !.answer = a].leg = r.leg
                                  /\ [r EXCEPT !.pc = pc, !.answer = a].queue = r.queue
      BY DEF WorkerStates
    <3>2. worker[w] \in WorkerStates OBVIOUS
    <3>3. l \notin worker[w].queue /\ worker[w].leg # l BY <1>2
    <3>4. CASE worker' = [worker EXCEPT ![w].pc = pc]
      <4> DEFINE r == [worker[w] EXCEPT !.pc = pc]
      <4>1. l \notin r.queue /\ r.leg # l BY <3>1, <3>2, <3>3
      <4>2. worker' = [worker EXCEPT ![w] = r] BY <3>4
      <4> QED BY <2>1, <4>1, <4>2
    <3>5. CASE worker' = [worker EXCEPT ![w] = [@ EXCEPT !.pc = pc, !.answer = a]]
      <4> DEFINE r == [worker[w] EXCEPT !.pc = pc, !.answer = a]
      <4>1. l \notin r.queue /\ r.leg # l BY <3>1, <3>2, <3>3
      <4>2. worker' = [worker EXCEPT ![w] = r] BY <3>5
      <4> QED BY <2>1, <4>1, <4>2
    <3> QED BY <2>7, <3>4, <3>5
  <2>2. ASSUME NEW b \in Batches, RecordBatch(b) PROVE Untouched
    BY <1>2, <2>2 DEF RecordBatch
  <2>3. ASSUME NEW w \in Workers, WorkerStep(w) PROVE Untouched
    <3>1. CASE List(w) BY <1>1, <1>2, <2>0, <3>1 DEF List
    <3>2. CASE Claim(w)
      <4> PICK m \in Legs :
             /\ Oldest(worker[w].queue, m)
             /\ \/ worker' = [worker EXCEPT ![w] =
                       [pc |-> "call", queue |-> @.queue \ {m}, leg |-> m, answer |-> "none"]]
                \/ worker' = [worker EXCEPT ![w].queue = @ \ {m}]
        BY <3>2 DEF Claim
      <4> DEFINE called == [pc |-> "call", queue |-> worker[w].queue \ {m},
                            leg |-> m, answer |-> "none"]
                 passed == [worker[w] EXCEPT !.queue = worker[w].queue \ {m}]
      <4>1. called.queue = worker[w].queue \ {m} /\ called.leg # l BY <1>2 DEF Oldest
      <4>2. passed.queue = worker[w].queue \ {m} /\ passed.leg = worker[w].leg
        <5> worker[w] \in WorkerStates OBVIOUS
        <5> QED BY DEF WorkerStates
      <4>3. worker' = [worker EXCEPT ![w] = called] \/ worker' = [worker EXCEPT ![w] = passed]
        OBVIOUS
      <4> HIDE DEF called, passed
      <4> QED BY <1>2, <2>1, <4>1, <4>2, <4>3
    <3>3. CASE Finish(w) BY <1>2, <2>0, <3>3 DEF Finish, IdleWorker
    <3>4. CASE Submit(w) \/ NotSubmitted(w) \/ TokenRefused(w) \/ Timeout(w)
      BY <2>7, <3>4 DEF Submit, NotSubmitted, TokenRefused, Timeout, Answer, GoTo
    <3>5. CASE Act(w)
      <4>1. CASE worker' = [worker EXCEPT ![w] = IdleWorker] BY <2>1, <2>8, <4>1
      <4>2. CASE worker' = [worker EXCEPT ![w] = [@ EXCEPT !.pc = "claim", !.answer = "none"]]
        BY <2>7, <4>2
      <4> QED BY <3>5, <4>1, <4>2 DEF Act
    <3>6. CASE StoreFails(w)
      <4>1. \/ worker' = [worker EXCEPT ![w] = IdleWorker]
            \/ worker' = [worker EXCEPT ![w] = [IdleWorker EXCEPT !.pc = "list"]]
        BY <3>6 DEF StoreFails
      <4>2. /\ [IdleWorker EXCEPT !.pc = "list"].queue = IdleWorker.queue
            /\ [IdleWorker EXCEPT !.pc = "list"].leg = IdleWorker.leg
        BY DEF IdleWorker
      <4> QED BY <2>1, <2>8, <4>1, <4>2
    <3>7. CASE Tick
      <4>1. CASE GoTo(Sweeper, "list") BY <2>7, <4>1, WorkersAre DEF GoTo
      <4>2. CASE worker' = [worker EXCEPT ![Sweeper] =
                    [pc |-> "query", queue |-> {m \in Legs : status[m] = "inflight"},
                     leg |-> -1, answer |-> "none"]]
        BY <1>1, <2>0, <2>1, <4>2, WorkersAre
      <4> QED BY <3>7, <4>1, <4>2 DEF Tick
    <3>8. CASE Query
      <4>1. CASE GoTo(Sweeper, "list") BY <2>7, <4>1, WorkersAre DEF GoTo
      <4>2. ASSUME NEW m \in Legs, NEW a, Oldest(worker[Sweeper].queue, m),
                   worker' = [worker EXCEPT ![Sweeper] =
                       [pc |-> "resolve", queue |-> @.queue \ {m}, leg |-> m, answer |-> a]]
            PROVE  Untouched
        BY <1>2, <2>1, <4>2, WorkersAre DEF Oldest
      <4> QED BY <3>8, <4>1, <4>2 DEF Query
    <3>9. CASE Resolve BY <2>7, <3>9, WorkersAre DEF Resolve, GoTo
    <3> QED BY <2>3, <3>1, <3>2, <3>3, <3>4, <3>5, <3>6, <3>7, <3>8, <3>9 DEF WorkerStep
  <2>4. ASSUME NEW m \in Legs, ProviderStep(m) PROVE Untouched
    <3>1. ASSUME NEW a \in Answers, Reply(m, a) PROVE Untouched
      <4>1. CASE UNCHANGED worker BY <1>2, <4>1
      <4>2. ASSUME NEW w \in Workers, Answer(w, a) PROVE Untouched BY <2>7, <4>2 DEF Answer
      <4> QED BY <3>1, <4>1, <4>2 DEF Reply
    <3>2. CASE UNCHANGED worker BY <1>2, <3>2
    <3> QED BY <2>4, <3>1, <3>2 DEF ProviderStep, Accept, Reject, LoseRequest, Execute, Return, Answers
  <2>5. CASE Crash BY <1>2, <2>0, <2>5 DEF Crash, IdleWorker
  <2>6. CASE (\E n \in Notices : NoticeStep(n)) \/ Stabilise \/ UNCHANGED vars
    BY <1>2, <2>6 DEF NoticeStep, ReceiveNotice, ApplyNotice, MarkWebhookProcessed, Stabilise, vars
  <2> QED BY <2>2, <2>3, <2>4, <2>5, <2>6 DEF Next
<1> QED BY <1>2, <1>3, <1>4

\* Once a notification was applied, no later statement undoes what it said.
LEMMA ObeyedStep ==
    TypeOK /\ Unrecorded /\ NoticesAreTrue /\ NoticesAreObeyed /\ [Next]_vars => NoticesAreObeyed'
<1> SUFFICES ASSUME TypeOK, Unrecorded, NoticesAreTrue, NoticesAreObeyed, [Next]_vars,
                    NEW l \in Legs
             PROVE  /\ Paid(l) \in applied' \cup processed' => status'[l] \in {"confirmed", "failed"}
                    /\ Returned(l) \in applied' \cup processed' => status'[l] = "failed"
    BY DEF NoticesAreObeyed
<1>1. /\ Paid(l) \in applied \cup processed => status'[l] \in {"confirmed", "failed"}
      /\ Returned(l) \in applied \cup processed => status'[l] = "failed"
  BY MovesStep DEF StatusMoves, RowsAdvance, NoticesAreObeyed
<1>2. Paid(l) \in sent \/ Returned(l) \in sent => status[l] \in Statuses \ {"none"}
  <2>1. status[l] = "none" => provider[l]["moved"] = 0 /\ provider[l]["void"] = 0
    BY DEF Unrecorded, Places
  <2> QED BY <2>1 DEF NoticesAreTrue, TypeOK
<1>3. ASSUME NEW n \in checked, ApplyNotice(n), n = Paid(l)
      PROVE  status'[l] \in {"confirmed", "failed"}
  <2>1. status[l] \in Statuses \ {"none"} BY <1>2, <1>3 DEF NoticesAreTrue
  <2>2. ConfirmSettlement(l) BY <1>3 DEF ApplyNotice, Paid
  <2> QED BY <2>1, <2>2 DEF ConfirmSettlement, TypeOK, Statuses
<1>4. ASSUME NEW n \in checked, ApplyNotice(n), n = Returned(l) PROVE status'[l] = "failed"
  <2>1. status[l] \in Statuses \ {"none"} BY <1>2, <1>4 DEF NoticesAreTrue
  <2>2. FailSettlementLeg(l) BY <1>4 DEF ApplyNotice, Returned
  <2> QED BY <2>1, <2>2 DEF FailSettlementLeg, TypeOK, Statuses
<1>5. \/ applied' \cup processed' \subseteq applied \cup processed
      \/ \E n \in checked : ApplyNotice(n) /\ applied' \cup processed' = applied \cup processed \cup {n}
  <2>1. (\E n \in Notices : NoticeStep(n)) \/ Crash \/ UNCHANGED <<applied, processed>>
    BY DEF Next, vars, hooks, RecordBatch, WorkerStep, List, Claim, Finish, Submit, NotSubmitted,
       TokenRefused, Timeout, Act, StoreFails, Tick, Query, Resolve, ProviderStep, Accept, Reject,
       LoseRequest, Execute, Return, Stabilise
  <2>2. ASSUME NEW n \in Notices, ReceiveNotice(n) \/ MarkWebhookProcessed(n)
        PROVE  applied' \cup processed' \subseteq applied \cup processed
    BY <2>2 DEF ReceiveNotice, MarkWebhookProcessed
  <2>3. ASSUME NEW n \in Notices, ApplyNotice(n)
        PROVE  n \in checked /\ applied' \cup processed' = applied \cup processed \cup {n}
    BY <2>3 DEF ApplyNotice
  <2> QED BY <2>1, <2>2, <2>3 DEF NoticeStep, Crash
<1>6. CASE applied' \cup processed' \subseteq applied \cup processed BY <1>1, <1>6
<1>7. ASSUME NEW n \in checked, ApplyNotice(n),
             applied' \cup processed' = applied \cup processed \cup {n}
      PROVE  /\ Paid(l) \in applied' \cup processed' => status'[l] \in {"confirmed", "failed"}
             /\ Returned(l) \in applied' \cup processed' => status'[l] = "failed"
  BY <1>1, <1>3, <1>4, <1>7
<1> QED BY <1>5, <1>6, <1>7

\* A leg is confirmed by a worker or by a notification that has the provider's
\* word for it, and that word is never taken back.
LEMMA RecordStep ==
    TypeOK /\ NoticesAreTrue /\ ConfirmedOnRecord /\ [Next]_vars => ConfirmedOnRecord'
<1> SUFFICES ASSUME TypeOK, NoticesAreTrue, ConfirmedOnRecord, [Next]_vars, NEW l \in Legs,
                    status'[l] = "confirmed" \/ \E w \in Workers : HasWord(w, l)'
             PROVE  OnRecord(l)' > 0
    BY DEF ConfirmedOnRecord
<1>1. /\ OnRecord(l) \in Nat /\ OnRecord(l)' \in Nat /\ OnRecord(l)' >= OnRecord(l)
      /\ provider[l]["moved"] > 0 => OnRecord(l) > 0
  BY GrowStep, TypeStep DEF TypeOK, OnRecord, Places, RecordsGrow
<1>2. SUFFICES ASSUME ~ OnRecord(l)' > 0 PROVE FALSE
    OBVIOUS
<1>3. /\ ~ OnRecord(l) > 0 /\ status[l] # "confirmed"
      /\ \A w \in Workers : ~HasWord(w, l)
      /\ Paid(l) \notin checked
  <2>1. ~ OnRecord(l) > 0 BY <1>1, <1>2
  <2> QED BY <1>1, <2>1 DEF ConfirmedOnRecord, NoticesAreTrue
<1>4. status'[l] # "confirmed"
  <2>1. ASSUME NEW m, ConfirmSettlement(m), m # l PROVE status'[l] # "confirmed"
    BY <1>3, <2>1 DEF ConfirmSettlement, TypeOK
  <2>2. ASSUME NEW m, FailSettlementLeg(m) \/ ReleaseSettlementLeg(m)
        PROVE  status'[l] # "confirmed"
    BY <1>3, <2>2 DEF FailSettlementLeg, ReleaseSettlementLeg, TypeOK
  <2>3. CASE UNCHANGED status BY <1>3, <2>3
  <2>4. ASSUME NEW b \in Batches, RecordBatch(b) PROVE status'[l] # "confirmed"
    BY <1>3, <2>4 DEF RecordBatch
  <2>5. ASSUME NEW w \in Workers, Claim(w) PROVE status'[l] # "confirmed"
    BY <1>3, <2>5 DEF Claim, TypeOK
  <2>6. ASSUME NEW w \in Workers, Act(w) PROVE status'[l] # "confirmed"
    <3>1. worker[w].answer = "ok" /\ worker[w].pc = "answered" => worker[w].leg # l
      BY <1>3 DEF HasWord
    <3> QED BY <2>1, <2>2, <2>3, <2>6, <3>1 DEF Act
  <2>7. CASE Resolve
    <3>1. worker[Sweeper].answer = "executed" => worker[Sweeper].leg # l
      BY <1>3, <2>7, WorkersAre DEF HasWord, Resolve
    <3> QED BY <2>1, <2>2, <2>3, <2>7, <3>1 DEF Resolve
  <2>8. ASSUME NEW n \in Notices, ApplyNotice(n) PROVE status'[l] # "confirmed"
    <3>1. n.kind = "payout_succeeded" => n.leg # l
      BY <1>3, <2>8 DEF ApplyNotice, Paid, Notices
    <3> QED BY <2>1, <2>2, <2>8, <3>1 DEF ApplyNotice
  <2>9. \/ UNCHANGED status \/ Resolve
        \/ \E b \in Batches : RecordBatch(b)
        \/ \E w \in Workers : Claim(w) \/ Act(w)
        \/ \E n \in Notices : ApplyNotice(n)
    BY DEF Next, vars, hooks, WorkerStep, List, Finish, Submit, NotSubmitted, TokenRefused,
       Timeout, StoreFails, Tick, Query, ProviderStep, Accept, Reject, LoseRequest, Execute, Return,
       NoticeStep, ReceiveNotice, MarkWebhookProcessed, Crash, Stabilise
  <2> QED BY <2>3, <2>4, <2>5, <2>6, <2>7, <2>8, <2>9
<1>5. ASSUME NEW v \in Workers, HasWord(v, l)' PROVE FALSE
  <2> USE <1>3, <1>5 DEF TypeOK
  <2>1. ASSUME NEW w \in Workers, NEW r, worker' = [worker EXCEPT ![w] = r],
               ~(r.leg = l /\ r.pc = "answered" /\ r.answer = "ok"),
               ~(r.leg = l /\ r.pc = "resolve" /\ r.answer = "executed")
        PROVE  FALSE
    <3>1. CASE v = w BY <2>1, <3>1 DEF HasWord
    <3>2. CASE v # w
      <4>1. worker'[v] = worker[v] BY <2>1, <3>2
      <4> QED BY <4>1 DEF HasWord
    <3> QED BY <3>1, <3>2
  <2>2. ASSUME NEW w \in Workers, NEW a \in Answers \ {"ok"}, Answer(w, a) PROVE FALSE
    <3> DEFINE r == [worker[w] EXCEPT !.pc = "answered", !.answer = a]
    <3>1. r.pc = "answered" /\ r.answer = a BY DEF WorkerStates
    <3>2. worker' = [worker EXCEPT ![w] = r] BY <2>2 DEF Answer
    <3> HIDE DEF r
    <3> QED BY <2>1, <3>1, <3>2
  <2>3. ASSUME NEW w \in Workers, NEW p \in PCs \ {"answered", "resolve"}, GoTo(w, p) PROVE FALSE
    <3> DEFINE r == [worker[w] EXCEPT !.pc = p]
    <3>1. r.pc = p BY DEF WorkerStates
    <3>2. worker' = [worker EXCEPT ![w] = r] BY <2>3 DEF GoTo
    <3> HIDE DEF r
    <3> QED BY <2>1, <3>1, <3>2
  <2>4. ASSUME NEW b \in Batches, RecordBatch(b) PROVE FALSE
    BY <2>3, <2>4, WorkersAre DEF RecordBatch, GoTo, PCs
  <2>5. ASSUME NEW w \in Workers, WorkerStep(w) PROVE FALSE
    <3> USE <2>5
    <3>1. CASE List(w) BY <2>1, <3>1 DEF List
    <3>2. CASE Claim(w)
      <4> PICK m \in Legs :
             \/ worker' = [worker EXCEPT ![w] =
                    [pc |-> "call", queue |-> @.queue \ {m}, leg |-> m, answer |-> "none"]]
             \/ worker[w].pc = "claim" /\ worker' = [worker EXCEPT ![w].queue = @ \ {m}]
        BY <3>2 DEF Claim
      <4> DEFINE called == [pc |-> "call", queue |-> worker[w].queue \ {m},
                            leg |-> m, answer |-> "none"]
                 passed == [worker[w] EXCEPT !.queue = worker[w].queue \ {m}]
      <4>1. called.pc = "call" OBVIOUS
      <4>2. passed.pc = worker[w].pc
        <5> worker[w] \in WorkerStates OBVIOUS
        <5> QED BY DEF WorkerStates
      <4>3. \/ worker' = [worker EXCEPT ![w] = called]
            \/ worker' = [worker EXCEPT ![w] = passed] /\ worker[w].pc = "claim"
        OBVIOUS
      <4> HIDE DEF called, passed
      <4> QED BY <2>1, <4>1, <4>2, <4>3
    <3>3. CASE worker' = [worker EXCEPT ![w] = IdleWorker]
      <4>1. IdleWorker.pc = "idle" BY DEF IdleWorker
      <4> QED BY <2>1, <3>3, <4>1
    <3>4. CASE Submit(w) BY <2>3, <3>4 DEF Submit, PCs
    <3>5. CASE NotSubmitted(w) \/ TokenRefused(w) \/ Timeout(w)
      BY <2>2, <3>5 DEF NotSubmitted, TokenRefused, Timeout, Answers
    <3>6. CASE worker' = [worker EXCEPT ![w] = [@ EXCEPT !.pc = "claim", !.answer = "none"]]
      <4> DEFINE r == [worker[w] EXCEPT !.pc = "claim", !.answer = "none"]
      <4>1. r.pc = "claim" BY DEF WorkerStates
      <4>2. worker' = [worker EXCEPT ![w] = r] BY <3>6
      <4> HIDE DEF r
      <4> QED BY <2>1, <4>1, <4>2
    <3>7. CASE worker' = [worker EXCEPT ![w] = [IdleWorker EXCEPT !.pc = "list"]]
      <4>1. [IdleWorker EXCEPT !.pc = "list"].pc = "list" BY DEF IdleWorker
      <4> QED BY <2>1, <3>7, <4>1
    <3>8. CASE Tick
      <4>1. CASE GoTo(Sweeper, "list") BY <2>3, <4>1, WorkersAre DEF PCs
      <4>2. CASE worker' = [worker EXCEPT ![Sweeper] =
                    [pc |-> "query", queue |-> {m \in Legs : status[m] = "inflight"},
                     leg |-> -1, answer |-> "none"]]
        BY <2>1, <4>2, WorkersAre
      <4> QED BY <3>8, <4>1, <4>2 DEF Tick
    <3>9. CASE Query
      <4>1. CASE GoTo(Sweeper, "list") BY <2>3, <4>1, WorkersAre DEF PCs
      <4>2. ASSUME NEW m \in Legs, NEW a, a = "executed" => provider[m]["moved"] > 0,
                   worker' = [worker EXCEPT ![Sweeper] =
                       [pc |-> "resolve", queue |-> @.queue \ {m}, leg |-> m, answer |-> a]]
            PROVE  FALSE
        <5>1. a = "executed" => m # l BY <1>1, <4>2
        <5> QED BY <2>1, <4>2, <5>1, WorkersAre
      <4> QED BY <3>9, <4>1, <4>2 DEF Query
    <3>10. CASE Resolve BY <2>3, <3>10, WorkersAre DEF Resolve, PCs
    <3>11. CASE Finish(w) BY <3>3, <3>11 DEF Finish
    <3>12. CASE Act(w) BY <3>3, <3>6, <3>12 DEF Act
    <3>13. CASE StoreFails(w)
      <4>1. \/ worker' = [worker EXCEPT ![w] = IdleWorker]
            \/ worker' = [worker EXCEPT ![w] = [IdleWorker EXCEPT !.pc = "list"]]
        BY <3>13 DEF StoreFails
      <4> QED BY <3>3, <3>7, <4>1
    <3> QED BY <3>1, <3>2, <3>4, <3>5, <3>8, <3>9, <3>10, <3>11, <3>12, <3>13 DEF WorkerStep
  <2>6. ASSUME NEW m \in Legs, ProviderStep(m) PROVE FALSE
    <3>0. CASE UNCHANGED worker BY <3>0 DEF HasWord
    <3>1. CASE Accept(m)
      <4>1. m # l BY <1>2, <3>1, ShiftGrows DEF Accept, Places
      <4>2. ASSUME NEW w \in Workers, worker[w].leg = m, Answer(w, "ok") PROVE FALSE
        <5> DEFINE r == [worker[w] EXCEPT !.pc = "answered", !.answer = "ok"]
        <5>1. r.leg = m /\ r.pc = "answered" BY <4>2 DEF WorkerStates
        <5>2. worker' = [worker EXCEPT ![w] = r] BY <4>2 DEF Answer
        <5> HIDE DEF r
        <5> QED BY <2>1, <4>1, <5>1, <5>2
      <4> QED BY <3>0, <3>1, <4>2 DEF Accept, Reply
    <3>2. CASE Reject(m) BY <2>2, <3>0, <3>2 DEF Reject, Reply, Answers
    <3> QED BY <2>6, <3>0, <3>1, <3>2 DEF ProviderStep, LoseRequest, Execute, Return
  <2>7. CASE Crash BY <2>7 DEF Crash, IdleWorker, HasWord
  <2>8. CASE (\E n \in Notices : NoticeStep(n)) \/ Stabilise \/ UNCHANGED vars
    BY <2>8 DEF NoticeStep, ReceiveNotice, ApplyNotice, MarkWebhookProcessed, Stabilise,
       vars, HasWord
  <2> QED BY <2>4, <2>5, <2>6, <2>7, <2>8 DEF Next
<1> QED BY <1>4, <1>5

\* "confirmed" is the provider's word, never a guess: whatever gateway, a
\* confirmed leg is on the provider's record, and what is not recorded yet was
\* never sent.
THEOREM ConfirmedIsOnRecord == Spec => [](ConfirmedOnRecord /\ Unrecorded)
BY EveryGatewayInit, TypeCorrect, TruthStep, UnrecordedStep, RecordStep, PTL DEF Spec

\* What a notification said holds from the moment it was applied, and
\* notifications are never about something that did not happen.
THEOREM NoticesHold == Spec => [](NoticesAreTrue /\ NoticesAreObeyed)
BY EveryGatewayInit, TypeCorrect, TruthStep, UnrecordedStep, ObeyedStep, PTL DEF Spec

\* Applying a notification that another delivery completed changes no column.
THEOREM ReplaysHarmless == Spec => ReplaysAreNoOps
<1>1. TypeOK /\ NoticesAreObeyed => \A n \in processed : ApplyNotice(n) => UNCHANGED status
  <2> SUFFICES ASSUME TypeOK, NoticesAreObeyed, NEW n \in processed, ApplyNotice(n)
               PROVE  UNCHANGED status
      OBVIOUS
  <2>1. n \in Notices BY DEF TypeOK
  <2>2. n.leg \in Legs /\ (n = Paid(n.leg) \/ n = Returned(n.leg))
    BY <2>1 DEF Notices, Paid, Returned
  <2>3. CASE n = Paid(n.leg)
    <3>1. status[n.leg] \in {"confirmed", "failed"} BY <2>2, <2>3 DEF NoticesAreObeyed
    <3>2. n.kind = "payout_succeeded" BY <2>3 DEF Paid
    <3> QED BY <3>1, <3>2 DEF ApplyNotice, ConfirmSettlement
  <2>4. CASE n = Returned(n.leg)
    <3>1. status[n.leg] = "failed" BY <2>2, <2>4 DEF NoticesAreObeyed
    <3>2. n.kind = "payout_failed" BY <2>4 DEF Returned
    <3> QED BY <3>1, <3>2 DEF ApplyNotice, FailSettlementLeg
  <2> QED BY <2>2, <2>3, <2>4
<1>2. TypeOK /\ NoticesAreObeyed /\ [Next]_vars =>
          [\A n \in processed : ApplyNotice(n) => UNCHANGED status]_vars
  BY <1>1
<1> QED BY <1>2, TypeCorrect, NoticesHold, PTL DEF Spec, ReplaysAreNoOps

-----------------------------------------------------------------------------
(* The claim protocol. *)

\* Of five counters that add up to one at most, one that counts is the only one.
LEMMA OneOfFive ==
    ASSUME NEW a \in Nat, NEW b \in Nat, NEW c \in Nat, NEW d \in Nat, NEW e \in Nat,
           a + b + (c + d + e) <= 1
    PROVE  /\ a > 0 => a = 1 /\ b = 0 /\ c = 0 /\ d = 0 /\ e = 0
           /\ b > 0 => a = 0 /\ b = 1 /\ c = 0 /\ d = 0 /\ e = 0
           /\ c > 0 => a = 0 /\ b = 0 /\ c = 1 /\ d = 0 /\ e = 0
           /\ d > 0 => a = 0 /\ b = 0 /\ c = 0 /\ d = 1 /\ e = 0
           /\ e > 0 => a = 0 /\ b = 0 /\ c = 0 /\ d = 0 /\ e = 1
OBVIOUS

\* With at most one submission, a leg that stands somewhere stands nowhere else.
LEMMA OnePlace ==
    ASSUME TypeOK, NEW l \in Legs, LegProtocol(l), NEW p \in Places, provider[l][p] > 0
    PROVE  /\ provider[l][p] = 1 /\ \A q \in Places \ {p} : provider[l][q] = 0
           /\ Submissions(l) = 1
<1> DEFINE a == provider[l]["wire"]
           b == provider[l]["lost"]
           c == provider[l]["open"]
           d == provider[l]["moved"]
           e == provider[l]["void"]
<1>1. \A q \in Places : provider[l][q] \in Nat BY DEF TypeOK
<1>2. Submissions(l) <= 1 BY DEF LegProtocol, ColumnProtocol
<1>3. a \in Nat /\ b \in Nat /\ c \in Nat /\ d \in Nat /\ e \in Nat BY <1>1 DEF Places
<1>4. Submissions(l) = a + b + (c + d + e) BY DEF Submissions, OnRecord
<1>5. a + b + (c + d + e) <= 1 BY <1>2, <1>4
<1> HIDE DEF a, b, c, d, e
<1>6. /\ a > 0 => a = 1 /\ b = 0 /\ c = 0 /\ d = 0 /\ e = 0
      /\ b > 0 => a = 0 /\ b = 1 /\ c = 0 /\ d = 0 /\ e = 0
      /\ c > 0 => a = 0 /\ b = 0 /\ c = 1 /\ d = 0 /\ e = 0
      /\ d > 0 => a = 0 /\ b = 0 /\ c = 0 /\ d = 1 /\ e = 0
      /\ e > 0 => a = 0 /\ b = 0 /\ c = 0 /\ d = 0 /\ e = 1
  BY <1>3, <1>5, OneOfFive
<1>7. a > 0 \/ b > 0 \/ c > 0 \/ d > 0 \/ e > 0 BY DEF Places, a, b, c, d, e
<1>8. Submissions(l) = 1 BY <1>3, <1>4, <1>6, <1>7
<1>9. /\ provider[l][p] = 1 /\ \A q \in Places \ {p} : provider[l][q] = 0
  <2>1. CASE p = "wire" BY <1>6, <2>1 DEF a, b, c, d, e, Places
  <2>2. CASE p = "lost" BY <1>6, <2>2 DEF a, b, c, d, e, Places
  <2>3. CASE p = "open" BY <1>6, <2>3 DEF a, b, c, d, e, Places
  <2>4. CASE p = "moved" BY <1>6, <2>4 DEF a, b, c, d, e, Places
  <2>5. CASE p = "void" BY <1>6, <2>5 DEF a, b, c, d, e, Places
  <2> QED BY <2>1, <2>2, <2>3, <2>4, <2>5 DEF Places
<1> QED BY <1>8, <1>9

\* So a submission that moves leaves one place for another.
LEMMA ShiftRow ==
    ASSUME TypeOK, NEW l \in Legs, LegProtocol(l),
           NEW from \in Places, NEW to \in Places, from # to, Shift(l, from, to)
    PROVE  /\ provider[l][from] = 1 /\ \A q \in Places \ {from} : provider[l][q] = 0
           /\ provider'[l][to] = 1 /\ \A q \in Places \ {to} : provider'[l][q] = 0
           /\ \A m \in Legs \ {l} : provider'[m] = provider[m]
           /\ Submissions(l) = 1 /\ Submissions(l)' = 1
<1>1. provider[l][from] > 0 BY DEF Shift
<1>2. /\ provider[l][from] = 1 /\ \A q \in Places \ {from} : provider[l][q] = 0
      /\ Submissions(l) = 1
  BY <1>1, OnePlace
<1>3. /\ provider'[l][from] = provider[l][from] - 1
      /\ provider'[l][to] = provider[l][to] + 1
      /\ \A p \in Places \ {from, to} : provider'[l][p] = provider[l][p]
      /\ \A m \in Legs \ {l} : provider'[m] = provider[m]
  BY ShiftEffect DEF TypeOK
<1>4. provider'[l][to] = 1 /\ \A q \in Places \ {to} : provider'[l][q] = 0
  BY <1>2, <1>3
<1>5. Submissions(l)' = 1 BY <1>4 DEF Submissions, OnRecord, Places
<1> QED BY <1>2, <1>3, <1>4, <1>5

\* The protocol holds before any leg is recorded.
LEMMA ProtocolInit == Init => ClaimProtocol
<1> SUFFICES ASSUME Init PROVE ClaimProtocol
    OBVIOUS
<1>1. \A w \in Workers : worker[w].pc = "idle" BY DEF Init, IdleWorker
<1>2. ASSUME NEW l \in Legs PROVE LegProtocol(l)
  <2>1. Submissions(l) = 0 BY DEF Init, Submissions, OnRecord, Places
  <2>2. \A w \in Workers : ~Holds(w, l) BY <1>1 DEF Holds
  <2> QED BY <2>1, <2>2 DEF LegProtocol, ColumnProtocol, HolderProtocol, NoticeProtocol, Init, Answered
<1> QED BY <1>1, <1>2 DEF ClaimProtocol, Init

\* A step that changes nothing of a leg but lets go of it keeps its protocol.
LEMMA Frame ==
    ASSUME NEW l \in Legs, LegProtocol(l),
           status'[l] = status[l], provider'[l] = provider[l],
           Paid(l) \in sent <=> Paid(l) \in sent',
           Returned(l) \in sent <=> Returned(l) \in sent',
           Paid(l) \in applied' \cup processed' => Paid(l) \in applied \cup processed,
           Returned(l) \in applied' \cup processed' => Returned(l) \in applied \cup processed,
           \A w \in Workers : Holds(w, l)' => worker'[w] = worker[w]
    PROVE  LegProtocol(l)'
BY DEF LegProtocol, ColumnProtocol, HolderProtocol, NoticeProtocol, Holds, Answered, Submissions, OnRecord, Took, Paid, Returned

\* Every step keeps the claim protocol, when the gateway cannot be queried.
LEMMA ProtocolStep ==
    ASSUME CanQuery = FALSE
    PROVE  TypeOK /\ ClaimProtocol /\ [Next]_vars => ClaimProtocol'
<1> SUFFICES ASSUME TypeOK, ClaimProtocol, [Next]_vars PROVE ClaimProtocol'
    OBVIOUS
<1> USE WorkersAre DEF TypeOK
<1>1. ASSUME NEW b \in Batches, RecordBatch(b) PROVE ClaimProtocol'
  <2>1. ASSUME NEW l \in Legs PROVE LegProtocol(l)'
    <3>1. LegProtocol(l) BY DEF ClaimProtocol
    <3>2. \A w \in Workers : Holds(w, l)' => worker'[w] = worker[w] /\ Holds(w, l)
      BY <1>1 DEF RecordBatch, Holds, WorkerStates
    <3>3. CASE BatchOf[l] = b
      BY <1>1, <3>1, <3>2, <3>3, DisbursementAssumption DEF RecordBatch, Batches, hooks, LegProtocol, ColumnProtocol, HolderProtocol, NoticeProtocol, Holds, Answered,
         Submissions, OnRecord, Took, Paid, Returned
    <3>4. CASE BatchOf[l] # b
      BY <1>1, <3>1, <3>2, <3>4, Frame DEF RecordBatch, hooks
    <3> QED BY <3>3, <3>4
  <2> QED BY <1>1, <2>1 DEF ClaimProtocol, RecordBatch, hooks, WorkerStates
<1>2. ASSUME NEW w \in Workers, WorkerStep(w) PROVE ClaimProtocol'
  <2>0. /\ \A l \in Legs : LegProtocol(l)
        /\ \A v \in Workers : worker[v].pc \notin {"query", "resolve"}
    BY DEF ClaimProtocol
  <2> DEFINE Calm == /\ UNCHANGED hooks
                     /\ \A v \in Workers : worker'[v].pc \notin {"query", "resolve"}
  <2>a. Calm /\ (\A l \in Legs : LegProtocol(l)') => ClaimProtocol'
    BY DEF ClaimProtocol, hooks
  <2>b. ASSUME Calm, UNCHANGED <<status, provider>>,
               \A l \in Legs, v \in Workers : Holds(v, l)' => worker'[v] = worker[v]
        PROVE  ClaimProtocol'
    <3>1. ASSUME NEW l \in Legs PROVE LegProtocol(l)' BY <2>0, <2>b, Frame DEF hooks
    <3> QED BY <2>a, <2>b, <3>1
  <2>1. CASE List(w)
    <3>1. Calm BY <2>0, <2>1 DEF List, hooks, WorkerStates
    <3>2. \A l \in Legs, v \in Workers : Holds(v, l)' => worker'[v] = worker[v]
      BY <2>1 DEF List, Holds, WorkerStates
    <3> QED BY <2>1, <2>b, <3>1, <3>2 DEF List
  <2>2. CASE Claim(w)
    <3> PICK c \in Legs : /\ worker[w].pc = "claim" /\ Oldest(worker[w].queue, c)
                          /\ IF status[c] = "pending"
                             THEN /\ status' = [status EXCEPT ![c] = "inflight"]
                                  /\ worker' = [worker EXCEPT ![w] =
                                       [pc |-> "call", queue |-> @.queue \ {c}, leg |-> c,
                                        answer |-> "none"]]
                             ELSE /\ worker' = [worker EXCEPT ![w].queue = @ \ {c}]
                                  /\ UNCHANGED status
                          /\ UNCHANGED <<provider, hooks>>
      BY <2>2 DEF Claim
    <3>0. /\ worker'[w].pc \in {"call", "claim"}
          /\ \A v \in Workers \ {w} : worker'[v] = worker[v]
      <4>1. CASE status[c] = "pending" BY <4>1
      <4>2. CASE status[c] # "pending" BY <4>2 DEF WorkerStates
      <4> QED BY <4>1, <4>2
    <3>1. Calm BY <2>0, <3>0 DEF hooks
    <3>2. CASE status[c] = "pending"
      <4>1. ASSUME NEW l \in Legs PROVE LegProtocol(l)'
        <5>1. CASE l = c
          <6>1. /\ Submissions(l) = 0 /\ status'[l] = "inflight"
                /\ \A v \in Workers : ~Holds(v, l)
            BY <2>0, <3>2, <5>1 DEF LegProtocol, ColumnProtocol, HolderProtocol, NoticeProtocol
          <6>2. /\ worker'[w].pc = "call"
                /\ \A v \in Workers : Holds(v, l)' => v = w
            BY <3>0, <3>2, <6>1 DEF Holds
          <6>3. \A v \in Workers, a \in Answers : ~Answered(v, l, a)'
            BY <6>2 DEF Answered
          <6>4. UNCHANGED <<provider, sent, applied, processed>> BY DEF hooks
          <6>5. /\ Submissions(l)' = Submissions(l)
                /\ Paid(l)' = Paid(l) /\ Returned(l)' = Returned(l)
            BY <6>4 DEF Submissions, OnRecord, Paid, Returned
          <6>6. {"ok", "rejected", "not_submitted"} \subseteq Answers BY DEF Answers
          <6>7. \A v \in Workers : ~Answered(v, l, "ok")' /\ ~Answered(v, l, "rejected")'
                                    /\ ~Answered(v, l, "not_submitted")'
            BY <6>3, <6>6
          <6>8. Returned(l) \notin applied \cup processed /\ Paid(l) \notin applied \cup processed
            BY <2>0, <3>2, <5>1 DEF LegProtocol, ColumnProtocol, HolderProtocol, NoticeProtocol
          <6> QED BY <2>0, <6>1, <6>2, <6>4, <6>5, <6>7, <6>8 DEF LegProtocol, ColumnProtocol, HolderProtocol, NoticeProtocol
        <5>2. CASE l # c
          <6>1. \A v \in Workers : Holds(v, l)' => worker'[v] = worker[v]
            BY <3>2, <5>2 DEF Holds, WorkerStates
          <6> QED BY <2>0, <3>2, <5>2, <6>1, Frame DEF hooks
        <5> QED BY <5>1, <5>2
      <4> QED BY <2>a, <3>1, <4>1
    <3>3. CASE status[c] # "pending"
      <4>1. \A l \in Legs, v \in Workers : Holds(v, l)' => worker'[v] = worker[v]
        BY <3>3 DEF Holds, WorkerStates
      <4> QED BY <2>b, <3>1, <3>3, <4>1
    <3> QED BY <3>2, <3>3
  <2>3. CASE Finish(w)
    <3>1. Calm BY <2>0, <2>3 DEF Finish, hooks, IdleWorker
    <3>2. \A l \in Legs, v \in Workers : Holds(v, l)' => worker'[v] = worker[v]
      BY <2>3 DEF Finish, Holds, IdleWorker
    <3> QED BY <2>3, <2>b, <3>1, <3>2 DEF Finish
  <2>4. CASE Submit(w)
    <3>1. Calm BY <2>0, <2>4 DEF Submit, GoTo, hooks, WorkerStates
    <3>2. /\ worker'[w].pc = "wait" /\ worker'[w].leg = worker[w].leg
          /\ \A v \in Workers \ {w} : worker'[v] = worker[v]
      BY <2>4 DEF Submit, GoTo, WorkerStates
    <3>3. ASSUME NEW l \in Legs PROVE LegProtocol(l)'
      <4>1. CASE worker[w].leg = l
        <5>1. Holds(w, l) /\ Submissions(l) = 0 /\ status[l] = "inflight"
          BY <2>0, <2>4, <4>1 DEF Submit, LegProtocol, ColumnProtocol, HolderProtocol, NoticeProtocol, Holds
        <5>2. provider[l] \in [Places -> Nat] OBVIOUS
        <5>3. provider'[l] = [provider[l] EXCEPT !["wire"] = @ + 1] BY <2>4, <4>1 DEF Submit
        <5>9. /\ provider[l]["wire"] = 0 /\ provider[l]["lost"] = 0 /\ provider[l]["open"] = 0
              /\ provider[l]["moved"] = 0 /\ provider[l]["void"] = 0
          BY <5>1, <5>2 DEF Submissions, OnRecord, Places
        <5>4. /\ provider'[l]["wire"] = 1 /\ provider'[l]["lost"] = 0
              /\ provider'[l]["open"] = 0 /\ provider'[l]["moved"] = 0
              /\ provider'[l]["void"] = 0
          BY <5>2, <5>3, <5>9 DEF Places
        <5>6. \A v \in Workers : Holds(v, l)' => v = w
          <6>1. \A v \in Workers : Holds(v, l) => v = w BY <2>0, <5>1 DEF LegProtocol, ColumnProtocol, HolderProtocol, NoticeProtocol
          <6> QED BY <3>2, <6>1 DEF Holds
        <5>5. \A v \in Workers : ~Answered(v, l, "ok")' /\ ~Answered(v, l, "rejected")'
                                  /\ ~Answered(v, l, "not_submitted")'
                                  /\ ~(Holds(v, l)' /\ worker'[v].pc = "call")
          BY <3>2, <5>6 DEF Answered
        <5>7. Submissions(l)' = 1 BY <5>4 DEF Submissions, OnRecord
        <5>8. /\ Paid(l) \notin sent /\ Returned(l) \notin sent
              /\ Returned(l) \notin applied \cup processed
              /\ Paid(l) \notin applied \cup processed
          BY <2>0, <5>1, <5>2 DEF LegProtocol, ColumnProtocol, HolderProtocol, NoticeProtocol, Submissions, OnRecord, Places
        <5> QED BY <2>4, <5>1, <5>4, <5>5, <5>6, <5>7, <5>8
                DEF Submit, LegProtocol, ColumnProtocol, HolderProtocol, NoticeProtocol, hooks, Paid, Returned
      <4>2. CASE worker[w].leg # l
        <5>1. provider'[l] = provider[l] BY <2>4, <4>2 DEF Submit
        <5>2. \A v \in Workers : Holds(v, l)' => worker'[v] = worker[v]
          BY <3>2, <4>2 DEF Holds
        <5> QED BY <2>0, <2>4, <5>1, <5>2, Frame DEF Submit, hooks
      <4> QED BY <4>1, <4>2
    <3> QED BY <2>a, <3>1, <3>3
  <2>5. ASSUME NEW a \in {"not_submitted", "rejected", "ambiguous"},
               Answer(w, a), UNCHANGED <<status, provider, hooks>>,
               worker[w].pc = "call" \/ (worker[w].pc = "wait" /\ a = "ambiguous")
        PROVE  ClaimProtocol'
    <3>1. Calm BY <2>0, <2>5 DEF Answer, hooks, WorkerStates
    <3>2. ASSUME NEW l \in Legs PROVE LegProtocol(l)'
      <4>1. /\ worker'[w].pc = "answered" /\ worker'[w].answer = a
            /\ worker'[w].leg = worker[w].leg
            /\ \A v \in Workers \ {w} : worker'[v] = worker[v]
        BY <2>5 DEF Answer, WorkerStates
      <4>2. UNCHANGED <<status, provider, sent, applied, processed>> BY <2>5 DEF hooks
      <4>3. /\ Submissions(l)' = Submissions(l) /\ (Took(l)' <=> Took(l))
            /\ Paid(l)' = Paid(l) /\ Returned(l)' = Returned(l)
        BY <4>2 DEF Submissions, OnRecord, Took, Paid, Returned
      <4>4. LegProtocol(l) BY <2>0
      <4>5. /\ \A v \in Workers : Holds(v, l)' <=> Holds(v, l)
            /\ \A v \in Workers \ {w} : worker'[v] = worker[v]
        BY <2>5, <4>1 DEF Holds
      <4>6. ColumnProtocol(l)' /\ NoticeProtocol(l)'
        BY <4>2, <4>3, <4>4 DEF LegProtocol, ColumnProtocol, NoticeProtocol
      <4>7. ASSUME Holds(w, l)
            PROVE  /\ a # "ambiguous" => status[l] = "inflight" /\ Submissions(l) = 0
                   /\ a = "rejected" =>
                        provider[l]["wire"] + provider[l]["open"] + provider[l]["moved"] = 0
        <5>1. CASE a = "ambiguous" BY <5>1
        <5>2. CASE a # "ambiguous"
          <6>1. worker[w].pc = "call" BY <2>5, <5>2
          <6>2. status[l] = "inflight" /\ Submissions(l) = 0
            BY <4>4, <4>7, <6>1 DEF LegProtocol, HolderProtocol
          <6>3. provider[l]["wire"] + provider[l]["open"] + provider[l]["moved"] = 0
            BY <6>2 DEF Submissions, OnRecord, Places
          <6> QED BY <6>2, <6>3
        <5> QED BY <5>1, <5>2
      <4>8. HolderProtocol(l)'
        <5>1. ASSUME NEW v \in Workers
              PROVE  /\ (Holds(v, l)' /\ worker'[v].pc = "call") \/ Answered(v, l, "not_submitted")' =>
                            status[l] = "inflight" /\ Submissions(l) = 0
                     /\ Answered(v, l, "rejected")' =>
                            provider[l]["wire"] + provider[l]["open"] + provider[l]["moved"] = 0
                     /\ Answered(v, l, "ok")' => Took(l)
          <6>1. CASE v = w BY <4>1, <4>5, <4>7, <6>1 DEF Answered
          <6>2. CASE v # w BY <4>4, <4>5, <6>2 DEF Answered, LegProtocol, HolderProtocol
          <6> QED BY <6>1, <6>2
        <5>2. /\ status[l] \in {"none", "pending"} => \A v \in Workers : ~Holds(v, l)
              /\ \A u, v \in Workers : Holds(u, l) /\ Holds(v, l) => u = v
          BY <4>4 DEF LegProtocol, HolderProtocol
        <5> QED BY <4>2, <4>3, <4>5, <5>1, <5>2 DEF HolderProtocol
      <4> QED BY <4>6, <4>8 DEF LegProtocol
    <3> QED BY <2>a, <3>1, <3>2
  <2>6. CASE NotSubmitted(w) BY <2>5, <2>6 DEF NotSubmitted
  <2>7. CASE TokenRefused(w) BY <2>5, <2>7 DEF TokenRefused
  <2>8. CASE Timeout(w) BY <2>5, <2>8 DEF Timeout
  <2>9. CASE Act(w)
    <3>0. /\ worker'[w].pc \in {"claim", "idle"}
          /\ \A v \in Workers \ {w} : worker'[v] = worker[v]
      <4>1. \/ worker' = [worker EXCEPT ![w] = [worker[w] EXCEPT !.pc = "claim", !.answer = "none"]]
            \/ worker' = [worker EXCEPT ![w] = IdleWorker]
        BY <2>9 DEF Act
      <4>2. [worker[w] EXCEPT !.pc = "claim", !.answer = "none"].pc = "claim"
        BY DEF WorkerStates
      <4>3. IdleWorker.pc = "idle" BY DEF IdleWorker
      <4> QED BY <4>1, <4>2, <4>3
    <3>1. Calm BY <2>0, <2>9, <3>0 DEF Act, hooks
    <3>2. /\ \A l \in Legs : ~Holds(w, l)'
          /\ \A v \in Workers \ {w} : worker'[v] = worker[v]
      BY <3>0 DEF Holds
    <3>3. ASSUME NEW l \in Legs PROVE LegProtocol(l)'
      <4>1. CASE worker[w].leg = l
        <5>1. Holds(w, l) BY <2>9, <4>1 DEF Act, Holds
        <5>2. \A v \in Workers : ~Holds(v, l)'
          <6>1. \A v \in Workers : Holds(v, l) => v = w BY <2>0, <5>1 DEF LegProtocol, ColumnProtocol, HolderProtocol, NoticeProtocol
          <6> QED BY <3>2, <6>1 DEF Holds
        <5>3. UNCHANGED <<provider, sent, applied, processed>> BY <2>9 DEF Act, hooks
        <5>4. /\ status[l] \notin {"none", "pending"}
              /\ \/ status'[l] = status[l]
                 \/ status'[l] = "confirmed" /\ Answered(w, l, "ok")
                 \/ status'[l] = "failed" /\ Answered(w, l, "rejected")
                 \/ status'[l] = "pending" /\ Answered(w, l, "not_submitted")
          BY <2>0, <2>9, <4>1, <5>1
             DEF Act, ConfirmSettlement, FailSettlementLeg, ReleaseSettlementLeg, Answered,
                 LegProtocol, ColumnProtocol, HolderProtocol, NoticeProtocol
        <5>5. status[l] = "failed" => status'[l] = "failed"
          BY <2>9, <4>1
             DEF Act, ConfirmSettlement, FailSettlementLeg, ReleaseSettlementLeg
        <5>6. /\ Submissions(l)' = Submissions(l) /\ (Took(l)' <=> Took(l))
              /\ Paid(l)' = Paid(l) /\ Returned(l)' = Returned(l)
          BY <5>3 DEF Submissions, OnRecord, Took, Paid, Returned
        <5>7. Paid(l) \in applied \cup processed => status'[l] = "confirmed"
          <6> HAVE Paid(l) \in applied \cup processed
          <6>1. status[l] = "confirmed" BY <2>0 DEF LegProtocol, ColumnProtocol, HolderProtocol, NoticeProtocol
          <6>2. provider[l]["moved"] = 1 BY <2>0 DEF LegProtocol, ColumnProtocol, HolderProtocol, NoticeProtocol, ClaimProtocol
          <6>3. provider[l]["wire"] \in Nat /\ provider[l]["open"] \in Nat BY DEF Places
          <6>4. ~Answered(w, l, "rejected") BY <2>0, <6>2, <6>3 DEF LegProtocol, ColumnProtocol, HolderProtocol, NoticeProtocol
          <6>5. ~Answered(w, l, "not_submitted") BY <2>0, <6>1 DEF LegProtocol, ColumnProtocol, HolderProtocol, NoticeProtocol
          <6> QED BY <5>4, <6>1, <6>4, <6>5
        <5> QED BY <2>0, <5>2, <5>3, <5>4, <5>5, <5>6, <5>7 DEF LegProtocol, ColumnProtocol, HolderProtocol, NoticeProtocol, Answered
      <4>2. CASE worker[w].leg # l
        <5>1. status'[l] = status[l]
          BY <2>9, <4>2
             DEF Act, ConfirmSettlement, FailSettlementLeg, ReleaseSettlementLeg
        <5>2. \A v \in Workers : Holds(v, l)' => worker'[v] = worker[v]
          BY <3>2
        <5> QED BY <2>0, <2>9, <5>1, <5>2, Frame DEF Act, hooks
      <4> QED BY <4>1, <4>2
    <3> QED BY <2>a, <3>1, <3>3
  <2>10. CASE StoreFails(w)
    <3>1. worker' = [worker EXCEPT ![w] = IdleWorker]
      BY <2>0, <2>10 DEF StoreFails
    <3>2. Calm BY <2>0, <2>10, <3>1 DEF StoreFails, hooks, IdleWorker
    <3>3. \A l \in Legs, v \in Workers : Holds(v, l)' => worker'[v] = worker[v]
      BY <3>1 DEF Holds, IdleWorker
    <3> QED BY <2>10, <2>b, <3>2, <3>3 DEF StoreFails
  <2>11. CASE Tick
    <3>1. worker' = [worker EXCEPT ![Sweeper].pc = "list"] BY <2>11 DEF Tick, GoTo
    <3>2. Calm BY <2>0, <2>11, <3>1 DEF Tick, hooks, WorkerStates
    <3>3. \A l \in Legs, v \in Workers : Holds(v, l)' => worker'[v] = worker[v]
      BY <3>1 DEF Holds, WorkerStates
    <3> QED BY <2>11, <2>b, <3>2, <3>3 DEF Tick
  <2>12. ~Query /\ ~Resolve BY <2>0 DEF Query, Resolve
  <2> QED BY <1>2, <2>1, <2>2, <2>3, <2>4, <2>6, <2>7, <2>8, <2>9, <2>10, <2>11, <2>12
          DEF WorkerStep
<1>3. ASSUME NEW k \in Legs, ProviderStep(k) PROVE ClaimProtocol'
  <2>0. /\ \A l \in Legs : LegProtocol(l)
        /\ \A v \in Workers : worker[v].pc \notin {"query", "resolve"}
        /\ checked \cup applied \cup processed \subseteq sent
    BY DEF ClaimProtocol
  <2>1. ASSUME NEW a \in {"ok", "rejected"}, Reply(k, a)
        PROVE  /\ \A v \in Workers : worker'[v].pc \notin {"query", "resolve"}
               /\ \A v \in Workers, l \in Legs : Holds(v, l)' <=> Holds(v, l)
               /\ \A v \in Workers, l \in Legs :
                     worker'[v] = worker[v] \/ l = k \/ ~Holds(v, l)'
               /\ \A v \in Workers : Holds(v, k)' =>
                     \/ worker'[v] = worker[v]
                     \/ worker'[v].pc = "answered" /\ worker'[v].answer = a
    <3>1. CASE UNCHANGED worker BY <2>0, <3>1 DEF Holds
    <3>2. ASSUME NEW w \in Workers, worker[w].pc = "wait", worker[w].leg = k, Answer(w, a)
          PROVE  /\ worker'[w].pc = "answered" /\ worker'[w].answer = a /\ worker'[w].leg = k
                 /\ \A v \in Workers \ {w} : worker'[v] = worker[v]
      BY <3>2 DEF Answer, WorkerStates
    <3> QED BY <2>0, <2>1, <3>1, <3>2 DEF Reply, Holds
  <2> DEFINE Quiet == /\ UNCHANGED <<status, applied, processed>>
                      /\ \A l \in Legs \ {k} :
                             /\ provider'[l] = provider[l]
                             /\ Paid(l) \in sent <=> Paid(l) \in sent'
                             /\ Returned(l) \in sent <=> Returned(l) \in sent'
                      /\ \A v \in Workers, l \in Legs \ {k} :
                             Holds(v, l)' => worker'[v] = worker[v]
  <2>2. ASSUME Quiet, NEW l \in Legs \ {k} PROVE LegProtocol(l)'
    BY <2>0, <2>2, Frame
  <2>3. /\ {"wire", "open", "void", "moved", "lost"} = Places
        /\ \A p \in Places : provider[k][p] \in Nat
    BY DEF Places
  <2>5. CASE Accept(k)
    <3>1. Shift(k, "wire", "open") BY <2>5 DEF Accept
    <3>2. /\ provider'[k]["open"] = 1
          /\ provider'[k]["wire"] = 0 /\ provider'[k]["lost"] = 0 /\ provider'[k]["moved"] = 0 /\ provider'[k]["void"] = 0
          /\ provider[k]["open"] = 0 /\ provider[k]["lost"] = 0 /\ provider[k]["moved"] = 0 /\ provider[k]["void"] = 0
          /\ \A l \in Legs \ {k} : provider'[l] = provider[l]
          /\ provider[k]["wire"] = 1 /\ Submissions(k) = 1 /\ Submissions(k)' = 1
      <4>1. /\ "wire" \in Places /\ "open" \in Places /\ LegProtocol(k)
            /\ "wire" # "open" /\ TypeOK
        BY <2>0, <2>3
      <4>2. /\ provider[k]["wire"] = 1 /\ \A q \in Places \ {"wire"} : provider[k][q] = 0
            /\ provider'[k]["open"] = 1 /\ \A q \in Places \ {"open"} : provider'[k][q] = 0
            /\ \A m \in Legs \ {k} : provider'[m] = provider[m]
            /\ Submissions(k) = 1 /\ Submissions(k)' = 1
        BY <3>1, <4>1, ShiftRow
      <4> QED BY <4>2 DEF Places
    <3>3. provider[k]["wire"] = 1 /\ Submissions(k) = 1 /\ Submissions(k)' = 1
      BY <3>2
    <3>4. /\ \A v \in Workers : worker'[v].pc \notin {"query", "resolve"}
          /\ \A v \in Workers, l \in Legs : Holds(v, l)' <=> Holds(v, l)
          /\ \A v \in Workers, l \in Legs :
                worker'[v] = worker[v] \/ l = k \/ ~Holds(v, l)'
          /\ \A v \in Workers : Holds(v, k)' =>
                \/ worker'[v] = worker[v]
                \/ worker'[v].pc = "answered" /\ worker'[v].answer = "ok"
      BY <2>5, <2>1 DEF Accept
    <3>5. UNCHANGED <<status, sent, checked, applied, processed>> BY <2>5 DEF Accept, hooks
    <3>6. Quiet BY <3>2, <3>4, <3>5 DEF Paid, Returned
    <3>7. LegProtocol(k)'
      <4>1. LegProtocol(k) BY <2>0
      <4>2. \A v \in Workers : /\ ~(Holds(v, k) /\ worker[v].pc = "call")
                               /\ ~Answered(v, k, "not_submitted")
        BY <3>3, <4>1 DEF LegProtocol, ColumnProtocol, HolderProtocol, NoticeProtocol
      <4>3. \A v \in Workers : /\ ~(Holds(v, k)' /\ worker'[v].pc = "call")
                               /\ ~Answered(v, k, "not_submitted")'
        BY <3>4, <4>2 DEF Answered
      <4>4. \A v \in Workers : ~Answered(v, k, "rejected")'
        <5>1. \A v \in Workers : ~Answered(v, k, "rejected")
          BY <2>3, <3>3, <4>1 DEF LegProtocol, ColumnProtocol, HolderProtocol, NoticeProtocol
        <5> QED BY <3>4, <5>1 DEF Answered
      <4>5. Took(k)' BY <3>2 DEF Took
      <4>8. /\ status[k] \notin {"none", "pending"}
            /\ Returned(k) \in applied \cup processed => status[k] = "failed"
            /\ Paid(k) \in applied \cup processed => status[k] = "confirmed"
            /\ \A v, w \in Workers : Holds(v, k) /\ Holds(w, k) => v = w
        BY <3>3, <4>1 DEF LegProtocol, ColumnProtocol, HolderProtocol, NoticeProtocol
      <4>9. status[k] # "failed"
        BY <2>3, <3>3, <4>1 DEF LegProtocol, ColumnProtocol, HolderProtocol, NoticeProtocol
      <4>10. Paid(k) \notin sent /\ Returned(k) \notin sent
        BY <3>2, <4>1 DEF LegProtocol, ColumnProtocol, HolderProtocol, NoticeProtocol
      <4>11. /\ Paid(k)' = Paid(k) /\ Returned(k)' = Returned(k)
             /\ Paid(k) # Returned(k)
        BY DEF Paid, Returned
      <4>12. /\ Paid(k) \in sent' => provider'[k]["moved"] = 1
             /\ Returned(k) \in sent' => provider'[k]["void"] = 1
        BY <3>2, <3>5, <4>10, <4>11
      <4>13. ColumnProtocol(k)' BY <3>3, <3>4, <3>5, <4>3, <4>4, <4>5, <4>8, <4>9, <4>12 DEF ColumnProtocol
      <4>14. HolderProtocol(k)' BY <3>3, <3>4, <3>5, <4>3, <4>4, <4>5, <4>8, <4>9, <4>12 DEF HolderProtocol
      <4>15. NoticeProtocol(k)' BY <3>3, <3>4, <3>5, <4>3, <4>4, <4>5, <4>8, <4>9, <4>12 DEF NoticeProtocol
      <4> QED BY <4>13, <4>14, <4>15 DEF LegProtocol
    <3> QED BY <2>0, <2>2, <3>4, <3>5, <3>6, <3>7 DEF ClaimProtocol
  <2>6. CASE Reject(k)
    <3>1. Shift(k, "wire", "void") BY <2>6 DEF Reject
    <3>2. /\ provider'[k]["void"] = 1
          /\ provider'[k]["wire"] = 0 /\ provider'[k]["lost"] = 0 /\ provider'[k]["open"] = 0 /\ provider'[k]["moved"] = 0
          /\ provider[k]["void"] = 0 /\ provider[k]["lost"] = 0 /\ provider[k]["open"] = 0 /\ provider[k]["moved"] = 0
          /\ \A l \in Legs \ {k} : provider'[l] = provider[l]
          /\ provider[k]["wire"] = 1 /\ Submissions(k) = 1 /\ Submissions(k)' = 1
      <4>1. /\ "wire" \in Places /\ "void" \in Places /\ LegProtocol(k)
            /\ "wire" # "void" /\ TypeOK
        BY <2>0, <2>3
      <4>2. /\ provider[k]["wire"] = 1 /\ \A q \in Places \ {"wire"} : provider[k][q] = 0
            /\ provider'[k]["void"] = 1 /\ \A q \in Places \ {"void"} : provider'[k][q] = 0
            /\ \A m \in Legs \ {k} : provider'[m] = provider[m]
            /\ Submissions(k) = 1 /\ Submissions(k)' = 1
        BY <3>1, <4>1, ShiftRow
      <4> QED BY <4>2 DEF Places
    <3>3. provider[k]["wire"] = 1 /\ Submissions(k) = 1 /\ Submissions(k)' = 1
      BY <3>2
    <3>4. /\ \A v \in Workers : worker'[v].pc \notin {"query", "resolve"}
          /\ \A v \in Workers, l \in Legs : Holds(v, l)' <=> Holds(v, l)
          /\ \A v \in Workers, l \in Legs :
                worker'[v] = worker[v] \/ l = k \/ ~Holds(v, l)'
          /\ \A v \in Workers : Holds(v, k)' =>
                \/ worker'[v] = worker[v]
                \/ worker'[v].pc = "answered" /\ worker'[v].answer = "rejected"
      BY <2>6, <2>1 DEF Reject
    <3>5. /\ UNCHANGED <<status, checked, applied, processed>>
          /\ sent' \in {sent, sent \cup {Returned(k)}}
      BY <2>6 DEF Reject, Notify, Paid, Returned
    <3>6. Quiet BY <3>2, <3>4, <3>5 DEF Paid, Returned
    <3>7. LegProtocol(k)'
      <4>1. LegProtocol(k) BY <2>0
      <4>2. \A v \in Workers : /\ ~(Holds(v, k) /\ worker[v].pc = "call")
                               /\ ~Answered(v, k, "not_submitted")
        BY <3>3, <4>1 DEF LegProtocol, ColumnProtocol, HolderProtocol, NoticeProtocol
      <4>3. \A v \in Workers : /\ ~(Holds(v, k)' /\ worker'[v].pc = "call")
                               /\ ~Answered(v, k, "not_submitted")'
        BY <3>4, <4>2 DEF Answered
      <4>4. provider'[k]["wire"] + provider'[k]["open"] + provider'[k]["moved"] = 0
        BY <3>2
      <4>5. ~Took(k)
        <5>1. Returned(k) \notin sent BY <3>2, <4>1 DEF LegProtocol, ColumnProtocol, HolderProtocol, NoticeProtocol
        <5> QED BY <3>2, <5>1 DEF Took
      <4>6. \A v \in Workers : ~Answered(v, k, "ok")'
        <5>1. \A v \in Workers : ~Answered(v, k, "ok") BY <4>1, <4>5 DEF LegProtocol, ColumnProtocol, HolderProtocol, NoticeProtocol
        <5> QED BY <3>4, <5>1 DEF Answered
      <4>7. status[k] # "confirmed" BY <4>1, <4>5 DEF LegProtocol, ColumnProtocol, HolderProtocol, NoticeProtocol
      <4>8. /\ status[k] \notin {"none", "pending"}
            /\ Returned(k) \in applied \cup processed => status[k] = "failed"
            /\ Paid(k) \in applied \cup processed => status[k] = "confirmed"
            /\ \A v, w \in Workers : Holds(v, k) /\ Holds(w, k) => v = w
        BY <3>3, <4>1 DEF LegProtocol, ColumnProtocol, HolderProtocol, NoticeProtocol
      <4>10. Paid(k) \notin sent /\ Returned(k) \notin sent
        BY <3>2, <4>1 DEF LegProtocol, ColumnProtocol, HolderProtocol, NoticeProtocol
      <4>11. /\ Paid(k)' = Paid(k) /\ Returned(k)' = Returned(k)
             /\ Paid(k) # Returned(k)
        BY DEF Paid, Returned
      <4>12. /\ Paid(k) \in sent' => provider'[k]["moved"] = 1
             /\ Returned(k) \in sent' => provider'[k]["void"] = 1
        BY <3>2, <3>5, <4>10, <4>11
      <4>13. ColumnProtocol(k)' BY <3>3, <3>4, <3>5, <4>3, <4>4, <4>5, <4>6, <4>7, <4>8, <4>12 DEF ColumnProtocol
      <4>14. HolderProtocol(k)' BY <3>3, <3>4, <3>5, <4>3, <4>4, <4>5, <4>6, <4>7, <4>8, <4>12 DEF HolderProtocol
      <4>15. NoticeProtocol(k)' BY <3>3, <3>4, <3>5, <4>3, <4>4, <4>5, <4>6, <4>7, <4>8, <4>12 DEF NoticeProtocol
      <4> QED BY <4>13, <4>14, <4>15 DEF LegProtocol
    <3> QED BY <2>0, <2>2, <3>4, <3>5, <3>6, <3>7 DEF ClaimProtocol
  <2>7. CASE LoseRequest(k)
    <3>1. Shift(k, "wire", "lost") BY <2>7 DEF LoseRequest
    <3>2. /\ provider'[k]["lost"] = 1
          /\ provider'[k]["wire"] = 0 /\ provider'[k]["open"] = 0 /\ provider'[k]["moved"] = 0 /\ provider'[k]["void"] = 0
          /\ provider[k]["lost"] = 0 /\ provider[k]["open"] = 0 /\ provider[k]["moved"] = 0 /\ provider[k]["void"] = 0
          /\ \A l \in Legs \ {k} : provider'[l] = provider[l]
          /\ provider[k]["wire"] = 1 /\ Submissions(k) = 1 /\ Submissions(k)' = 1
      <4>1. /\ "wire" \in Places /\ "lost" \in Places /\ LegProtocol(k)
            /\ "wire" # "lost" /\ TypeOK
        BY <2>0, <2>3
      <4>2. /\ provider[k]["wire"] = 1 /\ \A q \in Places \ {"wire"} : provider[k][q] = 0
            /\ provider'[k]["lost"] = 1 /\ \A q \in Places \ {"lost"} : provider'[k][q] = 0
            /\ \A m \in Legs \ {k} : provider'[m] = provider[m]
            /\ Submissions(k) = 1 /\ Submissions(k)' = 1
        BY <3>1, <4>1, ShiftRow
      <4> QED BY <4>2 DEF Places
    <3>3. provider[k]["wire"] = 1 /\ Submissions(k) = 1 /\ Submissions(k)' = 1
      BY <3>2
    <3>4. /\ \A v \in Workers : worker'[v].pc \notin {"query", "resolve"}
          /\ \A v \in Workers, l \in Legs : Holds(v, l)' <=> Holds(v, l)
          /\ \A v \in Workers : worker'[v] = worker[v]
      BY <2>7, <2>0 DEF LoseRequest, Holds
    <3>5. UNCHANGED <<status, sent, checked, applied, processed>> BY <2>7 DEF LoseRequest, hooks
    <3>6. Quiet BY <3>2, <3>4, <3>5 DEF Paid, Returned
    <3>7. LegProtocol(k)'
      <4>1. LegProtocol(k) BY <2>0
      <4>2. \A v \in Workers : /\ ~(Holds(v, k) /\ worker[v].pc = "call")
                               /\ ~Answered(v, k, "not_submitted")
        BY <3>3, <4>1 DEF LegProtocol, ColumnProtocol, HolderProtocol, NoticeProtocol
      <4>3. \A v \in Workers : /\ ~(Holds(v, k)' /\ worker'[v].pc = "call")
                               /\ ~Answered(v, k, "not_submitted")'
        BY <3>4, <4>2 DEF Answered
      <4>4. provider'[k]["wire"] + provider'[k]["open"] + provider'[k]["moved"] = 0
        BY <3>2
      <4>5. ~Took(k)
        <5>1. Returned(k) \notin sent BY <3>2, <4>1 DEF LegProtocol, ColumnProtocol, HolderProtocol, NoticeProtocol
        <5> QED BY <3>2, <5>1 DEF Took
      <4>6. \A v \in Workers : ~Answered(v, k, "ok")'
        <5>1. \A v \in Workers : ~Answered(v, k, "ok") BY <4>1, <4>5 DEF LegProtocol, ColumnProtocol, HolderProtocol, NoticeProtocol
        <5> QED BY <3>4, <5>1 DEF Answered
      <4>7. status[k] # "confirmed" BY <4>1, <4>5 DEF LegProtocol, ColumnProtocol, HolderProtocol, NoticeProtocol
      <4>8. /\ status[k] \notin {"none", "pending"}
            /\ Returned(k) \in applied \cup processed => status[k] = "failed"
            /\ Paid(k) \in applied \cup processed => status[k] = "confirmed"
            /\ \A v, w \in Workers : Holds(v, k) /\ Holds(w, k) => v = w
        BY <3>3, <4>1 DEF LegProtocol, ColumnProtocol, HolderProtocol, NoticeProtocol
      <4>10. Paid(k) \notin sent /\ Returned(k) \notin sent
        BY <3>2, <4>1 DEF LegProtocol, ColumnProtocol, HolderProtocol, NoticeProtocol
      <4>11. /\ Paid(k)' = Paid(k) /\ Returned(k)' = Returned(k)
             /\ Paid(k) # Returned(k)
        BY DEF Paid, Returned
      <4>12. /\ Paid(k) \in sent' => provider'[k]["moved"] = 1
             /\ Returned(k) \in sent' => provider'[k]["void"] = 1
        BY <3>2, <3>5, <4>10, <4>11
      <4>13. ColumnProtocol(k)' BY <3>3, <3>4, <3>5, <4>3, <4>4, <4>5, <4>6, <4>7, <4>8, <4>12 DEF ColumnProtocol
      <4>14. HolderProtocol(k)' BY <3>3, <3>4, <3>5, <4>3, <4>4, <4>5, <4>6, <4>7, <4>8, <4>12 DEF HolderProtocol
      <4>15. NoticeProtocol(k)' BY <3>3, <3>4, <3>5, <4>3, <4>4, <4>5, <4>6, <4>7, <4>8, <4>12 DEF NoticeProtocol
      <4> QED BY <4>13, <4>14, <4>15 DEF LegProtocol
    <3> QED BY <2>0, <2>2, <3>4, <3>5, <3>6, <3>7 DEF ClaimProtocol
  <2>8. CASE Execute(k)
    <3>1. Shift(k, "open", "moved") BY <2>8 DEF Execute
    <3>2. /\ provider'[k]["moved"] = 1
          /\ provider'[k]["open"] = 0 /\ provider'[k]["wire"] = 0 /\ provider'[k]["lost"] = 0 /\ provider'[k]["void"] = 0
          /\ provider[k]["moved"] = 0 /\ provider[k]["wire"] = 0 /\ provider[k]["lost"] = 0 /\ provider[k]["void"] = 0
          /\ \A l \in Legs \ {k} : provider'[l] = provider[l]
          /\ provider[k]["open"] = 1 /\ Submissions(k) = 1 /\ Submissions(k)' = 1
      <4>1. /\ "open" \in Places /\ "moved" \in Places /\ LegProtocol(k)
            /\ "open" # "moved" /\ TypeOK
        BY <2>0, <2>3
      <4>2. /\ provider[k]["open"] = 1 /\ \A q \in Places \ {"open"} : provider[k][q] = 0
            /\ provider'[k]["moved"] = 1 /\ \A q \in Places \ {"moved"} : provider'[k][q] = 0
            /\ \A m \in Legs \ {k} : provider'[m] = provider[m]
            /\ Submissions(k) = 1 /\ Submissions(k)' = 1
        BY <3>1, <4>1, ShiftRow
      <4> QED BY <4>2 DEF Places
    <3>3. provider[k]["open"] = 1 /\ Submissions(k) = 1 /\ Submissions(k)' = 1
      BY <3>2
    <3>4. /\ \A v \in Workers : worker'[v].pc \notin {"query", "resolve"}
          /\ \A v \in Workers, l \in Legs : Holds(v, l)' <=> Holds(v, l)
          /\ \A v \in Workers : worker'[v] = worker[v]
      BY <2>8, <2>0 DEF Execute, Holds
    <3>5. /\ UNCHANGED <<status, checked, applied, processed>>
          /\ sent' = sent \cup {Paid(k)}
      BY <2>8 DEF Execute, Notify, Paid, Returned
    <3>6. Quiet BY <3>2, <3>4, <3>5 DEF Paid, Returned
    <3>7. LegProtocol(k)'
      <4>1. LegProtocol(k) BY <2>0
      <4>2. \A v \in Workers : /\ ~(Holds(v, k) /\ worker[v].pc = "call")
                               /\ ~Answered(v, k, "not_submitted")
        BY <3>3, <4>1 DEF LegProtocol, ColumnProtocol, HolderProtocol, NoticeProtocol
      <4>3. \A v \in Workers : /\ ~(Holds(v, k)' /\ worker'[v].pc = "call")
                               /\ ~Answered(v, k, "not_submitted")'
        BY <3>4, <4>2 DEF Answered
      <4>4. \A v \in Workers : ~Answered(v, k, "rejected")'
        <5>1. \A v \in Workers : ~Answered(v, k, "rejected")
          BY <2>3, <3>3, <4>1 DEF LegProtocol, ColumnProtocol, HolderProtocol, NoticeProtocol
        <5> QED BY <3>4, <5>1 DEF Answered
      <4>5. Took(k)' BY <3>2 DEF Took
      <4>8. /\ status[k] \notin {"none", "pending"}
            /\ Returned(k) \in applied \cup processed => status[k] = "failed"
            /\ Paid(k) \in applied \cup processed => status[k] = "confirmed"
            /\ \A v, w \in Workers : Holds(v, k) /\ Holds(w, k) => v = w
        BY <3>3, <4>1 DEF LegProtocol, ColumnProtocol, HolderProtocol, NoticeProtocol
      <4>9. status[k] # "failed"
        BY <2>3, <3>3, <4>1 DEF LegProtocol, ColumnProtocol, HolderProtocol, NoticeProtocol
      <4>10. Paid(k) \notin sent /\ Returned(k) \notin sent
        BY <3>2, <4>1 DEF LegProtocol, ColumnProtocol, HolderProtocol, NoticeProtocol
      <4>11. /\ Paid(k)' = Paid(k) /\ Returned(k)' = Returned(k)
             /\ Paid(k) # Returned(k)
        BY DEF Paid, Returned
      <4>12. /\ Paid(k) \in sent' => provider'[k]["moved"] = 1
             /\ Returned(k) \in sent' => provider'[k]["void"] = 1
        BY <3>2, <3>5, <4>10, <4>11
      <4>13. ColumnProtocol(k)' BY <3>3, <3>4, <3>5, <4>3, <4>4, <4>5, <4>8, <4>9, <4>12 DEF ColumnProtocol
      <4>14. HolderProtocol(k)' BY <3>3, <3>4, <3>5, <4>3, <4>4, <4>5, <4>8, <4>9, <4>12 DEF HolderProtocol
      <4>15. NoticeProtocol(k)' BY <3>3, <3>4, <3>5, <4>3, <4>4, <4>5, <4>8, <4>9, <4>12 DEF NoticeProtocol
      <4> QED BY <4>13, <4>14, <4>15 DEF LegProtocol
    <3> QED BY <2>0, <2>2, <3>4, <3>5, <3>6, <3>7 DEF ClaimProtocol
  <2>9. CASE Return(k)
    <3>1. Shift(k, "open", "void") BY <2>9 DEF Return
    <3>2. /\ provider'[k]["void"] = 1
          /\ provider'[k]["open"] = 0 /\ provider'[k]["wire"] = 0 /\ provider'[k]["lost"] = 0 /\ provider'[k]["moved"] = 0
          /\ provider[k]["void"] = 0 /\ provider[k]["wire"] = 0 /\ provider[k]["lost"] = 0 /\ provider[k]["moved"] = 0
          /\ \A l \in Legs \ {k} : provider'[l] = provider[l]
          /\ provider[k]["open"] = 1 /\ Submissions(k) = 1 /\ Submissions(k)' = 1
      <4>1. /\ "open" \in Places /\ "void" \in Places /\ LegProtocol(k)
            /\ "open" # "void" /\ TypeOK
        BY <2>0, <2>3
      <4>2. /\ provider[k]["open"] = 1 /\ \A q \in Places \ {"open"} : provider[k][q] = 0
            /\ provider'[k]["void"] = 1 /\ \A q \in Places \ {"void"} : provider'[k][q] = 0
            /\ \A m \in Legs \ {k} : provider'[m] = provider[m]
            /\ Submissions(k) = 1 /\ Submissions(k)' = 1
        BY <3>1, <4>1, ShiftRow
      <4> QED BY <4>2 DEF Places
    <3>3. provider[k]["open"] = 1 /\ Submissions(k) = 1 /\ Submissions(k)' = 1
      BY <3>2
    <3>4. /\ \A v \in Workers : worker'[v].pc \notin {"query", "resolve"}
          /\ \A v \in Workers, l \in Legs : Holds(v, l)' <=> Holds(v, l)
          /\ \A v \in Workers : worker'[v] = worker[v]
      BY <2>9, <2>0 DEF Return, Holds
    <3>5. /\ UNCHANGED <<status, checked, applied, processed>>
          /\ sent' = sent \cup {Returned(k)}
      BY <2>9 DEF Return, Notify, Paid, Returned
    <3>6. Quiet BY <3>2, <3>4, <3>5 DEF Paid, Returned
    <3>7. LegProtocol(k)'
      <4>1. LegProtocol(k) BY <2>0
      <4>2. \A v \in Workers : /\ ~(Holds(v, k) /\ worker[v].pc = "call")
                               /\ ~Answered(v, k, "not_submitted")
        BY <3>3, <4>1 DEF LegProtocol, ColumnProtocol, HolderProtocol, NoticeProtocol
      <4>3. \A v \in Workers : /\ ~(Holds(v, k)' /\ worker'[v].pc = "call")
                               /\ ~Answered(v, k, "not_submitted")'
        BY <3>4, <4>2 DEF Answered
      <4>4. \A v \in Workers : ~Answered(v, k, "rejected")'
        <5>1. \A v \in Workers : ~Answered(v, k, "rejected")
          BY <2>3, <3>3, <4>1 DEF LegProtocol, ColumnProtocol, HolderProtocol, NoticeProtocol
        <5> QED BY <3>4, <5>1 DEF Answered
      <4>5. Took(k)' BY <3>2, <3>5 DEF Took, Returned
      <4>8. /\ status[k] \notin {"none", "pending"}
            /\ Returned(k) \in applied \cup processed => status[k] = "failed"
            /\ Paid(k) \in applied \cup processed => status[k] = "confirmed"
            /\ \A v, w \in Workers : Holds(v, k) /\ Holds(w, k) => v = w
        BY <3>3, <4>1 DEF LegProtocol, ColumnProtocol, HolderProtocol, NoticeProtocol
      <4>9. status[k] # "failed"
        BY <2>3, <3>3, <4>1 DEF LegProtocol, ColumnProtocol, HolderProtocol, NoticeProtocol
      <4>10. Paid(k) \notin sent /\ Returned(k) \notin sent
        BY <3>2, <4>1 DEF LegProtocol, ColumnProtocol, HolderProtocol, NoticeProtocol
      <4>11. /\ Paid(k)' = Paid(k) /\ Returned(k)' = Returned(k)
             /\ Paid(k) # Returned(k)
        BY DEF Paid, Returned
      <4>12. /\ Paid(k) \in sent' => provider'[k]["moved"] = 1
             /\ Returned(k) \in sent' => provider'[k]["void"] = 1
        BY <3>2, <3>5, <4>10, <4>11
      <4>13. ColumnProtocol(k)' BY <3>3, <3>4, <3>5, <4>3, <4>4, <4>5, <4>8, <4>9, <4>12 DEF ColumnProtocol
      <4>14. HolderProtocol(k)' BY <3>3, <3>4, <3>5, <4>3, <4>4, <4>5, <4>8, <4>9, <4>12 DEF HolderProtocol
      <4>15. NoticeProtocol(k)' BY <3>3, <3>4, <3>5, <4>3, <4>4, <4>5, <4>8, <4>9, <4>12 DEF NoticeProtocol
      <4> QED BY <4>13, <4>14, <4>15 DEF LegProtocol
    <3> QED BY <2>0, <2>2, <3>4, <3>5, <3>6, <3>7 DEF ClaimProtocol
  <2> QED BY <1>3, <2>5, <2>6, <2>7, <2>8, <2>9 DEF ProviderStep
<1>4. ASSUME NEW n \in Notices, NoticeStep(n) PROVE ClaimProtocol'
  <2>0. /\ \A l \in Legs : LegProtocol(l)
        /\ \A v \in Workers : worker[v].pc \notin {"query", "resolve"}
        /\ checked \cup applied \cup processed \subseteq sent
    BY DEF ClaimProtocol
  <2>1. CASE ReceiveNotice(n)
    <3>1. \A l \in Legs : LegProtocol(l)'
      BY <2>0, <2>1, Frame DEF ReceiveNotice
    <3> QED BY <2>0, <2>1, <3>1 DEF ReceiveNotice, ClaimProtocol
  <2>2. CASE ApplyNotice(n)
    <3>1. /\ n.leg \in Legs /\ (n = Paid(n.leg) \/ n = Returned(n.leg)) /\ n \in sent
      BY <2>0, <2>2 DEF ApplyNotice, Notices, Paid, Returned
    <3>2. ASSUME NEW l \in Legs PROVE LegProtocol(l)'
      <4>0. UNCHANGED <<worker, provider, sent, processed>> /\ applied' = applied \cup {n}
        BY <2>2 DEF ApplyNotice
      <4>1. CASE l # n.leg
        <5>1. status'[l] = status[l]
          BY <2>2, <4>1 DEF ApplyNotice, ConfirmSettlement, FailSettlementLeg
        <5>2. n # Returned(l) /\ n # Paid(l) BY <4>1 DEF Returned, Paid
        <5> QED BY <2>0, <4>0, <5>1, <5>2, Frame
      <4>2. CASE l = n.leg
        <5>1. LegProtocol(l) BY <2>0
        <5>2. /\ Submissions(l)' = Submissions(l) /\ (Took(l)' <=> Took(l))
              /\ Paid(l)' = Paid(l) /\ Returned(l)' = Returned(l)
              /\ \A w \in Workers : Holds(w, l)' <=> Holds(w, l)
              /\ \A w \in Workers, a \in Answers : Answered(w, l, a)' <=> Answered(w, l, a)
          BY <4>0 DEF Submissions, OnRecord, Took, Paid, Returned, Holds, Answered
        <5>3. \A p \in Places : provider[l][p] \in Nat BY DEF Places
        <5>4. {"wire", "open", "void", "moved", "lost"} = Places BY DEF Places
        <5>5. {"ok", "rejected", "not_submitted"} \subseteq Answers BY DEF Answers
        <5>6. Submissions(l) = 1 /\ status[l] \notin {"none", "pending"}
          <6>1. provider[l]["moved"] = 1 \/ provider[l]["void"] = 1
            BY <3>1, <4>2, <5>1 DEF LegProtocol, NoticeProtocol
          <6>2. ColumnProtocol(l)
            BY <5>1 DEF LegProtocol
          <6>3. /\ provider[l]["wire"] \in Nat /\ provider[l]["open"] \in Nat
                /\ provider[l]["void"] \in Nat /\ provider[l]["moved"] \in Nat
                /\ provider[l]["lost"] \in Nat
            BY <5>3, <5>4
          <6>4. Submissions(l) >= 1 /\ Submissions(l) \in Nat
            BY <6>1, <6>3 DEF Submissions, OnRecord
          <6> QED BY <6>2, <6>4 DEF ColumnProtocol
        <5>7. \A w \in Workers : /\ ~(Holds(w, l) /\ worker[w].pc = "call")
                                 /\ ~Answered(w, l, "not_submitted")
          BY <5>1, <5>6 DEF LegProtocol, ColumnProtocol, HolderProtocol, NoticeProtocol
        <5>8. CASE n = Paid(l)
          <6>1. provider[l]["moved"] = 1 BY <3>1, <5>1, <5>8 DEF LegProtocol, ColumnProtocol, HolderProtocol, NoticeProtocol
          <6>2. status[l] # "failed" /\ Took(l)
            BY <5>1, <5>3, <5>4, <6>1 DEF LegProtocol, ColumnProtocol, HolderProtocol, NoticeProtocol, Took
          <6>3. status'[l] = "confirmed"
            <7>1. status[l] \in {"inflight", "confirmed"} BY <5>6, <6>2 DEF Statuses
            <7>2. n.kind = "payout_succeeded" BY <5>8 DEF Paid
            <7>3. ConfirmSettlement(l) BY <2>2, <4>2, <7>2 DEF ApplyNotice
            <7> QED BY <7>1, <7>3 DEF ConfirmSettlement
          <6>4. n # Returned(l) BY <5>8 DEF Paid, Returned
          <6> QED BY <4>0, <5>1, <5>2, <5>5, <5>6, <5>7, <6>2, <6>3, <6>4 DEF LegProtocol, ColumnProtocol, HolderProtocol, NoticeProtocol
        <5>9. CASE n = Returned(l)
          <6>1. provider[l]["void"] = 1 BY <3>1, <5>1, <5>9 DEF LegProtocol, ColumnProtocol, HolderProtocol, NoticeProtocol
          <6>2. provider[l]["wire"] + provider[l]["open"] + provider[l]["moved"] = 0
            BY <5>3, <5>4, <5>6, <6>1 DEF Submissions, OnRecord
          <6>3. status'[l] = "failed"
            <7>1. status[l] \in {"inflight", "confirmed", "failed"} BY <5>6 DEF Statuses
            <7>2. n.kind # "payout_succeeded" BY <5>9 DEF Returned
            <7>3. FailSettlementLeg(l) BY <2>2, <4>2, <7>2 DEF ApplyNotice
            <7> QED BY <7>1, <7>3 DEF FailSettlementLeg
          <6>4. n # Paid(l) /\ Paid(l) \notin applied \cup processed
            <7>1. provider[l]["moved"] = 0 BY <5>3, <5>4, <6>2
            <7>2. Paid(l) \notin sent BY <5>1, <7>1 DEF LegProtocol, ColumnProtocol, HolderProtocol, NoticeProtocol
            <7> QED BY <2>0, <3>1, <5>9, <7>2 DEF Paid, Returned
          <6> QED BY <4>0, <5>1, <5>2, <5>5, <5>6, <5>7, <6>2, <6>3, <6>4 DEF LegProtocol, ColumnProtocol, HolderProtocol, NoticeProtocol
        <5> QED BY <3>1, <4>2, <5>8, <5>9
      <4> QED BY <4>1, <4>2
    <3> QED BY <2>0, <2>2, <3>1, <3>2 DEF ApplyNotice, ClaimProtocol
  <2>3. CASE MarkWebhookProcessed(n)
    <3>1. \A l \in Legs : LegProtocol(l)'
      BY <2>0, <2>3, Frame DEF MarkWebhookProcessed
    <3> QED BY <2>0, <2>3, <3>1 DEF MarkWebhookProcessed, ClaimProtocol
  <2> QED BY <1>4, <2>1, <2>2, <2>3 DEF NoticeStep
<1>5. CASE Crash
  <2>1. \A w \in Workers : worker'[w].pc = "idle" BY <1>5 DEF Crash, IdleWorker
  <2>2. \A l \in Legs : LegProtocol(l)'
    BY <1>5, <2>1, Frame DEF Crash, ClaimProtocol, Holds
  <2> QED BY <1>5, <2>1, <2>2 DEF Crash, ClaimProtocol
<1>6. CASE Stabilise \/ UNCHANGED vars
  <2>1. \A l \in Legs : LegProtocol(l)' BY <1>6, Frame DEF Stabilise, vars, ClaimProtocol
  <2> QED BY <1>6, <2>1 DEF Stabilise, vars, ClaimProtocol
<1> QED BY <1>1, <1>2, <1>3, <1>4, <1>5, <1>6 DEF Next

\* The claim protocol of payLeg holds of every gateway that cannot be queried.
THEOREM ClaimProtocolHolds == CanQuery = FALSE => (Spec => []ClaimProtocol)
<1> SUFFICES ASSUME CanQuery = FALSE PROVE Spec => []ClaimProtocol
    OBVIOUS
<1>1. Init => ClaimProtocol BY ProtocolInit
<1>2. TypeOK /\ ClaimProtocol /\ [Next]_vars => ClaimProtocol' BY ProtocolStep
<1> QED BY <1>1, <1>2, TypeCorrect, PTL DEF Spec

\* "bounds every leg to at most one live submission": whatever interleaves, is
\* lost or crashes, a leg is sent to the provider at most once.
THEOREM AtMostOnce == CanQuery = FALSE => (Spec => []AtMostOneSubmission)
<1>1. ClaimProtocol => AtMostOneSubmission
  BY DEF ClaimProtocol, LegProtocol, ColumnProtocol, HolderProtocol, NoticeProtocol, AtMostOneSubmission
<1> QED BY <1>1, ClaimProtocolHolds, PTL

\* A leg that may still be claimed was never sent and is in nobody's hands.
THEOREM PendingIsUnsubmitted == CanQuery = FALSE => (Spec => []PendingMeansUnsubmitted)
<1>1. ClaimProtocol => PendingMeansUnsubmitted
  BY DEF ClaimProtocol, LegProtocol, ColumnProtocol, HolderProtocol, NoticeProtocol, PendingMeansUnsubmitted, Holds
<1> QED BY <1>1, ClaimProtocolHolds, PTL

\* A failed leg did not pay and can no longer pay.
THEOREM FailedArePayable == CanQuery = FALSE => (Spec => []FailedLegsArePayable)
<1>1. TypeOK /\ ClaimProtocol => FailedLegsArePayable
  <2> SUFFICES ASSUME TypeOK, ClaimProtocol, NEW l \in Legs, status[l] = "failed"
               PROVE  /\ provider[l]["wire"] = 0 /\ provider[l]["open"] = 0
                      /\ provider[l]["moved"] = 0
                      /\ \A w \in Workers : ~(worker[w].pc = "call" /\ worker[w].leg = l)
      BY DEF FailedLegsArePayable
  <2>1. provider[l]["wire"] \in Nat /\ provider[l]["open"] \in Nat /\ provider[l]["moved"] \in Nat
    BY DEF TypeOK, Places
  <2>2. LegProtocol(l) BY DEF ClaimProtocol
  <2>3. provider[l]["wire"] + provider[l]["open"] + provider[l]["moved"] = 0
    BY <2>2 DEF LegProtocol, ColumnProtocol, HolderProtocol, NoticeProtocol
  <2>4. \A w \in Workers : ~(worker[w].pc = "call" /\ worker[w].leg = l)
    BY <2>2 DEF LegProtocol, ColumnProtocol, HolderProtocol, NoticeProtocol, Holds
  <2>5. provider[l]["wire"] = 0 /\ provider[l]["open"] = 0 /\ provider[l]["moved"] = 0
    BY <2>1, <2>3, SMT
  <2> QED BY <2>4, <2>5
<1> QED BY <1>1, TypeCorrect, ClaimProtocolHolds, PTL

\* A confirmed leg was accepted, and a return the ledger ignores is still to come.
THEOREM ConfirmedWereAccepted == CanQuery = FALSE => (Spec => []ConfirmedLegsWereAccepted)
<1>1. TypeOK /\ ClaimProtocol => ConfirmedLegsWereAccepted
  <2> SUFFICES ASSUME TypeOK, ClaimProtocol, NEW l \in Legs, status[l] = "confirmed"
               PROVE  /\ OnRecord(l) = 1
                      /\ provider[l]["void"] = 1 => Returned(l) \in sent \ processed
      BY DEF ConfirmedLegsWereAccepted
  <2>1. \A p \in Places : provider[l][p] \in Nat BY DEF TypeOK
  <2>2. LegProtocol(l) BY DEF ClaimProtocol
  <2>3. Took(l) /\ Submissions(l) <= 1 /\ Returned(l) \notin processed
    BY <2>2 DEF LegProtocol, ColumnProtocol, HolderProtocol, NoticeProtocol
  <2>4. OnRecord(l) = 1 BY <2>1, <2>3 DEF Took, Submissions, OnRecord, Places
  <2>5. provider[l]["void"] = 1 => Returned(l) \in sent
    BY <2>1, <2>3, <2>4 DEF Took, OnRecord, Places
  <2> QED BY <2>3, <2>4, <2>5
<1> QED BY <1>1, TypeCorrect, ClaimProtocolHolds, PTL

-----------------------------------------------------------------------------
(* The refinement of Payment. *)

\* What a leg's only submission says of its money.
PlaceMoney(p) ==
    IF p \in {"wire", "open"} THEN "underway" ELSE IF p = "moved" THEN "paid" ELSE "void"

\* The money of a leg with one submission is read off the place of that one.
RowsFit ==
    \A l \in Legs, p \in Places :
        provider[l][p] = 1 /\ (\A q \in Places \ {p} : provider[l][q] = 0) =>
            MoneyBar[l] = PlaceMoney(p)

\* In every state,
LEMMA RowMoney == RowsFit
<1> SUFFICES ASSUME NEW l \in Legs, NEW p \in Places, provider[l][p] = 1,
                    \A q \in Places \ {p} : provider[l][q] = 0
             PROVE  MoneyBar[l] = PlaceMoney(p)
    BY DEF RowsFit
<1>1. MoneyBar[l] = IF Submissions(l) > 1 THEN "double"
                    ELSE IF Submissions(l) = 0 THEN "held"
                    ELSE IF provider[l]["moved"] > 0 THEN "paid"
                    ELSE IF provider[l]["wire"] + provider[l]["open"] > 0 THEN "underway"
                    ELSE "void"
  BY DEF MoneyBar
<1>2. Submissions(l) = 1 BY DEF Submissions, OnRecord, Places
<1>3. /\ p = "moved" => provider[l]["moved"] = 1
      /\ p # "moved" => provider[l]["moved"] = 0
      /\ p \in {"wire", "open"} => provider[l]["wire"] + provider[l]["open"] = 1
      /\ p \notin {"wire", "open"} => provider[l]["wire"] + provider[l]["open"] = 0
  BY DEF Places
<1>4. CASE p = "moved" BY <1>1, <1>2, <1>3, <1>4 DEF PlaceMoney
<1>5. CASE p \in {"wire", "open"} BY <1>1, <1>2, <1>3, <1>5 DEF PlaceMoney
<1>6. CASE p \notin {"wire", "open", "moved"} BY <1>1, <1>2, <1>3, <1>6 DEF PlaceMoney
<1> QED BY <1>4, <1>5, <1>6

\* and in the next one.
LEMMA RowMoneyAfter == RowsFit'
BY RowMoney, PTL

\* The money of a leg depends on its own submissions alone.
LEMMA MoneyFrame == \A m \in Legs : provider'[m] = provider[m] => MoneyBar'[m] = MoneyBar[m]
BY DEF MoneyBar, Submissions, OnRecord

\* A step of the provider moves the money of one leg.
LEMMA ShiftMoney ==
    ASSUME TypeOK, NEW l \in Legs, LegProtocol(l),
           NEW from \in Places, NEW to \in Places, from # to, Shift(l, from, to)
    PROVE  /\ MoneyBar[l] = PlaceMoney(from)
           /\ MoneyBar' = [MoneyBar EXCEPT ![l] = PlaceMoney(to)]
<1>1. MoneyBar[l] = PlaceMoney(from) BY ShiftRow, RowMoney DEF RowsFit
<1>2. MoneyBar'[l] = PlaceMoney(to) BY ShiftRow, RowMoneyAfter DEF RowsFit
<1>3. \A m \in Legs \ {l} : MoneyBar'[m] = MoneyBar[m] BY ShiftRow, MoneyFrame
<1>4. DOMAIN MoneyBar = Legs /\ DOMAIN MoneyBar' = Legs BY DEF MoneyBar
<1>5. MoneyBar' = [m \in Legs |-> MoneyBar'[m]] BY DEF MoneyBar
<1>6. MoneyBar = [m \in Legs |-> MoneyBar[m]] BY DEF MoneyBar
<1> HIDE DEF MoneyBar
<1> QED BY <1>1, <1>2, <1>3, <1>5, <1>6

\* A step that leaves the provider alone leaves the money alone.
LEMMA MoneyStill == UNCHANGED provider => MoneyBar' = MoneyBar
BY DEF MoneyBar, Submissions, OnRecord

\* Every step of two-phase settlement is a step of Payment, or a stutter.
LEMMA PaymentStep == TypeOK /\ ClaimProtocol /\ [Next]_vars => [P!Next]_MoneyBar
<1> SUFFICES ASSUME TypeOK, ClaimProtocol, [Next]_vars
             PROVE  P!Next \/ MoneyBar' = MoneyBar
    OBVIOUS
<1> USE WorkersAre
<1>1. ASSUME NEW w \in Workers, Submit(w) PROVE P!Next \/ MoneyBar' = MoneyBar
  <2> DEFINE l == worker[w].leg
  <2>1. CASE l \in Legs
    <3>1. Holds(w, l) /\ worker[w].pc = "call" BY <1>1 DEF Submit, Holds
    <3>2. Submissions(l) = 0
      BY <2>1, <3>1 DEF ClaimProtocol, LegProtocol, HolderProtocol
    <3>3. provider[l] \in [Places -> Nat] BY <2>1 DEF TypeOK
    <3>4. /\ provider[l]["wire"] = 0 /\ provider[l]["lost"] = 0 /\ provider[l]["open"] = 0
          /\ provider[l]["moved"] = 0 /\ provider[l]["void"] = 0
      <4>1. \A p \in Places : provider[l][p] \in Nat BY <3>3
      <4>2. ASSUME NEW p \in Places, provider[l][p] > 0 PROVE FALSE
        <5>1. LegProtocol(l) BY <2>1 DEF ClaimProtocol
        <5>2. Submissions(l) = 1
          <6> HIDE DEF l
          <6> QED BY <2>1, <4>2, <5>1, OnePlace
        <5> QED BY <3>2, <5>2
      <4>3. \A p \in Places : provider[l][p] = 0 BY <4>1, <4>2
      <4> QED BY <4>3 DEF Places
    <3>5. provider' = [provider EXCEPT ![l] = [provider[l] EXCEPT !["wire"] = @ + 1]]
      BY <1>1 DEF Submit
    <3>6. provider' \in [Legs -> [Places -> Nat]] /\ provider'[l] = [provider[l] EXCEPT !["wire"] = @ + 1]
      BY <2>1, <3>3, <3>5 DEF TypeOK, Places
    <3>7. provider'[l]["wire"] = 1 /\ \A q \in Places \ {"wire"} : provider'[l][q] = 0
      BY <3>3, <3>4, <3>6 DEF Places
    <3>8. MoneyBar'[l] = "underway"
      BY <2>1, <3>7, RowMoneyAfter DEF RowsFit, PlaceMoney, Places
    <3>9. MoneyBar[l] = "held" BY <2>1, <3>2 DEF MoneyBar
    <3>10. \A m \in Legs \ {l} : provider'[m] = provider[m] BY <3>5 DEF TypeOK
    <3>11. \A m \in Legs \ {l} : MoneyBar'[m] = MoneyBar[m] BY <3>10, MoneyFrame
    <3>12. /\ MoneyBar' = [m \in Legs |-> MoneyBar'[m]]
           /\ MoneyBar = [m \in Legs |-> MoneyBar[m]]
      BY DEF MoneyBar
    <3>13. MoneyBar' = [MoneyBar EXCEPT ![l] = "underway"] BY <2>1, <3>8, <3>11, <3>12
    <3> QED BY <2>1, <3>9, <3>13 DEF P!Next, P!Submit, P!Move
  <2>2. CASE l \notin Legs
    <3>1. provider' = provider BY <1>1, <2>2 DEF Submit, TypeOK
    <3> QED BY <3>1, MoneyStill
  <2> QED BY <2>1, <2>2
<1>2. ASSUME NEW l \in Legs, ProviderStep(l) PROVE P!Next \/ MoneyBar' = MoneyBar
  <2>0. LegProtocol(l) /\ {"wire", "lost", "open", "moved", "void"} = Places
    BY DEF ClaimProtocol, Places
  <2>1. CASE Accept(l)
    <3>1. MoneyBar[l] = "underway" /\ MoneyBar' = [MoneyBar EXCEPT ![l] = "underway"]
      BY <2>0, <2>1, ShiftMoney DEF Accept, PlaceMoney
    <3>2. MoneyBar = [m \in Legs |-> MoneyBar[m]] BY DEF MoneyBar
    <3> QED BY <3>1, <3>2
  <2>2. CASE Reject(l)
    <3>1. MoneyBar[l] = "underway" /\ MoneyBar' = [MoneyBar EXCEPT ![l] = "void"]
      BY <2>0, <2>2, ShiftMoney DEF Reject, PlaceMoney
    <3> QED BY <3>1 DEF P!Next, P!Void, P!Move
  <2>3. CASE LoseRequest(l)
    <3>1. MoneyBar[l] = "underway" /\ MoneyBar' = [MoneyBar EXCEPT ![l] = "void"]
      BY <2>0, <2>3, ShiftMoney DEF LoseRequest, PlaceMoney
    <3> QED BY <3>1 DEF P!Next, P!Void, P!Move
  <2>4. CASE Execute(l)
    <3>1. MoneyBar[l] = "underway" /\ MoneyBar' = [MoneyBar EXCEPT ![l] = "paid"]
      BY <2>0, <2>4, ShiftMoney DEF Execute, PlaceMoney
    <3> QED BY <3>1 DEF P!Next, P!Pay, P!Move
  <2>5. CASE Return(l)
    <3>1. MoneyBar[l] = "underway" /\ MoneyBar' = [MoneyBar EXCEPT ![l] = "void"]
      BY <2>0, <2>5, ShiftMoney DEF Return, PlaceMoney
    <3> QED BY <3>1 DEF P!Next, P!Void, P!Move
  <2> QED BY <1>2, <2>1, <2>2, <2>3, <2>4, <2>5 DEF ProviderStep
<1>3. CASE \E b \in Batches : RecordBatch(b)
  BY <1>3, MoneyStill DEF RecordBatch
<1>4. ASSUME NEW w \in Workers, WorkerStep(w), ~Submit(w) PROVE MoneyBar' = MoneyBar
  <2>1. UNCHANGED provider
    BY <1>4 DEF WorkerStep, List, Claim, Finish, NotSubmitted, TokenRefused, Timeout, Act,
       StoreFails, Tick, Query, Resolve
  <2> QED BY <2>1, MoneyStill
<1>5. CASE \E n \in Notices : NoticeStep(n)
  BY <1>5, MoneyStill DEF NoticeStep, ReceiveNotice, ApplyNotice, MarkWebhookProcessed
<1>6. CASE Crash \/ Stabilise \/ UNCHANGED vars
  BY <1>6, MoneyStill DEF Crash, Stabilise, vars
<1> QED BY <1>1, <1>2, <1>3, <1>4, <1>5, <1>6 DEF Next

\* Whatever is lost, repeated or restarted, the instruction for a leg goes to the
\* provider at most once, so its money moves at most once.
THEOREM ImplementsPayment == CanQuery = FALSE => (Spec => PaymentSpec)
<1> SUFFICES ASSUME CanQuery = FALSE PROVE Spec => PaymentSpec
    OBVIOUS
<1>1. Init => P!Init
  <2> SUFFICES ASSUME Init PROVE P!Init
      OBVIOUS
  <2>1. \A l \in Legs : Submissions(l) = 0
    BY DEF Init, Submissions, OnRecord, Places
  <2> QED BY <2>1 DEF P!Init, MoneyBar
<1>2. Spec => []ClaimProtocol BY ClaimProtocolHolds
<1> QED BY <1>1, <1>2, PaymentStep, TypeCorrect, PTL DEF Spec, PaymentSpec, P!Spec

\* What a leg's money may do in one step: the way to the provider is taken once,
\* and what the provider decided stands.
MoneyMoves ==
    \A l \in Legs :
        \/ MoneyBar'[l] = MoneyBar[l]
        \/ MoneyBar[l] = "held" /\ MoneyBar'[l] = "underway"
        \/ MoneyBar[l] = "underway" /\ MoneyBar'[l] \in {"paid", "void"}

MoneyMovesOnce == [][MoneyMoves]_MoneyBar

\* Payment promises that much, however it is implemented.
LEMMA PaymentPromise == PaymentSpec => []P!TypeOK /\ MoneyMovesOnce
<1>1. P!Init => P!TypeOK
  BY DEF P!Init, P!TypeOK
<1>2. P!TypeOK /\ [P!Next]_MoneyBar => P!TypeOK'
  BY DEF P!TypeOK, P!Next, P!Submit, P!Pay, P!Void, P!Move
<1>3. P!TypeOK /\ [P!Next]_MoneyBar => [MoneyMoves]_MoneyBar
  BY DEF P!TypeOK, P!Next, P!Submit, P!Pay, P!Void, P!Move, MoneyMoves
<1> QED BY <1>1, <1>2, <1>3, PTL DEF PaymentSpec, P!Spec, MoneyMovesOnce

\* So no leg's money is ever paid twice, paid after it was returned, or called
\* back to be sent anew.
THEOREM MoneyIsMovedOnce == CanQuery = FALSE => (Spec => []P!TypeOK /\ MoneyMovesOnce)
BY ImplementsPayment, PaymentPromise

=============================================================================
