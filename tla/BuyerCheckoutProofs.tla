------------------------ MODULE BuyerCheckoutProofs ------------------------
(***************************************************************************)
(* The Buyer's checkout, for any quotes, requests, policies, keys, calls,  *)
(* payments, callbacks and bounds.                                         *)
(*                                                                         *)
(* What a call or a callback read stays true because a settled attempt     *)
(* stays settled (AttemptStays) and an intent keeps its request.  An order *)
(* is authorised because the quote it consumes was open, so that no key    *)
(* had prepared it, and the key that does is bound to a decision that      *)
(* authorises the request.                                                 *)
(***************************************************************************)
EXTENDS BuyerCheckout, BuyerAuthorityProofs

-----------------------------------------------------------------------------
(* Payment attempts                                                        *)

Settled == Captured \cup {"failed"}

\* What the outcome of payment m asks of the attempt it was made for.
OutcomeLeft(m) ==
    attempt[payments[m].quote] \in
        Captured \cup (IF payments[m].outcome = "failed" THEN {"failed"} ELSE {})

\* Only a settled attempt names a payment, only a real payment has an event, and
\* a callback past its reading has found or left its outcome.
PaymentInv ==
    /\ PaymentTypeOK
    /\ \A q \in Quotes : settledBy[q] # NoPayment => attempt[q] \in Settled
    /\ \A m \in Payments : payments[m] # NotPaying => payments[m].quote \in Quotes
                                                     /\ payments[m].outcome # "none"
    /\ \A m \in Payments : events[m] # "none" => payments[m] # NotPaying
    /\ \A m \in Payments : events[m] = "success" => OutcomeLeft(m)
    /\ \A c \in Callbacks : callback[c].pc # "idle" =>
        callback[c].payment \in Payments /\ payments[callback[c].payment] # NotPaying
    /\ \A c \in Callbacks : callback[c].pc = "applied" => OutcomeLeft(callback[c].payment)

\* What a step may do to the attempts: settled ones stay as they are.
AttemptStays ==
    /\ \A q \in Quotes : attempt[q] \in Settled =>
        attempt'[q] = attempt[q] /\ settledBy'[q] = settledBy[q]
    /\ \A m \in Payments : payments[m] # NotPaying => payments'[m] = payments[m]

\* Payments make no order.
NoNewOrder ==
    \A q \in Quotes : order[q] = "none" => order'[q] = "none" /\ attempt'[q] = attempt[q]

LEMMA PaymentStarts == PaymentInit => PaymentInv
  BY PaymentAssumption
     DEF PaymentInit, PaymentInv, PaymentTypeOK, OrderStatus, AttemptStatus, Payment,
         CallbackState, NotPaying, NoCallback

LEMMA OutcomeStays ==
    ASSUME PaymentInv, AttemptStays, NEW m \in Payments, payments[m] # NotPaying, OutcomeLeft(m)
    PROVE  OutcomeLeft(m)'
  BY DEF PaymentInv, AttemptStays, OutcomeLeft, Settled

LEMMA PaymentsAlone ==
    ASSUME PaymentInv, UNCHANGED paymentVars
    PROVE  PaymentInv' /\ AttemptStays
  BY DEF PaymentInv, PaymentTypeOK, OutcomeLeft, AttemptStays, paymentVars

\* The attempts change, the callbacks do not.
LEMMA AttemptsMove ==
    ASSUME PaymentInv, AttemptStays, UNCHANGED <<payments, events, callback>>,
           order' \in [Quotes -> OrderStatus], attempt' \in [Quotes -> AttemptStatus],
           settledBy' \in [Quotes -> Payments \cup {NoPayment}], bound' \in SUBSET Quotes,
           \A q \in Quotes : settledBy'[q] # NoPayment => attempt'[q] \in Settled
    PROVE  PaymentInv'
  BY DEF PaymentInv, PaymentTypeOK, OutcomeLeft, AttemptStays, Settled

\* An attempt that is not settled takes a result.
LEMMA SettleMoves ==
    ASSUME PaymentInv, NEW q \in Quotes, NEW m \in Payments \cup {NoPayment},
           NEW result \in {"succeeded", "failed", "unknown", "reconciled"},
           m # NoPayment => result \in Settled,
           attempt[q] \notin Settled, order[q] # "none", Settle(q, result, m),
           UNCHANGED payments
    PROVE  /\ AttemptStays
           /\ order' \in [Quotes -> OrderStatus] /\ attempt' \in [Quotes -> AttemptStatus]
           /\ settledBy' \in [Quotes -> Payments \cup {NoPayment}]
           /\ \A p \in Quotes : settledBy'[p] # NoPayment => attempt'[p] \in Settled
           /\ attempt'[q] = result
  <1>1. PaymentOrderTarget(result) \in OrderStatus
    BY DEF PaymentOrderTarget, OrderStatus
  <1>2. /\ attempt' = [attempt EXCEPT ![q] = result]
        /\ order' = [order EXCEPT ![q] = PaymentOrderTarget(result)]
        /\ settledBy' = [settledBy EXCEPT ![q] = m]
    BY DEF Settle
  <1>3. AttemptStays
    BY <1>2 DEF PaymentInv, PaymentTypeOK, AttemptStays
  <1> QED BY <1>1, <1>2, <1>3 DEF PaymentInv, PaymentTypeOK, AttemptStatus, Settled

LEMMA CreateProviderOrderInv ==
    ASSUME PaymentInv, NEW q \in Quotes, CreateProviderOrder(q)
    PROVE  PaymentInv' /\ AttemptStays
  BY DEF CreateProviderOrder, PaymentInv, PaymentTypeOK, OutcomeLeft, AttemptStays

LEMMA PayAtProviderInv ==
    ASSUME PaymentInv, NEW q \in Quotes, NEW m \in Payments,
           NEW outcome \in {"succeeded", "failed"}, PayAtProvider(q, m, outcome)
    PROVE  PaymentInv' /\ AttemptStays
  <1> DEFINE row == [quote |-> q, outcome |-> outcome]
  <1>1. row \in Payment /\ row.quote = q /\ row.outcome = outcome /\ row # NotPaying
    BY PaymentAssumption DEF Payment, NotPaying
  <1>2. payments' = [payments EXCEPT ![m] = row] /\ payments[m] = NotPaying
        /\ UNCHANGED <<order, attempt, bound, settledBy, events, callback>>
    BY DEF PayAtProvider
  <1> HIDE DEF row
  <1>3. /\ payments' \in [Payments -> Payment] /\ payments'[m] = row
        /\ \A n \in Payments : n # m => payments'[n] = payments[n]
    BY <1>1, <1>2 DEF PaymentInv, PaymentTypeOK
  <1>4. AttemptStays
    BY <1>2, <1>3 DEF AttemptStays
  <1>5. /\ PaymentTypeOK'
        /\ \A p \in Quotes : settledBy'[p] # NoPayment => attempt'[p] \in Settled
    BY <1>2, <1>3 DEF PaymentInv, PaymentTypeOK
  <1>6. \A n \in Payments : payments'[n] # NotPaying =>
            payments'[n].quote \in Quotes /\ payments'[n].outcome # "none"
    BY <1>1, <1>3 DEF PaymentInv
  <1>7. \A n \in Payments : events'[n] # "none" => payments'[n] # NotPaying
    BY <1>1, <1>2, <1>3 DEF PaymentInv
  <1>8. \A n \in Payments : payments[n] # NotPaying /\ OutcomeLeft(n) => OutcomeLeft(n)'
    BY <1>4, OutcomeStays
  <1>9. \A n \in Payments : events'[n] = "success" => OutcomeLeft(n)'
    BY <1>2, <1>8 DEF PaymentInv
  <1>10. \A c \in Callbacks : callback'[c].pc # "idle" =>
            callback'[c].payment \in Payments /\ payments'[callback'[c].payment] # NotPaying
    BY <1>1, <1>2, <1>3 DEF PaymentInv
  <1>11. (\A c \in Callbacks : callback[c].pc = "applied" => OutcomeLeft(callback[c].payment))'
    BY <1>2, <1>3 DEF PaymentInv, OutcomeLeft
  <1> QED BY <1>4, <1>5, <1>6, <1>7, <1>9, <1>10, <1>11 DEF PaymentInv

LEMMA CancelOrderInv ==
    ASSUME PaymentInv, NEW q \in Quotes, CancelOrder(q)
    PROVE  PaymentInv' /\ AttemptStays
  <1>1. order' \in [Quotes -> OrderStatus]
    BY DEF CancelOrder, PaymentInv, PaymentTypeOK, OrderStatus
  <1>2. AttemptStays
    BY DEF CancelOrder, AttemptStays, PaymentInv, PaymentTypeOK
  <1> QED BY <1>1, <1>2, AttemptsMove DEF CancelOrder, PaymentInv, PaymentTypeOK

LEMMA ReconcilePaymentInv ==
    ASSUME PaymentInv, NEW q \in Quotes, NEW outcome \in {"succeeded", "failed"},
           ReconcilePayment(q, outcome)
    PROVE  PaymentInv' /\ AttemptStays
  <1> DEFINE result == IF outcome = "succeeded" THEN "reconciled" ELSE "failed"
  <1>1. Settle(q, result, NoPayment) /\ attempt[q] \notin Settled /\ order[q] # "none"
        /\ UNCHANGED <<bound, payments, events, callback>>
    BY DEF ReconcilePayment, Settled, Captured
  <1>2. result \in {"succeeded", "failed", "unknown", "reconciled"}
    OBVIOUS
  <1> HIDE DEF result
  <1> QED BY <1>1, <1>2, SettleMoves, AttemptsMove DEF PaymentInv, PaymentTypeOK

\* One callback goes on, and perhaps its event is recorded.
LEMMA CallbackMoves ==
    ASSUME PaymentInv, AttemptStays, UNCHANGED <<bound, payments>>,
           order' \in [Quotes -> OrderStatus], attempt' \in [Quotes -> AttemptStatus],
           settledBy' \in [Quotes -> Payments \cup {NoPayment}],
           \A q \in Quotes : settledBy'[q] # NoPayment => attempt'[q] \in Settled,
           NEW c \in Callbacks, NEW row \in CallbackState, callback' = [callback EXCEPT ![c] = row],
           row.pc # "idle" => row.payment \in Payments /\ payments[row.payment] # NotPaying,
           \A m \in Payments : row.pc = "applied" /\ row.payment = m => OutcomeLeft(m)',
           events' \in [Payments -> {"none", "pending", "success", "failure"}],
           \A m \in Payments : events'[m] # events[m] =>
               payments[m] # NotPaying /\ (events'[m] = "success" => OutcomeLeft(m)')
    PROVE  PaymentInv'
  <1>1. /\ callback' \in [Callbacks -> CallbackState] /\ callback'[c] = row
        /\ \A b \in Callbacks : b # c => callback'[b] = callback[b]
    BY DEF PaymentInv, PaymentTypeOK
  <1>2. PaymentTypeOK'
    BY <1>1 DEF PaymentInv, PaymentTypeOK
  <1>3. \A m \in Payments : payments[m] # NotPaying /\ OutcomeLeft(m) => OutcomeLeft(m)'
    BY OutcomeStays
  <1>4. /\ \A m \in Payments : payments'[m] # NotPaying =>
              payments'[m].quote \in Quotes /\ payments'[m].outcome # "none"
        /\ \A m \in Payments : events'[m] # "none" => payments'[m] # NotPaying
    BY DEF PaymentInv
  <1>5. \A m \in Payments : events'[m] = "success" => OutcomeLeft(m)'
    BY <1>3 DEF PaymentInv
  <1>6. \A b \in Callbacks : callback'[b].pc # "idle" =>
            callback'[b].payment \in Payments /\ payments'[callback'[b].payment] # NotPaying
    BY <1>1 DEF PaymentInv
  <1>7. (\A b \in Callbacks : callback[b].pc = "applied" => OutcomeLeft(callback[b].payment))'
    <2>1. ASSUME NEW b \in Callbacks, NEW m \in Payments, callback'[b].pc = "applied",
                 callback'[b].payment = m
          PROVE  OutcomeLeft(m)'
      BY <1>1, <1>3, <2>1 DEF PaymentInv
    <2> QED BY <1>6, <2>1 DEF OutcomeLeft
  <1> QED BY <1>2, <1>4, <1>5, <1>6, <1>7 DEF PaymentInv

LEMMA NoCallbackRow == NoCallback \in CallbackState /\ NoCallback.pc = "idle"
  BY DEF NoCallback, CallbackState

LEMMA StartCallbackInv ==
    ASSUME PaymentInv, NEW c \in Callbacks, NEW m \in Payments,
           StartConfirm(c, m) \/ StartWebhook(c, m)
    PROVE  PaymentInv' /\ AttemptStays
  <1>1. PICK row \in CallbackState :
            callback' = [callback EXCEPT ![c] = row] /\ row.pc = "reading" /\ row.payment = m
    <2>1. ASSUME NEW source \in {"checkout", "webhook"}
          PROVE  /\ [pc |-> "reading", payment |-> m, source |-> source] \in CallbackState
                 /\ [pc |-> "reading", payment |-> m, source |-> source].pc = "reading"
                 /\ [pc |-> "reading", payment |-> m, source |-> source].payment = m
      BY DEF CallbackState
    <2> QED BY <2>1 DEF StartConfirm, StartWebhook
  <1>2. AttemptStays /\ UNCHANGED <<order, attempt, settledBy, bound, payments>>
    BY DEF StartConfirm, StartWebhook, AttemptStays
  <1>3. payments[m] # NotPaying
    BY DEF StartConfirm, StartWebhook, NotPaying
  <1>4. events' \in [Payments -> {"none", "pending", "success", "failure"}]
        /\ \A n \in Payments : events'[n] # events[n] => n = m /\ events'[n] = "pending"
    BY DEF StartConfirm, StartWebhook, PaymentInv, PaymentTypeOK
  <1>5. PaymentInv'
    BY <1>1, <1>2, <1>3, <1>4, CallbackMoves DEF PaymentInv, PaymentTypeOK
  <1> QED BY <1>2, <1>5

LEMMA ReadAttemptInv ==
    ASSUME PaymentInv, NEW c \in Callbacks, ReadAttempt(c)
    PROVE  PaymentInv' /\ AttemptStays
  <1> DEFINE m == callback[c].payment
             q == payments[m].quote
             want == payments[m].outcome
             next ==
                 IF attempt[q] = "pending" THEN "recording"
                 ELSE IF \/ attempt[q] \in Captured /\ want = "succeeded" /\ SameCapture(q, m)
                         \/ attempt[q] \in Captured \cup {"failed"} /\ want = "failed"
                 THEN "applied" ELSE "refused"
             row == [callback[c] EXCEPT !.pc = next]
  <1>1. m \in Payments /\ payments[m] # NotPaying /\ callback[c] \in CallbackState
    BY DEF ReadAttempt, PaymentInv, PaymentTypeOK
  <1>2. next \in {"recording", "applied", "refused"}
    OBVIOUS
  <1>3. callback' = [callback EXCEPT ![c] = row]
    BY DEF ReadAttempt, PaymentInv, PaymentTypeOK
  <1>4. next = "applied" => OutcomeLeft(m)
    BY DEF OutcomeLeft
  <1>5. UNCHANGED <<order, attempt, bound, settledBy, payments, events>>
    BY DEF ReadAttempt
  <1> HIDE DEF next
  <1>6. row \in CallbackState /\ row.pc = next /\ row.payment = m
    BY <1>1, <1>2 DEF CallbackState
  <1> HIDE DEF row, m
  <1>7. PICK w \in CallbackState : w = row
    BY <1>6
  <1>8. AttemptStays
    BY <1>5 DEF AttemptStays
  <1>9. \A n \in Payments : w.pc = "applied" /\ w.payment = n => OutcomeLeft(n)'
    BY <1>4, <1>5, <1>6, <1>7 DEF OutcomeLeft
  <1>10. PaymentInv'
    BY <1>1, <1>3, <1>5, <1>6, <1>7, <1>8, <1>9, CallbackMoves DEF PaymentInv, PaymentTypeOK
  <1> QED BY <1>8, <1>10

LEMMA RecordProviderResultInv ==
    ASSUME PaymentInv, NEW c \in Callbacks, RecordProviderResult(c)
    PROVE  PaymentInv' /\ AttemptStays
  <1> DEFINE m == callback[c].payment
             q == payments[m].quote
             want == payments[m].outcome
  <1>1. m \in Payments /\ payments[m] # NotPaying /\ callback[c] \in CallbackState
    BY DEF RecordProviderResult, PaymentInv, PaymentTypeOK
  <1>2. q \in Quotes /\ want \in {"succeeded", "failed"}
    <2>1. payments[m] \in Payment
      BY <1>1 DEF PaymentInv, PaymentTypeOK
    <2> QED BY <1>1, <2>1 DEF PaymentInv, Payment
  <1>3. /\ AttemptStays /\ UNCHANGED <<bound, payments, events>>
        /\ order' \in [Quotes -> OrderStatus] /\ attempt' \in [Quotes -> AttemptStatus]
        /\ settledBy' \in [Quotes -> Payments \cup {NoPayment}]
        /\ \A p \in Quotes : settledBy'[p] # NoPayment => attempt'[p] \in Settled
    <2>1. CASE Settleable(q)
      <3>1. Settle(q, want, m) /\ UNCHANGED <<bound, payments, events>>
        BY <2>1 DEF RecordProviderResult
      <3>2. attempt[q] \notin Settled /\ order[q] # "none"
        BY <2>1 DEF Settleable, Settled, Captured
      <3>3. want \in Settled /\ want \in {"succeeded", "failed", "unknown", "reconciled"}
        BY <1>2 DEF Settled, Captured
      <3> HIDE DEF q, want
      <3> QED BY <1>1, <1>2, <3>1, <3>2, <3>3, SettleMoves
    <2>2. CASE ~Settleable(q)
      BY <2>2 DEF RecordProviderResult, AttemptStays, PaymentInv, PaymentTypeOK
    <2> QED BY <2>1, <2>2
  <1>4. PICK next \in {"applied", "refused"} :
            /\ callback' = [callback EXCEPT ![c].pc = next]
            /\ next = "applied" => (Settleable(q) /\ attempt'[q] = want) \/
                                   (Agrees(q, want) /\ UNCHANGED attempt)
    <2>1. CASE Settleable(q)
      BY <1>2, <2>1 DEF RecordProviderResult, Settle, PaymentInv, PaymentTypeOK
    <2>2. CASE ~Settleable(q)
      BY <2>2 DEF RecordProviderResult
    <2> QED BY <2>1, <2>2
  <1>5. next = "applied" => attempt'[q] \in Captured \cup (IF want = "failed" THEN {"failed"} ELSE {})
    BY <1>2, <1>4 DEF Agrees, Captured
  <1> DEFINE row == [callback[c] EXCEPT !.pc = next]
  <1>6. row \in CallbackState /\ row.pc = next /\ row.payment = m
    BY <1>1 DEF CallbackState
  <1>7. callback' = [callback EXCEPT ![c] = row]
    BY <1>4 DEF PaymentInv, PaymentTypeOK
  <1>8. \A n \in Payments : next = "applied" /\ n = m => OutcomeLeft(n)'
    BY <1>3, <1>5 DEF OutcomeLeft
  <1> HIDE DEF row, m
  <1>9. PICK w \in CallbackState : w = row
    BY <1>6
  <1>10. PaymentInv'
    BY <1>1, <1>3, <1>6, <1>7, <1>8, <1>9, CallbackMoves DEF PaymentInv, PaymentTypeOK
  <1> QED BY <1>3, <1>10

LEMMA AnswerCallbackInv ==
    ASSUME PaymentInv, NEW c \in Callbacks, AnswerCallback(c) \/ DropCallback(c)
    PROVE  PaymentInv' /\ AttemptStays
  <1>1. AttemptStays /\ UNCHANGED <<order, attempt, bound, settledBy, payments>>
        /\ callback' = [callback EXCEPT ![c] = NoCallback]
    BY DEF AnswerCallback, DropCallback, AttemptStays
  <1>2. /\ callback[c].payment \in Payments /\ payments[callback[c].payment] # NotPaying
        /\ callback[c].pc = "applied" => OutcomeLeft(callback[c].payment)
    BY DEF AnswerCallback, DropCallback, PaymentInv
  <1>3. /\ events' \in [Payments -> {"none", "pending", "success", "failure"}]
        /\ \A m \in Payments : events'[m] # events[m] =>
              m = callback[c].payment /\ (events'[m] = "success" => callback[c].pc = "applied")
    BY <1>2 DEF AnswerCallback, DropCallback, PaymentInv, PaymentTypeOK
  <1>4. \A m \in Payments : OutcomeLeft(m) => OutcomeLeft(m)'
    BY <1>1 DEF OutcomeLeft
  <1>5. PaymentInv'
    BY <1>1, <1>2, <1>3, <1>4, NoCallbackRow, CallbackMoves DEF PaymentInv, PaymentTypeOK
  <1> QED BY <1>1, <1>5

LEMMA PaymentsNextInv == ASSUME PaymentInv, PaymentsNext PROVE PaymentInv' /\ AttemptStays
  BY CreateProviderOrderInv, PayAtProviderInv, CancelOrderInv, ReconcilePaymentInv,
     StartCallbackInv, ReadAttemptInv, RecordProviderResultInv, AnswerCallbackInv
     DEF PaymentsNext, PaymentNext

\* No order, no attempt.
AttemptsOrdered == \A q \in Quotes : order[q] = "none" => attempt[q] = "none"

LEMMA PaymentsNextMakesNone ==
    ASSUME PaymentInv, AttemptsOrdered, PaymentsNext
    PROVE  NoNewOrder
  <1>1. ASSUME NEW q \in Quotes, order[q] # "none", NEW result, NEW m, Settle(q, result, m)
        PROVE  NoNewOrder
    BY <1>1 DEF Settle, NoNewOrder, PaymentInv, PaymentTypeOK
  <1>2. ASSUME NEW c \in Callbacks, RecordProviderResult(c) PROVE NoNewOrder
    <2> DEFINE m == callback[c].payment
               q == payments[m].quote
    <2>1. q \in Quotes
      BY <1>2 DEF RecordProviderResult, PaymentInv, PaymentTypeOK
    <2>2. \/ Settle(q, payments[m].outcome, m) /\ order[q] # "none"
          \/ UNCHANGED <<order, attempt>>
      BY <1>2 DEF RecordProviderResult, Settleable
    <2> HIDE DEF q
    <2> QED BY <1>1, <2>1, <2>2 DEF NoNewOrder
  <1>3. ASSUME NEW q \in Quotes, CancelOrder(q) PROVE NoNewOrder
    BY <1>3 DEF CancelOrder, NoNewOrder, PaymentInv, PaymentTypeOK
  <1>4. ASSUME NEW q \in Quotes, NEW outcome, ReconcilePayment(q, outcome) PROVE NoNewOrder
    BY <1>1, <1>4 DEF ReconcilePayment
  <1>5. CASE UNCHANGED <<order, attempt>>
    BY <1>5 DEF NoNewOrder
  <1> QED BY <1>2, <1>3, <1>4, <1>5
          DEF PaymentsNext, PaymentNext, CreateProviderOrder, PayAtProvider, StartConfirm,
              StartWebhook, ReadAttempt, AnswerCallback, DropCallback

-----------------------------------------------------------------------------
(* The saga                                                                *)

SagaTypeOK ==
    /\ rail \in Rails
    /\ quote \in [Quotes -> {"open", "consumed", "released"}]
    /\ expired \in SUBSET Quotes
    /\ prepared \in [Keys -> {"none", "success", "failure"}]
    /\ intents \in [Keys -> IntentRow]
    /\ receipts \in SUBSET Receipt
    /\ runner \in [Runners -> RunnerState]

\* An open quote has no order and no key that prepared it; an order has one.
OrdersInv ==
    /\ AttemptsOrdered
    /\ \A q \in Quotes : quote[q] = "open" => order[q] = "none"
    /\ \A k \in Keys : prepared[k] = "success" =>
        intents[k].status # "absent" /\ quote[QuoteOf[intents[k].req]] # "open"
    /\ \A j, k \in Keys :
        prepared[j] = "success" /\ prepared[k] = "success"
            /\ QuoteOf[intents[j].req] = QuoteOf[intents[k].req] => j = k
    /\ \A q \in Quotes : order[q] # "none" =>
        \E k \in Keys : prepared[k] = "success" /\ QuoteOf[intents[k].req] = q

\* An intent stands on a decision for its request that authorises it.
IntentBacked(k) ==
    IF intents[k].status = "absent" THEN intents[k] = NoIntent
    ELSE /\ intents[k].decision \in Decisions
         /\ decisions[intents[k].decision] # NoDecisionRow
         /\ decisions[intents[k].decision].req = intents[k].req
         /\ intents[k].req \in Requests
         /\ Authorises(intents[k].decision)

\* What a call has established on its way.
RowBacked(row) ==
    /\ row.pc # "idle" => row.req \in Requests
    /\ row.pc = "evaluating" => row.verdict \in Verdicts
    /\ row.pc \notin {"idle", "evaluating"} =>
        /\ row.key \in Keys /\ row.decision \in Decisions
        /\ decisions[row.decision] # NoDecisionRow
        /\ decisions[row.decision].req = row.req
    /\ row.pc \notin {"idle", "evaluating", "checked"} =>
        intents[row.key].status # "absent" /\ intents[row.key].req = row.req
    /\ row.pc = "verified" =>
        /\ row.seen \in Captured => attempt[QuoteOf[row.req]] \in Captured
        /\ row.seen = "failed" => attempt[QuoteOf[row.req]] = "failed"

ReceiptsBacked == \A c \in receipts : intents[c.key].status # "absent"

CheckoutInv ==
    /\ SagaTypeOK /\ AuthorityInv /\ PaymentInv /\ OrdersInv
    /\ \A k \in Keys : IntentBacked(k)
    /\ \A r \in Runners : RowBacked(runner[r])
    /\ ReceiptsBacked /\ OutcomeTrue

\* An intent keeps its request.
IntentsKept ==
    \A k \in Keys :
        intents[k].status # "absent" =>
            intents'[k].status # "absent" /\ intents'[k].req = intents[k].req
\* A quote that is no longer open stays so.
QuotesStay == \A q \in Quotes : quote'[q] = "open" => quote[q] = "open"

LEMMA IntentStays ==
    ASSUME CheckoutInv, AuthorityStays, NEW k \in Keys, intents'[k] = intents[k]
    PROVE  IntentBacked(k)'
  <1>1. CASE intents[k].status = "absent"
    BY <1>1 DEF CheckoutInv, IntentBacked
  <1>2. CASE intents[k].status # "absent"
    <2> DEFINE d == intents[k].decision
    <2>1. /\ d \in Decisions /\ decisions[d] # NoDecisionRow /\ Authorises(d)
          /\ decisions[d].req = intents[k].req /\ intents[k].req \in Requests
      BY <1>2 DEF CheckoutInv, IntentBacked
    <2>2. decisions'[d] = decisions[d] /\ intents'[k].decision = d
      BY <2>1 DEF AuthorityStays
    <2>3. \A e \in Decisions : e = d => Authorises(e)'
      BY <2>1, AuthorisedStays
    <2>4. Authorises(intents[k].decision)'
      BY <2>1, <2>2, <2>3
    <2> QED BY <1>2, <2>1, <2>2, <2>4 DEF IntentBacked
  <1> QED BY <1>1, <1>2

LEMMA RowStays ==
    ASSUME AuthorityStays, AttemptStays, IntentsKept, NEW row, RowBacked(row)
    PROVE  RowBacked(row)'
  <1>1. row.req \in Requests => QuoteOf[row.req] \in Quotes
    BY QuoteAssumption
  <1> QED BY <1>1 DEF RowBacked, AuthorityStays, AttemptStays, IntentsKept, Settled, Captured

\* Orders, when no key is prepared and none is made.
LEMMA OrdersStay ==
    ASSUME CheckoutInv, IntentsKept, prepared' = prepared, QuotesStay, NoNewOrder,
           \A q \in Quotes : order[q] # "none" => order'[q] # "none"
    PROVE  OrdersInv'
  <1>1. \A k \in Keys : prepared[k] = "success" =>
            /\ intents'[k].status # "absent" /\ intents'[k].req = intents[k].req
            /\ QuoteOf[intents[k].req] \in Quotes
    BY QuoteAssumption DEF CheckoutInv, OrdersInv, IntentsKept, IntentBacked
  <1> QED BY <1>1 DEF CheckoutInv, OrdersInv, AttemptsOrdered, QuotesStay, NoNewOrder

\* What is said of outcomes, when none is recorded.
LEMMA OutcomesStay ==
    ASSUME CheckoutInv, AttemptStays, IntentsKept, receipts' = receipts,
           \A k \in Keys : intents'[k].status = "succeeded" => intents[k].status = "succeeded"
    PROVE  ReceiptsBacked' /\ OutcomeTrue'
  <1>1. \A k \in Keys : intents[k].status # "absent" =>
            intents'[k].req = intents[k].req /\ QuoteOf[intents[k].req] \in Quotes
    BY QuoteAssumption DEF CheckoutInv, IntentsKept, IntentBacked
  <1>2. \A c \in receipts : c.key \in Keys /\ intents[c.key].status # "absent"
    BY DEF CheckoutInv, SagaTypeOK, ReceiptsBacked, Receipt
  <1>3. ReceiptsBacked'
    BY <1>2 DEF ReceiptsBacked, IntentsKept
  <1> QED BY <1>1, <1>2, <1>3 DEF CheckoutInv, OutcomeTrue, AttemptStays, Settled, Captured

\* One call goes on; the others find what they relied on.
LEMMA RunnerReplaced ==
    ASSUME CheckoutInv, AuthorityInv', AuthorityStays, PaymentInv', AttemptStays, OrdersInv',
           IntentsKept, ReceiptsBacked', OutcomeTrue', UNCHANGED <<rail, expired>>,
           quote' \in [Quotes -> {"open", "consumed", "released"}],
           prepared' \in [Keys -> {"none", "success", "failure"}],
           intents' \in [Keys -> IntentRow], receipts' \in SUBSET Receipt,
           \A k \in Keys : IntentBacked(k)',
           NEW r \in Runners, NEW row \in RunnerState, runner' = [runner EXCEPT ![r] = row],
           RowBacked(row)'
    PROVE  CheckoutInv'
  <1>1. SagaTypeOK'
    BY DEF CheckoutInv, SagaTypeOK
  <1>2. \A s \in Runners : runner'[s] = IF s = r THEN row ELSE runner[s]
    BY DEF CheckoutInv, SagaTypeOK
  <1>3. \A s \in Runners : RowBacked(runner[s])
    BY DEF CheckoutInv
  <1>4. ASSUME NEW s \in Runners PROVE RowBacked(runner[s])'
    <2>1. CASE s = r
      BY <1>2, <2>1 DEF RowBacked
    <2>2. CASE s # r
      <3>1. PICK other \in RunnerState : other = runner[s]
        BY DEF CheckoutInv, SagaTypeOK
      <3>2. RowBacked(other)'
        BY <1>3, <3>1, RowStays
      <3> QED BY <1>2, <2>2, <3>1, <3>2 DEF RowBacked
    <2> QED BY <2>1, <2>2
  <1> QED BY <1>1, <1>4 DEF CheckoutInv

\* The call alone goes on.
LEMMA OnlyRunner ==
    ASSUME CheckoutInv, UNCHANGED <<authorityVars, paymentVars, quoteVars, rail, prepared>>,
           UNCHANGED <<intents, receipts>>,
           NEW r \in Runners, NEW row \in RunnerState, runner' = [runner EXCEPT ![r] = row],
           RowBacked(row)
    PROVE  CheckoutInv'
  <1>1. AuthorityInv' /\ AuthorityStays /\ PaymentInv' /\ AttemptStays
    BY AuthorityAlone, PaymentsAlone DEF CheckoutInv
  <1>2. IntentsKept /\ QuotesStay /\ NoNewOrder
    BY DEF IntentsKept, QuotesStay, NoNewOrder, paymentVars, quoteVars
  <1>3. OrdersInv' /\ ReceiptsBacked' /\ OutcomeTrue'
    BY <1>1, <1>2, OrdersStay, OutcomesStay DEF paymentVars
  <1>4. \A k \in Keys : IntentBacked(k)'
    BY <1>1, IntentStays
  <1>5. RowBacked(row)'
    BY <1>1, <1>2, RowStays
  <1> QED BY <1>1, <1>2, <1>3, <1>4, <1>5, RunnerReplaced
          DEF CheckoutInv, SagaTypeOK, quoteVars

\* No call goes on.
LEMMA CallsAlone ==
    ASSUME CheckoutInv, AuthorityInv', AuthorityStays, PaymentInv', AttemptStays, NoNewOrder,
           \A q \in Quotes : order[q] # "none" => order'[q] # "none",
           QuotesStay, quote' \in [Quotes -> {"open", "consumed", "released"}],
           expired' \in SUBSET Quotes, UNCHANGED sagaVars
    PROVE  CheckoutInv'
  <1>1. IntentsKept
    BY DEF IntentsKept, sagaVars
  <1>2. OrdersInv' /\ ReceiptsBacked' /\ OutcomeTrue'
    BY <1>1, OrdersStay, OutcomesStay DEF sagaVars
  <1>3. \A k \in Keys : IntentBacked(k)'
    BY IntentStays DEF sagaVars
  <1>4. ASSUME NEW r \in Runners PROVE RowBacked(runner[r])'
    <2>1. PICK row \in RunnerState : row = runner[r] /\ RowBacked(row)
      BY DEF CheckoutInv, SagaTypeOK
    <2>2. RowBacked(row)'
      BY <1>1, <2>1, RowStays
    <2> QED BY <2>1, <2>2 DEF RowBacked, sagaVars
  <1> QED BY <1>2, <1>3, <1>4 DEF CheckoutInv, SagaTypeOK, sagaVars

LEMMA IdleRow == IdleRunner \in RunnerState /\ RowBacked(IdleRunner)
  BY VersionAssumption DEF IdleRunner, RunnerState, RowBacked, AttemptStatus

-----------------------------------------------------------------------------
(* The steps of a call                                                     *)

LEMMA BeginEvaluateInv ==
    ASSUME CheckoutInv, NEW r \in Runners, NEW q \in Requests, BeginEvaluate(r, q)
    PROVE  CheckoutInv'
  <1> DEFINE row == [IdleRunner EXCEPT !.pc = "evaluating", !.req = q, !.ver = current,
                                       !.verdict = mandates[current].policy[q]]
  <1>1. current \in 1..MaxVersion /\ current \in 0..MaxVersion
    BY VersionAssumption DEF BeginEvaluate, HasAuthority, CheckoutInv, AuthorityInv, AuthorityTypeOK
  <1>2. mandates[current].policy[q] \in Verdicts
    <2>1. mandates[current] \in MandateRow
      BY <1>1 DEF CheckoutInv, AuthorityInv, AuthorityTypeOK, Versions
    <2>2. mandates[current].policy \in [Requests -> Verdicts]
      BY <2>1, PolicyAssumption DEF MandateRow
    <2> QED BY <2>2
  <1>3. row \in RunnerState
    BY <1>1, <1>2, IdleRow DEF RunnerState
  <1>4. row.pc = "evaluating" /\ row.req = q /\ row.verdict \in Verdicts
    BY <1>2, IdleRow DEF RunnerState
  <1>5. runner' = [runner EXCEPT ![r] = row]
    BY DEF BeginEvaluate
  <1> HIDE DEF row
  <1>6. PICK w \in RunnerState : w = row
    BY <1>3
  <1>7. RowBacked(w)
    BY <1>4, <1>6 DEF RowBacked
  <1> QED BY <1>5, <1>6, <1>7, OnlyRunner DEF BeginEvaluate

\* A call ends: its row says nothing.
LEMMA CallEnds ==
    ASSUME CheckoutInv, AuthorityInv', AuthorityStays, UNCHANGED <<paymentVars, quoteVars>>,
           UNCHANGED <<rail, prepared, intents, receipts>>,
           NEW r \in Runners, runner' = [runner EXCEPT ![r] = IdleRunner]
    PROVE  CheckoutInv'
  <1>1. PaymentInv' /\ AttemptStays
    BY PaymentsAlone DEF CheckoutInv
  <1>2. IntentsKept /\ QuotesStay /\ NoNewOrder
    BY DEF IntentsKept, QuotesStay, NoNewOrder, paymentVars, quoteVars
  <1>3. OrdersInv' /\ ReceiptsBacked' /\ OutcomeTrue'
    BY <1>1, <1>2, OrdersStay, OutcomesStay DEF paymentVars
  <1>4. \A k \in Keys : IntentBacked(k)'
    BY IntentStays
  <1>5. RowBacked(IdleRunner)'
    BY DEF RowBacked, IdleRunner
  <1> QED BY <1>1, <1>2, <1>3, <1>4, <1>5, IdleRow, RunnerReplaced
          DEF CheckoutInv, SagaTypeOK, quoteVars

LEMMA AbandonInv ==
    ASSUME CheckoutInv, NEW r \in Runners, Abandon(r)
    PROVE  CheckoutInv'
  BY CallEnds, AuthorityAlone DEF Abandon, CheckoutInv

LEMMA RecordDecisionInv ==
    ASSUME CheckoutInv, NEW r \in Runners, NEW d \in Decisions, RecordDecision(r, d)
    PROVE  CheckoutInv' /\ (approvals' = approvals \/ ApprovalIssued)
  <1>1. PICK q \in Requests : q = runner[r].req
    BY DEF RecordDecision, AtStep, CheckoutInv, RowBacked
  <1>2. PICK verdict \in Verdicts : verdict = runner[r].verdict
    BY DEF RecordDecision, AtStep, CheckoutInv, RowBacked
  <1>3. PICK ver \in 0..MaxVersion : ver = runner[r].ver
    BY DEF CheckoutInv, SagaTypeOK, RunnerState
  <1>4. InsertDecision(d, verdict, q, ver) /\ UNCHANGED <<mandateVars, lapsed>>
    BY <1>1, <1>2, <1>3 DEF RecordDecision
  <1>5. AuthorityInv' /\ AuthorityStays /\ (approvals' = approvals \/ ApprovalIssued)
    BY <1>4, InsertDecisionInv DEF CheckoutInv
  <1> QED BY <1>5, CallEnds DEF RecordDecision

LEMMA CheckCheckoutInv ==
    ASSUME CheckoutInv, NEW r \in Runners, NEW d \in Decisions, NEW k \in Keys,
           CheckCheckout(r, d, k)
    PROVE  CheckoutInv'
  <1> DEFINE row == [IdleRunner EXCEPT !.pc = "checked", !.req = decisions[d].req,
                                       !.key = k, !.decision = d]
  <1>1. decisions[d] # NoDecisionRow /\ decisions[d].req \in Requests
    BY DEF CheckCheckout, CheckoutInv, AuthorityInv
  <1>2. row \in RunnerState
    BY <1>1, IdleRow DEF RunnerState
  <1>3. row.pc = "checked" /\ row.req = decisions[d].req /\ row.key = k /\ row.decision = d
    BY IdleRow DEF RunnerState
  <1>4. runner' = [runner EXCEPT ![r] = row]
    BY DEF CheckCheckout
  <1> HIDE DEF row
  <1>5. PICK w \in RunnerState : w = row
    BY <1>2
  <1>6. RowBacked(w)
    BY <1>1, <1>3, <1>5 DEF RowBacked
  <1> QED BY <1>4, <1>5, <1>6, OnlyRunner DEF CheckCheckout

LEMMA JoinCheckoutInv ==
    ASSUME CheckoutInv, NEW r \in Runners, JoinCheckout(r)
    PROVE  CheckoutInv'
  <1> DEFINE k == runner[r].key
             row == [runner[r] EXCEPT !.pc = "claimed", !.joined = TRUE,
                                      !.hasResult = intents[k].hasResult]
  <1>1. /\ runner[r] \in RunnerState /\ runner[r].pc = "checked" /\ RowBacked(runner[r])
        /\ intents[k].status = "executing" /\ intents[k].req = runner[r].req
    BY DEF JoinCheckout, AtStep, CheckoutInv, SagaTypeOK
  <1>2. /\ k \in Keys /\ runner[r].decision \in Decisions
        /\ decisions[runner[r].decision] # NoDecisionRow
        /\ decisions[runner[r].decision].req = runner[r].req /\ runner[r].req \in Requests
    BY <1>1 DEF RowBacked
  <1>3. intents[k].hasResult \in BOOLEAN
    BY <1>2 DEF CheckoutInv, SagaTypeOK, IntentRow
  <1>4. /\ row \in RunnerState /\ row.pc = "claimed" /\ row.req = runner[r].req
        /\ row.key = k /\ row.decision = runner[r].decision
    BY <1>1, <1>3 DEF RunnerState
  <1>5. runner' = [runner EXCEPT ![r] = row]
    BY <1>1 DEF JoinCheckout, CheckoutInv, SagaTypeOK, RunnerState
  <1> HIDE DEF row
  <1>6. PICK w \in RunnerState : w = row
    BY <1>4
  <1>7. RowBacked(w)
    BY <1>1, <1>2, <1>4, <1>6 DEF RowBacked
  <1> QED BY <1>5, <1>6, <1>7, OnlyRunner DEF JoinCheckout

\* Spending what the decision still needed authorises it.
LEMMA SpendAuthorises ==
    ASSUME AuthorityInv, NEW d \in Decisions, approvals' = Spend(d), decisions' = decisions,
           decisions[d].status \in {"allow", "need_approval"}
    PROVE  Authorises(d)'
  BY DEF Authorises, Spend, NeedsApproval, AuthorityInv, AuthorityTypeOK

LEMMA ClaimCheckoutInv ==
    ASSUME CheckoutInv, NEW r \in Runners, ClaimCheckout(r)
    PROVE  CheckoutInv'
  <1>1. /\ runner[r] \in RunnerState /\ runner[r].pc = "checked" /\ RowBacked(runner[r])
    BY DEF ClaimCheckout, AtStep, CheckoutInv, SagaTypeOK
  <1>2. PICK k \in Keys : k = runner[r].key
    BY <1>1 DEF RowBacked
  <1>3. PICK d \in Decisions : d = runner[r].decision
    BY <1>1 DEF RowBacked
  <1>4. PICK q \in Requests : q = runner[r].req
    BY <1>1 DEF RowBacked
  <1>5. decisions[d] # NoDecisionRow /\ decisions[d].req = q
    BY <1>1, <1>3, <1>4 DEF RowBacked
  <1>6. /\ intents[k] = NoIntent /\ decisions[d].status \in {"allow", "need_approval"}
        /\ approvals' = Spend(d)
        /\ UNCHANGED <<mandateVars, decisions, lapsed, paymentVars, quoteVars, rail, prepared,
                       receipts>>
    BY <1>2, <1>3 DEF ClaimCheckout, MayStart
  <1> DEFINE intent == [status |-> "executing", req |-> q, decision |-> d, hasResult |-> FALSE]
  <1>7. /\ intent \in IntentRow /\ intent.status = "executing" /\ intent.req = q
        /\ intent.decision = d
    BY DEF IntentRow
  <1>8. intents' = [intents EXCEPT ![k] = intent]
    BY <1>2, <1>3, <1>4 DEF ClaimCheckout
  <1> HIDE DEF intent
  <1>9. AuthorityInv' /\ AuthorityStays
    BY <1>6, SpendInv DEF CheckoutInv
  <1>10. PaymentInv' /\ AttemptStays
    BY <1>6, PaymentsAlone DEF CheckoutInv
  <1>11. /\ intents' \in [Keys -> IntentRow] /\ intents'[k] = intent
         /\ \A j \in Keys \ {k} : intents'[j] = intents[j]
    BY <1>7, <1>8 DEF CheckoutInv, SagaTypeOK
  <1>12. IntentsKept /\ QuotesStay /\ NoNewOrder
    <2>1. intents[k].status = "absent"
      BY <1>6 DEF NoIntent
    <2> QED BY <1>6, <1>11, <2>1 DEF IntentsKept, QuotesStay, NoNewOrder, paymentVars, quoteVars
  <1>13. OrdersInv' /\ ReceiptsBacked' /\ OutcomeTrue'
    BY <1>6, <1>7, <1>10, <1>11, <1>12, OrdersStay, OutcomesStay DEF paymentVars
  <1>14. Authorises(d)'
    BY <1>6, SpendAuthorises DEF CheckoutInv
  <1>15. ASSUME NEW j \in Keys PROVE IntentBacked(j)'
    <2>1. CASE j = k
      <3>1. decisions' = decisions /\ intents'[j] = intent
        BY <1>6, <1>11, <2>1
      <3>2. \A e \in Decisions : e = d => Authorises(e)'
        BY <1>14
      <3>3. Authorises(intents[j].decision)'
        BY <1>7, <3>1, <3>2
      <3> QED BY <1>5, <1>7, <3>1, <3>3 DEF IntentBacked
    <2>2. CASE j # k
      BY <1>9, <1>11, <2>2, IntentStays
    <2> QED BY <2>1, <2>2
  <1> DEFINE row == [runner[r] EXCEPT !.pc = "claimed"]
  <1>16. /\ row \in RunnerState /\ row.pc = "claimed" /\ row.req = q /\ row.key = k
         /\ row.decision = d
    BY <1>1, <1>2, <1>3, <1>4 DEF RunnerState
  <1>17. runner' = [runner EXCEPT ![r] = row]
    BY DEF ClaimCheckout, GoTo
  <1> HIDE DEF row
  <1>18. PICK w \in RunnerState : w = row
    BY <1>16
  <1>19. RowBacked(w)'
    BY <1>5, <1>6, <1>7, <1>11, <1>16, <1>18 DEF RowBacked
  <1> QED BY <1>6, <1>9, <1>10, <1>11, <1>12, <1>13, <1>15, <1>17, <1>18, <1>19, RunnerReplaced
          DEF CheckoutInv, SagaTypeOK, quoteVars

LEMMA ReadPaymentInv ==
    ASSUME CheckoutInv, NEW r \in Runners, NEW want \in {"succeeded", "failed", "unknown"},
           ReadPayment(r, want)
    PROVE  CheckoutInv'
  <1>1. /\ runner[r] \in RunnerState /\ runner[r].pc = "prepared" /\ RowBacked(runner[r])
    BY DEF ReadPayment, AtStep, CheckoutInv, SagaTypeOK
  <1> DEFINE now == attempt[QuoteOf[runner[r].req]]
  <1>2. now \in AttemptStatus
    BY <1>1, QuoteAssumption DEF RowBacked, CheckoutInv, PaymentInv, PaymentTypeOK
  <1>3. PICK pc \in {"paying", "verified", "failing"} :
            runner' = [runner EXCEPT ![r] =
                IF AnswersStored(r, now) THEN IdleRunner
                ELSE [runner[r] EXCEPT !.seen = now, !.pc = pc]]
    BY <1>1 DEF ReadPayment, QuoteOfRunner, CheckoutInv, SagaTypeOK
  <1> DEFINE row == [runner[r] EXCEPT !.seen = now, !.pc = pc]
  <1>4. CASE AnswersStored(r, now)
    BY <1>3, <1>4, CallEnds, AuthorityAlone DEF ReadPayment, CheckoutInv
  <1>5. CASE ~AnswersStored(r, now)
    <2>1. /\ row \in RunnerState /\ row.pc = pc /\ row.seen = now /\ row.req = runner[r].req
          /\ row.key = runner[r].key /\ row.decision = runner[r].decision
      BY <1>1, <1>2 DEF RunnerState
    <2>2. runner' = [runner EXCEPT ![r] = row]
      BY <1>3, <1>5
    <2> HIDE DEF row
    <2>3. PICK w \in RunnerState : w = row
      BY <2>1
    <2>4. RowBacked(w)
      BY <1>1, <2>1, <2>3 DEF RowBacked
    <2> QED BY <2>2, <2>3, <2>4, OnlyRunner DEF ReadPayment
  <1> QED BY <1>4, <1>5

\* An intent takes a status and a result.
LEMMA IntentRewritten ==
    ASSUME CheckoutInv, AuthorityStays, NEW k \in Keys, intents[k].status # "absent",
           intents'[k].status # "absent", intents'[k].req = intents[k].req,
           intents'[k].decision = intents[k].decision,
           \A j \in Keys \ {k} : intents'[j] = intents[j], NEW i \in Keys
    PROVE  IntentBacked(i)'
  <1>1. CASE i # k
    BY <1>1, IntentStays
  <1>2. CASE i = k
    <2>1. PICK d \in Decisions : d = intents[k].decision
      BY DEF CheckoutInv, IntentBacked
    <2>2. /\ decisions[d] # NoDecisionRow /\ decisions[d].req = intents[k].req
          /\ intents[k].req \in Requests /\ Authorises(d)
      BY <2>1 DEF CheckoutInv, IntentBacked
    <2>3. decisions'[d] = decisions[d] /\ Authorises(d)'
      BY <2>2, AuthorisedStays DEF AuthorityStays
    <2>4. Authorises(intents[i].decision)'
      BY <1>2, <2>1, <2>3
    <2> QED BY <1>2, <2>1, <2>2, <2>3, <2>4 DEF IntentBacked
  <1> QED BY <1>1, <1>2

LEMMA RecordFailureInv ==
    ASSUME CheckoutInv, NEW r \in Runners, RecordFailure(r)
    PROVE  CheckoutInv'
  <1>1. /\ runner[r] \in RunnerState /\ runner[r].pc = "failing" /\ RowBacked(runner[r])
    BY DEF RecordFailure, AtStep, CheckoutInv, SagaTypeOK
  <1>2. PICK k \in Keys : k = runner[r].key /\ intents[k].status # "absent"
    BY <1>1 DEF RowBacked
  <1> DEFINE intent == [intents[k] EXCEPT !.status = "failed", !.hasResult = TRUE]
  <1>3. intents[k] \in IntentRow
    BY DEF CheckoutInv, SagaTypeOK
  <1>4. /\ intent \in IntentRow /\ intent.status = "failed" /\ intent.req = intents[k].req
        /\ intent.decision = intents[k].decision
    BY <1>3 DEF IntentRow
  <1>5. intents' = [intents EXCEPT ![k] = intent]
    BY <1>2, <1>3 DEF RecordFailure, CheckoutInv, SagaTypeOK
  <1> HIDE DEF intent
  <1>6. /\ intents' \in [Keys -> IntentRow] /\ intents'[k] = intent
        /\ \A j \in Keys \ {k} : intents'[j] = intents[j]
    BY <1>4, <1>5 DEF CheckoutInv, SagaTypeOK
  <1>7. AuthorityInv' /\ AuthorityStays /\ PaymentInv' /\ AttemptStays
    BY AuthorityAlone, PaymentsAlone DEF RecordFailure, CheckoutInv
  <1>8. IntentsKept /\ QuotesStay /\ NoNewOrder
    BY <1>2, <1>4, <1>6
       DEF RecordFailure, IntentsKept, QuotesStay, NoNewOrder, paymentVars, quoteVars
  <1>9. OrdersInv' /\ ReceiptsBacked' /\ OutcomeTrue'
    BY <1>4, <1>6, <1>7, <1>8, OrdersStay, OutcomesStay DEF RecordFailure, paymentVars
  <1>10. ASSUME NEW j \in Keys PROVE IntentBacked(j)'
    BY <1>2, <1>4, <1>6, <1>7, IntentRewritten
  <1>11. RowBacked(IdleRunner)'
    BY DEF RowBacked, IdleRunner
  <1> QED BY <1>6, <1>7, <1>8, <1>9, <1>10, <1>11, IdleRow, RunnerReplaced
          DEF RecordFailure, CheckoutInv, SagaTypeOK, quoteVars

LEMMA RecordOutcomeInv ==
    ASSUME CheckoutInv, NEW r \in Runners, RecordOutcome(r)
    PROVE  CheckoutInv'
  <1>1. /\ runner[r] \in RunnerState /\ runner[r].pc = "verified" /\ RowBacked(runner[r])
    BY DEF RecordOutcome, AtStep, CheckoutInv, SagaTypeOK
  <1>2. PICK k \in Keys : k = runner[r].key /\ intents[k].status # "absent"
                          /\ intents[k].req = runner[r].req
    BY <1>1 DEF RowBacked
  <1>3. PICK seen \in AttemptStatus : seen = runner[r].seen
    BY <1>1 DEF RunnerState
  <1>4. PICK q \in Quotes : q = QuoteOf[intents[k].req]
    BY <1>1, <1>2, QuoteAssumption DEF RowBacked
  <1>5. /\ seen \in Captured => attempt[q] \in Captured
        /\ seen = "failed" => attempt[q] = "failed"
    BY <1>1, <1>2, <1>3, <1>4 DEF RowBacked
  <1> DEFINE told == IntentStatusFor(seen)
             intent == [intents[k] EXCEPT !.status = told, !.hasResult = TRUE]
             receipt == [key |-> k, status |-> ReceiptStatusFor(seen)]
  <1>6. /\ told \in {"executing", "succeeded", "failed"}
        /\ told = "succeeded" => attempt[q] \in Captured
    BY <1>5 DEF IntentStatusFor
  <1>7. /\ receipt \in Receipt /\ receipt.key = k
        /\ receipt.status = "executed" => attempt[q] \in Captured
        /\ receipt.status = "failed" => attempt[q] = "failed"
    BY <1>5 DEF ReceiptStatusFor, Receipt
  <1>8. intents[k] \in IntentRow
    BY DEF CheckoutInv, SagaTypeOK
  <1>9. intents' = [intents EXCEPT ![k] = intent] /\ receipts' = receipts \cup {receipt}
    BY <1>2, <1>3, <1>8 DEF RecordOutcome, CheckoutInv, SagaTypeOK
  <1> HIDE DEF told
  <1>10. /\ intent \in IntentRow /\ intent.status = told /\ intent.req = intents[k].req
         /\ intent.decision = intents[k].decision
    BY <1>6, <1>8 DEF IntentRow
  <1> HIDE DEF intent, receipt
  <1>11. /\ intents' \in [Keys -> IntentRow] /\ intents'[k] = intent
         /\ \A j \in Keys \ {k} : intents'[j] = intents[j]
         /\ receipts' \in SUBSET Receipt
    BY <1>7, <1>9, <1>10 DEF CheckoutInv, SagaTypeOK
  <1>12. AuthorityInv' /\ AuthorityStays /\ PaymentInv' /\ AttemptStays /\ attempt' = attempt
    BY AuthorityAlone, PaymentsAlone DEF RecordOutcome, CheckoutInv, paymentVars
  <1>13. IntentsKept /\ QuotesStay /\ NoNewOrder
    BY <1>2, <1>6, <1>10, <1>11
       DEF RecordOutcome, IntentsKept, QuotesStay, NoNewOrder, paymentVars, quoteVars
  <1>14. OrdersInv'
    BY <1>13, OrdersStay DEF RecordOutcome, paymentVars
  <1>15. \A c \in receipts : c.key \in Keys /\ intents[c.key].status # "absent"
    BY DEF CheckoutInv, SagaTypeOK, ReceiptsBacked, Receipt
  <1>16. ReceiptsBacked'
    BY <1>2, <1>7, <1>9, <1>13, <1>15 DEF ReceiptsBacked, IntentsKept
  <1>17. ASSUME NEW c \in receipts'
         PROVE  /\ c.status = "executed" => attempt[QuoteOf[intents'[c.key].req]] \in Captured
                /\ c.status = "failed" => attempt[QuoteOf[intents'[c.key].req]] = "failed"
    <2>1. CASE c = receipt
      BY <1>4, <1>7, <1>10, <1>11, <2>1
    <2>2. CASE c \in receipts
      BY <1>13, <1>15, <2>2 DEF CheckoutInv, OutcomeTrue, IntentsKept
    <2> QED BY <1>9, <2>1, <2>2
  <1>18. ASSUME NEW j \in Keys, intents'[j].status = "succeeded"
         PROVE  attempt[QuoteOf[intents'[j].req]] \in Captured
    <2>1. CASE j = k
      BY <1>4, <1>6, <1>10, <1>11, <1>18, <2>1
    <2>2. CASE j # k
      BY <1>11, <1>18, <2>2 DEF CheckoutInv, OutcomeTrue
    <2> QED BY <2>1, <2>2
  <1>19. OutcomeTrue'
    BY <1>12, <1>17, <1>18 DEF OutcomeTrue
  <1>20. ASSUME NEW j \in Keys PROVE IntentBacked(j)'
    BY <1>2, <1>6, <1>10, <1>11, <1>12, IntentRewritten
  <1>21. RowBacked(IdleRunner)'
    BY DEF RowBacked, IdleRunner
  <1> QED BY <1>11, <1>12, <1>13, <1>14, <1>16, <1>19, <1>20, <1>21, IdleRow, RunnerReplaced
          DEF RecordOutcome, CheckoutInv, SagaTypeOK, quoteVars

\* A call past its payment step, with the attempts moved under it.
LEMMA PaymentCall ==
    ASSUME CheckoutInv, PaymentInv', AttemptStays, NoNewOrder,
           \A q \in Quotes : order[q] # "none" => order'[q] # "none",
           UNCHANGED <<authorityVars, quoteVars, rail, prepared, intents, receipts>>,
           NEW r \in Runners, NEW row \in RunnerState, runner' = [runner EXCEPT ![r] = row],
           RowBacked(row)'
    PROVE  CheckoutInv'
  <1>1. AuthorityInv' /\ AuthorityStays
    BY AuthorityAlone DEF CheckoutInv
  <1>2. IntentsKept /\ QuotesStay
    BY DEF IntentsKept, QuotesStay, quoteVars
  <1>3. OrdersInv' /\ ReceiptsBacked' /\ OutcomeTrue'
    BY <1>2, OrdersStay, OutcomesStay
  <1>4. \A k \in Keys : IntentBacked(k)'
    BY <1>1, IntentStays
  <1> QED BY <1>1, <1>2, <1>3, <1>4, RunnerReplaced DEF CheckoutInv, SagaTypeOK, quoteVars

LEMMA RecordPaymentInv ==
    ASSUME CheckoutInv, NEW r \in Runners, NEW want \in {"succeeded", "failed", "unknown"},
           RecordPayment(r, want)
    PROVE  CheckoutInv'
  <1>1. /\ runner[r] \in RunnerState /\ runner[r].pc = "paying" /\ RowBacked(runner[r])
    BY DEF RecordPayment, AtStep, CheckoutInv, SagaTypeOK
  <1>2. PICK q \in Quotes : q = QuoteOf[runner[r].req]
    BY <1>1, QuoteAssumption DEF RowBacked
  <1>3. UNCHANGED <<authorityVars, bound, payments, events, callback, quoteVars, rail,
                    prepared, intents, receipts>>
    BY DEF RecordPayment
  <1>4. CASE Settleable(q)
    <2>1. Settle(q, want, NoPayment) /\ attempt[q] \notin Settled /\ order[q] # "none"
      BY <1>2, <1>4 DEF RecordPayment, QuoteOfRunner, Settleable, Settled, Captured
    <2>2. /\ AttemptStays /\ attempt'[q] = want
          /\ order' \in [Quotes -> OrderStatus] /\ attempt' \in [Quotes -> AttemptStatus]
          /\ settledBy' \in [Quotes -> Payments \cup {NoPayment}]
          /\ \A p \in Quotes : settledBy'[p] # NoPayment => attempt'[p] \in Settled
      BY <1>3, <2>1, SettleMoves DEF CheckoutInv
    <2>3. PaymentInv'
      BY <1>3, <2>2, AttemptsMove DEF CheckoutInv, PaymentInv, PaymentTypeOK
    <2>4. NoNewOrder /\ \A p \in Quotes : order[p] # "none" => order'[p] # "none"
      <3>1. PaymentOrderTarget(want) # "none"
        BY DEF PaymentOrderTarget
      <3>2. \A p \in Quotes : p # q => order'[p] = order[p] /\ attempt'[p] = attempt[p]
        BY <2>1 DEF Settle, CheckoutInv, PaymentInv, PaymentTypeOK
      <3>3. order'[q] = PaymentOrderTarget(want)
        BY <2>1 DEF Settle, CheckoutInv, PaymentInv, PaymentTypeOK
      <3> QED BY <2>1, <3>1, <3>2, <3>3 DEF NoNewOrder
    <2> DEFINE row == [runner[r] EXCEPT !.pc = "verified", !.seen = want]
    <2>5. /\ row \in RunnerState /\ row.pc = "verified" /\ row.seen = want
          /\ row.req = runner[r].req /\ row.key = runner[r].key
          /\ row.decision = runner[r].decision
      BY <1>1 DEF RunnerState, AttemptStatus
    <2>6. runner' = [runner EXCEPT ![r] = row]
      BY <1>1, <1>2, <1>4 DEF RecordPayment, QuoteOfRunner, CheckoutInv, SagaTypeOK
    <2> HIDE DEF row
    <2>7. PICK w \in RunnerState : w = row
      BY <2>5
    <2>8. RowBacked(w)'
      <3>1. /\ w.seen \in Captured => attempt'[QuoteOf[w.req]] \in Captured
            /\ w.seen = "failed" => attempt'[QuoteOf[w.req]] = "failed"
        BY <1>2, <2>2, <2>5, <2>7
      <3>2. decisions' = decisions /\ intents' = intents
        BY <1>3 DEF authorityVars
      <3> QED BY <1>1, <2>5, <2>7, <3>1, <3>2 DEF RowBacked
    <2> QED BY <1>3, <2>2, <2>3, <2>4, <2>6, <2>7, <2>8, PaymentCall
  <1>5. CASE ~Settleable(q)
    <2>1. UNCHANGED <<order, attempt, settledBy>> /\ GoTo(r, "failing")
      BY <1>2, <1>5 DEF RecordPayment, QuoteOfRunner
    <2>2. PaymentInv' /\ AttemptStays
      BY <1>3, <2>1, PaymentsAlone DEF CheckoutInv, paymentVars
    <2> DEFINE row == [runner[r] EXCEPT !.pc = "failing"]
    <2>3. /\ row \in RunnerState /\ row.pc = "failing" /\ row.req = runner[r].req
          /\ row.key = runner[r].key /\ row.decision = runner[r].decision
      BY <1>1 DEF RunnerState
    <2>4. runner' = [runner EXCEPT ![r] = row]
      BY <2>1 DEF GoTo
    <2> HIDE DEF row
    <2>5. PICK w \in RunnerState : w = row
      BY <2>3
    <2>6. RowBacked(w)'
      BY <1>1, <1>3, <2>3, <2>5 DEF RowBacked, authorityVars
    <2> QED BY <1>3, <2>1, <2>2, <2>4, <2>5, <2>6, PaymentCall DEF NoNewOrder
  <1> QED BY <1>4, <1>5

\* The open quote is released and the key answered with a failure.
LEMMA QuoteReleased ==
    ASSUME CheckoutInv, NEW q \in Quotes, NEW k \in Keys, prepared[k] # "success",
           quote' = [quote EXCEPT ![q] = "released"],
           prepared' = [prepared EXCEPT ![k] = "failure"], UNCHANGED <<order, attempt, intents>>
    PROVE  /\ OrdersInv' /\ QuotesStay
           /\ quote' \in [Quotes -> {"open", "consumed", "released"}]
           /\ prepared' \in [Keys -> {"none", "success", "failure"}]
  <1>1. /\ \A p \in Quotes : quote'[p] = "open" => quote[p] = "open"
        /\ \A j \in Keys : prepared'[j] = "success" <=> prepared[j] = "success"
        /\ quote' \in [Quotes -> {"open", "consumed", "released"}]
        /\ prepared' \in [Keys -> {"none", "success", "failure"}]
    BY DEF CheckoutInv, SagaTypeOK
  <1>2. \A j \in Keys : prepared[j] = "success" => QuoteOf[intents[j].req] \in Quotes
    BY QuoteAssumption DEF CheckoutInv, OrdersInv, IntentBacked
  <1> QED BY <1>1, <1>2 DEF QuotesStay, CheckoutInv, OrdersInv, AttemptsOrdered

\* The open quote is consumed for an order: no other key had prepared it.
LEMMA QuoteConsumed ==
    ASSUME CheckoutInv, NEW q \in Quotes, NEW k \in Keys, quote[q] = "open",
           intents[k].status # "absent", QuoteOf[intents[k].req] = q,
           quote' = [quote EXCEPT ![q] = "consumed"],
           prepared' = [prepared EXCEPT ![k] = "success"], OpenAttempt(q),
           UNCHANGED <<bound, settledBy, payments, events, callback, intents>>
    PROVE  /\ OrdersInv' /\ QuotesStay /\ PaymentInv' /\ AttemptStays
           /\ quote' \in [Quotes -> {"open", "consumed", "released"}]
           /\ prepared' \in [Keys -> {"none", "success", "failure"}]
  <1>1. /\ \A p \in Quotes : quote'[p] = IF p = q THEN "consumed" ELSE quote[p]
        /\ \A j \in Keys : prepared'[j] = IF j = k THEN "success" ELSE prepared[j]
        /\ quote' \in [Quotes -> {"open", "consumed", "released"}]
        /\ prepared' \in [Keys -> {"none", "success", "failure"}]
    BY DEF CheckoutInv, SagaTypeOK
  <1>2. /\ \A p \in Quotes : order'[p] = IF p = q THEN "payment_pending" ELSE order[p]
        /\ \A p \in Quotes : attempt'[p] = IF p = q THEN "pending" ELSE attempt[p]
        /\ order' \in [Quotes -> OrderStatus] /\ attempt' \in [Quotes -> AttemptStatus]
    BY DEF OpenAttempt, CheckoutInv, PaymentInv, PaymentTypeOK, OrderStatus, AttemptStatus
  <1>3. order[q] = "none" /\ attempt[q] = "none"
    BY DEF CheckoutInv, OrdersInv, AttemptsOrdered
  <1>4. \A j \in Keys : prepared[j] = "success" =>
            /\ QuoteOf[intents[j].req] \in Quotes /\ QuoteOf[intents[j].req] # q
            /\ intents[j].status # "absent" /\ quote[QuoteOf[intents[j].req]] # "open"
    BY QuoteAssumption DEF CheckoutInv, OrdersInv, IntentBacked
  <1>5. AttemptStays
    BY <1>2, <1>3 DEF AttemptStays, Settled, Captured
  <1>6. \A p \in Quotes : settledBy'[p] # NoPayment => attempt'[p] \in Settled
    BY <1>2, <1>3 DEF CheckoutInv, PaymentInv, Settled, Captured
  <1>7. PaymentInv'
    BY <1>2, <1>5, <1>6, AttemptsMove DEF CheckoutInv, PaymentInv, PaymentTypeOK
  <1>8. /\ (\A p \in Quotes : order[p] = "none" => attempt[p] = "none")'
        /\ (\A p \in Quotes : quote[p] = "open" => order[p] = "none")'
    BY <1>1, <1>2 DEF CheckoutInv, OrdersInv, AttemptsOrdered
  <1>9. (\A j \in Keys : prepared[j] = "success" =>
            intents[j].status # "absent" /\ quote[QuoteOf[intents[j].req]] # "open")'
    BY <1>1, <1>4
  <1>10. (\A i, j \in Keys :
            prepared[i] = "success" /\ prepared[j] = "success"
                /\ QuoteOf[intents[i].req] = QuoteOf[intents[j].req] => i = j)'
    BY <1>1, <1>4 DEF CheckoutInv, OrdersInv
  <1>11. (\A p \in Quotes : order[p] # "none" =>
            \E j \in Keys : prepared[j] = "success" /\ QuoteOf[intents[j].req] = p)'
    <2>1. ASSUME NEW p \in Quotes, order'[p] # "none"
          PROVE  \E j \in Keys : prepared'[j] = "success" /\ QuoteOf[intents'[j].req] = p
      <3>1. CASE p = q
        BY <1>1, <3>1
      <3>2. CASE p # q
        <4>1. PICK j \in Keys : prepared[j] = "success" /\ QuoteOf[intents[j].req] = p
          BY <1>2, <2>1, <3>2 DEF CheckoutInv, OrdersInv
        <4> QED BY <1>1, <4>1
      <3> QED BY <3>1, <3>2
    <2> QED BY <2>1
  <1>12. OrdersInv'
    BY <1>8, <1>9, <1>10, <1>11 DEF OrdersInv, AttemptsOrdered
  <1> QED BY <1>1, <1>5, <1>7, <1>12 DEF QuotesStay

LEMMA PrepareCheckoutInv ==
    ASSUME CheckoutInv, NEW r \in Runners, PrepareCheckout(r)
    PROVE  CheckoutInv'
  <1>1. /\ runner[r] \in RunnerState /\ runner[r].pc = "claimed" /\ RowBacked(runner[r])
    BY DEF PrepareCheckout, AtStep, CheckoutInv, SagaTypeOK
  <1>2. PICK k \in Keys : k = runner[r].key /\ intents[k].status # "absent"
                          /\ intents[k].req = runner[r].req
    BY <1>1 DEF RowBacked
  <1>3. PICK q \in Quotes : q = QuoteOf[runner[r].req]
    BY <1>1, QuoteAssumption DEF RowBacked
  <1>4. UNCHANGED <<authorityVars, bound, settledBy, payments, events, callback, expired,
                    rail, intents, receipts>>
    BY DEF PrepareCheckout
  <1>5. PICK pc \in {"prepared", "failing"} : runner' = [runner EXCEPT ![r].pc = pc]
    BY DEF PrepareCheckout, GoTo
  <1> DEFINE row == [runner[r] EXCEPT !.pc = pc]
  <1>6. /\ row \in RunnerState /\ row.pc = pc /\ row.req = runner[r].req
        /\ row.key = runner[r].key /\ row.decision = runner[r].decision
    BY <1>1 DEF RunnerState
  <1>7. runner' = [runner EXCEPT ![r] = row]
    BY <1>5
  <1> HIDE DEF row
  <1>8. PICK w \in RunnerState : w = row
    BY <1>6
  <1>9. RowBacked(w)
    BY <1>1, <1>6, <1>8 DEF RowBacked
  <1>10. AuthorityInv' /\ AuthorityStays /\ IntentsKept
    BY <1>4, AuthorityAlone DEF CheckoutInv, IntentsKept
  <1>11. ASSUME PaymentInv', AttemptStays, OrdersInv',
                quote' \in [Quotes -> {"open", "consumed", "released"}],
                prepared' \in [Keys -> {"none", "success", "failure"}]
         PROVE  CheckoutInv'
    <2>1. ReceiptsBacked' /\ OutcomeTrue'
      BY <1>4, <1>10, <1>11, OutcomesStay
    <2>2. \A j \in Keys : IntentBacked(j)'
      BY <1>4, <1>10, IntentStays
    <2>3. RowBacked(w)'
      BY <1>9, <1>10, <1>11, RowStays
    <2> QED BY <1>4, <1>7, <1>8, <1>10, <1>11, <2>1, <2>2, <2>3, RunnerReplaced
            DEF CheckoutInv, SagaTypeOK
  <1>12. CASE UNCHANGED <<quote, prepared, order, attempt>>
    <2>1. PaymentInv' /\ AttemptStays
      BY <1>4, <1>12, PaymentsAlone DEF CheckoutInv, paymentVars
    <2>2. QuotesStay /\ NoNewOrder
      BY <1>12 DEF QuotesStay, NoNewOrder
    <2>3. OrdersInv'
      BY <1>10, <1>12, <2>2, OrdersStay
    <2> QED BY <1>11, <1>12, <2>1, <2>3 DEF CheckoutInv, SagaTypeOK
  <1>13. CASE /\ prepared[k] # "success"
              /\ quote' = [quote EXCEPT ![q] = "released"]
              /\ prepared' = [prepared EXCEPT ![k] = "failure"]
              /\ UNCHANGED <<order, attempt>>
    <2>1. PaymentInv' /\ AttemptStays
      BY <1>4, <1>13, PaymentsAlone DEF CheckoutInv, paymentVars
    <2> QED BY <1>4, <1>11, <1>13, <2>1, QuoteReleased
  <1>14. CASE /\ quote[q] = "open" /\ OpenAttempt(q)
              /\ quote' = [quote EXCEPT ![q] = "consumed"]
              /\ prepared' = [prepared EXCEPT ![k] = "success"]
    BY <1>2, <1>3, <1>4, <1>11, <1>14, QuoteConsumed
  <1>15. \/ UNCHANGED <<quote, prepared, order, attempt>>
         \/ /\ prepared[k] # "success"
            /\ quote' = [quote EXCEPT ![q] = "released"]
            /\ prepared' = [prepared EXCEPT ![k] = "failure"]
            /\ UNCHANGED <<order, attempt>>
         \/ /\ quote[q] = "open" /\ OpenAttempt(q)
            /\ quote' = [quote EXCEPT ![q] = "consumed"]
            /\ prepared' = [prepared EXCEPT ![k] = "success"]
    BY <1>2, <1>3 DEF PrepareCheckout, Replayed, QuoteOfRunner
  <1> QED BY <1>12, <1>13, <1>14, <1>15

-----------------------------------------------------------------------------
(* The steps around a call                                                 *)

LEMMA ExpireQuoteInv ==
    ASSUME CheckoutInv, NEW q \in Quotes, ExpireQuote(q)
    PROVE  CheckoutInv'
  <1>1. AuthorityInv' /\ AuthorityStays
    <2>1. lapsed' \in SUBSET Decisions
      BY DEF ExpireQuote, CheckoutInv, AuthorityInv, AuthorityTypeOK
    <2> QED BY <2>1 DEF ExpireQuote, mandateVars, CheckoutInv, AuthorityInv, AuthorityTypeOK,
                        AuthorityStays
  <1>2. PaymentInv' /\ AttemptStays /\ NoNewOrder /\ QuotesStay
    BY PaymentsAlone DEF ExpireQuote, CheckoutInv, paymentVars, NoNewOrder, QuotesStay
  <1> QED BY <1>1, <1>2, CallsAlone DEF ExpireQuote, CheckoutInv, SagaTypeOK, paymentVars

LEMMA SweepQuoteInv ==
    ASSUME CheckoutInv, NEW q \in Quotes, SweepQuote(q)
    PROVE  CheckoutInv'
  <1>1. AuthorityInv' /\ AuthorityStays
    BY AuthorityAlone DEF SweepQuote, CheckoutInv
  <1>2. PaymentInv' /\ AttemptStays /\ NoNewOrder
    BY PaymentsAlone DEF SweepQuote, CheckoutInv, paymentVars, NoNewOrder
  <1>3. QuotesStay /\ quote' \in [Quotes -> {"open", "consumed", "released"}]
    BY DEF SweepQuote, QuotesStay, CheckoutInv, SagaTypeOK
  <1> QED BY <1>1, <1>2, <1>3, CallsAlone DEF SweepQuote, CheckoutInv, SagaTypeOK, paymentVars

LEMMA AuthorityNextInv ==
    ASSUME CheckoutInv, AuthorityNext
    PROVE  CheckoutInv' /\ (approvals' = approvals \/ ApprovalsClose)
  <1>1. Bounds[rail].statuses \subseteq {"active", "paused", "revoked"}
    BY BoundAssumption DEF CheckoutInv, SagaTypeOK
  <1>2. OwnerStep
    BY <1>1 DEF AuthorityNext, OwnerStep
  <1>3. AuthorityInv' /\ AuthorityStays /\ (approvals' = approvals \/ ApprovalsClose)
    BY <1>2, OwnerInv DEF CheckoutInv
  <1>4. PaymentInv' /\ AttemptStays /\ NoNewOrder /\ QuotesStay
    BY PaymentsAlone
       DEF AuthorityNext, CheckoutInv, paymentVars, quoteVars, NoNewOrder, QuotesStay
  <1> QED BY <1>3, <1>4, CallsAlone
          DEF AuthorityNext, CheckoutInv, SagaTypeOK, paymentVars, quoteVars

LEMMA PaymentsKeepOrders ==
    ASSUME PaymentInv, PaymentsNext
    PROVE  \A q \in Quotes : order[q] # "none" => order'[q] # "none"
  <1>1. ASSUME NEW q, NEW result, NEW m, Settle(q, result, m)
        PROVE  \A p \in Quotes : order[p] # "none" => order'[p] # "none"
    <2>1. PaymentOrderTarget(result) # "none"
      BY DEF PaymentOrderTarget
    <2> QED BY <1>1, <2>1 DEF Settle, PaymentInv, PaymentTypeOK
  <1>2. ASSUME NEW c \in Callbacks, RecordProviderResult(c)
        PROVE  \A q \in Quotes : order[q] # "none" => order'[q] # "none"
    <2> DEFINE m == callback[c].payment
               q == payments[m].quote
               want == payments[m].outcome
    <2>1. Settle(q, want, m) \/ UNCHANGED order
      BY <1>2 DEF RecordProviderResult
    <2> HIDE DEF m, q, want
    <2> QED BY <1>1, <2>1
  <1>3. ASSUME NEW q \in Quotes, CancelOrder(q)
        PROVE  \A p \in Quotes : order[p] # "none" => order'[p] # "none"
    BY <1>3 DEF CancelOrder, PaymentInv, PaymentTypeOK
  <1>4. ASSUME NEW q \in Quotes, NEW outcome, ReconcilePayment(q, outcome)
        PROVE  \A p \in Quotes : order[p] # "none" => order'[p] # "none"
    BY <1>1, <1>4 DEF ReconcilePayment
  <1> QED BY <1>2, <1>3, <1>4
          DEF PaymentsNext, PaymentNext, CreateProviderOrder, PayAtProvider, StartConfirm,
              StartWebhook, ReadAttempt, AnswerCallback, DropCallback

LEMMA PaymentsStepInv ==
    ASSUME CheckoutInv, PaymentsNext
    PROVE  CheckoutInv'
  <1>1. PaymentInv' /\ AttemptStays /\ NoNewOrder
    BY PaymentsNextInv, PaymentsNextMakesNone DEF CheckoutInv, OrdersInv
  <1>2. \A q \in Quotes : order[q] # "none" => order'[q] # "none"
    BY PaymentsKeepOrders DEF CheckoutInv
  <1>3. AuthorityInv' /\ AuthorityStays
    BY AuthorityAlone DEF PaymentsNext, CheckoutInv
  <1>4. QuotesStay
    BY DEF PaymentsNext, quoteVars, QuotesStay
  <1> QED BY <1>1, <1>2, <1>3, <1>4, CallsAlone
          DEF PaymentsNext, CheckoutInv, SagaTypeOK, quoteVars

-----------------------------------------------------------------------------
(* The inductive invariant                                                 *)

LEMMA CheckoutStarts == Init => CheckoutInv
  <1> SUFFICES ASSUME Init PROVE CheckoutInv
    OBVIOUS
  <1>1. AuthorityInv /\ PaymentInv
    BY AuthorityStarts, PaymentStarts DEF Init
  <1>2. NoIntent \in IntentRow /\ NoIntent.status = "absent"
    BY DEF NoIntent, IntentRow
  <1>3. SagaTypeOK
    BY <1>2, IdleRow DEF Init, SagaTypeOK
  <1>4. OrdersInv
    BY DEF Init, PaymentInit, OrdersInv, AttemptsOrdered
  <1>5. ReceiptsBacked /\ OutcomeTrue /\ \A k \in Keys : IntentBacked(k)
    BY <1>2 DEF Init, ReceiptsBacked, OutcomeTrue, IntentBacked
  <1>6. ASSUME NEW r \in Runners PROVE RowBacked(runner[r])
    <2>1. runner[r].pc = "idle"
      BY DEF Init, IdleRunner
    <2> QED BY <2>1 DEF RowBacked
  <1> QED BY <1>1, <1>3, <1>4, <1>5, <1>6 DEF CheckoutInv

LEMMA CheckoutSteps == CheckoutInv /\ [Next]_vars => CheckoutInv'
  <1> SUFFICES ASSUME CheckoutInv, [Next]_vars PROVE CheckoutInv'
    OBVIOUS
  <1>1. CASE UNCHANGED vars
    <2>1. AuthorityInv' /\ AuthorityStays /\ PaymentInv' /\ AttemptStays
      BY <1>1, AuthorityAlone, PaymentsAlone DEF CheckoutInv, vars
    <2> QED BY <1>1, <2>1, CallsAlone
            DEF vars, paymentVars, quoteVars, NoNewOrder, QuotesStay, CheckoutInv, SagaTypeOK
  <1>2. CASE AuthorityNext
    BY <1>2, AuthorityNextInv
  <1>3. CASE PaymentsNext
    BY <1>3, PaymentsStepInv
  <1>4. ASSUME NEW q \in Quotes, ExpireQuote(q) \/ SweepQuote(q) PROVE CheckoutInv'
    BY <1>4, ExpireQuoteInv, SweepQuoteInv
  <1>5. ASSUME NEW r \in Runners, SagaStep(r) PROVE CheckoutInv'
    <2>1. Bounds[rail].requests \subseteq Requests
      BY BoundAssumption DEF CheckoutInv, SagaTypeOK
    <2> QED BY <1>5, <2>1, BeginEvaluateInv, RecordDecisionInv, CheckCheckoutInv,
               ClaimCheckoutInv, JoinCheckoutInv, PrepareCheckoutInv, ReadPaymentInv,
               RecordPaymentInv, RecordOutcomeInv, RecordFailureInv, AbandonInv
            DEF SagaStep
  <1> QED BY <1>1, <1>2, <1>3, <1>4, <1>5 DEF Next

LEMMA CheckoutAlways == Spec => []CheckoutInv
  BY CheckoutStarts, CheckoutSteps, PTL DEF Spec

-----------------------------------------------------------------------------
(* Theorems                                                                *)

\* Every row keeps the type of its table, for any constants.
THEOREM CheckoutTyped == Spec => []TypeOK
  <1>1. CheckoutInv => TypeOK
    BY DEF CheckoutInv, SagaTypeOK, AuthorityInv, PaymentInv, TypeOK
  <1> QED BY <1>1, CheckoutAlways, PTL

\* Every order was prepared under exactly one key, bound to a decision for this
\* very request that allowed it or whose approval is spent.
THEOREM OrdersAlwaysAuthorised == Spec => []OrderAuthorised
  <1>1. ASSUME CheckoutInv, NEW q \in Quotes, order[q] # "none"
        PROVE  \E k \in Keys :
                   /\ prepared[k] = "success"
                   /\ QuoteOf[intents[k].req] = q
                   /\ decisions[intents[k].decision].req = intents[k].req
                   /\ Authorises(intents[k].decision)
                   /\ \A j \in Keys \ {k} :
                          prepared[j] = "success" => QuoteOf[intents[j].req] # q
    <2>1. PICK k \in Keys : prepared[k] = "success" /\ QuoteOf[intents[k].req] = q
      BY <1>1 DEF CheckoutInv, OrdersInv
    <2>2. decisions[intents[k].decision].req = intents[k].req /\ Authorises(intents[k].decision)
      BY <1>1, <2>1 DEF CheckoutInv, OrdersInv, IntentBacked
    <2>3. \A j \in Keys \ {k} : prepared[j] = "success" => QuoteOf[intents[j].req] # q
      BY <1>1, <2>1 DEF CheckoutInv, OrdersInv
    <2> QED BY <2>1, <2>2, <2>3
  <1>2. CheckoutInv => OrderAuthorised
    BY <1>1 DEF OrderAuthorised
  <1> QED BY <1>2, CheckoutAlways, PTL

\* What the Buyer is told of a payment stays true of it.
THEOREM OutcomesAlwaysTrue == Spec => []OutcomeTrue
  BY CheckoutAlways, PTL DEF CheckoutInv

\* A webhook answered as applied has left its outcome in the attempt.
THEOREM EventsAlwaysSettled == Spec => []EventSettled
  <1>1. CheckoutInv => EventSettled
    BY DEF CheckoutInv, PaymentInv, OutcomeLeft, EventSettled
  <1> QED BY <1>1, CheckoutAlways, PTL

\* Attempts that name a payment keep it.
LEMMA CapturesKept ==
    ASSUME CheckoutInv, Next
    PROVE  \A q \in Quotes : settledBy[q] # NoPayment => settledBy'[q] = settledBy[q]
  <1>1. \A q \in Quotes : settledBy[q] # NoPayment => attempt[q] \in Settled
    BY DEF CheckoutInv, PaymentInv
  <1>2. CASE PaymentsNext
    BY <1>1, <1>2, PaymentsNextInv DEF CheckoutInv, AttemptStays
  <1>3. ASSUME NEW r \in Runners, NEW want \in {"succeeded", "failed", "unknown"},
               RecordPayment(r, want)
        PROVE  \A q \in Quotes : settledBy[q] # NoPayment => settledBy'[q] = settledBy[q]
    <2>1. PICK q \in Quotes : q = QuoteOfRunner(r)
      BY <1>3, QuoteAssumption
         DEF RecordPayment, AtStep, QuoteOfRunner, CheckoutInv, RowBacked
    <2>2. \/ Settle(q, want, NoPayment) /\ attempt[q] \notin Settled
          \/ UNCHANGED settledBy
      BY <1>3, <2>1 DEF RecordPayment, Settleable, Settled, Captured
    <2> QED BY <1>1, <2>2 DEF Settle, CheckoutInv, PaymentInv, PaymentTypeOK
  <1>4. CASE UNCHANGED settledBy
    BY <1>4
  <1> QED BY <1>2, <1>3, <1>4
          DEF Next, AuthorityNext, SagaStep, BeginEvaluate, RecordDecision, CheckCheckout,
              ClaimCheckout, JoinCheckout, PrepareCheckout, ReadPayment, RecordOutcome,
              RecordFailure, Abandon, ExpireQuote, SweepQuote, paymentVars

\* The payment an attempt was settled by never changes.
THEOREM CapturesAlwaysFinal == Spec => CaptureIsFinal
  <1>1. CheckoutInv /\ [Next]_vars =>
            [\A q \in Quotes : settledBy[q] # NoPayment => settledBy'[q] = settledBy[q]]_settledBy
    BY CapturesKept DEF vars, paymentVars
  <1> QED BY <1>1, CheckoutAlways, PTL DEF Spec, CaptureIsFinal

\* The only steps that change approvals.
LEMMA ApprovalWriters ==
    ASSUME CheckoutInv, [Next]_vars
    PROVE  \/ approvals' = approvals
           \/ ApprovalsClose
           \/ ApprovalIssued
           \/ \E r \in Runners : ClaimCheckout(r)
  <1>1. CASE AuthorityNext
    BY <1>1, AuthorityNextInv
  <1>2. ASSUME NEW r \in Runners, NEW d \in Decisions, RecordDecision(r, d)
        PROVE  approvals' = approvals \/ ApprovalIssued
    BY <1>2, RecordDecisionInv
  <1> QED BY <1>1, <1>2
          DEF Next, SagaStep, PaymentsNext, BeginEvaluate, CheckCheckout, JoinCheckout,
              PrepareCheckout, ReadPayment, RecordPayment, RecordOutcome, RecordFailure,
              Abandon, ExpireQuote, SweepQuote, vars, authorityVars

\* Nobody takes a lapsed decision in hand: the clock is read before.
LEMMA InHandFrom ==
    ASSUME CheckoutInv, [Next]_vars, NEW d \in Decisions, d \in lapsed, InHand(d)'
    PROVE  InHand(d)
  <1>0. PICK r \in Runners : runner'[r].pc = "checked" /\ runner'[r].decision = d
    BY DEF InHand, AtStep
  <1> SUFFICES ASSUME runner'[r] # runner[r] PROVE FALSE
    BY <1>0 DEF InHand, AtStep
  <1>1. runner \in [Runners -> RunnerState]
    BY DEF CheckoutInv, SagaTypeOK
  <1>2. ASSUME NEW s \in Runners, NEW row, row.pc # "checked",
               runner' = [runner EXCEPT ![s] = row]
        PROVE  FALSE
    BY <1>0, <1>1, <1>2
  <1>3. ASSUME NEW s \in Runners, NEW pc, pc # "checked",
               runner' = [runner EXCEPT ![s].pc = pc]
        PROVE  FALSE
    BY <1>0, <1>1, <1>3 DEF RunnerState
  <1>4. IdleRunner.pc # "checked"
    BY DEF IdleRunner
  <1>5. ASSUME NEW s \in Runners, NEW q, BeginEvaluate(s, q)
        PROVE  FALSE
    <2> DEFINE row == [IdleRunner EXCEPT !.pc = "evaluating", !.req = q, !.ver = current,
                                         !.verdict = mandates[current].policy[q]]
    <2>1. runner' = [runner EXCEPT ![s] = row]
      BY <1>5 DEF BeginEvaluate
    <2>2. row.pc = "evaluating"
      BY DEF IdleRunner
    <2> HIDE DEF row
    <2> QED BY <1>2, <2>1, <2>2
  <1>6. ASSUME NEW s \in Runners, NEW e \in Decisions, NEW k \in Keys, CheckCheckout(s, e, k)
        PROVE  FALSE
    <2>1. runner' = [runner EXCEPT ![s] =
              [IdleRunner EXCEPT !.pc = "checked", !.req = decisions[e].req,
                                 !.key = k, !.decision = e]]
      BY <1>6 DEF CheckCheckout
    <2>2. e \notin lapsed
      BY <1>6 DEF CheckCheckout, Unexpired
    <2> QED BY <1>0, <1>1, <2>1, <2>2 DEF IdleRunner
  <1>7. ASSUME NEW s \in Runners, JoinCheckout(s)
        PROVE  FALSE
    BY <1>0, <1>1, <1>7 DEF JoinCheckout, RunnerState
  <1>8. ASSUME NEW s \in Runners, NEW want, ReadPayment(s, want)
        PROVE  FALSE
    <2> DEFINE now == attempt[QuoteOfRunner(s)]
               pc == IF now = "pending"
                     THEN IF rail = "simulated" THEN "paying" ELSE "verified"
                     ELSE IF Satisfies(s, now, want) THEN "verified" ELSE "failing"
               row == IF AnswersStored(s, now) THEN IdleRunner
                      ELSE [runner[s] EXCEPT !.seen = now, !.pc = pc]
    <2>1. runner' = [runner EXCEPT ![s] = row]
      BY <1>8 DEF ReadPayment
    <2>2. pc # "checked"
      OBVIOUS
    <2>3. runner[s] \in RunnerState
      BY <1>1
    <2> HIDE DEF pc
    <2>4. [runner[s] EXCEPT !.seen = now, !.pc = pc].pc = pc
      BY <2>3 DEF RunnerState
    <2>5. row.pc # "checked"
      BY <1>4, <2>2, <2>4
    <2> HIDE DEF row
    <2> QED BY <1>2, <2>1, <2>5
  <1>9. ASSUME NEW s \in Runners, NEW want, RecordPayment(s, want)
        PROVE  FALSE
    <2>1. CASE runner' = [runner EXCEPT ![s].pc = "verified", ![s].seen = want]
      BY <1>0, <1>1, <2>1 DEF RunnerState
    <2> QED BY <1>3, <1>9, <2>1 DEF RecordPayment, GoTo
  <1>10. ASSUME NEW s \in Runners, PrepareCheckout(s) \/ ClaimCheckout(s)
         PROVE  FALSE
    BY <1>3, <1>10 DEF PrepareCheckout, ClaimCheckout, GoTo
  <1>11. ASSUME NEW s \in Runners, runner' = [runner EXCEPT ![s] = IdleRunner]
         PROVE  FALSE
    BY <1>2, <1>4, <1>11
  <1>12. runner' # runner
    OBVIOUS
  <1>13. PICK s \in Runners : SagaStep(s)
    BY <1>12 DEF Next, vars, AuthorityNext, PaymentsNext, ExpireQuote, SweepQuote, sagaVars
  <1>14. CASE \E e \in Decisions : RecordDecision(s, e)
    BY <1>11, <1>14 DEF RecordDecision
  <1>15. CASE RecordOutcome(s) \/ RecordFailure(s) \/ Abandon(s)
    BY <1>11, <1>15 DEF RecordOutcome, RecordFailure, Abandon
  <1> QED BY <1>5, <1>6, <1>7, <1>8, <1>9, <1>10, <1>13, <1>14, <1>15 DEF SagaStep

LEMMA LapsedStays ==
    ASSUME [Next]_vars
    PROVE  lapsed \subseteq lapsed'
  <1>1. CASE AuthorityNext
    BY <1>1 DEF AuthorityNext, EnsureAgent, CompileMandate, ConfirmMandate, SetAgentStatus, Lapse
  <1>2. ASSUME NEW q \in Quotes, ExpireQuote(q)
        PROVE  lapsed \subseteq lapsed'
    BY <1>2 DEF ExpireQuote
  <1> QED BY <1>1, <1>2
          DEF Next, SagaStep, PaymentsNext, BeginEvaluate, RecordDecision, CheckCheckout,
              ClaimCheckout, JoinCheckout, PrepareCheckout, ReadPayment, RecordPayment,
              RecordOutcome, RecordFailure, Abandon, SweepQuote, vars, authorityVars

\* Who spends an approval, and on what.
LEMMA ConsumptionLive ==
    ASSUME CheckoutInv, [Next]_vars,
           NEW d \in Decisions, approvals[d] # "consumed", approvals'[d] = "consumed"
    PROVE  /\ approvals[d] = "issued"
           /\ current = decisions[d].ver
           /\ \/ status = "active"
              \/ status = "paused" /\ ActorOf[decisions[d].req] = "user"
           /\ InHand(d)
  <1>1. ASSUME NEW r \in Runners, ClaimCheckout(r)
        PROVE  /\ Consumable(d, ActorOf[decisions[d].req])
               /\ InHand(d)
    <2>1. PICK e \in Decisions : e = runner[r].decision /\ decisions[e].req = runner[r].req
      BY <1>1 DEF ClaimCheckout, AtStep, CheckoutInv, RowBacked
    <2>2. /\ approvals' = Spend(e)
          /\ NeedsApproval(e) => Consumable(e, ActorOf[decisions[e].req])
      BY <1>1, <2>1 DEF ClaimCheckout, MayStart
    <2>3. d = e /\ NeedsApproval(e)
      BY <2>2 DEF Spend, CheckoutInv, AuthorityInv, AuthorityTypeOK
    <2>4. InHand(d)
      BY <1>1, <2>1, <2>3 DEF ClaimCheckout, InHand
    <2> QED BY <2>2, <2>3, <2>4
  <1>2. ~ApprovalsClose
    BY DEF ApprovalsClose, CloseIssued
  <1>3. ~ApprovalIssued
    BY DEF ApprovalIssued, CheckoutInv, AuthorityInv, AuthorityTypeOK
  <1> QED BY <1>1, <1>2, <1>3, ApprovalWriters DEF Consumable

LEMMA DeadStays ==
    ASSUME CheckoutInv, [Next]_vars, NEW d \in Decisions, Dead(d)
    PROVE  Dead(d)'
  <1>1. d \in lapsed'
    BY LapsedStays DEF Dead
  <1>2. ~InHand(d)'
    BY InHandFrom DEF Dead
  <1>3. approvals'[d] # "consumed"
    BY ConsumptionLive DEF Dead
  <1> QED BY <1>1, <1>2, <1>3 DEF Dead, InHand, AtStep

\* An approval is spent only under the mandate it was issued under, by an agent
\* free to act, and never once it has lapsed and no call is left that read the
\* clock in time.
THEOREM ConsumptionAlwaysLive == Spec => ConsumeUnderLiveAuthority
  <1>1. CheckoutInv /\ [Next]_vars =>
          [\A d \in Decisions :
              /\ approvals[d] # "consumed" /\ approvals'[d] = "consumed" =>
                  /\ approvals[d] = "issued"
                  /\ current = decisions[d].ver
                  /\ \/ status = "active"
                     \/ status = "paused" /\ ActorOf[decisions[d].req] = "user"
              /\ Dead(d) => Dead(d)'
          ]_vars
    BY ConsumptionLive, DeadStays
  <1> QED BY <1>1, CheckoutAlways, PTL DEF Spec, ConsumeUnderLiveAuthority

\* The approval rows are one-time approvals, under every interleaving of owners,
\* evaluations, checkouts and duplicates.
THEOREM ApprovalsAreOneTime == Spec => OneTime
  <1>1. Init => Approval!Init
    BY DEF Init, AuthorityInit, Approval!Init
  <1>2. ASSUME CheckoutInv, [Next]_vars
        PROVE  approvals' = approvals \/ Approval!Next
    <2>1. ASSUME NEW r \in Runners, ClaimCheckout(r)
          PROVE  approvals' = approvals \/ Approval!Next
      <3>1. PICK e \in Decisions : e = runner[r].decision
        BY <1>2, <2>1 DEF ClaimCheckout, AtStep, CheckoutInv, RowBacked
      <3>2. approvals' = approvals \/ Approval!Consume(e)
        BY <2>1, <3>1 DEF ClaimCheckout, MayStart, Consumable, Spend, Approval!Consume
      <3> QED BY <3>2 DEF Approval!Next
    <2>2. CASE ApprovalsClose
      <3>1. PICK to \in {"expired", "revoked"} : approvals' = CloseIssued(to)
        BY <2>2 DEF ApprovalsClose
      <3> DEFINE A == {d \in Decisions : approvals[d] = "issued"}
      <3>2. approvals' = [d \in Decisions |-> IF d \in A THEN to ELSE approvals[d]]
        BY <3>1 DEF CloseIssued
      <3>3. A \in SUBSET Decisions /\ \A d \in A : approvals[d] = "issued"
        OBVIOUS
      <3> HIDE DEF A
      <3>4. Approval!Close(A, to)
        BY <3>2, <3>3 DEF Approval!Close
      <3> QED BY <3>3, <3>4 DEF Approval!Next
    <2>3. CASE ApprovalIssued
      BY <2>3 DEF ApprovalIssued, Approval!Next, Approval!Issue
    <2> QED BY <1>2, <2>1, <2>2, <2>3, ApprovalWriters
  <1>3. CheckoutInv /\ [Next]_vars => [Approval!Next]_approvals
    BY <1>2
  <1> QED BY <1>1, <1>3, CheckoutAlways, PTL DEF Spec, OneTime, Approval!Spec

=============================================================================
