-------------------------- MODULE RazorpayPayments --------------------------
(***************************************************************************)
(* The payment attempts of checked out orders and the Razorpay protocol    *)
(* that settles them: provider orders, the checkout confirmation and the   *)
(* webhooks (commerce_v1.py, razorpay.py, commerce_v1_routes.py).          *)
(*                                                                         *)
(* A quote names its order and its attempt, which are one row each.  A     *)
(* webhook event is the payment it reports, since a payment is captured or  *)
(* failed once.  Razorpay itself is external: a buyer may pay a bound      *)
(* provider order any number of times, and an event is delivered late, out *)
(* of order, more than once, or never.                                     *)
(***************************************************************************)
EXTENDS Naturals, FiniteSets

CONSTANTS
    Quotes,      \* quotes, and the order and attempt made from each
    Payments,    \* provider payment identifiers (bounds the tries to pay)
    Callbacks,   \* confirmations and webhooks served at the same time
    NoQuote, NoPayment

ASSUME PaymentAssumption == NoQuote \notin Quotes /\ NoPayment \notin Payments

VARIABLES
    order,       \* order[q]: commerce_orders.status, "none" before it exists
    attempt,     \* attempt[q]: commerce_payment_attempts.status
    bound,       \* quotes whose attempt carries a provider order
    settledBy,   \* settledBy[q]: razorpay_payment_id in the attempt's result
    payments,    \* payments[m]: what Razorpay did with payment m
    events,      \* events[m]: the webhook's idempotency record
    callback     \* callback[c]: the confirmation or webhook c is serving

paymentVars == <<order, attempt, bound, settledBy, payments, events, callback>>

OrderStatus == {"none", "payment_pending", "paid", "payment_failed",
                "payment_unknown", "cancelled"}
AttemptStatus == {"none", "pending", "succeeded", "failed", "unknown", "reconciled"}
Captured == {"succeeded", "reconciled"}
Payment == [quote : Quotes \cup {NoQuote}, outcome : {"none", "succeeded", "failed"}]
CallbackState == [pc : {"idle", "reading", "recording", "applied", "refused"},
                  payment : Payments \cup {NoPayment},
                  source : {"checkout", "webhook"}]
NotPaying == [quote |-> NoQuote, outcome |-> "none"]
NoCallback == [pc |-> "idle", payment |-> NoPayment, source |-> "webhook"]

PaymentTypeOK ==
    /\ order \in [Quotes -> OrderStatus]
    /\ attempt \in [Quotes -> AttemptStatus]
    /\ bound \in SUBSET Quotes
    /\ settledBy \in [Quotes -> Payments \cup {NoPayment}]
    /\ payments \in [Payments -> Payment]
    /\ events \in [Payments -> {"none", "pending", "success", "failure"}]
    /\ callback \in [Callbacks -> CallbackState]

PaymentInit ==
    /\ order = [q \in Quotes |-> "none"]
    /\ attempt = [q \in Quotes |-> "none"]
    /\ bound = {}
    /\ settledBy = [q \in Quotes |-> NoPayment]
    /\ payments = [m \in Payments |-> NotPaying]
    /\ events = [m \in Payments |-> "none"]
    /\ callback = [c \in Callbacks |-> NoCallback]

-----------------------------------------------------------------------------

\* create_order_and_payment.
OpenAttempt(q) ==
    /\ order' = [order EXCEPT ![q] = "payment_pending"]
    /\ attempt' = [attempt EXCEPT ![q] = "pending"]

\* Variant: the order takes the payment's status.
PaymentOrderSame(result) == result

PaymentOrderTarget(result) ==
    IF result \in Captured THEN "paid"
    ELSE IF result = "failed" THEN "payment_failed" ELSE "payment_unknown"

\* Variant: neither transition is required.
SettleableAlways(q) == order[q] # "none"

\* The two require_transition of record_payment_result.
Settleable(q) == attempt[q] = "pending" /\ order[q] = "payment_pending"

\* set_payment_status: the result replaces the attempt's.
Settle(q, result, m) ==
    /\ attempt' = [attempt EXCEPT ![q] = result]
    /\ order' = [order EXCEPT ![q] = PaymentOrderTarget(result)]
    /\ settledBy' = [settledBy EXCEPT ![q] = m]

\* create_razorpay_checkout_order: the rows stay locked while Razorpay answers.
\* An attempt already bound hands out its provider order again, without effect;
\* a provider order whose transaction rolled back was never handed out.
CreateProviderOrder(q) ==
    /\ Settleable(q)
    /\ q \notin bound
    /\ bound' = bound \cup {q}
    /\ UNCHANGED <<order, attempt, settledBy, payments, events, callback>>

\* External: the buyer pays a provider order they were handed.
PayAtProvider(q, m, outcome) ==
    /\ q \in bound
    /\ payments[m] = NotPaying
    /\ payments' = [payments EXCEPT ![m] = [quote |-> q, outcome |-> outcome]]
    /\ UNCHANGED <<order, attempt, bound, settledBy, events, callback>>

\* transition_order to "cancelled", by either side, takes no look at the attempt.
CancelOrder(q) ==
    /\ order[q] \in {"payment_pending", "payment_unknown", "paid"}
    /\ order' = [order EXCEPT ![q] = "cancelled"]
    /\ UNCHANGED <<attempt, bound, settledBy, payments, events, callback>>

\* reconcile_payment: an unknown result is resolved either way.
ReconcilePayment(q, outcome) ==
    /\ attempt[q] = "unknown"
    /\ order[q] = "payment_unknown"
    /\ Settle(q, IF outcome = "succeeded" THEN "reconciled" ELSE "failed", NoPayment)
    /\ UNCHANGED <<bound, payments, events, callback>>

-----------------------------------------------------------------------------
(* A confirmation or a webhook: three transactions, the last one only of a *)
(* webhook.                                                                *)

\* confirm_razorpay_checkout: Razorpay signs the ids of a captured payment.
StartConfirm(c, m) ==
    /\ callback[c].pc = "idle"
    /\ payments[m].outcome = "succeeded"
    /\ callback' = [callback EXCEPT ![c] =
                        [pc |-> "reading", payment |-> m, source |-> "checkout"]]
    /\ UNCHANGED <<order, attempt, bound, settledBy, payments, events>>

\* create_or_get finds a recorded success: the duplicate is answered from it.
AlreadyAnswered(m) == events[m] = "success"

\* apply_razorpay_webhook up to its first COMMIT.
StartWebhook(c, m) ==
    /\ callback[c].pc = "idle"
    /\ payments[m] # NotPaying
    /\ ~AlreadyAnswered(m)
    /\ events' = [events EXCEPT ![m] = IF @ = "none" THEN "pending" ELSE @]
    /\ callback' = [callback EXCEPT ![c] =
                        [pc |-> "reading", payment |-> m, source |-> "webhook"]]
    /\ UNCHANGED <<order, attempt, bound, settledBy, payments>>

\* "payment already captured with a different id" is raised otherwise.
SameCapture(q, m) == settledBy[q] \in {NoPayment, m}

\* The reading transaction of apply_provider_payment_result.
ReadAttempt(c) ==
    LET m == callback[c].payment
        q == payments[m].quote
        want == payments[m].outcome
        next ==
            IF attempt[q] = "pending" THEN "recording"
            ELSE IF \/ attempt[q] \in Captured /\ want = "succeeded" /\ SameCapture(q, m)
                    \/ attempt[q] \in Captured \cup {"failed"} /\ want = "failed"
            THEN "applied" ELSE "refused"
    IN
    /\ callback[c].pc = "reading"
    /\ callback' = [callback EXCEPT ![c].pc = next]
    /\ UNCHANGED <<order, attempt, bound, settledBy, payments, events>>

\* Variant: the lost race is answered as if it had been won.
AgreesAlways(q, want) == TRUE

\* The except branch: what another caller recorded is what this one wanted.
Agrees(q, want) ==
    \/ want = "succeeded" /\ attempt[q] \in Captured
    \/ want = "failed" /\ attempt[q] = "failed"

\* record_payment_result, or the answer to its CommerceConflict.
RecordProviderResult(c) ==
    LET m == callback[c].payment
        q == payments[m].quote
        want == payments[m].outcome
    IN
    /\ callback[c].pc = "recording"
    /\ \/ /\ Settleable(q)
          /\ Settle(q, want, m)
          /\ callback' = [callback EXCEPT ![c].pc = "applied"]
       \/ /\ ~Settleable(q)
          /\ callback' = [callback EXCEPT ![c].pc =
                              IF Agrees(q, want) THEN "applied" ELSE "refused"]
          /\ UNCHANGED <<order, attempt, settledBy>>
    /\ UNCHANGED <<bound, payments, events>>

\* The outcome of the webhook is recorded; a confirmation only answers.
AnswerCallback(c) ==
    /\ callback[c].pc \in {"applied", "refused"}
    /\ events' = IF callback[c].source = "checkout" THEN events
                 ELSE [events EXCEPT ![callback[c].payment] =
                          IF callback[c].pc = "applied" THEN "success" ELSE "failure"]
    /\ callback' = [callback EXCEPT ![c] = NoCallback]
    /\ UNCHANGED <<order, attempt, bound, settledBy, payments>>

\* The process dies between two transactions.
DropCallback(c) ==
    /\ callback[c].pc # "idle"
    /\ callback' = [callback EXCEPT ![c] = NoCallback]
    /\ UNCHANGED <<order, attempt, bound, settledBy, payments, events>>

\* Provider orders are made on one rail only, callbacks served on either.
PaymentNext ==
    \/ \E q \in Quotes : CancelOrder(q)
    \/ \E q \in Quotes, outcome \in {"succeeded", "failed"} : ReconcilePayment(q, outcome)
    \/ \E q \in Quotes, m \in Payments, outcome \in {"succeeded", "failed"} :
            PayAtProvider(q, m, outcome)
    \/ \E c \in Callbacks, m \in Payments : StartConfirm(c, m) \/ StartWebhook(c, m)
    \/ \E c \in Callbacks : ReadAttempt(c)
    \/ \E c \in Callbacks : RecordProviderResult(c)
    \/ \E c \in Callbacks : AnswerCallback(c)
    \/ \E c \in Callbacks : DropCallback(c)

-----------------------------------------------------------------------------

\* A webhook answered as applied has left its outcome in the attempt: a
\* captured payment paid it, a failed one found it settled.  The answer comes
\* two transactions after the attempt was read, between them other
\* confirmations, webhooks and cancellations.
EventSettled ==
    \A m \in Payments :
        events[m] = "success" =>
            attempt[payments[m].quote] \in
                Captured \cup (IF payments[m].outcome = "failed" THEN {"failed"} ELSE {})

\* The payment an attempt was settled by never changes, however many payments,
\* confirmations and webhooks follow.
CaptureIsFinal ==
    [][\A q \in Quotes : settledBy[q] # NoPayment => settledBy'[q] = settledBy[q]]_settledBy

=============================================================================
