--------------------------- MODULE BuyerCheckout ---------------------------
(***************************************************************************)
(* The Buyer's checkout saga: a quote is evaluated under the Buyer's       *)
(* mandate, approved where it exceeds the order limit, and executed in     *)
(* four transactions (claim the key, prepare the order, record the         *)
(* payment, record the outcome) that duplicates join, that processes die   *)
(* between, and that Razorpay's confirmations and webhooks overtake        *)
(* (checkout_orchestrator.py over commerce_v1.py).                         *)
(*                                                                         *)
(* The rows of authority are BuyerAuthority's, the orders, attempts and    *)
(* callbacks RazorpayPayments'.  A request is a quote bound for one actor. *)
(* Reads a READ COMMITTED transaction makes before it locks its quote are  *)
(* a step of their own; the rest of the transaction is another.            *)
(***************************************************************************)
EXTENDS BuyerAuthority, RazorpayPayments

CONSTANTS
    QuoteOf,      \* the quote a request is bound to
    Keys,         \* idempotency keys the client uses
    Runners,      \* checkout calls the gateway serves at the same time
    Rails,        \* payment rails the deployment may be configured for
    Bounds,       \* per rail: requests, calls served at a time, decisions and
                  \* intents together, statuses the owner gives the agent,
                  \* and whether time passes
    NoKey, NoDecision

ASSUME QuoteAssumption == QuoteOf \in [Requests -> Quotes]
ASSUME RailAssumption == Rails \subseteq {"simulated", "razorpay_test"}
ASSUME BoundAssumption ==
    Bounds \in [Rails -> [requests : SUBSET Requests, calls : Nat, rows : Nat,
                          statuses : SUBSET {"active", "paused", "revoked"},
                          clock : BOOLEAN]]
ASSUME NullAssumption == NoKey \notin Keys /\ NoDecision \notin Decisions

VARIABLES
    rail,        \* resolve_payment_rail of the deployment
    quote,       \* quote[q]: commerce_quotes.status
    expired,     \* quotes past expires_at
    prepared,    \* prepared[k]: idempotency record of prepare_checkout under k
    intents,     \* intents[k]: the execution intent of key k
    receipts,    \* signed receipts, by the key whose intent they record
    runner       \* runner[r]: the call r is serving and how far it got

quoteVars == <<quote, expired>>
sagaVars == <<rail, prepared, intents, receipts, runner>>
vars == <<authorityVars, paymentVars, quoteVars, sagaVars>>

IntentRow == [status : {"absent", "executing", "succeeded", "failed"},
              req : Requests \cup {NoRequest},
              decision : Decisions \cup {NoDecision}, hasResult : BOOLEAN]
Receipt == [key : Keys, status : {"executed", "failed", "pending"}]
RunnerState ==
    [pc : {"idle", "evaluating", "checked", "claimed", "prepared", "paying",
           "verified", "failing"},
     req : Requests \cup {NoRequest}, key : Keys \cup {NoKey},
     decision : Decisions \cup {NoDecision},
     verdict : Verdicts \cup {"absent"}, ver : 0..MaxVersion,
     joined : BOOLEAN, hasResult : BOOLEAN, seen : AttemptStatus]

NoIntent == [status |-> "absent", req |-> NoRequest, decision |-> NoDecision,
             hasResult |-> FALSE]
IdleRunner == [pc |-> "idle", req |-> NoRequest, key |-> NoKey,
               decision |-> NoDecision, verdict |-> "absent", ver |-> 0,
               joined |-> FALSE, hasResult |-> FALSE, seen |-> "none"]

TypeOK ==
    /\ AuthorityTypeOK
    /\ PaymentTypeOK
    /\ rail \in Rails
    /\ quote \in [Quotes -> {"open", "consumed", "released"}]
    /\ expired \in SUBSET Quotes
    /\ prepared \in [Keys -> {"none", "success", "failure"}]
    /\ intents \in [Keys -> IntentRow]
    /\ receipts \in SUBSET Receipt
    /\ runner \in [Runners -> RunnerState]

\* Quotes are previewed before they can be evaluated.
Init ==
    /\ AuthorityInit
    /\ PaymentInit
    /\ rail \in Rails
    /\ quote = [q \in Quotes |-> "open"]
    /\ expired = {}
    /\ prepared = [k \in Keys |-> "none"]
    /\ intents = [k \in Keys |-> NoIntent]
    /\ receipts = {}
    /\ runner = [r \in Runners |-> IdleRunner]

AtStep(r, pc) == runner[r].pc = pc
GoTo(r, pc) == runner' = [runner EXCEPT ![r].pc = pc]
HasCapacity == Cardinality({r \in Runners : ~AtStep(r, "idle")}) < Bounds[rail].calls
HasRoom ==
    Cardinality({d \in Decisions : decisions[d] # NoDecisionRow})
        + Cardinality({k \in Keys : intents[k] # NoIntent}) < Bounds[rail].rows
QuoteOfRunner(r) == QuoteOf[runner[r].req]

-----------------------------------------------------------------------------
(* evaluate_checkout.                                                      *)

\* _authority, before the quote is locked.
BeginEvaluate(r, q) ==
    /\ AtStep(r, "idle")
    /\ HasCapacity
    /\ HasAuthority(ActorOf[q])
    /\ runner' = [runner EXCEPT ![r] =
        [IdleRunner EXCEPT !.pc = "evaluating", !.req = q, !.ver = current,
                           !.verdict = mandates[current].policy[q]]]
    /\ UNCHANGED <<authorityVars, paymentVars, quoteVars, rail, prepared, intents, receipts>>

\* The open quote is locked, the decision recorded, the approval issued.
RecordDecision(r, d) ==
    /\ AtStep(r, "evaluating")
    /\ HasRoom
    /\ quote[QuoteOfRunner(r)] = "open"
    /\ QuoteOfRunner(r) \notin expired
    /\ InsertDecision(d, runner[r].verdict, runner[r].req, runner[r].ver)
    /\ runner' = [runner EXCEPT ![r] = IdleRunner]
    /\ UNCHANGED <<mandateVars, lapsed, paymentVars, quoteVars, rail, prepared, intents,
                   receipts>>

-----------------------------------------------------------------------------
(* execute_checkout, first transaction.                                    *)

\* Authority, decision and approval as read before the quote is locked.
CheckCheckout(r, d, k) ==
    /\ AtStep(r, "idle")
    /\ HasCapacity
    /\ decisions[d] # NoDecisionRow
    /\ HasAuthority(ActorOf[decisions[d].req])
    /\ Unexpired(d)
    /\ decisions[d].ver = current
    /\ runner' = [runner EXCEPT ![r] =
        [IdleRunner EXCEPT !.pc = "checked", !.req = decisions[d].req,
                           !.key = k, !.decision = d]]
    /\ UNCHANGED <<authorityVars, paymentVars, quoteVars, rail, prepared, intents, receipts>>

\* What a call that created its intent must still find.
MayStart(r) ==
    LET q == QuoteOfRunner(r) IN
    /\ quote[q] = "open"
    /\ q \notin expired
    /\ decisions[runner[r].decision].status \in {"allow", "need_approval"}
    /\ NeedsApproval(runner[r].decision) =>
           Consumable(runner[r].decision, ActorOf[runner[r].req])

\* created: bind the key to the request, consume the approval, execute.
ClaimCheckout(r) ==
    LET k == runner[r].key IN
    /\ AtStep(r, "checked")
    /\ HasRoom
    /\ intents[k] = NoIntent
    /\ MayStart(r)
    /\ intents' = [intents EXCEPT ![k] =
        [status |-> "executing", req |-> runner[r].req,
         decision |-> runner[r].decision, hasResult |-> FALSE]]
    /\ approvals' = Spend(runner[r].decision)
    /\ GoTo(r, "claimed")
    /\ UNCHANGED <<mandateVars, decisions, lapsed, paymentVars, quoteVars, rail, prepared,
                   receipts>>

\* The key is in flight for this very request: the call goes through the same
\* steps, without an approval of its own.  A failed or succeeded intent answers.
JoinCheckout(r) ==
    LET k == runner[r].key IN
    /\ AtStep(r, "checked")
    /\ intents[k].status = "executing"
    /\ intents[k].req = runner[r].req
    /\ runner' = [runner EXCEPT ![r].pc = "claimed", ![r].joined = TRUE,
                                ![r].hasResult = intents[k].hasResult]
    /\ UNCHANGED <<authorityVars, paymentVars, quoteVars, rail, prepared, intents, receipts>>

-----------------------------------------------------------------------------
(* The commerce transactions between claim and outcome.                    *)

\* create_or_get found the response of an earlier prepare under this key.
Replayed(k) == prepared[k] = "success"

\* prepare_checkout: one order per quote, one answer per key.  A quote that
\* expired, or whose cart or inventory moved since the preview (which may have
\* happened to any), is released and the failure recorded; a quote that is not
\* open rolls back.
PrepareCheckout(r) ==
    LET k == runner[r].key
        q == QuoteOfRunner(r)
        opening == ~Replayed(k) /\ prepared[k] # "failure" /\ quote[q] = "open"
    IN
    /\ AtStep(r, "claimed")
    /\ \/ /\ Replayed(k)
          /\ GoTo(r, "prepared")
          /\ UNCHANGED <<quote, prepared, order, attempt>>
       \/ /\ ~Replayed(k)
          /\ prepared[k] = "failure" \/ quote[q] # "open"
          /\ GoTo(r, "failing")
          /\ UNCHANGED <<quote, prepared, order, attempt>>
       \/ /\ opening
          /\ quote' = [quote EXCEPT ![q] = "released"]
          /\ prepared' = [prepared EXCEPT ![k] = "failure"]
          /\ GoTo(r, "failing")
          /\ UNCHANGED <<order, attempt>>
       \/ /\ opening
          /\ q \notin expired
          /\ OpenAttempt(q)
          /\ quote' = [quote EXCEPT ![q] = "consumed"]
          /\ prepared' = [prepared EXCEPT ![k] = "success"]
          /\ GoTo(r, "prepared")
    /\ UNCHANGED <<authorityVars, bound, settledBy, payments, events, callback, expired,
                   rail, intents, receipts>>

\* A duplicate whose intent already holds a result answers it again.
AnswersStored(r, now) ==
    /\ runner[r].joined
    /\ runner[r].hasResult
    /\ now = "unknown" \/ (now = "pending" /\ rail = "razorpay_test")

\* A settled attempt satisfies this call; otherwise "payment is already ...".
Satisfies(r, now, want) ==
    \/ runner[r].joined
    \/ want = "succeeded" /\ now \in Captured
    \/ now = want

\* get_payment_state and the branches on it; want is the payment_outcome asked.
ReadPayment(r, want) ==
    LET now == attempt[QuoteOfRunner(r)] IN
    /\ AtStep(r, "prepared")
    /\ runner' = [runner EXCEPT ![r] =
        IF AnswersStored(r, now) THEN IdleRunner
        ELSE [@ EXCEPT !.seen = now,
                       !.pc = IF now = "pending"
                              THEN IF rail = "simulated" THEN "paying" ELSE "verified"
                              ELSE IF Satisfies(r, now, want) THEN "verified" ELSE "failing"]]
    /\ UNCHANGED <<authorityVars, paymentVars, quoteVars, rail, prepared, intents, receipts>>

\* record_payment_result on the simulated rail.
RecordPayment(r, want) ==
    LET q == QuoteOfRunner(r) IN
    /\ AtStep(r, "paying")
    /\ \/ /\ Settleable(q)
          /\ Settle(q, want, NoPayment)
          /\ runner' = [runner EXCEPT ![r].pc = "verified", ![r].seen = want]
       \/ /\ ~Settleable(q)
          /\ GoTo(r, "failing")
          /\ UNCHANGED <<order, attempt, settledBy>>
    /\ UNCHANGED <<authorityVars, bound, payments, events, callback, quoteVars, rail,
                   prepared, intents, receipts>>

-----------------------------------------------------------------------------
(* The outcome: last transaction of execute_checkout.                      *)

IntentStatusFor(seen) ==
    IF seen \in Captured THEN "succeeded"
    ELSE IF seen = "failed" THEN "failed" ELSE "executing"

\* Variant: whatever is not failed is reported as executed.
ReceiptUnlessFailed(seen) == IF seen = "failed" THEN "failed" ELSE "executed"

ReceiptStatusFor(seen) ==
    IF seen \in Captured THEN "executed"
    ELSE IF seen = "failed" THEN "failed" ELSE "pending"

\* The intent takes the outcome of the payment as it was read, with a receipt.
RecordOutcome(r) ==
    LET k == runner[r].key IN
    /\ AtStep(r, "verified")
    /\ intents' = [intents EXCEPT ![k].status = IntentStatusFor(runner[r].seen),
                                  ![k].hasResult = TRUE]
    /\ receipts' = receipts \cup
        {[key |-> k, status |-> ReceiptStatusFor(runner[r].seen)]}
    /\ runner' = [runner EXCEPT ![r] = IdleRunner]
    /\ UNCHANGED <<authorityVars, paymentVars, quoteVars, rail, prepared>>

\* The except branch: whatever raised, the intent is failed for good.
RecordFailure(r) ==
    /\ AtStep(r, "failing")
    /\ intents' = [intents EXCEPT ![runner[r].key].status = "failed",
                                  ![runner[r].key].hasResult = TRUE]
    /\ runner' = [runner EXCEPT ![r] = IdleRunner]
    /\ UNCHANGED <<authorityVars, paymentVars, quoteVars, rail, prepared, receipts>>

\* A refusal rolls its transaction back; a process may also die in between.
Abandon(r) ==
    /\ runner[r].pc # "idle"
    /\ runner' = [runner EXCEPT ![r] = IdleRunner]
    /\ UNCHANGED <<authorityVars, paymentVars, quoteVars, rail, prepared, intents, receipts>>

-----------------------------------------------------------------------------
(* What happens to a quote from outside the saga.                          *)

\* expires_at passes, for the quote and the decisions bound to it.
ExpireQuote(q) ==
    /\ Bounds[rail].clock
    /\ q \notin expired
    /\ expired' = expired \cup {q}
    /\ lapsed' = lapsed \cup
        {d \in Decisions : decisions[d] # NoDecisionRow /\ QuoteOf[decisions[d].req] = q}
    /\ UNCHANGED <<mandateVars, decisions, approvals, paymentVars, quote, sagaVars>>

\* expire_quote, or the sweep a preview starts with.
SweepQuote(q) ==
    /\ quote[q] = "open"
    /\ q \in expired
    /\ quote' = [quote EXCEPT ![q] = "released"]
    /\ UNCHANGED <<authorityVars, paymentVars, expired, sagaVars>>

-----------------------------------------------------------------------------

AuthorityNext ==
    /\ \/ EnsureAgent
       \/ \E policy \in Policies : CompileMandate(policy)
       \/ ConfirmMandate
       \/ \E new \in Bounds[rail].statuses : SetAgentStatus(new)
       \/ Bounds[rail].clock /\ \E d \in Decisions : Lapse(d)
    /\ UNCHANGED <<paymentVars, quoteVars, sagaVars>>

SagaStep(r) ==
    \/ \E q \in Bounds[rail].requests : BeginEvaluate(r, q)
    \/ \E d \in Decisions : RecordDecision(r, d)
    \/ \E d \in Decisions, k \in Keys : CheckCheckout(r, d, k)
    \/ ClaimCheckout(r)
    \/ JoinCheckout(r)
    \/ PrepareCheckout(r)
    \/ \E want \in {"succeeded", "failed", "unknown"} :
            ReadPayment(r, want) \/ RecordPayment(r, want)
    \/ RecordOutcome(r)
    \/ RecordFailure(r)
    \/ Abandon(r)

PaymentsNext ==
    /\ \/ PaymentNext
       \/ rail = "razorpay_test" /\ \E q \in Quotes : CreateProviderOrder(q)
    /\ UNCHANGED <<authorityVars, quoteVars, sagaVars>>

Next ==
    \/ AuthorityNext
    \/ \E r \in Runners : SagaStep(r)
    \/ PaymentsNext
    \/ \E q \in Quotes : ExpireQuote(q) \/ SweepQuote(q)

Spec == Init /\ [][Next]_vars

-----------------------------------------------------------------------------

\* An order exists only for an authorised request: exactly one key prepared
\* it, and that key is bound to a decision for this very request that allowed
\* it or whose approval is spent.  Claim and order are two transactions, with
\* pauses, new mandates, expiries, duplicates and crashes in between.
OrderAuthorised ==
    \A q \in Quotes : order[q] # "none" =>
        \E k \in Keys :
            /\ prepared[k] = "success"
            /\ QuoteOf[intents[k].req] = q
            /\ decisions[intents[k].decision].req = intents[k].req
            /\ Authorises(intents[k].decision)
            /\ \A j \in Keys \ {k} :
                   prepared[j] = "success" => QuoteOf[intents[j].req] # q

\* What the Buyer is told stays true: an executed receipt and a succeeded
\* intent are of a captured payment, a failed receipt of a failed one, whoever
\* recorded the payment and whenever the outcome was written.
OutcomeTrue ==
    /\ \A c \in receipts :
        LET q == QuoteOf[intents[c.key].req] IN
        /\ c.status = "executed" => attempt[q] \in Captured
        /\ c.status = "failed" => attempt[q] = "failed"
    /\ \A k \in Keys : intents[k].status = "succeeded" =>
           attempt[QuoteOf[intents[k].req]] \in Captured

\* A call that read the clock while d was in time has d in hand.
InHand(d) == \E r \in Runners : AtStep(r, "checked") /\ runner[r].decision = d

\* An approval nobody may spend any more.
Dead(d) == d \in lapsed /\ approvals[d] # "consumed" /\ ~InHand(d)

\* An approval is consumed only under the mandate it was issued under and by an
\* agent that is active, or paused when its owner acts in person, whatever
\* committed while the call waited for its quote.  Expiry does not stop a call
\* that read the clock in time; once none is left, a lapsed approval is never
\* spent.
ConsumeUnderLiveAuthority ==
    [][\A d \in Decisions :
            /\ approvals[d] # "consumed" /\ approvals'[d] = "consumed" =>
                /\ approvals[d] = "issued"
                /\ current = decisions[d].ver
                /\ \/ status = "active"
                   \/ status = "paused" /\ ActorOf[decisions[d].req] = "user"
            /\ Dead(d) => Dead(d)'
      ]_vars

\* The approval column implements the one-time approval.
Approval == INSTANCE OneTimeApproval WITH Approvals <- Decisions, approval <- approvals
OneTime == Approval!Spec

=============================================================================
