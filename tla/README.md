# Verification of the AadhaarChain gateway

TLA+ models of the commerce gateway (`src/gateway/app`, FastAPI over PostgreSQL), TLC
configurations that check them on small instances, and TLAPS proofs of their main properties for
every instance.  Paths below are relative to the repository; `app/` is `src/gateway/app/`.

## The system

The gateway serves Buyers and Sellers. An agent acting for either may only run a *protected
action* (accept or cancel an order, commit a fulfilment, issue a refund, publish an item, pay) under
a mandate its owner confirmed. AgentGuard evaluates the action, asks for a human approval where the
mandate says so, and consumes that approval when it executes. The effects are transactions of the
commerce ledger. ONDC and Razorpay talk to the same tables by callbacks and webhooks.

| Component | State | Operations | What is hard |
|---|---|---|---|
| Seller AgentGuard: `app/seller_agentguard_orchestrator.py`, `app/persistence/agentguard_repository.py` | agent, mandate versions, decisions, approvals, execution intents, receipts | ensure, compile, confirm, pause/resume/revoke, evaluate, execute | `execute` is two transactions with the effect between them; duplicates join, stale intents are reclaimed, the owner changes authority at any time |
| Commerce ledger: `app/commerce_v1.py`, `app/persistence/commerce_repository.py`, `app/commerce_compat.py`, `app/domain_state_machines.py` | inventory (available, reserved), carts, quotes, reservations, orders, payment attempts, ledger, refunds, idempotency records | upsert, cart lines, preview, expire, prepare, payment result, reconcile, refund, order transitions | a cached `reserved` counter adjusted by six handlers; quotes outdated by versions; four status columns that must agree |
| ONDC inbox and outbox: `app/persistence/ondc_repository.py`, `app/ondc_routes.py`, `app/ondc_bpp.py` | queue rows with state, retry count, lease | persist before ACK, stage, claim, deliver, retry, dead-letter, requeue, drain | leases that expire under a working sender, crashes between ACK and work, replays |
| Buyer guard and checkout: `app/checkout_orchestrator.py`, `app/persistence/agentguard_repository.py` | as the Seller guard, plus the quote an approval is bound to | ensure, compile, confirm, pause/resume/revoke, evaluate, execute checkout | claim, order, payment and outcome are four transactions; duplicates join; webhooks overtake the call |
| Razorpay: `app/razorpay.py`, `app/commerce_v1.py` | provider orders and payments, webhook records | checkout order, confirmation, webhook, provider result, reconcile | confirmation, webhook and failure in any order, each retried |
| Fulfilment callbacks, returns, issues: `app/commerce_v1.py`, `app/commerce_compat.py`, `app/domain_state_machines.py` | delivery and retail bindings with their history, return, refund, issues, remedies | LOG10 and RET10 callbacks, order moves, return, refund, IGM messages | one callback moves several machines; duplicates, stale and unreadable timestamps; a partial failure commits |
| Buyer protected actions: `app/checkout_orchestrator.py` | intents and receipts | evaluate and execute a cancellation, a return, the acceptance of a remedy | claim, effect and outcome are three transactions; callbacks reach the order first |
| File-mode AgentGuard: `app/agentguard.py` | the guard in one JSON file | as the Seller guard, for Buyer and Seller | saves in sequence, cut by a crash; approvals lost with their effect |
| Demo store: `app/commerce_demo.py`, `app/payment_adapter.py` | items, orders, issues, remembered idempotency keys in a JSON file; payments in memory | checkout, cancel, refund, publish, archive, return, remedy, cleanup | the guard's file and the store's are saved one after the other |
| Sessions: `app/session_registry.py`, `app/session_auth.py`, `app/persistence/session_registry_store.py` | live and revoked sessions in memory and as rows | register, revoke one, revoke all, reload | memory changes before the write, writes overtake each other and fail, restarts reload the rows |
| Identity verification: `app/agent_manager.py`, `app/routes.py`, `app/setu_ekyc.py`, `app/state_store.py` | one record per document in memory and in the store; background runs; pending Setu requests | submit, run (fraud, compliance, chain), review, revoke, Setu callback | runs and reviews await while the record is replaced or revoked |
| Cart sessions: `app/cart_sessions.py` | a JSON cart per session | load, modify, save | lost updates |
| The rest (ONDC search and signatures, voice, tools, HTTP surface, frontend, QA) | none or I/O | | not modelled, see the end |

Components meet in three places: an AgentGuard effect is a commerce transaction of its own; a
payment result or callback moves an order that an AgentGuard action may be moving too; and every
write that a client may retry goes through an idempotency record. The parts of the process that keep
their state in memory (sessions, the file mode, verification) share nothing else.

## Modules

| Module | What it is |
|---|---|
| `OneTimeApproval` | Abstract: what an approval promises (issued once, leaves "issued" once) |
| `AgentGuardSeller` | The Seller guard of one principal, with concurrent requests |
| `AgentGuardSellerProofs` | Its inductive invariant, safety theorems and refinement of `OneTimeApproval` |
| `Purchase` | Abstract: a purchase is held, then sold or dropped, then perhaps refunded, over stock without a counter |
| `Commerce` | The ledger tables and every transaction on them |
| `CommerceProofs` | Its inductive invariant, safety theorems and refinement of `Purchase` |
| `DurableDelivery` | Abstract: an accepted message is delivered after its effect, or parked and queued again |
| `OndcMessaging` | Both ONDC queues, their leases, and every worker on them |
| `OndcMessagingProofs` | Its inductive invariant, safety theorems and refinement of `DurableDelivery` |
| `BuyerAuthority` | The Buyer's agent, mandates, decisions and approvals: the part checkout and protected actions share |
| `BuyerAuthorityProofs` | Lemmas on it: how approvals change, and that authority once found stays |
| `RazorpayPayments` | Orders, payment attempts, Razorpay's confirmations and webhooks |
| `BuyerCheckout` | The checkout saga over both; refines `OneTimeApproval` |
| `BuyerCheckoutProofs` | Its inductive invariant, every property of its run, and the refinement |
| `DomainStateMachines` | The order, return and issue machines, and the walks callbacks make on them |
| `CallbackWalks` | The two walks as the loops of the code, assumed equal to the operators of `DomainStateMachines` and evaluated by TLC |
| `Aftersales` | Abstract: order, return, refund and issues of one sale |
| `Fulfilment` | Bindings, LOG10 and RET10 callbacks, returns and refunds of one order |
| `Issues` | Issues, their owners and due dates, IGM messages |
| `BuyerActions` | The Buyer's protected actions over `BuyerAuthority`, `Fulfilment` and `Issues`; refines `Aftersales` |
| `BuyerActionsProofs` | Its inductive invariant, every property of its run, and the refinement |
| `DemoStore`, `FileGuard` | The demo store, and the file-mode guard that acts on it; `FileGuard` refines `OneTimeApproval` |
| `FileGuardProofs` | Its invariant of every prefix of a handler's saves, every property of its part of the run, and the refinement |
| `Sessions` | The session registry |
| `Verification` | The verification of documents |
| `IdentityProofs` | The invariants and theorems of `Sessions` and of `Verification` |
| `MCAgentGuardSeller`, `MCCommerce`, `MCOndcMessaging`, `MCBuyerCheckout`, `MCFulfilment`, `MCGateway` | Constants and symmetry for TLC; `MCGateway` also puts sessions, file mode and verification into one run |

### How the models follow the code

*One action is one committed transaction*, since PostgreSQL makes its writes visible together and
the handlers lock the rows they decide on (`FOR UPDATE`, or the `WHERE` clause of the `UPDATE`).
A handler that raises rolls back and is no step. Where a handler decides on rows it does not
lock, its reads and its writes are two actions (`ReadAuthority` and `RecordDecision`,
`BeginConfirm` and `CommitConfirm`, `CheckRequest` and `Claim`), so that other transactions come in
between. A handler of several transactions is a runner with a program counter.

`AgentGuardSeller`. A runner is one HTTP request inside the gateway. `CheckRequest` is the reading
half of `execute`'s first transaction, `Claim` the writing half when `create_execution_intent`
answers created (bind the key, consume the approval), `Join` when the key is in flight for the same
request, `AnswerWithoutEffect` every other answer. `RunEffect` is `_execute_effect`, and `Complete`,
`RecordMissingOrder` and `ReleaseFailed` are the transactions that record the outcome. `Crash` is a
process death or a lost connection. A request hash is one value, a mandate payload the verdict it
gives each request, and time the sets `lapsed` (approvals past their ten minutes) and `stale`
(intents past `STALE_INTENT_RECLAIM_SECONDS`). `lapsed` is asked once, in `CheckRequest`, where `execute` reads the
clock (`Unexpired`): `NOW()` in the `UPDATE` of `consume_approval` is the start of the same transaction and so older than
that, and a request that waits for a row after it read the clock may spend an approval that lapsed meanwhile. A
confirmation is one of `Confirmers`, which may overlap each other and the compiles. Refunds differ from the other actions as in
the code: their in-flight keys are never reclaimed and their effect may find no such order.

`Commerce`. A quote names its reservations, its order, the attempt and the refund, because the
`UNIQUE` columns allow one of each. `outdated` replaces the version columns: the quotes whose cart or
inventory version is not the one they were previewed at. `lapsed` replaces the clock. Amounts are
left out, since every posting of an order takes the amount of its quote and a refund any amount up to
it. `Settle` is the common end of `record_payment_result` and `reconcile_payment`: the attempt, the
order, the reservations and the posting.

`OndcMessaging`. A record is one event commitment, the unique column of its table. Time is the sets
`expired` (leases past `lease_expires_at`) and `waiting` (rows whose `next_attempt_at` is still to
come); either may pass at any moment, so a worker may lose its lease between any two of its steps. A
lease token is the worker that claimed, which is as good as a fresh one because a worker only claims
when it holds none. Workers are HTTP requests and background tasks: `ReceiveRequest` and
`ReceiveCallback` persist before the ACK, `StageAnswer` and `ClaimCallback` start the background
work, `Dispatch` is the inline delivery of a Buyer request, `Drain` claims a batch under one lease.
`Send` may be acknowledged without the worker learning it. `ReconcileCallback` is the whole
transaction of `apply_retail_update` or `apply_logistics_update`, of which three things matter here: that the callback's
provider is the one bound to its order (`Bound`), whether it was processed before (`Processed`), and that it had its
effect (`applied`). `BindProvider` replaces the binding, and with it the list of processed callbacks, as the first binding
and `rebind_rejected_logistics_provider` do. After a rebinding A, B, A a callback of A whose record is still to be
delivered is applied again, so what holds is at most once for every binding of its provider (`EffectOnce`), not once for
good. `ReconcileRequest` is what a drain does to a BPP request: nothing. `DoubtSuccess`
is the `try` that also covers `mark_delivered`, and `Abandon` every way to stop half-way.

`BuyerAuthority`. As the Seller guard's rows, with two differences the code has: a person acting for
themselves may use a paused agent, and `confirm_mandate` answers the current mandate when there is
one, which is no step. `lapsed` is the set of decisions past their expiry, which their approvals
share. It is asked where `execute_checkout` reads the clock (`Unexpired`), before the quote is locked; the consuming
`UPDATE` compares with the start of its transaction and refuses no one for a lapse during the wait.

`BuyerCheckout` and `RazorpayPayments`. A runner is one `execute_checkout` (or an evaluation): `CheckCheckout`
reads authority and decision before the quote is locked, `ClaimCheckout` and `JoinCheckout` are the
rest of the first transaction, `PrepareCheckout`, `RecordPayment` and `RecordOutcome` the three that follow,
`RecordFailure` the `except` branch, `Abandon` a refusal or a death. A callback is one confirmation or webhook in
the gateway: `ReadAttempt` and `RecordProviderResult` are its two transactions, `AnswerCallback` the record of its
answer. An attempt, its order and the quote are one per quote, as the `UNIQUE` columns say. Razorpay
itself is `PayAtProvider`. Some consequences a reader may not expect: a duplicate that loses `record_payment_result`
marks the intent failed although the payment is captured; a capture after a failed webhook is refused
on every redelivery; a cancelled order refuses its capture; a lapsed decision blocks the retry of a
crashed checkout; a joining call needs no approval of its own; `reconcile_payment` has no caller.

`Fulfilment`, `Issues`, `BuyerActions`. `DomainStateMachines` has the tables of `STATE_MACHINES` and the two walks
(`_apply_retail_return`, `apply_igm_legal_path`). One callback is one transaction, with every machine it moves.
A timestamp is a number, 0 when missing and -1 when unreadable. `BuyerActions` is the orchestrator again:
`ClaimAction`, the effect, `RecordOutcome`. What the models show besides the properties: a return past "approved"
refuses every later return callback, so a network refund of it is never attempted; a refund already made under
another key rolls back its RET10 callback for good; an unreadable timestamp makes later timed callbacks stale;
rebinding a provider A, B, A re-opens A's callbacks (which is why `CallbackOnce` counts bindings); a review flag is
cleared by the next callback though a refund is pending; a closed issue stays closed locally when the outgoing
message fails; an effect without its outcome leaves the intent executing and its retry raises, without a receipt.

`FileGuard` and `DemoStore`. The handlers run whole in the event loop, so a handler is one action; but it saves the
guard's file and the store's in turn and a process may die in between, so an action may also stop after any of its
saves. `ExecuteApproved` saves the spent approval and a receipt of it before it tries the effect (`SpendFirst`);
`ExecuteWithin` has no approval: it acts where the mandate allows, and else asks for one. A scenario is a set of requests. What
they show: an approval may be consumed and its effect lost; confirming revives a revoked mandate; a replay under
a used key spends another approval and is receipted as executed (`AuthorityTrail` therefore asks for an effect of the
operation on the same thing, not for a new one, and of what was done on an approval that it is just what the approval
was asked for, with its item and amount); one client key on two orders answers the second with the refund of the first; a refund
the adapter declined still counts as refunded. The fixture cleanup forgets a checkout while the adapter remembers its
charge, so the key used again makes a second order on the same payment: what was paid back is compared per payment
(`RefundsWithinOrder`), with what all its orders say was refunded. A removed order keeps its row, marked removed, as
history for that sum; no operation reads it. The adapter is the simulated one and lives in the process: what it paid
back before a death is forgotten by the adapter, and by `RefundsWithinOrder`.

`Sessions`. A call is one handler at its `await` of the database: memory has changed, the rows have not. `Fail` is the
503 of a failed write, which leaves memory ahead of the rows, `Crash` and `Open` a restart, which takes more than a
second. One gateway process, as `src/gateway/Dockerfile` starts it. `ended` is what callers were told. A retry within
the second of a failed revoke-all does not cover the sessions the first one dropped from memory, and of two revoke-alls
that overtake each other the older may stay: the promise is kept because a session confirmed as revoked is older than both.

`Verification`. A step lasts from one suspending `await` to the next. A record is a mutable object, so a call that holds a
replaced one writes where nobody looks: a record's number says which. `Earned` is what justifies an approval: the
agents' evidence by the rules of `decide`, a reviewer, or Setu. Consequences: an older run's decision may land
on a newer submission; a run or a review in mid-air can verify a record revoked meanwhile; a restart loses background
runs, whose records stay pending; a queued run puts a decided record back to "processing", where the next report of Setu's
decides it again, otherwise if it says otherwise; a recommendation of manual review by compliance alone does not prevent approval;
Setu's approval is never written to the chain.

## Runs

| Run | Shows | Bounds |
|---|---|---|
| `seller_concurrent` | Under overlapping requests, owner actions, crashes and reclaims: every running effect is backed by spent authority for exactly its request (`EffectAuthorised`), an approval binds one key, a succeeded intent has its receipt, consumption happens only under live authority and, once no request that read the clock in time is left, never after a lapse (`ConsumeUnderLiveAuthority`), and the approval column implements `OneTimeApproval` | 1 request hash that needs approval, 2 keys, 2 decisions, 2 runners, 1 confirmation at a time, 3 mandate versions |
| `seller_retry` | With one request at a time and overlapping confirmations: a replay returns the result of its own request, a confirmation activates the draft it read, and a failed effect gives its key back | 2 refunds, 1 key, 2 decisions, 1 runner, 2 confirmations, 2 payloads, 3 versions |
| `seller_success` | **Violation.** Overlapping duplicates: one succeeds, the other fails late and reopens the key, which another request then takes | 2 runners, 1 key |
| `seller_spend` | **Violation.** A request that joins an in-flight key signs a receipt for an approval that is still unspent | 2 runners, 2 decisions |
| `commerce_ledger` | No sequence of previews, expiries, rejections, payments, restocks and refunds oversells a unit or miscounts the held ones; a hold ends with its quote or its payment and with nothing else (`HoldsFollowSales`: the units of an order that is cancelled or failed before it is paid stay held for good, as in the code); ledger and idempotency keys agree with the orders; settled attempts stay settled; the tables implement `Purchase` | 1 sku with up to 2 units, 2 carts, 3 quotes, 2 keys |
| `commerce_paid` | **Violation.** A fulfilment commit with status `paid` pays an order without a payment | 1 sku, 2 carts, 2 quotes |
| `ondc_inbox` | With expired leases, replays, lost outcomes, drains, crashes and rebindings at every step, a retail callback's effect is committed once, a logistics callback's at most once per binding of its provider, and the inbox implements `DurableDelivery` | 1 retail and 1 logistics callback, 1 order, 2 providers bound at most twice each, 2 workers, 2 attempts, drains of 2 |
| `ondc_outbox` | The background task of a request is alone with its answer; delivered rows stay delivered; the outbox implements `DurableDelivery` | 1 dispatch, 1 request with its answer, 2 workers, 2 attempts, drains of 2 |
| `ondc_answered` | **Violation.** A request whose process died after the ACK is marked delivered by a drain and never answered | 1 request with its answer, 2 workers |
| `buyer_checkout` | Concurrent calls of the agent and the user over one quote, pauses, mandates, expiries, confirmations, webhooks, crashes: every order is authorised under one key (`OrderAuthorised`), receipts and webhook answers stay true (`OutcomeTrue`, `EventSettled`), captures are final, approvals are spent under live authority and one-time | 1 quote, 2 requests, 2 decisions, 2 keys, 2 runners, 2 payments, 2 callbacks, 2 mandate versions; per rail `MCBounds`: simulated 2 calls, 3 rows, time passes; Razorpay 1 call of the user, 2 rows, the owner and time stand still |
| `fulfilment` | In six scenarios of one sale: callbacks are applied once per binding, refunds are of captured payments and posted once, answered issues can be pursued, receipts are of actions that happened once, and all of it implements `Aftersales` | deliveries by two providers with 6 callbacks and 2 bindings each; a network seller's 7 callbacks with refunds at Razorpay; a Buyer's return against the network's; a remedy among issue messages; two issues; a cancellation against `on_cancel`; 2 decisions, keys, runners and mandate versions |
| `gateway` | Three parts of one process. Sessions: a confirmed revocation holds. File mode: what was done on an approval is what it was asked for, and effects, limits and receipts agree (`AuthorityTrail`), refunds stay within their orders, in the file and per payment, approvals implement `OneTimeApproval`. Verification: approvals are earned | sessions: 3 of one principal, 2 calls, clock 3; file mode: 9 scenarios, 2 approvals, 2 keys, 2 orders, 2 mandates, limits 0 and 1; verification: 1 document, 2 runs, 1 review, 2 submissions, 1 failed write |

Why the bounds are enough to be interesting. Two runners are the least for a duplicate and two
decisions the least for two approvals of one action; two keys the least for an approval to bind
twice; three versions let a compile slip into a confirmation and a second mandate outdate an
approval. Three quotes of two units on two carts give a lapsed quote, a competing one and a new one
that wants the same last unit. Two workers are the least for a lease to pass from one to another, two
attempts the least for both a retry and a dead letter, two records the least for a batch that loses
its lease half-way. Callbacks with rebindings, a request with its answer, and a dispatch together are too many states for the
minutes a run may take, so the two passing runs of the queues split them; the theorems hold for all
kinds at once. The theorems below remove the bounds for the safety properties.
In `buyer_checkout`, two keys and two decisions give both ways to buy a quote twice (one decision under
two keys, two decisions under one), and the split by rail puts the concurrency of calls on one and of
callbacks on the other. In `fulfilment` each scenario is the least in which two writers meet on one
machine. Three sessions let one be opened between two revocations; two runs and two submissions let an
old run find a new record. Counters are bounded by `MaxVersion`, `MaxQuantity`, `MaxStock`, `MaxBindings`, `MaxClock`,
`MaxMandates`, `MaxSubmissions`, `MaxWrites`, `Bounds`, and the sets of decisions, quotes and keys, each named where it
is declared.

Deadlock is checked in every run but four. In `ondc_outbox`, once its records are delivered and nobody
replays them there is nothing left to do (in `ondc_inbox` a callback can always be replayed). In
`buyer_checkout`, `fulfilment` and `gateway` a finite set of requests, callbacks and submissions is used up: a
sold quote, a closed order with all its callbacks applied, or a clock at its bound.

Fairness. `FairSpec` of `AgentGuardSeller` is weak fairness of `Serve(r)`, one runner's own next
step: asyncio keeps running a coroutine whose database calls return, and each step of a runner stays
enabled until it is taken. Owners, clients, clocks and crashes get none. `FailedEffectReleasesKey` is
checked with crashes during the effect only: the release of a failed effect is a transaction of
its own, and a process that dies before it leaves the key to the stale reclaim (or, for a refund,
executing for good). The queues get no fairness: drains and requeues are requests of an operator and
no loop in the gateway calls them, so a row whose worker died may wait for ever. `buyer_checkout`, `fulfilment`
and `gateway` check safety and state no fairness either: a checkout that stops half-way resumes only when the
client repeats its key, a callback arrives when the network sends it, a restart loses the runs of a verification.

### Findings

`seller_success`: `set_execution_intent_status` writes by intent id whatever the row holds, so a
late failure overwrites a success and the key can be reclaimed. `seller_spend`: `consume_approval`
runs only when the intent was created. `commerce_paid`: the fulfilment action hands the payload's
status to `transition_order`, which accepts the payment edges as well. `ondc_answered`: `_reconcile_claimed_inbox` has branches
for callbacks only, and marks everything else it claims delivered. Each is quoted in
`PROJECT.json` with the line of the repository that says otherwise.

## Proofs

Each proof module proves `Spec => []IInv` (by its own name for `IInv`) for all values of the constants, then the
theorems from it. Assumptions: the ones named `ASSUME` in the modules (null values outside the sets, bounds natural,
finitely many quotes, disjoint kinds of records, one answer per request, what each request is of, transition
tables whose walks end in them, file-mode scenarios that start on a store that remembers nothing, with no order refunded
above its amount and an adapter just started), which TLC evaluates in the runs.

`AgentGuardSellerProofs`: type correctness, `EffectAuthorised`, `ApprovalBindsOneKey`,
`SucceededHasReceipt`, the action properties `ConsumeUnderLiveAuthority` and
`ConfirmActivatesItsDraft`, and the refinement of `OneTimeApproval`. `EffectAuthorised` alone is not inductive: a runner that joins relies on whoever
bound the key. The strengthening says that only decisions that need approval have one
(`ApprovalsForNeed`), that every bound intent has an authorising decision for its request
(`IntentBacked`), and that a runner's decision is for the runner's request (`RunnerBacked`).
Decisions never change once recorded and a consumed approval stays consumed, so authority once found
stays (`AuthorityStays`). `ReplayMatchesRequest` is false when requests overlap freely (`seller_success`), so it is proved under
the weakest condition the argument needs: requests in the effect of one key at the same time are the same request
(`OneRequestPerKey`). Duplicates may overlap under it, crash and be reclaimed; only a different request that
reclaims a stale key over a running effect may not. Then whoever runs the effect of a key is what the key is bound to
(`HoldsItsKey`). One runner meets the condition always (`OneRunnerReplaysItsRequest`), as in `seller_retry`. A confirmation activates what it read because the versions above the latest are empty
and the draft in its hands cannot change (`VersionsInOrder`); of two that read the same draft, the second finds the version
taken. That a lapsed approval which no request has in hand stays unspent (`Dead`) is shown step by step, since only a
request that reads the clock takes one in hand.

`CommerceProofs`: type correctness, `StockConserved`, `HoldsFollowSales`, `LedgerFollowsPayments`,
`KeysFollowOrders`, `SettledStaysSettled` and the refinement of `Purchase`. The counter is compared
with the cardinality of the set of held units, so the proof first develops how that set changes when
holds end or start (`UnitSetWithout`, `UnitSetWith`, `HoldsEnd`). The invariants lean on each other:
`HoldsFollowSales` (that only quotes and payments end a hold) says that a released or consumed quote is not open, without which a release could
be counted twice. `KeysNameQuotes` (a used key names a quote) completes `KeysFollowOrders`.

`OndcMessagingProofs`: type correctness, `EffectOnce`, `OneAnswerTask`, `DeliveredIsFinal` and the
refinement of `DurableDelivery`. A worker may have lost every lease it works under, so the
strengthening says what it knows regardless: the rows of its record and its batch exist
(`WorkersHaveRows`), and a success it is about to report has happened (`SuccessHappened`), which is
why a delivery that passes the lease check is backed by an effect even when the row changed hands.
`EffectOnce` needs that a callback which may still be applied has a binding left to be applied under
(`BindingsAllow`).
`OneAnswerTask` needs that no answer is staged before its request arrives (`AnswersFollow`). The
step lemmas say what each action leaves of the rows (`RowsStep`) and of the other workers
(`SingleWorker`); the refinement maps claims to stutters, persisting to `Accept`, a send or a commit
to `Happen`, an exhausted retry to `Park` and a requeue to `Recover`.

`BuyerAuthorityProofs` holds the lemmas both Buyer modules rest on, and no theorem of a specification: its actions
keep `AuthorityInv` (a approval belongs to a recorded decision, and a decision to a request of the model), each changes an approval
only along "issued" to "consumed", and a decision that authorises a request does so for ever after (`AuthorityStays`).

`BuyerCheckoutProofs`: type correctness, every other property of `buyer_checkout`, and the refinement of
`OneTimeApproval`. `OrderAuthorised` needs that an open quote has no order and no key that prepared it, and
that at most one key prepared any quote (`OrdersInv`): two runners past the same reading meet at `PrepareCheckout`, where
the quote is locked. `OutcomeTrue` and `EventSettled` need that a settled attempt stays as it is (`AttemptStays`), and
that a runner or a callback between its transactions remembers something that still holds (`RowBacked`, `PaymentInv`).

`BuyerActionsProofs`: type correctness, `CallbackOnce`, `RefundTrue`, `IssueAnswerable`, `ReceiptTrue` and the
refinement of `Aftersales`: every property of `fulfilment`. `CallbackOnce` counts applications per binding, so it needs that a
callback not in the current history has a binding left (`BindingLeft`). The refinement comes before
`ReceiptTrue`: that every step moves the machines along `Aftersales` or not at all (`Moved`, `IssueMoved`) is why an effect that is
done stays done, and why it cannot be done again under a second key (`DoneOnce`).

`IdentityProofs`, of `Sessions`: type correctness and `RevocationHolds`. A restart replaces memory by the rows, and writes land in any
order, so the strengthening follows a revocation through all three: what a write is to end is revoked in memory
(`Promised`), what callers were told is in the rows (`Kept`), and a session that memory knows nothing of is older than
this second and than any revocation under way (`Listed`, `Older`). The last part is what makes two revocations of a
principal that overtake each other harmless.

Of `Verification`: type correctness and `ApprovalEarned`. The strengthening is about what is in the hands of
others: a run or a review that awaits the chain holds an approval it may give (`RunsJudged`, `ReviewsJudged`), whatever
happened to the record meanwhile.

`FileGuardProofs`: type correctness, `AuthorityTrail`, `RefundsWithinOrder` and the refinement of `OneTimeApproval`. An
action is a handler, but it may stop after any of its saves, so the invariant is not one of the states before and after but
of a guard file and a store file (`Inv`), and every handler is shown to be a sequence of saves each of which keeps it
(`Good`, `Fine`). What is said of the two files: each spent approval was for what is remembered under it and backs one
thing (`Spent`, `Once`), what no approval backs is a refund within the limit of some mandate the Seller had (`Limited`), and
what an "executed" receipt tells of is remembered (`Done`). Two lemmas per operation carry this. One says what the effect adds to the
store: at most one memory besides the item it had to create, under the authority it was given (`Adds`), which
is what was asked for (`Told`); since a row once on record keeps its item and amount (`RowsKept`), it stays so (`AsAskedStays`). The other says what a save of the guard leaves alone (`Keeps`) and that it moves
approvals along `OneTimeApproval` (`Moves`). The order of the saves matters in one place: an approval is
spent before the effect can be remembered. Money (`Money`) also needs the adapter, which a dead process loses, so it is
shown only where a handler ends, and of the empty adapter after a death; sums are cardinalities of sets of rupees
(`RupeesOf`), whose lemmas say what one more row or one larger amount adds. That counted sum also showed that the
per-order form of `RefundsWithinOrder` is false: TLC then found the reused key after a cleanup, and the property
compares payments. The invariant was checked by TLC on the gateway's scenarios before it was proved.

Only model-checked: `FailedEffectReleasesKey` of `seller_retry`, which is liveness and out of the prover's reach, as would be
ENABLED; and the assumptions of `CallbackWalks`, folds over sequences that the prover has no induction for.

## Not modelled

Everywhere: amounts other than the limits and totals a property names, currencies and tax; the text of payloads;
signatures (a receipt is its content, a webhook is genuine).

- Commerce ledger: stores, staff, catalog edits in two transactions (`update_item`), `remove_fixtures`.
- Queues: callbacks without an effect (a drain only marks them), the local-file backend, the order in which a
  drain takes rows. The effects of the others are in `Fulfilment` and `Issues`, each as one transaction, as in the queues.
- Fulfilment: tracking, billing, messages to people; more than one item per order.
- Sessions: expiry, token encoding, OAuth redirects and state, the persistence of wallet sign-in.
- File mode and demo store: quantities above one, receipts of refusals, the store profile, staff, catalog import, carts.
- Verification: identity anchors, proof tokens, rate limits, fixtures, the older verify routes, reading documents.
- Transactions: connection pooling, the retry of serialization failures.

Everything marked `not_modelled` in `PROJECT.json` has its reason there.

## Plan

Done: both guards, the commerce ledger with payments and fulfilment, the queues, sessions, file mode with the demo store, and
verification, each with its abstract specification where it promises one, and every safety property of a passing run
proved. What is left, by what it would add:

1. `update_item` as two transactions, with the lost update as what it does, once the repository says which of
   the two writers should win.
2. Liveness of checkouts and queues, if the gateway gains a loop that drains and resumes.
3. The outbound half of IGM and search: which dispatch answers which request.
4. Cart sessions and OAuth state, small and on their own.
