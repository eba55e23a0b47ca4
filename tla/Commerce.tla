------------------------------ MODULE Commerce ------------------------------
(***************************************************************************)
(* CommerceV1, the PostgreSQL commerce ledger: seller stock, buyer carts,  *)
(* checkout quotes and the stock they hold, orders, payment attempts, the  *)
(* append-only ledger and refunds (commerce_v1.py,                         *)
(* persistence/commerce_repository.py, commerce_compat.py).                *)
(*                                                                         *)
(* Every handler below is one transaction that locks the rows it decides   *)
(* on, so one action is one committed transaction; one that raises rolls   *)
(* back and is no step.                                                    *)
(*                                                                         *)
(*   - a quote names everything made from it: the UNIQUE columns give it   *)
(*     at most one order, and an order one payment attempt and one refund; *)
(*   - the reservations of a quote, one row per sku, always move together; *)
(*   - money is left out: an amount is what the quote says, and a refund   *)
(*     is any amount up to it;                                             *)
(*   - outdated stands for the version columns: a quote whose cart or      *)
(*     inventory versions moved on since it was previewed;                 *)
(*   - lapsed are the quotes whose expires_at has passed.                  *)
(***************************************************************************)
EXTENDS Naturals, FiniteSets

CONSTANTS
    Skus,          \* inventory rows of one seller
    Carts,         \* cart identifiers (bounds create_cart)
    Quotes,        \* quote identifiers (bounds preview_checkout)
    Keys,          \* idempotency keys of prepare_checkout and of issue_refund
    MaxQuantity,   \* bound on the quantity of a cart line
    MaxStock,      \* bound on the stock a seller states
    NoCart, NoQuote, NoKey

ASSUME BoundAssumption == MaxQuantity \in Nat /\ MaxStock \in Nat
ASSUME FiniteAssumption == IsFiniteSet(Quotes)
ASSUME NullAssumption == NoCart \notin Carts /\ NoQuote \notin Quotes /\ NoKey \notin Keys

VARIABLES
    available,    \* commerce_inventory.available_quantity
    reserved,     \* commerce_inventory.reserved_quantity
    cart,         \* cart[c]: status and lines
    quote,        \* quote[q]: status, cart and line_snapshot
    lapsed,
    outdated,
    reservation,  \* reservation[q]: status of the reservations of q
    order,        \* order[q]: status of the order made from q
    attempt,      \* attempt[q]: status of that order's payment attempt
    ledger,       \* posted ledger transactions
    refund,       \* refund[q]: idempotency key of that order's refund
    prepared      \* prepared[k]: idempotency record of prepare_checkout

stock == <<available, reserved>>
sales == <<order, attempt, ledger, refund>>
vars == <<available, reserved, cart, quote, lapsed, outdated, reservation,
          order, attempt, ledger, refund, prepared>>

Lines == [Skus -> 0..MaxQuantity]
Nothing == [s \in Skus |-> 0]
Cart == [status : {"absent", "open", "checked_out"}, lines : Lines]
Quote == [status : {"absent", "open", "consumed", "expired", "released"},
          cart : Carts \cup {NoCart}, lines : Lines]
ReservationStatus == {"none", "held", "consumed", "released"}
OrderStatus == {"absent", "payment_pending", "paid", "payment_failed",
                "payment_unknown", "confirmed", "preparing", "shipped",
                "delivered", "cancelled"}
AttemptStatus == {"none", "pending", "succeeded", "failed", "unknown", "reconciled"}
Posting == Quotes \X {"payment", "reconciliation", "refund"}
Prepared == [status : {"absent", "success", "failure"}, quote : Quotes \cup {NoQuote}]
NoRecord == [status |-> "absent", quote |-> NoQuote]

TypeOK ==
    /\ available \in [Skus -> 0..MaxStock]
    /\ reserved \in [Skus -> 0..MaxStock]
    /\ cart \in [Carts -> Cart]
    /\ quote \in [Quotes -> Quote]
    /\ lapsed \in SUBSET Quotes
    /\ outdated \in SUBSET Quotes
    /\ reservation \in [Quotes -> ReservationStatus]
    /\ order \in [Quotes -> OrderStatus]
    /\ attempt \in [Quotes -> AttemptStatus]
    /\ ledger \in SUBSET Posting
    /\ refund \in [Quotes -> Keys \cup {NoKey}]
    /\ prepared \in [Keys -> Prepared]

Init ==
    /\ available = [s \in Skus |-> 0]
    /\ reserved = [s \in Skus |-> 0]
    /\ cart = [c \in Carts |-> [status |-> "absent", lines |-> Nothing]]
    /\ quote = [q \in Quotes |-> [status |-> "absent", cart |-> NoCart, lines |-> Nothing]]
    /\ lapsed = {}
    /\ outdated = {}
    /\ reservation = [q \in Quotes |-> "none"]
    /\ order = [q \in Quotes |-> "absent"]
    /\ attempt = [q \in Quotes |-> "none"]
    /\ ledger = {}
    /\ refund = [q \in Quotes |-> NoKey]
    /\ prepared = [k \in Keys |-> NoRecord]

Open(q) == quote[q].status = "open"
Captured(q) == attempt[q] \in {"succeeded", "reconciled"}

\* The units of s in the line snapshots of the quotes qs.
Units(qs, s) == {u \in qs \X (1..MaxQuantity) : u[2] <= quote[u[1]].lines[s]}

\* Quotes whose snapshot names the inventory version of s or the cart version of c.
QuotesOfSku(s) == {q \in Quotes : Open(q) /\ quote[q].lines[s] > 0}
QuotesOfCart(c) == {q \in Quotes : Open(q) /\ quote[q].cart = c}

-----------------------------------------------------------------------------
(* Stock and carts.                                                        *)

\* Variant: WHERE EXCLUDED.available_quantity >= reserved_quantity is missing.
UpsertAnyQuantity(s, n) ==
    /\ available' = [available EXCEPT ![s] = n]
    /\ outdated' = outdated \cup QuotesOfSku(s)
    /\ UNCHANGED <<reserved, cart, quote, lapsed, reservation, sales, prepared>>

\* upsert_inventory, for a new row or an existing one; with n = available[s] it
\* is publish_item, which only bumps the version.
UpsertInventory(s, n) ==
    /\ n >= reserved[s]
    /\ available' = [available EXCEPT ![s] = n]
    /\ outdated' = outdated \cup QuotesOfSku(s)
    /\ UNCHANGED <<reserved, cart, quote, lapsed, reservation, sales, prepared>>

CreateCart(c) ==
    /\ cart[c].status = "absent"
    /\ cart' = [cart EXCEPT ![c].status = "open"]
    /\ UNCHANGED <<stock, quote, lapsed, outdated, reservation, sales, prepared>>

\* set_cart_line with the cart's current version; a quantity of 0 deletes the line.
SetCartLine(c, s, n) ==
    /\ cart[c].status = "open"
    /\ n <= available[s] - reserved[s]
    /\ cart' = [cart EXCEPT ![c].lines[s] = n]
    /\ outdated' = outdated \cup QuotesOfCart(c)
    /\ UNCHANGED <<stock, quote, lapsed, reservation, sales, prepared>>

-----------------------------------------------------------------------------
(* Quotes and the stock they hold.                                         *)

\* Variant: release_quote gives the units back but leaves the rows held.
ReleasedNever(qs) == reservation

\* release_quote for each quote of qs: held rows are released, their units
\* given back, and a quote that is still open (not the one of an order) is
\* closed with the given status.
Released(qs) ==
    [q \in Quotes |->
        IF q \in qs /\ reservation[q] = "held" THEN "released" ELSE reservation[q]]
ReservedWithout(qs) == [s \in Skus |-> reserved[s] - Cardinality(Units(qs, s))]
Closed(qs, to) ==
    [q \in Quotes |-> IF q \in qs /\ Open(q) THEN [quote[q] EXCEPT !.status = to] ELSE quote[q]]

\* Variant: the check forgets what other quotes hold.
FitsStock(lines, held) == \A s \in Skus : lines[s] <= available[s]

\* create_quote's check of each line against the free stock.
Fits(lines, held) == \A s \in Skus : lines[s] <= available[s] - held[s]

\* preview_checkout: release_expired_quotes, then create_quote.  SKIP LOCKED
\* passes over a lapsed quote another transaction is working on, so any of
\* them may be left; a preview that is refused also rolls the releases back.
PreviewCheckout(c, q, expired) ==
    /\ expired \subseteq {e \in lapsed : Open(e)}
    /\ cart[c].status = "open"
    /\ cart[c].lines # Nothing
    /\ quote[q].status = "absent"
    /\ Fits(cart[c].lines, ReservedWithout(expired))
    /\ reserved' = [s \in Skus |-> ReservedWithout(expired)[s] + cart[c].lines[s]]
    /\ reservation' = [Released(expired) EXCEPT ![q] = "held"]
    /\ quote' = [Closed(expired, "expired") EXCEPT
            ![q] = [status |-> "open", cart |-> c, lines |-> cart[c].lines]]
    /\ UNCHANGED <<available, cart, lapsed, outdated, sales, prepared>>

\* expires_at passes.
Lapse(q) ==
    /\ Open(q)
    /\ q \notin lapsed
    /\ lapsed' = lapsed \cup {q}
    /\ UNCHANGED <<stock, cart, quote, outdated, reservation, sales, prepared>>

ExpireQuote(q) ==
    /\ Open(q)
    /\ q \in lapsed
    /\ reserved' = ReservedWithout({q})
    /\ reservation' = Released({q})
    /\ quote' = Closed({q}, "expired")
    /\ UNCHANGED <<available, cart, lapsed, outdated, sales, prepared>>

-----------------------------------------------------------------------------
(* Orders.                                                                 *)

\* prepare_checkout on a good quote, with create_order_and_payment.  It looks
\* at the cart's version, not at its status: two quotes of one unchanged cart
\* may both become orders.
PlaceOrder(k, q) ==
    /\ prepared[k].status = "absent"
    /\ Open(q)
    /\ q \notin lapsed \cup outdated
    /\ order' = [order EXCEPT ![q] = "payment_pending"]
    /\ attempt' = [attempt EXCEPT ![q] = "pending"]
    /\ quote' = [quote EXCEPT ![q] = [@ EXCEPT !.status = "consumed"]]
    /\ cart' = [cart EXCEPT ![quote[q].cart] = [@ EXCEPT !.status = "checked_out"]]
    /\ prepared' = [prepared EXCEPT ![k] = [status |-> "success", quote |-> q]]
    /\ UNCHANGED <<stock, lapsed, outdated, reservation, ledger, refund>>

\* Variant: the refusal is recorded but the quote keeps its hold.
RejectQuoteOnly(k, q) ==
    /\ prepared[k].status = "absent"
    /\ Open(q)
    /\ q \in lapsed \cup outdated
    /\ prepared' = [prepared EXCEPT ![k] = [status |-> "failure", quote |-> q]]
    /\ UNCHANGED <<stock, cart, quote, lapsed, outdated, reservation, sales>>

\* prepare_checkout on an expired or changed quote: the refusal is committed,
\* with the release of the quote and the failure of the key.
RejectQuote(k, q) ==
    /\ prepared[k].status = "absent"
    /\ Open(q)
    /\ q \in lapsed \cup outdated
    /\ reserved' = ReservedWithout({q})
    /\ reservation' = Released({q})
    /\ quote' = Closed({q}, IF q \in lapsed THEN "expired" ELSE "released")
    /\ prepared' = [prepared EXCEPT ![k] = [status |-> "failure", quote |-> q]]
    /\ UNCHANGED <<available, cart, lapsed, outdated, sales>>

\* The order machine of domain_state_machines.py, without the states the CHECK
\* on commerce_orders.status refuses (accepted, rejected, fulfilled, closed)
\* and without prepared, which nothing writes.
OrderEdges ==
    {<<"payment_pending", "paid">>, <<"payment_pending", "payment_failed">>,
     <<"payment_pending", "payment_unknown">>, <<"payment_pending", "cancelled">>,
     <<"payment_unknown", "paid">>, <<"payment_unknown", "payment_failed">>,
     <<"payment_unknown", "cancelled">>,
     <<"paid", "confirmed">>, <<"paid", "cancelled">>,
     <<"confirmed", "preparing">>, <<"confirmed", "cancelled">>,
     <<"preparing", "shipped">>, <<"preparing", "cancelled">>,
     <<"shipped", "delivered">>}

\* transition_order, the target of accept, reject, cancel and fulfilment
\* commit: the last takes its status from the payload.
TransitionOrder(q, target) ==
    /\ <<order[q], target>> \in OrderEdges
    /\ order' = [order EXCEPT ![q] = target]
    /\ UNCHANGED <<stock, cart, quote, lapsed, outdated, reservation, attempt,
                   ledger, refund, prepared>>

-----------------------------------------------------------------------------
(* Payment results and refunds.                                            *)

PaymentEdges ==
    {<<"pending", "succeeded">>, <<"pending", "failed">>, <<"pending", "unknown">>,
     <<"unknown", "reconciled">>, <<"unknown", "failed">>}
PaymentOrderTarget ==
    [succeeded |-> "paid", reconciled |-> "paid", failed |-> "payment_failed",
     unknown |-> "payment_unknown"]

\* Variant: a reconciled capture is posted like a direct one.
PostedAsPayment(status) ==
    IF status \in {"succeeded", "reconciled"} THEN {"payment"} ELSE {}

\* What _post_payment posts for a new payment status.
Posted(status) ==
    IF status = "succeeded" THEN {"payment"}
    ELSE IF status = "reconciled" THEN {"reconciliation"} ELSE {}

\* Variant: the sale leaves its units in the reserved counter.
ConsumeAvailableOnly(q) ==
    /\ available' = [s \in Skus |-> available[s] - quote[q].lines[s]]
    /\ reservation' = [reservation EXCEPT ![q] = "consumed"]
    /\ UNCHANGED <<reserved, quote, outdated>>

\* consume_reservations: the held units leave the stock, and the new inventory
\* versions outdate the other open quotes of the same skus.
ConsumeReservations(q) ==
    /\ available' = [s \in Skus |-> available[s] - quote[q].lines[s]]
    /\ reserved' = ReservedWithout({q})
    /\ reservation' = [reservation EXCEPT ![q] = "consumed"]
    /\ outdated' = outdated \cup
            {p \in Quotes : \E s \in Skus : quote[q].lines[s] > 0 /\ p \in QuotesOfSku(s)}
    /\ UNCHANGED quote

\* release_order_reservations.
ReleaseReservations(q) ==
    /\ reserved' = ReservedWithout({q})
    /\ reservation' = Released({q})
    /\ quote' = Closed({q}, "released")
    /\ UNCHANGED <<available, outdated>>

\* Variant: the order's own state is not asked.
SettlesWhateverTheOrder(q, status) == <<attempt[q], status>> \in PaymentEdges

\* The two require_transition calls.
Settles(q, status) ==
    /\ <<attempt[q], status>> \in PaymentEdges
    /\ <<order[q], PaymentOrderTarget[status]>> \in OrderEdges

\* set_payment_status, the reservations and the posting that go with it.
Settle(q, status) ==
    /\ Settles(q, status)
    /\ attempt' = [attempt EXCEPT ![q] = status]
    /\ order' = [order EXCEPT ![q] = PaymentOrderTarget[status]]
    /\ ledger' = ledger \cup ({q} \X Posted(status))
    /\ \/ status \in {"succeeded", "reconciled"} /\ ConsumeReservations(q)
       \/ status = "failed" /\ ReleaseReservations(q)
       \/ status = "unknown" /\ UNCHANGED <<stock, reservation, quote, outdated>>
    /\ UNCHANGED <<cart, lapsed, refund, prepared>>

RecordPaymentResult(q, status) ==
    /\ attempt[q] = "pending"
    /\ Settle(q, status)

ReconcilePayment(q, status) == Settle(q, status)

\* issue_refund for an order without a refund, with a key no refund of the
\* seller has; any other call is a replay or is refused.
IssueRefund(q, k) ==
    /\ Captured(q)
    /\ refund[q] = NoKey
    /\ \A p \in Quotes : refund[p] # k
    /\ refund' = [refund EXCEPT ![q] = k]
    /\ ledger' = ledger \cup {<<q, "refund">>}
    /\ UNCHANGED <<stock, cart, quote, lapsed, outdated, reservation, order,
                   attempt, prepared>>

Next ==
    \/ \E s \in Skus, n \in 0..MaxStock : UpsertInventory(s, n)
    \/ \E c \in Carts : CreateCart(c)
    \/ \E c \in Carts, s \in Skus, n \in 0..MaxQuantity : SetCartLine(c, s, n)
    \/ \E c \in Carts, q \in Quotes, expired \in SUBSET lapsed : PreviewCheckout(c, q, expired)
    \/ \E q \in Quotes : Lapse(q)
    \/ \E q \in Quotes : ExpireQuote(q)
    \/ \E k \in Keys, q \in Quotes : PlaceOrder(k, q)
    \/ \E k \in Keys, q \in Quotes : RejectQuote(k, q)
    \/ \E q \in Quotes, target \in OrderStatus : TransitionOrder(q, target)
    \/ \E q \in Quotes, status \in {"succeeded", "failed", "unknown"} :
            RecordPaymentResult(q, status)
    \/ \E q \in Quotes, status \in {"reconciled", "failed"} : ReconcilePayment(q, status)
    \/ \E q \in Quotes, k \in Keys : IssueRefund(q, k)

Spec == Init /\ [][Next]_vars

-----------------------------------------------------------------------------
(* Properties.                                                             *)

\* The reserved counter of a sku is the number of its units the held
\* reservations name, and never exceeds the stock: no sequence of previews,
\* expiries, rejections, payments and restocks leaks a unit or sells one twice.
StockConserved ==
    \A s \in Skus :
        /\ reserved[s] = Cardinality(Units({q \in Quotes : reservation[q] = "held"}, s))
        /\ reserved[s] <= available[s]

\* A hold lasts from the preview until the quote is closed or the payment of its
\* order is settled: consumed by a capture, released by a failure and by an expiry
\* or a refusal of the quote, and by nothing else.  A quote is consumed by exactly
\* one order with one attempt.  Only payments and quotes end holds, whatever the
\* order goes through: transition_order (commerce_compat.py) moves an unpaid order
\* to cancelled, payment_failed or paid and leaves its attempt pending, no payment
\* is accepted for it any more, and its units stay held for good.
HoldsFollowSales ==
    \A q \in Quotes :
        /\ attempt[q] # "none" <=> quote[q].status = "consumed"
        /\ order[q] # "absent" <=> quote[q].status = "consumed"
        /\ reservation[q] = "none" <=> quote[q].status = "absent"
        /\ reservation[q] = "held" <=> Open(q) \/ attempt[q] \in {"pending", "unknown"}
        /\ reservation[q] = "consumed" <=> Captured(q)

\* The append-only ledger says what happened: a payment posting exactly for a
\* directly captured attempt, a reconciliation posting exactly for one that was
\* resolved later, and a refund posting exactly for a refund, of a captured
\* attempt, whose key refunds no other order.
LedgerFollowsPayments ==
    \A q \in Quotes :
        /\ <<q, "payment">> \in ledger <=> attempt[q] = "succeeded"
        /\ <<q, "reconciliation">> \in ledger <=> attempt[q] = "reconciled"
        /\ <<q, "refund">> \in ledger <=> refund[q] # NoKey
        /\ refund[q] # NoKey =>
            /\ Captured(q)
            /\ \A p \in Quotes : refund[p] = refund[q] => p = q

\* The idempotency records of prepare_checkout tell the truth when replayed: a
\* success belongs to the one order of its quote, a failure to a quote that was
\* closed with its hold released, and every order has exactly one key.
KeysFollowOrders ==
    /\ \A k \in Keys :
        /\ prepared[k].status = "success" => order[prepared[k].quote] # "absent"
        /\ prepared[k].status = "failure" =>
            /\ quote[prepared[k].quote].status \in {"expired", "released"}
            /\ reservation[prepared[k].quote] = "released"
    /\ \A q \in Quotes : order[q] # "absent" =>
        \E k \in Keys : \A j \in Keys : prepared[j] = [status |-> "success", quote |-> q] <=> j = k

\* A settled attempt, or one whose order was cancelled while it was pending,
\* never changes again: a late or repeated provider result takes no stock and
\* posts nothing, whatever order results, reconciliation and cancellation come in.
SettledStaysSettled ==
    [][\A q \in Quotes :
        attempt[q] \in {"succeeded", "failed", "reconciled"} \/ order[q] = "cancelled" =>
            /\ attempt'[q] = attempt[q]
            /\ reservation'[q] = reservation[q]
            /\ \A type \in {"payment", "reconciliation"} :
                <<q, type>> \in ledger' <=> <<q, type>> \in ledger]_vars

\* What a purchase promises, with the counter and the four status columns
\* hidden behind one stage.
Stage(q) ==
    IF refund[q] # NoKey THEN "refunded"
    ELSE IF reservation[q] = "consumed" THEN "sold"
    ELSE IF reservation[q] = "released" THEN "dropped" ELSE reservation[q]
Abstract == INSTANCE Purchase WITH
    Purchases <- Quotes,
    stage <- [q \in Quotes |-> Stage(q)],
    bought <- [q \in Quotes |-> quote[q].lines]

\* The commerce tables implement Purchase: the cached reserved counter never
\* lets a hold take units that are not free, a sale takes exactly the held
\* units, and every purchase moves forward only.
ImplementsPurchase == Abstract!Spec

\* An order that is paid, or further, has a captured payment: order status
\* follows the payment, and fulfilment.commit moves a paid order to preparing,
\* shipped or delivered.
PaidOrderIsCaptured ==
    \A q \in Quotes :
        order[q] \in {"paid", "confirmed", "preparing", "shipped", "delivered"} => Captured(q)
=============================================================================
