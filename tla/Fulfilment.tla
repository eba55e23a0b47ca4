----------------------------- MODULE Fulfilment -----------------------------
(***************************************************************************)
(* A placed order: the Seller's and the Buyer's transitions, the callbacks *)
(* of its delivery provider (LOG10) and of its network seller (RET10), its *)
(* return and its refund (commerce_v1.py, commerce_compat.py).             *)
(*                                                                         *)
(* A callback is the envelope it carries, known by its commitment: two     *)
(* deliveries of one callback are the same element.  The inbox redelivers  *)
(* whatever was not applied, so a callback can be applied at any time; one *)
(* of a party that is not bound conflicts and changes nothing.             *)
(*                                                                         *)
(* Every operation is one transaction that locks the order, except for the *)
(* refund at Razorpay, which stays when the transaction around it is lost. *)
(***************************************************************************)
EXTENDS DomainStateMachines, Integers, FiniteSets

CONSTANTS
    RetailCallbacks,
    LogisticsCallbacks,
    Providers,         \* delivery providers that offered, in one search
    SellerKeys,        \* idempotency keys of the Seller's own refunds
    MaxBindings,       \* bound on the bindings of delivery providers
    NoProvider, NoKey

VARIABLES
    rail,         \* provider of the payment attempt
    order,        \* commerce_orders.status
    captured,     \* the payment attempt has succeeded
    logistics,    \* fulfilment.logistics of the order
    retail,       \* fulfilment.retail of the order
    applied,      \* applied[c]: events of fulfilment.history that name c
    bindings,     \* bindings[p]: events of the history that bind p
    return,       \* commerce_returns.status, "none" without a row
    refund,       \* commerce_refunds of the order
    postings,     \* refund transactions in the ledger, by their key
    refunded      \* keys under which Razorpay has refunded the payment

bindingVars == <<logistics, bindings>>
refundVars == <<refund, postings, refunded>>
fulfilmentVars == <<rail, order, captured, logistics, retail, applied, bindings, return,
                    refund, postings, refunded>>

Times == -1..3     \* 0 for a callback without a timestamp, -1 for an unreadable one
LogisticsEnvelope ==
    [action : {"on_init", "on_confirm", "on_update", "on_status", "on_track"},
     bpp : Providers, state : STRING, compliant : BOOLEAN, insecure : BOOLEAN, time : Times]
RetailEnvelope ==
    [action : {"on_select", "on_init", "on_confirm", "on_status", "on_track", "on_cancel",
               "on_update"},
     state : STRING, return : STRING, settlement : {"none", "within", "beyond"},
     insecure : BOOLEAN, time : Times]

ASSUME CallbackAssumption ==
    /\ RetailCallbacks \subseteq RetailEnvelope
    /\ LogisticsCallbacks \subseteq LogisticsEnvelope
    /\ RetailCallbacks \cap LogisticsCallbacks = {}
ASSUME BindingAssumption == MaxBindings \in Nat
ASSUME KeyAssumption ==
    /\ NoProvider \notin Providers
    /\ NoKey \notin SellerKeys \cup RetailCallbacks
    /\ SellerKeys \cap RetailCallbacks = {}

RefundKeys == SellerKeys \cup RetailCallbacks
NoBinding == [bpp |-> NoProvider, processed |-> {}, latest |-> 0, review |-> FALSE,
              conformance |-> "none"]
NoRefund == [status |-> "none", key |-> NoKey]

FulfilmentTypeOK ==
    /\ rail \in {"simulated", "razorpay_test"}
    /\ order \in OrderStatuses
    /\ captured \in BOOLEAN
    /\ logistics \in [bpp : Providers \cup {NoProvider},
                      processed : SUBSET LogisticsCallbacks, latest : Times,
                      review : BOOLEAN, conformance : {"none", "accepted", "rejected"}]
    /\ retail \in [bound : BOOLEAN, processed : SUBSET RetailCallbacks, latest : Times,
                   review : BOOLEAN]
    /\ applied \in [RetailCallbacks \cup LogisticsCallbacks -> Nat]
    /\ bindings \in [Providers -> 0..MaxBindings]
    /\ return \in ReturnStatuses \cup {"none"}
    /\ refund \in [status : {"none", "pending", "succeeded"}, key : RefundKeys \cup {NoKey}]
    /\ postings \in SUBSET RefundKeys
    /\ refunded \in SUBSET RefundKeys

FulfilmentInit ==
    /\ logistics = NoBinding
    /\ retail = [bound |-> FALSE, processed |-> {}, latest |-> 0, review |-> FALSE]
    /\ applied = [c \in RetailCallbacks \cup LogisticsCallbacks |-> 0]
    /\ bindings = [p \in Providers |-> 0]
    /\ return = "none"
    /\ refund = NoRefund
    /\ postings = {}
    /\ refunded = {}

-----------------------------------------------------------------------------
(* Orders and bindings.                                                    *)

\* record_payment_result with a captured payment.
RecordPayment ==
    /\ ~captured
    /\ <<order, "paid">> \in OrderMoves
    /\ captured' = TRUE
    /\ order' = "paid"
    /\ UNCHANGED <<rail, logistics, retail, applied, bindings, return, refundVars>>

BindingOf(p) == [NoBinding EXCEPT !.bpp = p]
Bind(p) ==
    /\ bindings[p] < MaxBindings
    /\ logistics' = BindingOf(p)
    /\ bindings' = [bindings EXCEPT ![p] = @ + 1]

\* transition_order; the Seller's fulfilment may come with the signed offer of a
\* provider, which takes the place of whatever was bound before.
TransitionOrder(to, p) ==
    /\ <<order, to>> \in OrderMoves
    /\ order' = to
    /\ IF p = NoProvider THEN UNCHANGED bindingVars ELSE Bind(p)
    /\ UNCHANGED <<rail, captured, retail, applied, return, refundVars>>

\* rebind_rejected_logistics_provider.
Rebind(p) ==
    /\ order = "preparing"
    /\ logistics.conformance = "rejected"
    /\ logistics.bpp # p
    /\ Bind(p)
    /\ UNCHANGED <<rail, order, captured, retail, applied, return, refundVars>>

\* bind_retail_protocol: once, for good.
BindRetail ==
    /\ ~retail.bound
    /\ retail' = [retail EXCEPT !.bound = TRUE]
    /\ UNCHANGED <<rail, order, captured, logistics, applied, bindings, return, refundVars>>

-----------------------------------------------------------------------------
(* What both callbacks have in common.                                     *)

\* Timestamps are compared only when both are given; one that cannot be read
\* makes every comparison fail.
IsStale(time, latest) == time # 0 /\ latest # 0 /\ (time <= latest \/ latest < 0)
Latest(time, latest) == IF time # 0 /\ ~IsStale(time, latest) THEN time ELSE latest

\* Variant: the target is written without require_transition.
StatusUnchecked(target, review) == IF review THEN order ELSE target

\* require_transition, skipped for callbacks already under review.
StatusAfter(target, review) ==
    IF ~review /\ <<order, target>> \in OrderMoves THEN target ELSE order
IllegalTarget(target) ==
    target # "none" /\ target # order /\ <<order, target>> \notin OrderMoves

-----------------------------------------------------------------------------
(* apply_logistics_update over _normalize_logistics_callback.              *)

LogisticsStateTarget(state) ==
    CASE state \in {"Pending", "Searching-for-Agent", "Agent-assigned"} -> "preparing"
      [] state \in {"Order-picked-up", "Out-for-delivery"} -> "shipped"
      [] state \in {"Order-delivered", "Delivered"} -> "delivered"
      [] state = "Cancelled" -> "cancelled"
      [] OTHER -> "none"
LogisticsTarget(c) ==
    IF c.action \in {"on_update", "on_status"} THEN LogisticsStateTarget(c.state) ELSE "none"
LogisticsReview(c) ==
    \/ c.action = "on_init" /\ ~c.compliant
    \/ c.action \in {"on_update", "on_status"} /\ LogisticsTarget(c) = "none"
    \/ c.insecure
Conformance(c, before) ==
    IF c.action # "on_init" THEN before ELSE IF c.compliant THEN "accepted" ELSE "rejected"

\* Variant: a callback set aside for review is not remembered.
ProcessedUnlessReview(processed, c, review) == IF review THEN processed ELSE processed \cup {c}

\* processed_callbacks: also those that are stale or under review.
Processed(processed, c, review) == processed \cup {c}

ApplyLogistics(c) ==
    LET stale == IsStale(c.time, logistics.latest)
        held == stale \/ LogisticsReview(c)
        review == held \/ IllegalTarget(LogisticsTarget(c))
    IN
    /\ logistics.bpp = c.bpp
    /\ c \notin logistics.processed
    /\ order' = StatusAfter(LogisticsTarget(c), held)
    /\ logistics' =
        [logistics EXCEPT !.processed = Processed(@, c, review),
                          !.latest = Latest(c.time, @),
                          !.review = review,
                          !.conformance = IF stale THEN @ ELSE Conformance(c, @)]
    /\ applied' = [applied EXCEPT ![c] = @ + 1]
    /\ UNCHANGED <<rail, captured, retail, bindings, return, refundVars>>

-----------------------------------------------------------------------------
(* apply_retail_update over _normalize_retail_callback.                    *)

RetailStateTarget(state) ==
    CASE state = "Accepted" -> "confirmed"
      [] state \in {"In-progress", "Packed", "Agent-assigned"} -> "preparing"
      [] state \in {"Order-picked-up", "Out-for-delivery"} -> "shipped"
      [] state \in {"Order-delivered", "Completed"} -> "delivered"
      [] state = "Cancelled" -> "cancelled"
      [] OTHER -> "none"
RetailTarget(c) ==
    IF c.action = "on_cancel" THEN "cancelled"
    ELSE IF c.action \in {"on_confirm", "on_status"} THEN RetailStateTarget(c.state)
    ELSE "none"
RetailReview(c) == (c.action = "on_status" /\ RetailTarget(c) = "none") \/ c.insecure

RetailReturnTarget(code) ==
    CASE code = "Return_Initiated" -> "requested"
      [] code = "Return_Approved" -> "approved"
      [] code \in {"Return_Picked", "Return_Packed"} -> "in_transit"
      [] code \in {"Return_Delivered", "Return_Received"} -> "received"
      [] code = "Liquidated" -> "refund_pending"
      [] code = "Refunded" -> "completed"
      [] OTHER -> "none"

\* The settlement of the callback, or the quote of an order taken back.
RefundAsked(c) ==
    IF c.settlement = "none" /\ c.action = "on_update" /\ c.return \in {"Liquidated", "Refunded"}
    THEN "within" ELSE c.settlement

RetailHeld(c) ==
    IsStale(c.time, retail.latest) \/ RetailReview(c) \/ IllegalTarget(RetailTarget(c))
\* A return that does not exist yet is created as requested.
ReturnNow == IF return = "none" THEN "requested" ELSE return
ReturnRefused(c) ==
    RetailReturnTarget(c.return) # "none"
        /\ RefusesReturn(ReturnNow, RetailReturnTarget(c.return))
\* Variant: the return is set to what the callback says.
ReturnAsTold(c) ==
    IF RetailHeld(c) \/ RetailReturnTarget(c.return) = "none" THEN return
    ELSE RetailReturnTarget(c.return)

ReturnAfter(c) ==
    IF RetailHeld(c) \/ RetailReturnTarget(c.return) = "none" THEN return
    ELSE WalkReturn(ReturnNow, RetailReturnTarget(c.return))

\* Only what passed every check so far comes to its refund.
AsksRefund(c) == ~RetailHeld(c) /\ ~ReturnRefused(c) /\ RefundAsked(c) # "none"
RefundRefused(c) == AsksRefund(c) /\ ~(captured /\ RefundAsked(c) = "within")
CreatesRefund(c) == AsksRefund(c) /\ ~RefundRefused(c) /\ refund = NoRefund

CanApplyRetail(c) == retail.bound /\ c \notin retail.processed

RecordRetail(c, review) ==
    /\ order' = StatusAfter(RetailTarget(c), IsStale(c.time, retail.latest) \/ RetailReview(c))
    /\ return' = ReturnAfter(c)
    /\ retail' = [retail EXCEPT !.processed = Processed(@, c, review),
                                !.latest = Latest(c.time, @),
                                !.review = review]
    /\ applied' = [applied EXCEPT ![c] = @ + 1]
    /\ UNCHANGED <<rail, captured, logistics, bindings>>

\* A callback that asks for no refund, or for one that is refused or already
\* there under its own key.  Another key's refund rolls the callback back.
ApplyRetail(c) ==
    /\ CanApplyRetail(c)
    /\ AsksRefund(c) /\ ~RefundRefused(c) => refund.key = c
    /\ RecordRetail(c, RetailHeld(c) \/ ReturnRefused(c) \/ RefundRefused(c))
    /\ UNCHANGED refundVars

PostRefund(key) ==
    /\ refund' = [status |-> "succeeded", key |-> key]
    /\ postings' = postings \cup {key}
    /\ refunded' = IF rail = "razorpay_test" THEN refunded \cup {key} ELSE refunded

\* Variant: whatever Razorpay answered, the row of the refund is settled.
SettledRow(key) == [status |-> "succeeded", key |-> key]

\* The row create_or_get_refund inserted.
PendingRow(key) == [status |-> "pending", key |-> key]

\* The first refund of the order, carried out with the callback.
ApplyRetailRefund(c) ==
    /\ CanApplyRetail(c)
    /\ CreatesRefund(c)
    /\ PostRefund(c)
    /\ RecordRetail(c, FALSE)

\* Razorpay refuses or does not answer: a conflict that the callback catches,
\* so that its transaction commits with the row as it was inserted.
ApplyRetailUnpaid(c) ==
    /\ CanApplyRetail(c)
    /\ CreatesRefund(c)
    /\ rail = "razorpay_test"
    /\ refund' = PendingRow(c)
    /\ RecordRetail(c, TRUE)
    /\ UNCHANGED <<postings, refunded>>

-----------------------------------------------------------------------------
(* The Seller's refund, and refunds whose transaction is lost.             *)

CanIssueRefund == captured /\ refund = NoRefund

\* issue_refund; a refusal of Razorpay raises and rolls everything back.
IssueRefund(key) ==
    /\ CanIssueRefund
    /\ PostRefund(key)
    /\ UNCHANGED <<rail, order, captured, logistics, retail, applied, bindings, return>>

\* Razorpay refunded, but the process died or the connection was lost before
\* the commit.
LoseRefund(key) ==
    /\ rail = "razorpay_test"
    /\ \/ key \in SellerKeys /\ CanIssueRefund
       \/ key \in RetailCallbacks /\ CanApplyRetail(key) /\ CreatesRefund(key)
    /\ refunded' = refunded \cup {key}
    /\ UNCHANGED <<rail, order, captured, logistics, retail, applied, bindings, return,
                   refund, postings>>

\* create_return: the statuses it asks for are never left again for others.
CreateReturn ==
    /\ order \in {"delivered", "closed", "fulfilled"}
    /\ return = "none"
    /\ return' = "requested"
    /\ UNCHANGED <<rail, order, captured, logistics, retail, applied, bindings, refundVars>>

-----------------------------------------------------------------------------

\* A RET10 callback is applied once, and is remembered if and only if its event
\* is in the history; a LOG10 callback at most once for every time its provider
\* was bound.  Duplicates and redeliveries come at any time, and reviews, stale
\* timestamps, rebindings and lost refunds in between.
CallbackOnce ==
    /\ \A c \in RetailCallbacks : applied[c] = IF c \in retail.processed THEN 1 ELSE 0
    /\ \A c \in LogisticsCallbacks : applied[c] <= bindings[c.bpp]
    /\ \A c \in logistics.processed : applied[c] > 0 /\ logistics.bpp = c.bpp

\* A refund recorded as succeeded was made: of a captured payment, posted once,
\* and at Razorpay under its own key; one left pending is of a callback that is
\* over, so nothing is posted for it and no other refund can follow.
RefundTrue ==
    /\ refund.status = "succeeded" =>
        /\ captured
        /\ postings = {refund.key}
        /\ rail = "razorpay_test" => refund.key \in refunded
    /\ refund.status # "succeeded" => postings = {}
    /\ refund.status = "pending" =>
        rail = "razorpay_test" /\ refund.key \in retail.processed /\ retail.bound

=============================================================================
