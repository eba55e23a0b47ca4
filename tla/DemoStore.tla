------------------------------ MODULE DemoStore ------------------------------
(***************************************************************************)
(* The commerce store of a gateway without a database (commerce_demo.py):  *)
(* one JSON file that every operation loads, changes and saves whole, and  *)
(* a simulated payment adapter that only lives in memory. An operation is  *)
(* an operator from the file as loaded to the file as saved; one that      *)
(* saves more than once returns the sequence of its saves.                 *)
(***************************************************************************)
EXTENDS DomainStateMachines, Naturals, Sequences

CONSTANTS Items, Orders, IssueIds, Keys,
    Price,       \* of one unit of any item; every order is of one unit
    NewStock     \* what a new listing starts with

\* A payment goes by the key of its checkout; some were made before.
Payments == Keys \cup {"none", "before", "other"}
OrderRow == [status : OrderStatuses \cup {"none", "removed", "declined", "unknown"},
             item : Items \cup {"cart"}, amount : Nat, refunded : Nat, payment : Payments,
             addressed : BOOLEAN, authorized : BOOLEAN]
NoOrder == [status |-> "none", item |-> "cart", amount |-> 0, refunded |-> 0,
            payment |-> "none", addressed |-> FALSE, authorized |-> FALSE]
DemoIssue == [status : IssueStatuses \cup {"none", "removed"}, order : Orders \cup {"none"},
              owned : BOOLEAN, remedy : {"none", "promised", "accepted"}, protocol : BOOLEAN]
NoDemoIssue == [status |-> "none", order |-> "none", owned |-> FALSE, remedy |-> "none",
                protocol |-> FALSE]


Exists(row) == row.status \notin {"none", "removed"}

\* memory: what was done, as the responses kept by idempotency key recall it (kept:
\* still recalled), and by: what authorised it.
EmptyStore ==
    [items |-> [i \in Items |-> "none"], stock |-> [i \in Items |-> 0],
     orders |-> [o \in Orders |-> NoOrder], returned |-> {},
     issues |-> [i \in IssueIds |-> NoDemoIssue], memory |-> {}]
EmptyAdapter == [charges |-> {}, refunds |-> {}]

Saved(st, saves) == IF saves = <<>> THEN st ELSE saves[Len(saves)]

Recalled(st, op, on, key) ==
    {m \in st.memory : m.kept /\ m.op = op /\ m.on = on /\ m.key = key}
Known(st, op, on, key) == Recalled(st, op, on, key) # {}
Answer(st, op, on, key) == (CHOOSE m \in Recalled(st, op, on, key) : TRUE).out
Remember(st, op, on, key, out, by) ==
    [st EXCEPT !.memory = @ \cup {[op |-> op, on |-> on, key |-> key, out |-> out,
                                   by |-> by, kept |-> TRUE]}]

-----------------------------------------------------------------------------
(* The catalog.                                                            *)

FreshItems(st) == {i \in Items : st.items[i] = "none"}
CreateItem(st, i, key, by) ==
    Remember([st EXCEPT !.items[i] = "draft", !.stock[i] = NewStock],
             "create", "any", key, i, by)
UpdateItem(st, i, stock) == [st EXCEPT !.stock[i] = stock]
SetItem(st, op, i, status, key, by) ==
    IF Known(st, op, i, key) THEN st
    ELSE Remember([st EXCEPT !.items[i] = status], op, i, key, i, by)

\* publish_item_from_payload: a payload without an item creates one under a key
\* of its own; one with details updates the item, on a replay too.
CanPublish(st, q, key) ==
    IF q.item = "new" THEN Known(st, "create", "any", key) \/ FreshItems(st) # {}
    ELSE st.items[q.item] # "none"
PublishSaves(st, q, key, by) ==
    LET creates == q.item = "new" /\ ~Known(st, "create", "any", key)
        i == IF q.item # "new" THEN q.item
             ELSE IF creates THEN CHOOSE j \in FreshItems(st) : TRUE
             ELSE Answer(st, "create", "any", key)
        first == IF creates THEN <<CreateItem(st, i, key, by)>>
                 ELSE IF q.item # "new" /\ q.stock # 0 THEN <<UpdateItem(st, i, q.stock)>>
                 ELSE <<>>
        whole == SetItem(Saved(st, first), "publish", i, "published", key, by)
    IN
    IF whole = Saved(st, first) THEN first ELSE Append(first, whole)

-----------------------------------------------------------------------------
(* Orders.                                                                 *)

FreshOrders(st) == {o \in Orders : st.orders[o] = NoOrder}
Listed(st, q) == q.item \in Items /\ st.items[q.item] = "published"

\* PaymentAdapter.charge and refund: a key seen before keeps its first outcome.
Outcome(asked) == IF asked = "success" THEN "succeeded"
                 ELSE IF asked = "decline" THEN "declined" ELSE "unknown"
ChargeOf(ad, key, asked) ==
    IF \E c \in ad.charges : c.key = key THEN CHOOSE c \in ad.charges : c.key = key
    ELSE [key |-> key, status |-> Outcome(asked)]
Charged(ad, key, asked) == [ad EXCEPT !.charges = @ \cup {ChargeOf(ad, key, asked)}]

\* What is not published is sold as an item of the Buyer's own cart, and has to
\* name its amount.
Sold(q) == IF q.item \in Items THEN q.item ELSE "cart"
Cost(q) == IF q.charge = 0 THEN Price ELSE q.charge
CanOrder(st, q) ==
    /\ FreshOrders(st) # {}
    /\ IF Listed(st, q) THEN st.stock[q.item] >= 1 ELSE q.charge > 0
CreateOrder(st, ad, q, key, by) ==
    LET o == CHOOSE x \in FreshOrders(st) : TRUE
        charge == ChargeOf(ad, key, q.mode)
        row == [status |-> IF charge.status = "succeeded" THEN "paid" ELSE charge.status,
                item |-> Sold(q), amount |-> Cost(q), refunded |-> 0,
                payment |-> key, addressed |-> q.addressed, authorized |-> FALSE]
    IN
    Remember([st EXCEPT !.orders[o] = row,
                        !.stock = IF Listed(st, q) THEN [@ EXCEPT ![q.item] = st.stock[q.item] - 1] ELSE @],
             "order", "any", key, o, by)

\* record_order_authorization
Authorize(st, o) == [st EXCEPT !.orders[o].authorized = TRUE]

\* transition_order
CanMove(st, o, to) ==
    LET row == st.orders[o]
        from == IF row.status = "unknown" THEN "payment_unknown" ELSE row.status
    IN
    /\ Exists(row)
    /\ to \in {"accepted", "confirmed"} => row.addressed
    /\ <<from, to>> \in OrderMoves
MoveOrder(st, o, to, key, by) ==
    Remember([st EXCEPT !.orders[o].status = to], to, o, key, o, by)

\* create_return
CanReturn(st, o) ==
    st.orders[o].status \in {"delivered", "closed", "fulfilled"} /\ o \notin st.returned
ReturnOrder(st, o, key, by) ==
    Remember([st EXCEPT !.returned = @ \cup {o}], "return", o, key, o, by)

\* refund_from_payload; the adapter is asked under the caller's key alone.
CanRefund(st, q) ==
    LET row == st.orders[q.order] IN
    Exists(row) /\ q.amount > 0 /\ q.amount <= row.amount - row.refunded
RefundAt(ad, st, q, key) ==
    IF \E x \in ad.refunds : x.key = key THEN ad
    ELSE [ad EXCEPT !.refunds = @ \cup {[key |-> key, payment |-> st.orders[q.order].payment,
                                         amount |-> q.amount, status |-> Outcome(q.mode)]}]

\* A mutant: what the order was refunded before is overwritten.
RefundForgotten(st, q, key, by) ==
    Remember([st EXCEPT !.orders[q.order].refunded = q.amount],
             "refund", q.order, key, q.amount, by)

Refund(st, q, key, by) ==
    LET row == st.orders[q.order]
        total == row.refunded + q.amount
        status == IF total = row.amount THEN "cancelled" ELSE row.status
    IN
    Remember([st EXCEPT !.orders[q.order] = [row EXCEPT !.refunded = total, !.status = status]],
             "refund", q.order, key, q.amount, by)

-----------------------------------------------------------------------------
(* Issues.                                                                 *)

FreshIssues(st) == {i \in IssueIds : st.issues[i] = NoDemoIssue}

CreateDemoIssue(st, o, i) ==
    [st EXCEPT !.issues[i] = [@ EXCEPT !.status = "open", !.order = o]]

\* bind_protocol_issue reuses the issue of the order, whoever raised it.
BoundTo(st, o) == {i \in IssueIds : st.issues[i].order = o}
BindProtocol(st, o, i) ==
    IF BoundTo(st, o) # {} THEN st
    ELSE [st EXCEPT !.issues[i] = [@ EXCEPT !.status = "open", !.order = o,
                                            !.protocol = TRUE]]

\* transition_issue; respond_issue is the one to acknowledged.
CanMoveIssue(st, i, to, owner) ==
    /\ to \in {"acknowledged", "escalated", "rejected"}
    /\ owner \/ st.issues[i].owned
    /\ <<st.issues[i].status, to>> \in IssueMoves
MoveIssue(st, i, to) == [st EXCEPT !.issues[i] = [@ EXCEPT !.status = to, !.owned = TRUE]]

\* record_igm_network_event: the owner is the order's seller, when the order is here.
IgmEvent(st, i, code) ==
    LET issue == st.issues[i]
        status == ApplyIgmLegalPath(issue.status, code)
        owned == issue.owned \/ (issue.order \in Orders /\ Exists(st.orders[issue.order]))
    IN
    [st EXCEPT !.issues[i] = [issue EXCEPT !.status = status, !.owned = owned]]

\* propose_remedy acknowledges an open issue on the way.
CanPropose(st, i) ==
    st.issues[i].status = "open" \/ <<st.issues[i].status, "resolution_proposed">> \in IssueMoves
ProposeRemedy(st, i, key, by) ==
    Remember([st EXCEPT !.issues[i] = [@ EXCEPT !.status = "resolution_proposed",
                                                !.owned = TRUE, !.remedy = "promised"]],
             "promise", i, key, i, by)

\* accept_remedy accepts and closes.
CanAccept(st, i) ==
    st.issues[i].remedy = "promised" /\ <<st.issues[i].status, "accepted">> \in IssueMoves
AcceptDemoRemedy(st, i, key, by) ==
    Remember([st EXCEPT !.issues[i] = [@ EXCEPT !.status = "closed", !.remedy = "accepted"]],
             "accept_remedy", i, key, i, by)

-----------------------------------------------------------------------------

\* cleanup_test_artifacts, of one order named by the caller: its unit goes back
\* to an item that still exists, and what was remembered of it is forgotten. A
\* removed row keeps its other fields as history: nothing reads them any more.
CleanUp(st, o) ==
    LET item == st.orders[o].item
        gone == {i \in IssueIds : st.issues[i].order = o}
    IN
    [st EXCEPT !.orders[o].status = "removed",
               !.stock = IF item \in Items /\ st.items[item] # "none"
                         THEN [@ EXCEPT ![item] = st.stock[item] + 1] ELSE @,
               !.issues = [i \in IssueIds |-> IF i \in gone
                                              THEN [NoDemoIssue EXCEPT !.status = "removed"]
                                              ELSE @[i]],
               !.memory = {IF m.on = o \/ m.out = o \/ m.on \in gone
                           THEN [m EXCEPT !.kept = FALSE] ELSE m : m \in @}]
=============================================================================
