------------------------------ MODULE FileGuard ------------------------------
(***************************************************************************)
(* AgentGuard of a gateway without a database (agentguard.py): agents,     *)
(* mandates, approvals and receipts in one JSON file of their own, and     *)
(* protected actions that run in the DemoStore.  Handlers do not await,    *)
(* so each runs alone, but it saves several times, now one file, now the   *)
(* other, and the process may die after any of its saves.                  *)
(***************************************************************************)
EXTENDS DemoStore, FiniteSets

CONSTANTS
    Approvals,
    Limits, DefaultLimit,  \* what a mandate lets an agent spend unasked
    MaxMandates,           \* a bound on those one agent's owner compiles
    Scenarios              \* who asks for what in a behaviour, and what it finds

Actions == {"checkout", "accept", "reject", "fulfil", "cancel", "refund", "publish", "archive",
            "return", "promise", "accept_remedy", "price"}
Request ==
    {q \in [action : Actions, item : Items \cup {"cart", "new"}, order : Orders,
            issue : IssueIds, to : OrderStatuses \cup {""}, amount : Nat, charge : Nat,
            mode : {"success", "decline", "timeout"}, addressed : BOOLEAN, stock : Nat] :
        /\ q.action = "publish" => q.item # "cart"
        /\ q.action = "archive" => q.item \in Items}

\* What was done, on what, under which key, with which answer, and what allowed it.
Ops == {"create", "order", "publish", "archive", "refund", "return", "promise",
        "accept_remedy"} \cup OrderStatuses
Thing == Items \cup Orders \cup IssueIds
Memory ==
    {m \in [op : Ops, on : Thing \cup {"any"}, key : Keys, out : Thing \cup Nat,
            by : Approvals \cup {"limit"}, kept : BOOLEAN] :
        m.op = "create" => m.out \in Items}
StoreRow == [items : [Items -> {"none", "draft", "published", "archived"}],
             stock : [Items -> Nat], orders : [Orders -> OrderRow], returned : SUBSET Orders,
             issues : [IssueIds -> DemoIssue], memory : SUBSET Memory]

ASSUME LimitAssumption ==
    /\ Limits \subseteq Nat /\ DefaultLimit \in Nat /\ MaxMandates \in Nat \ {0}
    /\ "limit" \notin Approvals
ASSUME StockAssumption == IsFiniteSet(Orders) /\ Price \in Nat /\ NewStock \in Nat
\* A behaviour starts with the process, on a file that remembers nothing yet.
ASSUME ScenarioAssumption ==
    \A s \in Scenarios :
        /\ s.requests \subseteq Request /\ s.requests # {}
        /\ s.actors \subseteq {"agent", "user"} /\ s.owners \subseteq {"buyer", "seller"}
        /\ s.store \in StoreRow /\ s.store.memory = {} /\ s.adapter = EmptyAdapter
        /\ \A o \in Orders : s.store.orders[o].refunded <= s.store.orders[o].amount

VARIABLES
    scenario,  \* the requests made in this behaviour, the same throughout
    guard,     \* AgentGuardState as saved
    store,     \* CommerceState as saved
    adapter    \* payment_adapter, in memory

fileVars == <<scenario, guard, store, adapter>>

Roles == {"buyer", "seller"}
RoleOf(q) ==
    IF q.action \in {"checkout", "cancel", "return", "accept_remedy"} THEN "buyer" ELSE "seller"
Actors == {"agent", "user"}
Requests == scenario.requests
AllRequests == UNION {s.requests : s \in Scenarios}

ApprovalRow == [status : {"none", "issued", "consumed", "expired", "revoked"},
                req : AllRequests, mandate : 0..MaxMandates, actor : Actors,
                bound : BOOLEAN, late : BOOLEAN]

\* No agent has been created; ensure_agent will, with the default mandate.
InitGuard ==
    [agents |-> [r \in Roles |-> [status |-> "none", mandate |-> 0]],
     mandates |-> [r \in Roles |-> <<>>],
     approvals |-> [a \in Approvals |->
        [status |-> "none", req |-> CHOOSE q \in AllRequests : TRUE, mandate |-> 0,
         actor |-> "agent", bound |-> FALSE, late |-> FALSE]],
     receipts |-> {}]

Init ==
    /\ scenario \in Scenarios
    /\ guard = InitGuard
    /\ store = scenario.store
    /\ adapter = scenario.adapter

FileTypeOK ==
    /\ \A r \in Roles :
        /\ guard.agents[r].status \in {"none", "active", "paused", "revoked"}
        /\ guard.agents[r].mandate \in 0..Len(guard.mandates[r])
    /\ guard.approvals \in [Approvals -> ApprovalRow]
    /\ store \in StoreRow

-----------------------------------------------------------------------------
(* A handler is the sequence of its saves.  It ends with the last of them, *)
(* or the process dies after some, and restarts on what is saved.          *)

State(g, s) == [guard |-> g, store |-> s]
Here == State(guard, store)
After(steps, n) == IF n = 0 THEN Here ELSE steps[n]

Finish(steps, ad) ==
    /\ guard' = After(steps, Len(steps)).guard
    /\ store' = After(steps, Len(steps)).store
    /\ adapter' = ad
    /\ UNCHANGED scenario
Die(steps) ==
    \E n \in 0..Len(steps) :
        /\ guard' = After(steps, n).guard
        /\ store' = After(steps, n).store
        /\ adapter' = EmptyAdapter
        /\ UNCHANGED scenario
Run(steps, ad) == Finish(steps, ad) \/ Die(steps)

-----------------------------------------------------------------------------
(* Agents and mandates; a mandate's id is its place among its agent's.     *)

Agent(g, r) == g.agents[r]
Mandate(g, r) == g.mandates[r][Agent(g, r).mandate]

EnsureAgent(g, r) ==
    IF Agent(g, r).mandate # 0 THEN g
    ELSE [g EXCEPT !.agents[r] = [status |-> "active", mandate |-> 1],
                   !.mandates[r] = <<[status |-> "active", limit |-> DefaultLimit]>>]

Compile(r, limit) ==
    LET g == EnsureAgent(guard, r) IN
    /\ Len(g.mandates[r]) < MaxMandates
    /\ Run(<<State(g, store),
             State([g EXCEPT !.mandates[r] =
                        Append(@, [status |-> "draft", limit |-> limit])], store)>>, adapter)

\* A mutant: every approval of the agent's is closed, whatever became of it.
ClosedAll(g, r, status) ==
    [g EXCEPT !.approvals = [a \in Approvals |->
        IF @[a].status # "none" /\ RoleOf(@[a].req) = r
        THEN [@[a] EXCEPT !.status = status] ELSE @[a]]]

\* _invalidate_pending_approvals
Closed(g, r, status) ==
    [g EXCEPT !.approvals = [a \in Approvals |->
        IF @[a].status = "issued" /\ RoleOf(@[a].req) = r
        THEN [@[a] EXCEPT !.status = status] ELSE @[a]]]

\* Any mandate the principal ever compiled, a revoked one too.
Confirm(r, m) ==
    /\ m \in 1..Len(guard.mandates[r])
    /\ Run(<<State(Closed([guard EXCEPT !.mandates[r][m].status = "active",
                                        !.agents[r].mandate = m], r, "revoked"), store)>>,
           adapter)

\* pause_agent and resume_agent; resuming does not look at what was revoked.
SetStatus(r, status) ==
    LET g == [guard EXCEPT !.agents[r].status = status] IN
    /\ Agent(guard, r).mandate # 0
    /\ Run(<<State(IF status = "paused" THEN Closed(g, r, "expired") ELSE g, store)>>, adapter)
Revoke(r) ==
    /\ Agent(guard, r).mandate # 0
    /\ Run(<<State(Closed([guard EXCEPT !.agents[r].status = "revoked",
                                        !.mandates[r][Agent(guard, r).mandate].status = "revoked"],
                          r, "revoked"), store)>>, adapter)

-----------------------------------------------------------------------------
(* Deciding.                                                               *)

AutoMax(mandate, q) == IF q.action \in {"checkout", "refund"} THEN mandate.limit ELSE 0

\* _authorization_failure, then the limit.
Verdict(g, q, actor) ==
    LET agent == Agent(g, RoleOf(q))
        mandate == Mandate(g, RoleOf(q))
    IN
    IF \/ agent.status = "paused" /\ ~(actor = "user" /\ q.action = "checkout")
       \/ agent.status = "revoked"
       \/ mandate.status # "active"
    THEN "denied"
    ELSE IF q.amount <= AutoMax(mandate, q) THEN "allowed" ELSE "need_approval"

\* Receipts of refusals and of evaluations are left out: nothing reads them.
Receipt(outcome, q, by) == [outcome |-> outcome, req |-> q, by |-> by]
WithReceipt(g, receipt) == [g EXCEPT !.receipts = @ \cup {receipt}]

FreshApprovals(g) == {a \in Approvals : g.approvals[a].status = "none"}

\* _issue_approval. bound: the payload it is for carries the correlation id that
\* an execute call adds to its own, and repeats when it comes back.
WithApproval(g, q, actor, bound) ==
    [g EXCEPT !.approvals[CHOOSE a \in FreshApprovals(g) : TRUE] =
        [status |-> "issued", req |-> q, mandate |-> Agent(g, RoleOf(q)).mandate,
         actor |-> actor, bound |-> bound, late |-> FALSE]]

Evaluate(q, actor) ==
    LET g == EnsureAgent(guard, RoleOf(q))
        needs == Verdict(g, q, actor) = "need_approval"
    IN
    /\ needs => FreshApprovals(guard) # {}
    /\ Run(<<State(g, store),
             State(IF needs THEN WithApproval(g, q, actor, FALSE) ELSE g, store)>>, adapter)

\* The fifteen minutes of an approval pass; who tries it next finds it expired.
Lapse(a) ==
    /\ guard.approvals[a].status = "issued"
    /\ ~guard.approvals[a].late
    /\ guard' = [guard EXCEPT !.approvals[a].late = TRUE]
    /\ UNCHANGED <<scenario, store, adapter>>

Pending(a) == guard.approvals[a].status = "issued"
\* What _consume_approval_locked requires of the agent and the mandate.
StillBacked(a, actor) ==
    LET row == guard.approvals[a]
        agent == Agent(guard, RoleOf(row.req))
    IN
    /\ agent.status = "active" \/ (actor = "user" /\ agent.status = "paused")
    /\ agent.mandate = row.mandate
    /\ Mandate(guard, RoleOf(row.req)).status = "active"

Consumed(g, a) == [g EXCEPT !.approvals[a].status = "consumed"]

ExpireLate(a) ==
    /\ Pending(a)
    /\ guard.approvals[a].late
    /\ Run(<<State([guard EXCEPT !.approvals[a].status = "expired"], store)>>, adapter)

\* /approvals/consume and /approve: consumed, and nothing is done with it.
Approve(a) ==
    LET g == Consumed(guard, a) IN
    /\ Pending(a)
    /\ ~guard.approvals[a].late
    /\ StillBacked(a, "agent")
    /\ Run(<<State(g, store),
             State(WithReceipt(g, Receipt("approved", guard.approvals[a].req, a)), store)>>,
           adapter)

-----------------------------------------------------------------------------
(* Executing: _commerce_executor.  Saves are those of the store.           *)

OpOf(q) == IF q.action = "checkout" THEN "order"
           ELSE IF q.action \in {"accept", "reject", "fulfil", "cancel"} THEN q.to
           ELSE q.action
TargetOf(q) == IF q.action = "checkout" THEN "any"
               ELSE IF q.action \in {"publish", "archive"} THEN q.item
               ELSE IF q.action \in {"promise", "accept_remedy"} THEN q.issue ELSE q.order

\* The ownership the *_from_payload operators check first.
Reachable(st, q) ==
    CASE q.action = "checkout" -> TRUE
      [] q.action = "publish" -> q.item = "new" \/ st.items[q.item] # "none"
      [] q.action = "archive" -> st.items[q.item] # "none"
      [] q.action \in {"promise", "accept_remedy"} ->
            Exists(st.issues[q.issue]) /\ st.issues[q.issue].order \in Orders
            /\ Exists(st.orders[st.issues[q.issue].order])
      [] q.action = "price" -> FALSE
      [] OTHER -> Exists(st.orders[q.order])

Replays(st, q, key) == q.action # "publish" /\ Known(st, OpOf(q), TargetOf(q), key)

Doable(st, q, key) ==
    CASE q.action = "checkout" -> CanOrder(st, q)
      [] q.action = "publish" -> CanPublish(st, q, key)
      [] q.action = "archive" -> TRUE
      [] q.action = "refund" -> CanRefund(st, q)
      [] q.action = "return" -> CanReturn(st, q.order)
      [] q.action = "promise" -> CanPropose(st, q.issue)
      [] q.action = "accept_remedy" -> CanAccept(st, q.issue)
      [] OTHER -> CanMove(st, q.order, q.to)

Effect(st, q, key, by) ==
    CASE q.action = "checkout" -> <<CreateOrder(st, adapter, q, key, by)>>
      [] q.action = "publish" -> PublishSaves(st, q, key, by)
      [] q.action = "archive" -> <<SetItem(st, "archive", q.item, "archived", key, by)>>
      [] q.action = "refund" -> <<Refund(st, q, key, by)>>
      [] q.action = "return" -> <<ReturnOrder(st, q.order, key, by)>>
      [] q.action = "promise" -> <<ProposeRemedy(st, q.issue, key, by)>>
      [] q.action = "accept_remedy" -> <<AcceptDemoRemedy(st, q.issue, key, by)>>
      [] OTHER -> <<MoveOrder(st, q.order, q.to, key, by)>>

Succeeds(q, key) ==
    Reachable(store, q) /\ (Replays(store, q, key) \/ Doable(store, q, key))
EffectSaves(q, key, by) ==
    IF ~Succeeds(q, key) \/ Replays(store, q, key) THEN <<>> ELSE Effect(store, q, key, by)
AdapterAfter(q, key) ==
    IF ~Succeeds(q, key) \/ Replays(store, q, key) THEN adapter
    ELSE IF q.action = "checkout" THEN Charged(adapter, key, q.mode)
    ELSE IF q.action = "refund" THEN RefundAt(adapter, store, q, key)
    ELSE adapter

\* A mutant: the receipt is written before the effect is tried.
ReceiptFirst(g, q, key, by) ==
    LET told == WithReceipt(g, Receipt("executed", q, by))
        saves == EffectSaves(q, key, by)
    IN
    <<State(told, store)>> \o [n \in 1..Len(saves) |-> State(told, saves[n])]

\* The saves of an authorised action on a guard file that has got as far as g:
\* the effect, its receipt, and for a checkout the authorisation on the order.
\* What raises leaves nothing more.
Performed(g, q, key, by) ==
    LET saves == EffectSaves(q, key, by)
        done == Saved(store, saves)
        told == WithReceipt(g, Receipt("executed", q, by))
    IN
    [n \in 1..Len(saves) |-> State(g, saves[n])]
    \o (IF Succeeds(q, key)
        THEN <<State(told, done)>>
             \o (IF q.action = "checkout"
                 THEN <<State(told, Authorize(done, Answer(done, "order", "any", key)))>>
                 ELSE <<>>)
        ELSE <<>>)

\* execute_action without an approval.
ExecuteWithin(q, actor, key) ==
    LET g == EnsureAgent(guard, RoleOf(q))
        verdict == Verdict(g, q, actor)
    IN
    \/ /\ verdict = "allowed"
       /\ Run(<<State(g, store)>> \o Performed(g, q, key, "limit"), AdapterAfter(q, key))
    \/ /\ verdict = "need_approval"
       /\ FreshApprovals(g) # {}
       /\ Run(<<State(g, store), State(WithApproval(g, q, actor, TRUE), store)>>, adapter)

\* A mutant: the consumption is saved after the effect.
SpendLast(q, a, key) ==
    LET saves == EffectSaves(q, key, a)
        spent == Consumed(guard, a)
        done == Saved(store, saves)
    IN
    [n \in 1..Len(saves) |-> State(guard, saves[n])]
    \o <<State(spent, done)>>
    \o (IF Succeeds(q, key)
        THEN <<State(WithReceipt(spent, Receipt("executed", q, a)), done)>> ELSE <<>>)

\* With one: consumed and receipted before the effect is tried.
SpendFirst(q, a, key) ==
    LET spent == Consumed(guard, a)
        approved == WithReceipt(spent, Receipt("approved", q, a))
    IN
    <<State(spent, store), State(approved, store)>> \o Performed(approved, q, key, a)

\* A mutant: the action is compared, not the payload.
SameAction(a, q, actor) ==
    guard.approvals[a].req.action = q.action /\ guard.approvals[a].actor = actor

\* The canonical request, rebuilt from the call, has the hash of the approval's.
SameRequest(a, q, actor) ==
    /\ guard.approvals[a].req = q
    /\ guard.approvals[a].actor = actor
    /\ guard.approvals[a].bound

ExecuteApproved(q, actor, a, key) ==
    /\ Pending(a)
    /\ ~guard.approvals[a].late
    /\ StillBacked(a, actor)
    /\ SameRequest(a, q, actor)
    /\ Run(SpendFirst(q, a, key), AdapterAfter(q, key))

-----------------------------------------------------------------------------
(* What reaches the store without the guard: issues of the Buyer and of    *)
(* the network, the Seller's answers, and the cleanup of test runs.        *)

SaveStore(st) == Run(<<State(guard, st)>>, adapter)

RaiseIssue(o) ==
    /\ Exists(store.orders[o])
    /\ \E i \in FreshIssues(store) : SaveStore(CreateDemoIssue(store, o, i))
BindProtocolIssue(o) ==
    \E i \in FreshIssues(store) : SaveStore(BindProtocol(store, o, i))
AnswerIssue(i, to, owner) ==
    /\ CanMoveIssue(store, i, to, owner)
    /\ SaveStore(MoveIssue(store, i, to))
NetworkEvent(i, code) ==
    /\ Exists(store.issues[i])
    /\ SaveStore(IgmEvent(store, i, code))
CleanUpOrder(o) ==
    /\ Exists(store.orders[o])
    /\ SaveStore(CleanUp(store, o))

OwnerStep(r) ==
    \/ \E limit \in Limits : Compile(r, limit)
    \/ \E m \in 1..MaxMandates : Confirm(r, m)
    \/ \E status \in {"active", "paused"} : SetStatus(r, status)
    \/ Revoke(r)
ApprovalStep(a) == Lapse(a) \/ ExpireLate(a) \/ Approve(a)
RequestStep(q) ==
    \E actor \in scenario.actors :
        \/ Evaluate(q, actor)
        \/ \E key \in Keys : ExecuteWithin(q, actor, key)
        \/ \E a \in Approvals, key \in Keys : ExecuteApproved(q, actor, a, key)
IssueStep ==
    /\ scenario.issues
    /\ \/ \E o \in Orders : RaiseIssue(o) \/ BindProtocolIssue(o)
       \/ \E i \in IssueIds :
           \/ \E to \in IssueStatuses, owner \in BOOLEAN : AnswerIssue(i, to, owner)
           \/ \E code \in IgmCodes : NetworkEvent(i, code)
CleanUpStep ==
    /\ scenario.cleanup
    /\ \E o \in Orders : CleanUpOrder(o)

Next ==
    \/ \E r \in scenario.owners : OwnerStep(r)
    \/ \E a \in Approvals : ApprovalStep(a)
    \/ \E q \in Requests : RequestStep(q)
    \/ IssueStep
    \/ CleanUpStep

Spec == Init /\ [][Next]_fileVars

-----------------------------------------------------------------------------

\* What m recalls is what q asks for: the operation, on that order, issue or item;
\* the order of a checkout is of its item and amount, a refund of its amount, and
\* a new listing publishes what was created under its key.
Bought(row, q) == row.status # "none" /\ row.item = Sold(q) /\ row.amount = Cost(q)
AsAsked(st, m, q) ==
    /\ m.op = OpOf(q)
    /\ IF q.action = "publish" /\ q.item = "new"
       THEN \E n \in st.memory : n.op = "create" /\ n.key = m.key /\ n.out = m.on
       ELSE m.on = TargetOf(q)
    /\ m.op = "order" => m.out \in Orders /\ Bought(st.orders[m.out], q)
    /\ m.op = "refund" => m.out = q.amount

\* What was done on an approval is just what that approval was asked for, and the
\* approval is spent and backs nothing else; a refund without one is within the
\* limit of a mandate; and what an "executed" receipt tells of was done, also when
\* a process dies between the saves of the two files (execute_action,
\* execute_refund_from_payload). A replay is told as executed whatever amount it
\* names: the receipt is held to the operation and what it is on.
AuthorityTrail ==
    /\ \A m \in store.memory :
        m.by \in Approvals =>
            /\ guard.approvals[m.by].status = "consumed"
            /\ m.op = "create" \/ AsAsked(store, m, guard.approvals[m.by].req)
            /\ \A n \in store.memory :
                n.by = m.by /\ n.op # "create" /\ m.op # "create" => n = m
    /\ \A m \in store.memory :
        m.op = "refund" /\ m.by = "limit" =>
            \E n \in 1..Len(guard.mandates["seller"]) :
                m.out <= guard.mandates["seller"][n].limit
    /\ \A x \in guard.receipts :
        x.outcome = "executed" =>
            \E m \in store.memory :
                m.op = OpOf(x.req) /\ (x.req.item # "new" => m.on = TargetOf(x.req))

\* No order is refunded more than it cost, in the file or in money: of a payment
\* the adapter has paid back at most what the orders on it say, whatever keys are
\* used again, parts are declined and memories lost. There are several orders on
\* a payment when a cleanup forgets the checkout and its key is used again. The
\* adapter is the simulated one: it lives in the process, and a death forgets the
\* money it paid back as well, also when the refund was not yet saved.
RupeesOf(rows, amount) == UNION {{x} \X (1..amount[x]) : x \in rows}
PaidOn(p) == {x \in adapter.refunds : x.payment = p /\ x.status = "succeeded"}
OrdersOn(p) == {o \in Orders : store.orders[o].payment = p}
PaidBack(p) == Cardinality(RupeesOf(PaidOn(p), [x \in adapter.refunds |-> x.amount]))
Refunded(p) == Cardinality(RupeesOf(OrdersOn(p), [o \in Orders |-> store.orders[o].refunded]))
RefundsWithinOrder ==
    \A o \in Orders :
        /\ PaidBack(store.orders[o].payment) <= Refunded(store.orders[o].payment)
        /\ store.orders[o].refunded <= store.orders[o].amount

Guarded == INSTANCE OneTimeApproval WITH
    approval <- [a \in Approvals |-> guard.approvals[a].status]
ImplementsOneTimeApproval == Guarded!Spec
=============================================================================
