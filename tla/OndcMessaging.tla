---------------------------- MODULE OndcMessaging ----------------------------
(***************************************************************************)
(* The durable ONDC inbox and outbox (persistence/ondc_repository.py) and  *)
(* everything that works on them: callbacks and BPP requests that are      *)
(* persisted before their ACK, the background tasks they start, inline     *)
(* dispatches, and the recovery drains (ondc_routes.py, ondc_bpp.py).      *)
(*                                                                         *)
(* One action is one committed transaction or one call to the outside; a   *)
(* worker is one HTTP request or background task between them.             *)
(*                                                                         *)
(*   - a record is its event commitment: a replay of another envelope      *)
(*     under the same commitment is refused and is no step, and so is a    *)
(*     replayed BPP request, which is only acknowledged again;             *)
(*   - a lease token, fresh for each claim, is the worker that made the    *)
(*     claim: a worker claims only while it holds no token;                *)
(*   - time is two sets: expired (leases past lease_expires_at) and        *)
(*     waiting (records whose next_attempt_at is still to come);           *)
(*   - the order in which records were created is not kept: a drain may    *)
(*     claim any that are due and works through them in any order;         *)
(*   - of the commerce orders only what makes a callback a repetition is   *)
(*     kept: which delivery provider is bound, and processed_callbacks.    *)
(***************************************************************************)
EXTENDS Naturals, FiniteSets

CONSTANTS
    Requests,     \* BPP requests (search ... update, issue): inbox records
    Callbacks,    \* RET10 and LOG10 lifecycle callbacks: inbox records
    Logistics,    \* those of LOG10
    Orders,       \* commerce orders delivered over ONDC
    Providers,    \* delivery providers (transaction and bpp_id)
    OrderOf,      \* the order a LOG10 callback is about
    ProviderOf,   \* the provider it comes from
    MaxBindings,  \* bound on how often a provider is bound to an order
    Dispatches,   \* the Buyer's requests to the network: outbox records
    Answers,      \* the BPP's callbacks to requests: outbox records
    AnswerTo,     \* the answer owed to each request
    Workers,
    MaxAttempts,  \* max_attempts of schedule_retry, 5 in the code
    MaxBatch,     \* bound on the limit of a drain
    NoRecord, NoWorker, NoProvider

Inbox == Requests \cup Callbacks
Outbox == Dispatches \cup Answers
Records == Inbox \cup Outbox

ASSUME RecordAssumption ==
    /\ Requests \cap Callbacks = {}
    /\ Dispatches \cap Answers = {}
    /\ Inbox \cap Outbox = {}
    /\ NoRecord \notin Records
    /\ NoWorker \notin Workers
\* An answer repeats the transaction and message of its request and goes to the
\* uri of its Buyer, where no two requests of one Buyer have the same.
ASSUME AnswerAssumption ==
    /\ AnswerTo \in [Requests -> Answers]
    /\ \A p, q \in Requests : AnswerTo[p] = AnswerTo[q] => p = q
ASSUME BindingAssumption ==
    /\ Logistics \subseteq Callbacks
    /\ OrderOf \in [Logistics -> Orders]
    /\ ProviderOf \in [Logistics -> Providers]
    /\ NoProvider \notin Providers
ASSUME BoundAssumption ==
    MaxAttempts \in Nat /\ MaxAttempts >= 1 /\ MaxBatch \in Nat /\ MaxBindings \in Nat

VARIABLES
    state,      \* state[m], "absent" before the row is inserted
    retries,    \* retry_count, as far as it is compared with MaxAttempts
    lease,      \* lease_token
    expired,
    waiting,
    worker,     \* worker[w]: what w is doing, with which record, and what is left
    received,   \* outbox records their destination has acknowledged
    applied,    \* applied[c]: commits of callback c's effect on its order
    processed,  \* callbacks in processed_callbacks of their order's binding
    bound,      \* bound[o]: the delivery provider bound to order o
    bindings    \* bindings[<<o, p>>]: how often p was bound to o

rows == <<state, retries, lease, expired, waiting>>
effects == <<applied, processed, bound, bindings>>
vars == <<state, retries, lease, expired, waiting, worker, received, applied, processed,
          bound, bindings>>

States == {"absent", "pending", "processing", "delivered", "dead_letter"}
WorkerState ==
    [pc : {"idle", "accepted", "answering", "working", "succeeded", "failed"},
     current : Records \cup {NoRecord}, batch : SUBSET Records, inline : BOOLEAN]
Idle == [pc |-> "idle", current |-> NoRecord, batch |-> {}, inline |-> FALSE]

TypeOK ==
    /\ state \in [Records -> States]
    /\ retries \in [Records -> 0..MaxAttempts]
    /\ lease \in [Records -> Workers \cup {NoWorker}]
    /\ expired \in SUBSET Records
    /\ waiting \in SUBSET Records
    /\ worker \in [Workers -> WorkerState]
    /\ received \in SUBSET Outbox
    /\ applied \in [Callbacks -> Nat]
    /\ processed \in SUBSET Callbacks
    /\ bound \in [Orders -> Providers \cup {NoProvider}]
    /\ bindings \in [Orders \X Providers -> 0..MaxBindings]

Init ==
    /\ state = [m \in Records |-> "absent"]
    /\ retries = [m \in Records |-> 0]
    /\ lease = [m \in Records |-> NoWorker]
    /\ expired = {}
    /\ waiting = {}
    /\ worker = [w \in Workers |-> Idle]
    /\ received = {}
    /\ applied = [c \in Callbacks |-> 0]
    /\ processed = {}
    /\ bound = [o \in Orders |-> NoProvider]
    /\ bindings = [b \in Orders \X Providers |-> 0]

\* w goes on with record m, alone or with a batch still to come.
Starts(w, pc, m, batch, inline) ==
    worker' = [worker EXCEPT ![w] =
        [pc |-> pc, current |-> m, batch |-> batch, inline |-> inline]]
Continues(w, pc) == worker' = [worker EXCEPT ![w] = [@ EXCEPT !.pc = pc]]
Ends(w) == worker' = [worker EXCEPT ![w] = Idle]

-----------------------------------------------------------------------------
(* The repository.                                                         *)

\* The WHERE clause of _claim_record and _claim.
Claimable(m) ==
    /\ m \notin waiting
    /\ \/ state[m] = "pending"
       \/ state[m] = "processing" /\ m \in expired

\* The SET clause: fresh rows among ms are inserted by the same transaction.
Claimed(w, ms) ==
    /\ state' = [m \in Records |-> IF m \in ms THEN "processing" ELSE state[m]]
    /\ lease' = [m \in Records |-> IF m \in ms THEN w ELSE lease[m]]
    /\ expired' = expired \ ms
    /\ UNCHANGED <<retries, waiting>>

\* Variant: WHERE lease_token = ... without AND state = 'processing'.
HoldsToken(w, m) == lease[m] = w

\* The WHERE clause of mark_delivered and schedule_retry.
Holds(w, m) == lease[m] = w /\ state[m] = "processing"

MarkDelivered(m) ==
    /\ state' = [state EXCEPT ![m] = "delivered"]
    /\ expired' = expired \ {m}
    /\ UNCHANGED <<retries, lease, waiting>>

\* Variant: max_attempts is never compared.
NeverExhausted(m) == FALSE

Exhausted(m) == retries[m] + 1 >= MaxAttempts

\* schedule_retry: back to pending after a delay, or a dead letter.
ScheduleRetry(m) ==
    /\ state' = [state EXCEPT ![m] = IF Exhausted(m) THEN "dead_letter" ELSE "pending"]
    /\ retries' = [retries EXCEPT ![m] = IF Exhausted(m) THEN MaxAttempts ELSE retries[m] + 1]
    /\ lease' = [lease EXCEPT ![m] = NoWorker]
    /\ expired' = expired \ {m}
    /\ waiting' = IF Exhausted(m) THEN waiting ELSE waiting \cup {m}

\* requeue_dead_letter leaves retry_count alone: one more failure parks it again.
RequeueDeadLetter(m) ==
    /\ state[m] = "dead_letter"
    /\ state' = [state EXCEPT ![m] = "pending"]
    /\ UNCHANGED <<retries, lease, expired, waiting, worker, received, effects>>

-----------------------------------------------------------------------------
(* Inbound messages.                                                       *)

\* Variant: a replayed request starts its background task again.
CreatedAlways(m) == TRUE

\* persist_callback returns created = True.
Created(m) == state[m] = "absent"

Persisted(m) ==
    /\ state' = IF state[m] = "absent" THEN [state EXCEPT ![m] = "pending"] ELSE state
    /\ UNCHANGED <<retries, lease, expired, waiting>>

\* handle_bpp_search, handle_bpp_order_action and handle_bpp_igm: the request is
\* persisted and acknowledged; only a new one gets a background task.
ReceiveRequest(w, q) ==
    /\ worker[w].pc = "idle"
    /\ Created(q)
    /\ Persisted(q)
    /\ Starts(w, "answering", q, {}, TRUE)
    /\ UNCHANGED <<received, effects>>

\* _post_on_search, _post_on_action and _post_on_issue up to the POST: the answer
\* is enqueued and claimed in one transaction.  What the code does with a row
\* that exists already is not reached: see OneAnswerTask.
StageAnswer(w) ==
    LET m == AnswerTo[worker[w].current] IN
    /\ worker[w].pc = "answering"
    /\ state[m] = "absent" \/ Claimable(m)
    /\ Claimed(w, {m})
    /\ Starts(w, "working", m, {}, TRUE)
    /\ UNCHANGED <<received, effects>>

\* _ingest_callback: persisted, or found to be a replay; either way the ACK is
\* followed by _process_inbox_record.
ReceiveCallback(w, c) ==
    /\ worker[w].pc = "idle"
    /\ Persisted(c)
    /\ Starts(w, "accepted", c, {}, TRUE)
    /\ UNCHANGED <<received, effects>>

\* claim_inbox_record finds the record free, or leaves it to its holder.
ClaimCallback(w) ==
    /\ worker[w].pc = "accepted"
    /\ \/ /\ Claimable(worker[w].current)
          /\ Claimed(w, {worker[w].current})
          /\ Continues(w, "working")
       \/ /\ ~Claimable(worker[w].current)
          /\ Ends(w)
          /\ UNCHANGED rows
    /\ UNCHANGED <<received, effects>>

-----------------------------------------------------------------------------
(* Outbound requests and drains.                                           *)

\* _stage_outbox_before_dispatch: a new intent, or the retry of one that is
\* free.  Any other retry is answered from the row (delivered, or 409).
Dispatch(w, d) ==
    /\ worker[w].pc = "idle"
    /\ state[d] = "absent" \/ Claimable(d)
    /\ Claimed(w, {d})
    /\ Starts(w, "working", d, {}, TRUE)
    /\ UNCHANGED <<received, effects>>

\* The claims of drain_ondc_inbox and drain_ondc_outbox: one lease for all.
Drain(w, queue, batch) ==
    /\ worker[w].pc = "idle"
    /\ batch \subseteq {m \in queue : Claimable(m)}
    /\ Cardinality(batch) <= MaxBatch
    /\ Claimed(w, batch)
    /\ \E m \in batch : Starts(w, "working", m, batch \ {m}, FALSE)
    /\ UNCHANGED <<received, effects>>

\* The POST: acknowledged and seen to be; acknowledged but the answer is lost;
\* or not acknowledged.
Send(w) ==
    LET m == worker[w].current IN
    /\ worker[w].pc = "working"
    /\ m \in Outbox
    /\ \/ received' = received \cup {m} /\ Continues(w, "succeeded")
       \/ received' \in {received, received \cup {m}} /\ Continues(w, "failed")
    /\ UNCHANGED <<rows, effects>>

\* Variant: the bpp_id of the callback is not compared.
BoundAlways(c) == TRUE

\* The provider a LOG10 callback names is the one bound to its order; a RET10
\* binding is made once, for good.
Bound(c) == c \in Logistics => bound[OrderOf[c]] = ProviderOf[c]

\* Variant: the callback is not looked up in processed_callbacks.
NeverProcessed(c) == FALSE

\* event_commitment in processed_callbacks.
Processed(c) == c \in processed

\* apply_retail_update or apply_logistics_update, one transaction under the lock
\* of its order: what it does to the order is one effect, or none the second time.
Applied(c) ==
    /\ Bound(c)
    /\ applied' = IF Processed(c) THEN applied ELSE [applied EXCEPT ![c] = applied[c] + 1]
    /\ processed' = processed \cup {c}
    /\ UNCHANGED <<bound, bindings>>

\* Variant: an effect that raised counts as delivered.
SucceedsAnyway == {"succeeded"}

\* What _reconcile_claimed_inbox makes of an effect that raised.
AfterError == {"failed"}

\* The effect is committed, found to be committed before, or raises.
ReconcileCallback(w) ==
    LET c == worker[w].current IN
    /\ worker[w].pc = "working"
    /\ c \in Callbacks
    /\ \/ /\ Applied(c)
          /\ Continues(w, "succeeded")
       \/ /\ \E pc \in AfterError : Continues(w, pc)
          /\ UNCHANGED effects
    /\ UNCHANGED <<rows, received>>

\* _reconcile_claimed_inbox has no branch for a BPP request.
ReconcileRequest(w) ==
    /\ worker[w].pc = "working"
    /\ worker[w].current \in Requests
    /\ Continues(w, "succeeded")
    /\ UNCHANGED <<rows, received, effects>>

\* rebind_rejected_logistics_provider, or a fulfilment of transition_order that
\* comes with a provider: the new binding starts with no processed_callbacks,
\* also when this provider was bound before.  What the status of the order and
\* the conformance of the provider allow is Fulfilment's.
BindProvider(o, p) ==
    /\ bindings[<<o, p>>] < MaxBindings
    /\ bound' = [bound EXCEPT ![o] = p]
    /\ bindings' = [bindings EXCEPT ![<<o, p>>] = bindings[<<o, p>>] + 1]
    /\ processed' = processed \ {c \in Logistics : OrderOf[c] = o}
    /\ UNCHANGED <<rows, worker, received, applied>>

-----------------------------------------------------------------------------
(* Outcomes.                                                               *)

\* The next record of the drain, or the end.
GoesOn(w) ==
    \/ worker[w].batch = {} /\ Ends(w)
    \/ \E m \in worker[w].batch : Starts(w, "working", m, worker[w].batch \ {m}, FALSE)

RecordSuccess(w) ==
    /\ worker[w].pc = "succeeded"
    /\ Holds(w, worker[w].current)
    /\ MarkDelivered(worker[w].current)
    /\ GoesOn(w)
    /\ UNCHANGED <<received, effects>>

RecordFailure(w) ==
    /\ worker[w].pc = "failed"
    /\ Holds(w, worker[w].current)
    /\ ScheduleRetry(worker[w].current)
    /\ GoesOn(w)
    /\ UNCHANGED <<received, effects>>

\* LeaseMismatch: a drain gives up the rest of its batch as well.
LoseLease(w) ==
    /\ worker[w].pc \in {"succeeded", "failed"}
    /\ ~Holds(w, worker[w].current)
    /\ Ends(w)
    /\ UNCHANGED <<rows, received, effects>>

\* mark_delivered inside the try of _post_on_* and of the direct search to the
\* configured BPP: when its transaction fails, or commits and the connection is
\* lost, the handler goes on to schedule_retry.
DoubtSuccess(w) ==
    /\ worker[w].pc = "succeeded"
    /\ worker[w].inline
    /\ worker[w].current \in Outbox
    /\ \/ Holds(w, worker[w].current) /\ MarkDelivered(worker[w].current)
       \/ UNCHANGED rows
    /\ Continues(w, "failed")
    /\ UNCHANGED <<received, effects>>

\* Process death, a cancelled request, a database error, or one of the early
\* returns of _post_on_*: what was committed stays.
Abandon(w) ==
    /\ worker[w].pc # "idle"
    /\ Ends(w)
    /\ UNCHANGED <<rows, received, effects>>

-----------------------------------------------------------------------------
(* Time.                                                                   *)

ExpireLease(m) ==
    /\ state[m] = "processing"
    /\ m \notin expired
    /\ expired' = expired \cup {m}
    /\ UNCHANGED <<state, retries, lease, waiting, worker, received, effects>>

EndWaiting(m) ==
    /\ m \in waiting
    /\ waiting' = waiting \ {m}
    /\ UNCHANGED <<state, retries, lease, expired, worker, received, effects>>

-----------------------------------------------------------------------------
Arrive(w) ==
    \/ \E q \in Requests : ReceiveRequest(w, q)
    \/ \E c \in Callbacks : ReceiveCallback(w, c)
    \/ \E d \in Dispatches : Dispatch(w, d)
    \/ \E batch \in SUBSET Inbox : Drain(w, Inbox, batch)
    \/ \E batch \in SUBSET Outbox : Drain(w, Outbox, batch)

Work(w) ==
    \/ StageAnswer(w)
    \/ ClaimCallback(w)
    \/ Send(w)
    \/ ReconcileCallback(w)
    \/ ReconcileRequest(w)
    \/ RecordSuccess(w)
    \/ RecordFailure(w)
    \/ LoseLease(w)
    \/ DoubtSuccess(w)

Next ==
    \/ \E w \in Workers : Arrive(w) \/ Work(w) \/ Abandon(w)
    \/ \E m \in Records : RequeueDeadLetter(m) \/ ExpireLease(m) \/ EndWaiting(m)
    \/ \E o \in Orders, p \in Providers : BindProvider(o, p)

Spec == Init /\ [][Next]_vars

-----------------------------------------------------------------------------
(* Properties.                                                             *)

\* A RET10 callback's effect is committed at most once, a LOG10 callback's at
\* most once for every time its provider was bound to the order: although its
\* record may be worked on by several workers at a time (a lease expires under
\* its holder), again after a crash between the effect and mark_delivered, and
\* late, when another provider has taken the place of its own.  A provider that
\* is bound again has its callbacks applied again.
EffectOnce ==
    \A c \in Callbacks :
        applied[c] <= IF c \in Logistics THEN bindings[<<OrderOf[c], ProviderOf[c]>>] ELSE 1

\* The background task of a request is its only one and finds its answer not
\* yet staged, through replays and drains: it never meets another sender's row,
\* whose lease token _stage_bpp_callback would hand it.
OneAnswerTask ==
    \A w \in Workers : worker[w].pc = "answering" =>
        /\ state[AnswerTo[worker[w].current]] = "absent"
        /\ \A v \in Workers :
              worker[v].pc = "answering" /\ worker[v].current = worker[w].current => v = w

\* What was delivered stays delivered: no late failure, expired lease or
\* completion in doubt puts the record back.
DeliveredIsFinal ==
    [][\A m \in Records : state[m] = "delivered" =>
          state'[m] = "delivered" /\ lease'[m] = lease[m]]_vars

\* The queues implement DurableDelivery.  BPP requests are not among its
\* messages: see DeliveredRequestIsAnswered.
Stage(m) ==
    IF state[m] = "absent" THEN "none"
    ELSE IF state[m] = "delivered" THEN "delivered"
    ELSE IF state[m] = "dead_letter" THEN "parked" ELSE "queued"
Abstract == INSTANCE DurableDelivery WITH
    Messages <- Callbacks \cup Outbox,
    stage <- [m \in Callbacks \cup Outbox |-> Stage(m)],
    done <- received \cup {c \in Callbacks : applied[c] > 0}

\* No callback is delivered without its effect and no outgoing message without
\* an acknowledgement, whoever held which lease when.
ImplementsDelivery == Abstract!Spec

\* A request whose record is delivered has its answer in the outbox, or a task
\* about to put it there: a drain is "safe after process restart".
DeliveredRequestIsAnswered ==
    \A q \in Requests : state[q] = "delivered" =>
        \/ state[AnswerTo[q]] # "absent"
        \/ \E w \in Workers : worker[w].pc = "answering" /\ worker[w].current = q
=============================================================================
