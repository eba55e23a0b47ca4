------------------------- MODULE OndcMessagingProofs -------------------------
(***************************************************************************)
(* What OndcMessaging keeps for every number of records and workers, any   *)
(* batch size and any retry limit, with leases that expire at any time and *)
(* workers that may disappear at any step.  The inductive invariant says   *)
(* what a worker knows about the rows it works on although it may have     *)
(* lost their leases: they exist, and what it took for a success happened. *)
(* Of the orders it says what a binding of a provider allows its callbacks *)
(* that it has not yet taken.                                              *)
(***************************************************************************)
EXTENDS OndcMessaging, TLAPS

USE DEF effects

\* A worker only has records whose rows were inserted, of the right queue.
WorkersHaveRows ==
    \A w \in Workers :
        /\ worker[w].pc # "idle" =>
              worker[w].current \in Records /\ state[worker[w].current] # "absent"
        /\ worker[w].pc = "answering" => worker[w].current \in Requests
        /\ worker[w].pc = "accepted" => worker[w].current \in Callbacks
        /\ \A m \in worker[w].batch : state[m] # "absent"

Done == received \cup {c \in Callbacks : applied[c] > 0}

\* A success that waits to be recorded has happened.
SuccessHappened ==
    \A w \in Workers :
        worker[w].pc = "succeeded" /\ worker[w].current \notin Requests =>
            worker[w].current \in Done

\* No answer is staged for a request that has not arrived.
AnswersFollow == \A q \in Requests : state[q] = "absent" => state[AnswerTo[q]] = "absent"

\* A callback the binding has not taken may take effect once more.
BindingsAllow ==
    /\ \A c \in processed : applied[c] > 0
    /\ \A c \in Callbacks \ processed :
          IF c \in Logistics
          THEN bound[OrderOf[c]] = ProviderOf[c]
                  => applied[c] < bindings[<<OrderOf[c], ProviderOf[c]>>]
          ELSE applied[c] = 0

IInv ==
    /\ TypeOK
    /\ WorkersHaveRows
    /\ SuccessHappened
    /\ EffectOnce
    /\ BindingsAllow
    /\ OneAnswerTask
    /\ AnswersFollow

-----------------------------------------------------------------------------
(* The parts of a step.                                                    *)

LEMMA RecordKinds ==
    /\ Requests \subseteq Records /\ Callbacks \subseteq Records
    /\ Dispatches \subseteq Records /\ Answers \subseteq Records
    /\ Inbox \subseteq Records /\ Outbox \subseteq Records
    /\ \A q \in Requests : AnswerTo[q] \in Answers
  BY AnswerAssumption DEF Records, Inbox, Outbox

\* Every step is one of these actions of some worker or some record.
LEMMA Steps ==
    ASSUME [Next]_vars, TypeOK
    PROVE  \/ UNCHANGED vars
           \/ \E w \in Workers :
                \/ \E q \in Requests : ReceiveRequest(w, q)
                \/ \E c \in Callbacks : ReceiveCallback(w, c)
                \/ \E d \in Dispatches : Dispatch(w, d)
                \/ \E queue \in SUBSET Records, batch \in SUBSET Records : Drain(w, queue, batch)
                \/ Work(w)
                \/ Abandon(w)
           \/ \E m \in Records : RequeueDeadLetter(m) \/ ExpireLease(m) \/ EndWaiting(m)
           \/ \E o \in Orders, p \in Providers : BindProvider(o, p)
<1>1. Inbox \in SUBSET Records /\ Outbox \in SUBSET Records
  BY RecordKinds
<1>2. SUBSET Inbox \subseteq SUBSET Records /\ SUBSET Outbox \subseteq SUBSET Records
  BY <1>1
<1>3. \A w \in Workers : Arrive(w) =>
        \/ \E q \in Requests : ReceiveRequest(w, q)
        \/ \E c \in Callbacks : ReceiveCallback(w, c)
        \/ \E d \in Dispatches : Dispatch(w, d)
        \/ \E queue \in SUBSET Records, batch \in SUBSET Records : Drain(w, queue, batch)
  BY <1>1, <1>2 DEF Arrive
<1> QED
  BY <1>3 DEF Next

LEMMA ClaimedType ==
    ASSUME TypeOK, NEW w \in Workers, NEW ms \in SUBSET Records, Claimed(w, ms)
    PROVE  /\ state' \in [Records -> States]
           /\ retries' \in [Records -> 0..MaxAttempts]
           /\ lease' \in [Records -> Workers \cup {NoWorker}]
           /\ expired' \in SUBSET Records
           /\ waiting' \in SUBSET Records
           /\ \A m \in Records : state[m] # "absent" => state'[m] # "absent"
           /\ \A m \in ms : state'[m] # "absent"
  BY DEF TypeOK, Claimed, States

LEMMA PersistedType ==
    ASSUME TypeOK, NEW m \in Records, Persisted(m)
    PROVE  /\ state' \in [Records -> States]
           /\ retries' \in [Records -> 0..MaxAttempts]
           /\ lease' \in [Records -> Workers \cup {NoWorker}]
           /\ expired' \in SUBSET Records
           /\ waiting' \in SUBSET Records
           /\ \A n \in Records : state[n] # "absent" => state'[n] # "absent"
           /\ state'[m] # "absent"
  BY DEF TypeOK, Persisted, States

LEMMA OutcomeType ==
    ASSUME TypeOK, NEW m \in Records, MarkDelivered(m) \/ ScheduleRetry(m)
    PROVE  /\ state' \in [Records -> States]
           /\ retries' \in [Records -> 0..MaxAttempts]
           /\ lease' \in [Records -> Workers \cup {NoWorker}]
           /\ expired' \in SUBSET Records
           /\ waiting' \in SUBSET Records
           /\ \A n \in Records : state[n] # "absent" => state'[n] # "absent"
<1>1. CASE MarkDelivered(m)
  BY <1>1 DEF TypeOK, MarkDelivered, States
<1>2. CASE ScheduleRetry(m)
  <2>1. retries' \in [Records -> 0..MaxAttempts]
    BY <1>2, BoundAssumption DEF TypeOK, ScheduleRetry, Exhausted
  <2> QED
    BY <1>2, <2>1 DEF TypeOK, ScheduleRetry, States
<1> QED
  BY <1>1, <1>2

\* What a step makes of a worker: it keeps its record, starts another or ends.
LEMMA WorkerTypes ==
    ASSUME TypeOK, NEW w \in Workers
    PROVE  /\ Ends(w) => worker' \in [Workers -> WorkerState]
           /\ \A pc \in {"working", "succeeded", "failed"} :
                Continues(w, pc) => worker' \in [Workers -> WorkerState]
           /\ \A pc \in {"answering", "accepted", "working"}, m \in Records,
                 batch \in SUBSET Records, inline \in BOOLEAN :
                Starts(w, pc, m, batch, inline) => worker' \in [Workers -> WorkerState]
           /\ GoesOn(w) => worker' \in [Workers -> WorkerState]
<1>1. Ends(w) => worker' \in [Workers -> WorkerState]
  BY DEF TypeOK, Ends, Idle, WorkerState
<1>2. \A pc \in {"working", "succeeded", "failed"} :
        Continues(w, pc) => worker' \in [Workers -> WorkerState]
  BY DEF TypeOK, Continues, WorkerState
<1>3. \A pc \in {"answering", "accepted", "working"}, m \in Records,
         batch \in SUBSET Records, inline \in BOOLEAN :
        Starts(w, pc, m, batch, inline) => worker' \in [Workers -> WorkerState]
  BY DEF TypeOK, Starts, WorkerState
<1>4. GoesOn(w) => worker' \in [Workers -> WorkerState]
  <2>1. worker[w].batch \in SUBSET Records
    BY DEF TypeOK, WorkerState
  <2> QED
    BY <1>1, <1>3, <2>1 DEF GoesOn
<1> QED
  BY <1>1, <1>2, <1>3, <1>4

\* What w works on when it is not idle.
LEMMA CurrentRecord ==
    ASSUME IInv, NEW w \in Workers, worker[w].pc # "idle"
    PROVE  worker[w].current \in Records /\ state[worker[w].current] # "absent"
  BY DEF IInv, WorkersHaveRows

RowsTyped ==
    /\ state \in [Records -> States]
    /\ retries \in [Records -> 0..MaxAttempts]
    /\ lease \in [Records -> Workers \cup {NoWorker}]
    /\ expired \in SUBSET Records
    /\ waiting \in SUBSET Records

\* Rows keep their types and are never deleted.
LEMMA RowsStep ==
    ASSUME IInv, [Next]_vars
    PROVE  RowsTyped' /\ \A m \in Records : state[m] # "absent" => state'[m] # "absent"
<1> DEFINE Goal == RowsTyped' /\ \A m \in Records : state[m] # "absent" => state'[m] # "absent"
<1> USE RecordKinds
<1>1. TypeOK
  BY DEF IInv
<1>2. ASSUME UNCHANGED rows PROVE Goal
  BY <1>1, <1>2 DEF TypeOK, rows, RowsTyped
<1>3. ASSUME NEW w \in Workers, NEW q \in Requests, ReceiveRequest(w, q) PROVE Goal
  BY <1>1, <1>3, PersistedType DEF ReceiveRequest, RowsTyped
<1>4. ASSUME NEW w \in Workers, NEW c \in Callbacks, ReceiveCallback(w, c) PROVE Goal
  BY <1>1, <1>4, PersistedType DEF ReceiveCallback, RowsTyped
<1>5. ASSUME NEW w \in Workers, NEW d \in Dispatches, Dispatch(w, d) PROVE Goal
  <2>1. {d} \in SUBSET Records /\ Claimed(w, {d})
    BY <1>5 DEF Dispatch
  <2> QED
    BY <1>1, <2>1, ClaimedType DEF RowsTyped
<1>6. ASSUME NEW w \in Workers, NEW queue \in SUBSET Records, NEW batch \in SUBSET Records,
             Drain(w, queue, batch)
      PROVE  Goal
  BY <1>1, <1>6, ClaimedType DEF Drain, RowsTyped
<1>7. ASSUME NEW w \in Workers, Work(w) PROVE Goal
  <2> DEFINE m == worker[w].current
  <2>1. CASE StageAnswer(w)
    <3>1. m \in Requests
      BY <2>1 DEF StageAnswer, IInv, WorkersHaveRows
    <3>2. {AnswerTo[m]} \in SUBSET Records /\ Claimed(w, {AnswerTo[m]})
      BY <2>1, <3>1 DEF StageAnswer
    <3> QED
      BY <1>1, <3>2, ClaimedType DEF RowsTyped
  <2>2. CASE ClaimCallback(w)
    <3>1. {m} \in SUBSET Records
      BY <2>2, CurrentRecord DEF ClaimCallback
    <3>2. UNCHANGED rows \/ Claimed(w, {m})
      BY <2>2 DEF ClaimCallback
    <3> QED
      BY <1>1, <1>2, <3>1, <3>2, ClaimedType DEF RowsTyped
  <2>3. CASE RecordSuccess(w) \/ RecordFailure(w) \/ DoubtSuccess(w)
    <3>1. m \in Records
      BY <2>3, CurrentRecord DEF RecordSuccess, RecordFailure, DoubtSuccess
    <3>2. UNCHANGED rows \/ MarkDelivered(m) \/ ScheduleRetry(m)
      BY <2>3 DEF RecordSuccess, RecordFailure, DoubtSuccess
    <3> QED
      BY <1>1, <1>2, <3>1, <3>2, OutcomeType DEF RowsTyped
  <2>4. CASE Send(w) \/ ReconcileCallback(w) \/ ReconcileRequest(w) \/ LoseLease(w)
    BY <1>2, <2>4 DEF Send, ReconcileCallback, ReconcileRequest, LoseLease
  <2> QED
    BY <1>7, <2>1, <2>2, <2>3, <2>4 DEF Work
<1>8. ASSUME NEW m \in Records, RequeueDeadLetter(m) \/ ExpireLease(m) \/ EndWaiting(m)
      PROVE  Goal
  BY <1>1, <1>8 DEF RequeueDeadLetter, ExpireLease, EndWaiting, TypeOK, RowsTyped, States
<1>9. ASSUME NEW w \in Workers, Abandon(w) PROVE Goal
  BY <1>2, <1>9 DEF Abandon
<1>10. ASSUME UNCHANGED vars PROVE Goal
  BY <1>2, <1>10 DEF vars, rows
<1>11. ASSUME NEW o \in Orders, NEW p \in Providers, BindProvider(o, p) PROVE Goal
  BY <1>2, <1>11 DEF BindProvider
<1> QED
  BY <1>1, <1>3, <1>4, <1>5, <1>6, <1>7, <1>8, <1>9, <1>10, <1>11, Steps

LEMMA InitIInv == Init => IInv
<1> SUFFICES ASSUME Init PROVE IInv
  OBVIOUS
<1>1. TypeOK
  BY BoundAssumption DEF Init, TypeOK, States, WorkerState, Idle
<1>2. WorkersHaveRows /\ SuccessHappened /\ OneAnswerTask /\ AnswersFollow
  BY RecordKinds DEF Init, WorkersHaveRows, SuccessHappened, OneAnswerTask, AnswersFollow, Idle
<1>3. EffectOnce /\ BindingsAllow
  BY BindingAssumption DEF Init, EffectOnce, BindingsAllow
<1> QED
  BY <1>1, <1>2, <1>3 DEF IInv

EffectsTyped ==
    /\ applied \in [Callbacks -> Nat]
    /\ processed \in SUBSET Callbacks
    /\ bound \in [Orders -> Providers \cup {NoProvider}]
    /\ bindings \in [Orders \X Providers -> 0..MaxBindings]

\* What a binding changes, row by row.
LEMMA BindingChanges ==
    ASSUME TypeOK, NEW o \in Orders, NEW p \in Providers, BindProvider(o, p)
    PROVE  /\ EffectsTyped'
           /\ applied' = applied
           /\ \A q \in Orders : bound'[q] = IF q = o THEN p ELSE bound[q]
           /\ \A q \in Orders, r \in Providers :
                bindings'[<<q, r>>] = IF q = o /\ r = p THEN bindings[<<q, r>>] + 1 ELSE bindings[<<q, r>>]
           /\ processed' = processed \ {c \in Logistics : OrderOf[c] = o}
<1>1. bindings[<<o, p>>] + 1 \in 0..MaxBindings
  <2>1. <<o, p>> \in Orders \X Providers
    OBVIOUS
  <2>2. bindings[<<o, p>>] \in 0..MaxBindings
    BY <2>1 DEF TypeOK
  <2>3. bindings[<<o, p>>] < MaxBindings
    BY DEF BindProvider
  <2> QED
    BY <2>2, <2>3, BoundAssumption
<1>2. bindings' = [bindings EXCEPT ![<<o, p>>] = bindings[<<o, p>>] + 1]
  BY DEF BindProvider
<1>3. bindings' \in [Orders \X Providers -> 0..MaxBindings]
  BY <1>1, <1>2 DEF TypeOK
<1>4. ASSUME NEW q \in Orders, NEW r \in Providers
      PROVE  bindings'[<<q, r>>] = IF q = o /\ r = p THEN bindings[<<q, r>>] + 1 ELSE bindings[<<q, r>>]
  <2>1. <<q, r>> \in Orders \X Providers /\ (<<q, r>> = <<o, p>> <=> q = o /\ r = p)
    OBVIOUS
  <2> QED
    BY <1>2, <2>1 DEF TypeOK
<1>5. /\ bound' \in [Orders -> Providers \cup {NoProvider}]
      /\ \A q \in Orders : bound'[q] = IF q = o THEN p ELSE bound[q]
  BY DEF BindProvider, TypeOK
<1>6. applied' = applied /\ processed' = processed \ {c \in Logistics : OrderOf[c] = o}
  BY DEF BindProvider
<1>7. applied' \in [Callbacks -> Nat] /\ processed' \in SUBSET Callbacks
  BY <1>6 DEF TypeOK
<1> QED
  BY <1>3, <1>4, <1>5, <1>6, <1>7 DEF EffectsTyped

\* What an effect changes.
LEMMA AppliedChanges ==
    ASSUME TypeOK, NEW c \in Callbacks, Applied(c)
    PROVE  /\ EffectsTyped'
           /\ bound' = bound /\ bindings' = bindings
           /\ processed' = processed \cup {c}
           /\ \A d \in Callbacks :
                applied'[d] = IF d = c /\ c \notin processed THEN applied[d] + 1 ELSE applied[d]
  BY DEF Applied, Processed, EffectsTyped, TypeOK

LEMMA TypeStep == IInv /\ [Next]_vars => TypeOK'
<1> SUFFICES ASSUME IInv, [Next]_vars PROVE TypeOK'
  OBVIOUS
<1> USE RecordKinds
<1>1. TypeOK
  BY DEF IInv
<1>2. RowsTyped'
  BY RowsStep
<1> DEFINE Goal == /\ worker' \in [Workers -> WorkerState]
                   /\ received' \in SUBSET Outbox
                   /\ EffectsTyped'
<1>3. ASSUME NEW w \in Workers, NEW q \in Requests, ReceiveRequest(w, q) PROVE Goal
  BY <1>1, <1>3, WorkerTypes DEF ReceiveRequest, TypeOK, EffectsTyped
<1>4. ASSUME NEW w \in Workers, NEW c \in Callbacks, ReceiveCallback(w, c) PROVE Goal
  BY <1>1, <1>4, WorkerTypes DEF ReceiveCallback, TypeOK, EffectsTyped
<1>5. ASSUME NEW w \in Workers, NEW d \in Dispatches, Dispatch(w, d) PROVE Goal
  BY <1>1, <1>5, WorkerTypes DEF Dispatch, TypeOK, EffectsTyped
<1>6. ASSUME NEW w \in Workers, NEW queue \in SUBSET Records, NEW batch \in SUBSET Records,
             Drain(w, queue, batch)
      PROVE  Goal
  BY <1>1, <1>6, WorkerTypes DEF Drain, TypeOK, EffectsTyped
<1>7. ASSUME NEW w \in Workers, Work(w) PROVE Goal
  <2> DEFINE m == worker[w].current
  <2>1. CASE StageAnswer(w)
    <3>1. AnswerTo[m] \in Records
      BY <2>1 DEF StageAnswer, IInv, WorkersHaveRows
    <3> QED
      BY <1>1, <2>1, <3>1, WorkerTypes DEF StageAnswer, TypeOK, EffectsTyped
  <2>2. CASE ClaimCallback(w)
    BY <1>1, <2>2, WorkerTypes DEF ClaimCallback, TypeOK, EffectsTyped
  <2>3. CASE Send(w)
    <3>1. received' \in SUBSET Outbox /\ EffectsTyped'
      BY <1>1, <2>3 DEF Send, TypeOK, EffectsTyped
    <3>2. Continues(w, "succeeded") \/ Continues(w, "failed")
      BY <2>3 DEF Send
    <3> QED
      BY <1>1, <3>1, <3>2, WorkerTypes DEF TypeOK
  <2>4. CASE ReconcileCallback(w)
    <3>1. EffectsTyped' /\ received' = received
      <4>1. CASE UNCHANGED effects
        BY <1>1, <2>4, <4>1 DEF ReconcileCallback, TypeOK, EffectsTyped
      <4>2. CASE Applied(m)
        BY <1>1, <2>4, <4>2, AppliedChanges DEF ReconcileCallback
      <4> QED
        BY <2>4, <4>1, <4>2 DEF ReconcileCallback
    <3>2. Continues(w, "succeeded") \/ Continues(w, "failed")
      BY <2>4 DEF ReconcileCallback, AfterError
    <3> QED
      BY <1>1, <3>1, <3>2, WorkerTypes DEF TypeOK
  <2>5. CASE ReconcileRequest(w) \/ DoubtSuccess(w)
    BY <1>1, <2>5, WorkerTypes DEF ReconcileRequest, DoubtSuccess, TypeOK, EffectsTyped
  <2>6. CASE RecordSuccess(w) \/ RecordFailure(w) \/ LoseLease(w)
    BY <1>1, <2>6, WorkerTypes DEF RecordSuccess, RecordFailure, LoseLease, TypeOK, EffectsTyped
  <2> QED
    BY <1>7, <2>1, <2>2, <2>3, <2>4, <2>5, <2>6 DEF Work
<1>8. ASSUME NEW m \in Records, RequeueDeadLetter(m) \/ ExpireLease(m) \/ EndWaiting(m)
      PROVE  Goal
  BY <1>1, <1>8 DEF RequeueDeadLetter, ExpireLease, EndWaiting, TypeOK, EffectsTyped
<1>9. ASSUME NEW w \in Workers, Abandon(w) PROVE Goal
  BY <1>1, <1>9, WorkerTypes DEF Abandon, TypeOK, EffectsTyped
<1>10. ASSUME UNCHANGED vars PROVE Goal
  BY <1>1, <1>10 DEF vars, TypeOK, EffectsTyped
<1>11. ASSUME NEW o \in Orders, NEW p \in Providers, BindProvider(o, p) PROVE Goal
  BY <1>1, <1>11, BindingChanges DEF BindProvider, TypeOK
<1> HIDE DEF Goal
<1>12. Goal
  BY <1>1, <1>3, <1>4, <1>5, <1>6, <1>7, <1>8, <1>9, <1>10, <1>11, Steps
<1> QED
  BY <1>2, <1>12 DEF Goal, TypeOK, RowsTyped, EffectsTyped

-----------------------------------------------------------------------------
(* The inductive invariant.                                                *)

\* Workers that do not take the step keep what they had.
LEMMA OthersKeep ==
    ASSUME TypeOK, NEW w \in Workers, NEW v \in Workers, v # w
    PROVE  /\ Ends(w) => worker'[v] = worker[v]
           /\ \A pc : Continues(w, pc) => worker'[v] = worker[v]
           /\ \A pc, m, batch, inline :
                Starts(w, pc, m, batch, inline) => worker'[v] = worker[v]
           /\ GoesOn(w) => worker'[v] = worker[v]
<1>1. Ends(w) => worker'[v] = worker[v]
  BY DEF TypeOK, Ends
<1>2. \A pc : Continues(w, pc) => worker'[v] = worker[v]
  BY DEF TypeOK, Continues
<1>3. \A pc, m, batch, inline : Starts(w, pc, m, batch, inline) => worker'[v] = worker[v]
  BY DEF TypeOK, Starts
<1> QED
  BY <1>1, <1>2, <1>3 DEF GoesOn

\* What the worker that takes the step becomes.
LEMMA ContinuesBecomes ==
    ASSUME TypeOK, NEW w \in Workers, NEW pc, Continues(w, pc)
    PROVE  /\ worker'[w].pc = pc
           /\ worker'[w].current = worker[w].current
           /\ worker'[w].batch = worker[w].batch
  BY DEF TypeOK, Continues, WorkerState

LEMMA GoesOnBecomes ==
    ASSUME TypeOK, NEW w \in Workers, GoesOn(w)
    PROVE  \/ worker'[w] = Idle
           \/ /\ worker'[w].pc = "working"
              /\ worker'[w].current \in worker[w].batch
              /\ worker'[w].batch \subseteq worker[w].batch
<1>1. CASE Ends(w)
  BY <1>1 DEF TypeOK, Ends
<1>2. CASE \E m \in worker[w].batch : Starts(w, "working", m, worker[w].batch \ {m}, FALSE)
  <2>1. PICK m \in worker[w].batch : Starts(w, "working", m, worker[w].batch \ {m}, FALSE)
    BY <1>2
  <2>2. worker'[w] = [pc |-> "working", current |-> m, batch |-> worker[w].batch \ {m}, inline |-> FALSE]
    BY <2>1 DEF TypeOK, Starts
  <2> QED
    BY <2>2
<1> QED
  BY <1>1, <1>2 DEF GoesOn

\* The steps worker v itself may take.
ReceivesOrWorks(v) ==
    \/ \E q \in Requests : ReceiveRequest(v, q)
    \/ \E c \in Callbacks : ReceiveCallback(v, c)
    \/ \E d \in Dispatches : Dispatch(v, d)
    \/ \E queue \in SUBSET Records, batch \in SUBSET Records : Drain(v, queue, batch)
    \/ Work(v)
    \/ Abandon(v)

LEMMA SingleWorker ==
    ASSUME TypeOK, [Next]_vars, NEW v \in Workers
    PROVE  worker'[v] = worker[v] \/ ReceivesOrWorks(v)
<1>1. ASSUME NEW w \in Workers, w # v, ReceivesOrWorks(w) PROVE worker'[v] = worker[v]
  <2>1. CASE \E q \in Requests : ReceiveRequest(w, q)
    BY <1>1, <2>1, OthersKeep DEF ReceiveRequest
  <2>2. CASE \E c \in Callbacks : ReceiveCallback(w, c)
    BY <1>1, <2>2, OthersKeep DEF ReceiveCallback
  <2>3. CASE \E d \in Dispatches : Dispatch(w, d)
    BY <1>1, <2>3, OthersKeep DEF Dispatch
  <2>4. CASE \E queue \in SUBSET Records, batch \in SUBSET Records : Drain(w, queue, batch)
    BY <1>1, <2>4, OthersKeep DEF Drain
  <2>5. CASE Work(w)
    BY <1>1, <2>5, OthersKeep DEF Work, StageAnswer, ClaimCallback, Send, ReconcileCallback,
       ReconcileRequest, RecordSuccess, RecordFailure, LoseLease, DoubtSuccess
  <2>6. CASE Abandon(w)
    BY <1>1, <2>6, OthersKeep DEF Abandon
  <2> QED
    BY <1>1, <2>1, <2>2, <2>3, <2>4, <2>5, <2>6 DEF ReceivesOrWorks
<1>2. ASSUME NEW m \in Records, RequeueDeadLetter(m) \/ ExpireLease(m) \/ EndWaiting(m)
      PROVE  worker'[v] = worker[v]
  BY <1>2 DEF RequeueDeadLetter, ExpireLease, EndWaiting
<1>3. UNCHANGED vars => worker'[v] = worker[v]
  BY DEF vars
<1>4. ASSUME NEW o \in Orders, NEW p \in Providers, BindProvider(o, p)
      PROVE  worker'[v] = worker[v]
  BY <1>4 DEF BindProvider
<1> QED
  BY <1>1, <1>2, <1>3, <1>4, Steps DEF ReceivesOrWorks

LEMMA WorkersHaveRowsStep == IInv /\ [Next]_vars => WorkersHaveRows'
<1> DEFINE Has(v) == /\ worker[v].pc # "idle" =>
                          worker[v].current \in Records /\ state[worker[v].current] # "absent"
                     /\ worker[v].pc = "answering" => worker[v].current \in Requests
                     /\ worker[v].pc = "accepted" => worker[v].current \in Callbacks
                     /\ \A m \in worker[v].batch : state[m] # "absent"
<1> SUFFICES ASSUME IInv, [Next]_vars, NEW v \in Workers PROVE Has(v)'
  BY DEF WorkersHaveRows
<1> USE RecordKinds
<1>1. TypeOK /\ Has(v)
  BY DEF IInv, WorkersHaveRows
<1>2. \A m \in Records : state[m] # "absent" => state'[m] # "absent"
  BY RowsStep
<1>3. worker[v].batch \in SUBSET Records
  BY <1>1 DEF TypeOK, WorkerState
<1>4. ASSUME worker'[v] = worker[v] PROVE Has(v)'
  BY <1>1, <1>2, <1>3, <1>4
<1>5. ASSUME worker'[v] = Idle PROVE Has(v)'
  BY <1>5 DEF Idle
<1>6. ASSUME NEW q \in Requests, ReceiveRequest(v, q) PROVE Has(v)'
  <2>1. worker'[v] = [pc |-> "answering", current |-> q, batch |-> {}, inline |-> TRUE]
    BY <1>1, <1>6 DEF ReceiveRequest, Starts, TypeOK
  <2>2. state'[q] # "absent"
    BY <1>1, <1>6, PersistedType DEF ReceiveRequest
  <2> QED
    BY <2>1, <2>2
<1>7. ASSUME NEW c \in Callbacks, ReceiveCallback(v, c) PROVE Has(v)'
  <2>1. worker'[v] = [pc |-> "accepted", current |-> c, batch |-> {}, inline |-> TRUE]
    BY <1>1, <1>7 DEF ReceiveCallback, Starts, TypeOK
  <2>2. state'[c] # "absent"
    BY <1>1, <1>7, PersistedType DEF ReceiveCallback
  <2> QED
    BY <2>1, <2>2
<1>8. ASSUME NEW d \in Dispatches, Dispatch(v, d) PROVE Has(v)'
  <2>1. worker'[v] = [pc |-> "working", current |-> d, batch |-> {}, inline |-> TRUE]
    BY <1>1, <1>8 DEF Dispatch, Starts, TypeOK
  <2>2. {d} \in SUBSET Records /\ Claimed(v, {d})
    BY <1>8 DEF Dispatch
  <2>3. state'[d] # "absent"
    BY <1>1, <2>2, ClaimedType
  <2> QED
    BY <2>1, <2>3
<1>9. ASSUME NEW queue \in SUBSET Records, NEW batch \in SUBSET Records, Drain(v, queue, batch)
      PROVE  Has(v)'
  <2>1. PICK m \in batch : Starts(v, "working", m, batch \ {m}, FALSE)
    BY <1>9 DEF Drain
  <2>2. worker'[v] = [pc |-> "working", current |-> m, batch |-> batch \ {m}, inline |-> FALSE]
    BY <1>1, <2>1 DEF Starts, TypeOK
  <2>3. \A n \in batch : state'[n] # "absent"
    BY <1>1, <1>9, ClaimedType DEF Drain
  <2> QED
    BY <2>2, <2>3
<1>10. ASSUME Work(v) PROVE Has(v)'
  <2> DEFINE m == worker[v].current
  <2>1. CASE StageAnswer(v)
    <3>1. m \in Requests /\ AnswerTo[m] \in Records
      BY <1>1, <2>1 DEF StageAnswer
    <3>2. worker'[v] = [pc |-> "working", current |-> AnswerTo[m], batch |-> {}, inline |-> TRUE]
      BY <1>1, <2>1 DEF StageAnswer, Starts, TypeOK
    <3>3. {AnswerTo[m]} \in SUBSET Records /\ Claimed(v, {AnswerTo[m]})
      BY <2>1, <3>1 DEF StageAnswer
    <3>4. state'[AnswerTo[m]] # "absent"
      BY <1>1, <3>3, ClaimedType
    <3> QED
      BY <3>1, <3>2, <3>4
  <2>2. CASE \E pc \in {"working", "succeeded", "failed"} : worker[v].pc # "idle" /\ Continues(v, pc)
    <3>1. PICK pc \in {"working", "succeeded", "failed"} : Continues(v, pc)
      BY <2>2
    <3>2. worker'[v].pc = pc /\ worker'[v].current = m /\ worker'[v].batch = worker[v].batch
      BY <1>1, <3>1, ContinuesBecomes
    <3> QED
      BY <1>1, <1>2, <1>3, <2>2, <3>2
  <2>3. CASE GoesOn(v)
    <3>1. CASE worker'[v] = Idle
      BY <1>5, <3>1
    <3>2. CASE /\ worker'[v].pc = "working"
               /\ worker'[v].current \in worker[v].batch
               /\ worker'[v].batch \subseteq worker[v].batch
      BY <1>1, <1>2, <1>3, <3>2
    <3> QED
      BY <1>1, <2>3, <3>1, <3>2, GoesOnBecomes
  <2>4. CASE Ends(v)
    BY <1>1, <1>5, <2>4 DEF Ends, TypeOK
  <2>5. ClaimCallback(v) \/ ReconcileRequest(v) \/ DoubtSuccess(v) => Has(v)'
    BY <2>2, <2>4 DEF ClaimCallback, ReconcileRequest, DoubtSuccess
  <2>6. Send(v) \/ ReconcileCallback(v) => Has(v)'
    BY <2>2 DEF Send, ReconcileCallback, Applied, AfterError
  <2>7. RecordSuccess(v) \/ RecordFailure(v) \/ LoseLease(v) => Has(v)'
    BY <2>3, <2>4 DEF RecordSuccess, RecordFailure, LoseLease
  <2> HIDE DEF Has
  <2> QED
    BY <1>10, <2>1, <2>5, <2>6, <2>7 DEF Work
<1>11. ASSUME Abandon(v) PROVE Has(v)'
  BY <1>1, <1>5, <1>11 DEF Abandon, Ends, TypeOK
<1>12. worker'[v] = worker[v] \/ ReceivesOrWorks(v)
  BY <1>1, SingleWorker
<1> QED
  BY <1>4, <1>6, <1>7, <1>8, <1>9, <1>10, <1>11, <1>12 DEF ReceivesOrWorks

\* Effects are never taken back.
LEMMA DoneStep ==
    ASSUME IInv, [Next]_vars
    PROVE  /\ received \subseteq received'
           /\ \A c \in Callbacks : applied[c] > 0 => applied'[c] > 0
<1> DEFINE Goal == /\ received \subseteq received'
                   /\ \A c \in Callbacks : applied[c] > 0 => applied'[c] > 0
<1>1. ASSUME received' = received, applied' = applied PROVE Goal
  BY <1>1
<1>2. ASSUME NEW w \in Workers, Work(w) PROVE Goal
  <2>1. CASE Send(w)
    BY <2>1 DEF Send
  <2>2. CASE ReconcileCallback(w)
    BY <1>1, <2>2, AppliedChanges DEF ReconcileCallback, IInv, TypeOK
  <2>3. CASE received' = received /\ applied' = applied
    BY <2>3
  <2> QED
    BY <1>2, <2>1, <2>2, <2>3 DEF Work, StageAnswer, ClaimCallback, ReconcileRequest, RecordSuccess,
       RecordFailure, LoseLease, DoubtSuccess
<1>3. ASSUME NEW w \in Workers, NEW q \in Requests, ReceiveRequest(w, q) PROVE Goal
  BY <1>1, <1>3 DEF ReceiveRequest
<1>4. ASSUME NEW w \in Workers, NEW c \in Callbacks, ReceiveCallback(w, c) PROVE Goal
  BY <1>1, <1>4 DEF ReceiveCallback
<1>5. ASSUME NEW w \in Workers, NEW d \in Dispatches, Dispatch(w, d) PROVE Goal
  BY <1>1, <1>5 DEF Dispatch
<1>6. ASSUME NEW w \in Workers, NEW queue \in SUBSET Records, NEW batch \in SUBSET Records,
             Drain(w, queue, batch)
      PROVE  Goal
  BY <1>1, <1>6 DEF Drain
<1>7. ASSUME NEW w \in Workers, Abandon(w) PROVE Goal
  BY <1>1, <1>7 DEF Abandon
<1>8. ASSUME NEW m \in Records, RequeueDeadLetter(m) \/ ExpireLease(m) \/ EndWaiting(m)
      PROVE  Goal
  BY <1>1, <1>8 DEF RequeueDeadLetter, ExpireLease, EndWaiting
<1>9. ASSUME UNCHANGED vars PROVE Goal
  BY <1>1, <1>9 DEF vars
<1>10. TypeOK
  BY DEF IInv
<1>11. ASSUME NEW o \in Orders, NEW p \in Providers, BindProvider(o, p) PROVE Goal
  BY <1>1, <1>11 DEF BindProvider
<1> HIDE DEF Goal
<1>12. Goal
  BY <1>2, <1>3, <1>4, <1>5, <1>6, <1>7, <1>8, <1>9, <1>10, <1>11, Steps
<1> QED
  BY <1>12 DEF Goal

LEMMA SuccessHappenedStep == IInv /\ [Next]_vars => SuccessHappened'
<1> DEFINE Has(v) == worker[v].pc = "succeeded" /\ worker[v].current \notin Requests =>
                         worker[v].current \in Done
<1> SUFFICES ASSUME IInv, [Next]_vars, NEW v \in Workers PROVE Has(v)'
  BY DEF SuccessHappened
<1>1. TypeOK /\ Has(v)
  BY DEF IInv, SuccessHappened
<1>2. Done \subseteq Done'
  BY DoneStep DEF Done
<1>3. ASSUME worker'[v] = worker[v] PROVE Has(v)'
  BY <1>1, <1>2, <1>3
<1>4. ASSUME worker'[v].pc # "succeeded" PROVE Has(v)'
  BY <1>4
<1>5. ASSUME Ends(v) PROVE Has(v)'
  BY <1>1, <1>4, <1>5 DEF Ends, Idle, TypeOK
<1>6. \A pc \in {"working", "failed"} : Continues(v, pc) => Has(v)'
  BY <1>1, <1>4, ContinuesBecomes
<1>7. GoesOn(v) => Has(v)'
  BY <1>1, <1>4, GoesOnBecomes DEF Idle
<1>8. \A q \in Requests : ReceiveRequest(v, q) => Has(v)'
  BY <1>1, <1>4 DEF ReceiveRequest, Starts, TypeOK
<1>9. \A c \in Callbacks : ReceiveCallback(v, c) => Has(v)'
  BY <1>1, <1>4 DEF ReceiveCallback, Starts, TypeOK
<1>10. \A d \in Dispatches : Dispatch(v, d) => Has(v)'
  BY <1>1, <1>4 DEF Dispatch, Starts, TypeOK
<1>11. \A queue \in SUBSET Records, batch \in SUBSET Records : Drain(v, queue, batch) => Has(v)'
  BY <1>1, <1>4 DEF Drain, Starts, TypeOK
<1>12. StageAnswer(v) => Has(v)'
  BY <1>1, <1>4 DEF StageAnswer, Starts, TypeOK
<1>13. ASSUME Send(v) PROVE Has(v)'
  <2>1. CASE Continues(v, "failed")
    BY <1>6, <2>1
  <2>2. CASE Continues(v, "succeeded") /\ received' = received \cup {worker[v].current}
    BY <1>1, <2>2, ContinuesBecomes DEF Done
  <2> QED
    BY <1>13, <2>1, <2>2 DEF Send
<1>14. ASSUME ReconcileCallback(v) PROVE Has(v)'
  <2> DEFINE c == worker[v].current
  <2>1. CASE Continues(v, "failed")
    BY <1>6, <2>1
  <2>2. CASE Continues(v, "succeeded") /\ Applied(c)
    <3>1. c \in Callbacks /\ worker'[v].current = c
      BY <1>1, <1>14, <2>2, ContinuesBecomes DEF ReconcileCallback
    <3>2. applied'[c] > 0
      BY <1>1, <2>2, <3>1, AppliedChanges DEF IInv, BindingsAllow, TypeOK
    <3> QED
      BY <3>1, <3>2 DEF Done
  <2> QED
    BY <1>14, <2>1, <2>2 DEF ReconcileCallback, AfterError
<1>15. ASSUME ReconcileRequest(v) PROVE Has(v)'
  BY <1>1, <1>15, ContinuesBecomes DEF ReconcileRequest
<1>16. Work(v) => Has(v)'
  <2> HIDE DEF Has
  <2> QED
    BY <1>5, <1>6, <1>7, <1>12, <1>13, <1>14, <1>15 DEF Work, ClaimCallback, RecordSuccess,
       RecordFailure, LoseLease, DoubtSuccess
<1>17. Abandon(v) => Has(v)'
  BY <1>5 DEF Abandon
<1>18. worker'[v] = worker[v] \/ ReceivesOrWorks(v)
  BY <1>1, SingleWorker
<1> HIDE DEF Has
<1> QED
  BY <1>3, <1>8, <1>9, <1>10, <1>11, <1>16, <1>17, <1>18 DEF ReceivesOrWorks

\* Only what is reconciled has effects, and only a binding forgets them.
LEMMA EffectSteps ==
    ASSUME IInv, [Next]_vars
    PROVE  \/ UNCHANGED effects
           \/ \E c \in Callbacks : Applied(c)
           \/ \E o \in Orders, p \in Providers : BindProvider(o, p)
<1> DEFINE Goal == \/ UNCHANGED effects
                   \/ \E c \in Callbacks : Applied(c)
                   \/ \E o \in Orders, p \in Providers : BindProvider(o, p)
<1>1. TypeOK
  BY DEF IInv
<1>2. ASSUME NEW w \in Workers, ReconcileCallback(w) PROVE Goal
  BY <1>2 DEF ReconcileCallback
<1>3. ASSUME NEW w \in Workers, Work(w) PROVE Goal
  BY <1>2, <1>3 DEF Work, StageAnswer, ClaimCallback, Send, ReconcileRequest, RecordSuccess,
     RecordFailure, LoseLease, DoubtSuccess
<1>4. UNCHANGED vars => Goal
  BY DEF vars
<1> QED
  BY <1>1, <1>3, <1>4, Steps DEF ReceiveRequest, ReceiveCallback, Dispatch, Drain, Abandon,
     RequeueDeadLetter, ExpireLease, EndWaiting

\* A callback takes effect while its provider is bound and has not taken it.
LEMMA AppliedKeeps ==
    ASSUME TypeOK, EffectOnce, BindingsAllow, NEW c \in Callbacks, Applied(c)
    PROVE  EffectOnce' /\ BindingsAllow'
<1>1. /\ bound' = bound /\ bindings' = bindings
      /\ processed' = processed \cup {c}
      /\ \A d \in Callbacks :
           applied'[d] = IF d = c /\ c \notin processed THEN applied[d] + 1 ELSE applied[d]
  BY AppliedChanges
<1>2. \A d \in Callbacks : applied[d] \in Nat
  BY DEF TypeOK
<1>3. \A d \in Logistics :
        /\ OrderOf[d] \in Orders /\ ProviderOf[d] \in Providers
        /\ bindings[<<OrderOf[d], ProviderOf[d]>>] \in Nat
  <2> SUFFICES ASSUME NEW d \in Logistics
               PROVE  /\ OrderOf[d] \in Orders /\ ProviderOf[d] \in Providers
                      /\ bindings[<<OrderOf[d], ProviderOf[d]>>] \in Nat
    OBVIOUS
  <2>1. OrderOf[d] \in Orders /\ ProviderOf[d] \in Providers
    BY BindingAssumption
  <2>2. <<OrderOf[d], ProviderOf[d]>> \in Orders \X Providers
    BY <2>1
  <2> QED
    BY <2>1, <2>2, BoundAssumption DEF TypeOK
<1>4. EffectOnce'
  <2> SUFFICES ASSUME NEW d \in Callbacks
               PROVE  applied'[d] <= IF d \in Logistics
                                     THEN bindings[<<OrderOf[d], ProviderOf[d]>>] ELSE 1
    BY <1>1 DEF EffectOnce
  <2>1. CASE d = c /\ c \notin processed
    <3>1. CASE c \in Logistics
      <4>1. applied[c] < bindings[<<OrderOf[c], ProviderOf[c]>>]
        BY <2>1, <3>1 DEF Applied, Bound, BindingsAllow
      <4> QED
        BY <1>1, <1>2, <1>3, <2>1, <3>1, <4>1
    <3>2. CASE c \notin Logistics
      <4>1. applied[c] = 0
        BY <2>1, <3>2 DEF BindingsAllow
      <4>2. applied'[c] = applied[c] + 1
        BY <1>1, <2>1
      <4>3. applied'[d] = 1
        BY <2>1, <4>1, <4>2
      <4> QED
        BY <2>1, <3>2, <4>3
    <3> QED
      BY <3>1, <3>2
  <2>2. CASE ~(d = c /\ c \notin processed)
    BY <1>1, <2>2 DEF EffectOnce
  <2> QED
    BY <2>1, <2>2
<1>5. BindingsAllow'
  <2>1. \A d \in processed' : applied'[d] > 0
    BY <1>1, <1>2 DEF BindingsAllow, TypeOK
  <2>2. ASSUME NEW d \in Callbacks, d \notin processed'
        PROVE  IF d \in Logistics
               THEN bound[OrderOf[d]] = ProviderOf[d]
                       => applied'[d] < bindings[<<OrderOf[d], ProviderOf[d]>>]
               ELSE applied'[d] = 0
    <3>1. applied'[d] = applied[d] /\ d \notin processed
      BY <1>1, <2>2
    <3> QED
      BY <3>1 DEF BindingsAllow
  <2> QED
    BY <1>1, <2>1, <2>2 DEF BindingsAllow
<1> QED
  BY <1>4, <1>5

\* A binding allows the callbacks of its provider one effect more.
LEMMA BindingKeeps ==
    ASSUME TypeOK, EffectOnce, BindingsAllow, NEW o \in Orders, NEW p \in Providers,
           BindProvider(o, p)
    PROVE  EffectOnce' /\ BindingsAllow'
<1>1. /\ applied' = applied
      /\ \A q \in Orders : bound'[q] = IF q = o THEN p ELSE bound[q]
      /\ \A q \in Orders, r \in Providers :
           bindings'[<<q, r>>] = IF q = o /\ r = p THEN bindings[<<q, r>>] + 1 ELSE bindings[<<q, r>>]
      /\ processed' = processed \ {c \in Logistics : OrderOf[c] = o}
  BY BindingChanges
<1>2. ASSUME NEW d \in Callbacks, d \in Logistics
      PROVE  /\ applied[d] \in Nat
             /\ OrderOf[d] \in Orders /\ ProviderOf[d] \in Providers
             /\ bindings[<<OrderOf[d], ProviderOf[d]>>] \in Nat
             /\ applied[d] <= bindings[<<OrderOf[d], ProviderOf[d]>>]
             /\ bindings'[<<OrderOf[d], ProviderOf[d]>>] =
                  IF OrderOf[d] = o /\ ProviderOf[d] = p
                  THEN bindings[<<OrderOf[d], ProviderOf[d]>>] + 1
                  ELSE bindings[<<OrderOf[d], ProviderOf[d]>>]
  <2>1. OrderOf[d] \in Orders /\ ProviderOf[d] \in Providers
    BY <1>2, BindingAssumption
  <2>2. <<OrderOf[d], ProviderOf[d]>> \in Orders \X Providers
    BY <2>1
  <2>3. bindings[<<OrderOf[d], ProviderOf[d]>>] \in Nat
    BY <2>2, BoundAssumption DEF TypeOK
  <2>4. applied[d] \in Nat
    BY DEF TypeOK
  <2>5. applied[d] <= bindings[<<OrderOf[d], ProviderOf[d]>>]
    BY <1>2 DEF EffectOnce
  <2> QED
    BY <1>1, <2>1, <2>3, <2>4, <2>5
<1>3. EffectOnce'
  <2> SUFFICES ASSUME NEW d \in Callbacks
               PROVE  applied[d] <= IF d \in Logistics
                                    THEN bindings'[<<OrderOf[d], ProviderOf[d]>>] ELSE 1
    BY <1>1 DEF EffectOnce
  <2>1. CASE d \in Logistics
    BY <1>2, <2>1
  <2>2. CASE d \notin Logistics
    BY <2>2 DEF EffectOnce
  <2> QED
    BY <2>1, <2>2
<1>4. \A d \in processed' : applied'[d] > 0
  BY <1>1 DEF BindingsAllow
<1>5. ASSUME NEW d \in Callbacks, d \notin processed'
      PROVE  IF d \in Logistics
             THEN bound'[OrderOf[d]] = ProviderOf[d]
                     => applied'[d] < bindings'[<<OrderOf[d], ProviderOf[d]>>]
             ELSE applied'[d] = 0
  <2>1. CASE d \notin Logistics
    <3>1. d \notin processed
      BY <1>1, <1>5, <2>1
    <3> QED
      BY <1>1, <2>1, <3>1 DEF BindingsAllow
  <2>2. CASE d \in Logistics /\ OrderOf[d] = o
    <3>1. bound'[OrderOf[d]] = p
      BY <1>1, <2>2
    <3> QED
      BY <1>1, <1>2, <2>2, <3>1
  <2>3. CASE d \in Logistics /\ OrderOf[d] # o
    <3>1. d \notin processed
      BY <1>1, <1>5, <2>3
    <3>2. bound'[OrderOf[d]] = bound[OrderOf[d]]
      BY <1>1, <1>2, <2>3
    <3>3. bound[OrderOf[d]] = ProviderOf[d] => applied[d] < bindings[<<OrderOf[d], ProviderOf[d]>>]
      BY <2>3, <3>1 DEF BindingsAllow
    <3> QED
      BY <1>1, <1>2, <2>3, <3>2, <3>3
  <2> QED
    BY <2>1, <2>2, <2>3
<1>6. BindingsAllow'
  BY <1>4, <1>5 DEF BindingsAllow
<1> QED
  BY <1>3, <1>6

LEMMA EffectOnceStep == IInv /\ [Next]_vars => EffectOnce' /\ BindingsAllow'
<1> SUFFICES ASSUME IInv, [Next]_vars PROVE EffectOnce' /\ BindingsAllow'
  OBVIOUS
<1>1. TypeOK /\ EffectOnce /\ BindingsAllow
  BY DEF IInv
<1>2. CASE UNCHANGED effects
  BY <1>1, <1>2 DEF EffectOnce, BindingsAllow
<1> QED
  BY <1>1, <1>2, EffectSteps, AppliedKeeps, BindingKeeps

\* Only the request that arrived gets a background task.
LEMMA AnsweringStep ==
    ASSUME IInv, [Next]_vars, NEW w \in Workers, worker'[w].pc = "answering"
    PROVE  \/ worker'[w] = worker[w]
           \/ \E q \in Requests : ReceiveRequest(w, q) /\ worker'[w].current = q
<1>1. TypeOK
  BY DEF IInv
<1>2. ~GoesOn(w)
  BY <1>1, GoesOnBecomes DEF Idle
<1>3. ~Ends(w)
  BY <1>1 DEF Ends, Idle, TypeOK
<1>4. \A pc \in {"working", "succeeded", "failed"} : ~Continues(w, pc)
  BY <1>1, ContinuesBecomes
<1>5. ~Abandon(w)
  BY <1>3 DEF Abandon
<1>6. ~StageAnswer(w)
  BY <1>1 DEF StageAnswer, Starts, TypeOK
<1>7. ~Work(w)
  BY <1>2, <1>3, <1>4, <1>6 DEF Work, ClaimCallback, Send, ReconcileCallback, Applied, AfterError,
     ReconcileRequest, RecordSuccess, RecordFailure, LoseLease, DoubtSuccess
<1>8. \A c \in Callbacks : ~ReceiveCallback(w, c)
  BY <1>1 DEF ReceiveCallback, Starts, TypeOK
<1>9. \A d \in Dispatches : ~Dispatch(w, d)
  BY <1>1 DEF Dispatch, Starts, TypeOK
<1>10. \A queue \in SUBSET Records, batch \in SUBSET Records : ~Drain(w, queue, batch)
  BY <1>1 DEF Drain, Starts, TypeOK
<1>11. \A q \in Requests : ReceiveRequest(w, q) => worker'[w].current = q
  BY <1>1 DEF ReceiveRequest, Starts, TypeOK
<1> QED
  BY <1>1, <1>5, <1>7, <1>8, <1>9, <1>10, <1>11, SingleWorker DEF ReceivesOrWorks

\* Only the background task of a request inserts the row of its answer.
LEMMA AnswerStep ==
    ASSUME IInv, [Next]_vars, NEW q \in Requests, state[AnswerTo[q]] = "absent"
    PROVE  \/ state'[AnswerTo[q]] = "absent"
           \/ \E w \in Workers : StageAnswer(w) /\ worker[w].current = q
<1> DEFINE a == AnswerTo[q]
           Goal == \/ state'[a] = "absent"
                   \/ \E w \in Workers : StageAnswer(w) /\ worker[w].current = q
<1> USE RecordKinds
<1>1. TypeOK /\ a \in Answers /\ a \in Records /\ a \notin Inbox /\ a \notin Dispatches
  BY RecordAssumption DEF IInv, Outbox
<1>2. ASSUME state' = state PROVE Goal
  BY <1>2
<1>3. ASSUME NEW m \in Records, m # a, Persisted(m) PROVE Goal
  BY <1>1, <1>3 DEF Persisted, TypeOK
<1>4. ASSUME NEW w \in Workers, NEW ms \in SUBSET Records, a \notin ms, Claimed(w, ms) PROVE Goal
  BY <1>1, <1>4 DEF Claimed
<1>5. ASSUME NEW m \in Records, m # a, MarkDelivered(m) \/ ScheduleRetry(m) PROVE Goal
  BY <1>1, <1>5 DEF MarkDelivered, ScheduleRetry, TypeOK
<1>6. ASSUME NEW w \in Workers, NEW r \in Requests, ReceiveRequest(w, r) PROVE Goal
  BY <1>1, <1>3, <1>6 DEF ReceiveRequest, Inbox
<1>7. ASSUME NEW w \in Workers, NEW c \in Callbacks, ReceiveCallback(w, c) PROVE Goal
  BY <1>1, <1>3, <1>7 DEF ReceiveCallback, Inbox
<1>8. ASSUME NEW w \in Workers, NEW d \in Dispatches, Dispatch(w, d) PROVE Goal
  <2>1. {d} \in SUBSET Records /\ a \notin {d} /\ Claimed(w, {d})
    BY <1>1, <1>8 DEF Dispatch
  <2> QED
    BY <1>4, <2>1
<1>9. ASSUME NEW w \in Workers, NEW queue \in SUBSET Records, NEW batch \in SUBSET Records,
             Drain(w, queue, batch)
      PROVE  Goal
  <2>1. a \notin batch
    BY <1>9 DEF Drain, Claimable
  <2> QED
    BY <1>4, <1>9, <2>1 DEF Drain
<1>10. ASSUME NEW w \in Workers, Work(w) PROVE Goal
  <2> DEFINE m == worker[w].current
  <2>1. CASE StageAnswer(w)
    <3>1. m \in Requests /\ AnswerTo[m] \in Records
      BY <2>1 DEF StageAnswer, IInv, WorkersHaveRows
    <3>2. CASE m = q
      BY <2>1, <3>2
    <3>3. CASE m # q
      <4>1. {AnswerTo[m]} \in SUBSET Records /\ Claimed(w, {AnswerTo[m]})
        BY <2>1, <3>1 DEF StageAnswer
      <4>2. a \notin {AnswerTo[m]}
        BY <3>1, <3>3, AnswerAssumption
      <4> QED
        BY <1>4, <4>1, <4>2
    <3> QED
      BY <3>2, <3>3
  <2>2. CASE ClaimCallback(w)
    <3>1. {m} \in SUBSET Records
      BY <2>2, CurrentRecord DEF ClaimCallback
    <3>2. CASE Claimable(m) /\ Claimed(w, {m})
      BY <1>4, <3>1, <3>2 DEF Claimable
    <3> QED
      BY <1>2, <2>2, <3>2 DEF ClaimCallback, rows
  <2>3. CASE RecordSuccess(w) \/ RecordFailure(w) \/ DoubtSuccess(w)
    <3>1. m \in Records /\ m # a
      BY <2>3, CurrentRecord DEF RecordSuccess, RecordFailure, DoubtSuccess
    <3>2. UNCHANGED rows \/ MarkDelivered(m) \/ ScheduleRetry(m)
      BY <2>3 DEF RecordSuccess, RecordFailure, DoubtSuccess
    <3> QED
      BY <1>2, <1>5, <3>1, <3>2 DEF rows
  <2>4. CASE Send(w) \/ ReconcileCallback(w) \/ ReconcileRequest(w) \/ LoseLease(w)
    BY <1>2, <2>4 DEF Send, ReconcileCallback, ReconcileRequest, LoseLease, rows
  <2> QED
    BY <1>10, <2>1, <2>2, <2>3, <2>4 DEF Work
<1>11. ASSUME NEW m \in Records, RequeueDeadLetter(m) \/ ExpireLease(m) \/ EndWaiting(m)
       PROVE  Goal
  BY <1>1, <1>11 DEF RequeueDeadLetter, ExpireLease, EndWaiting, TypeOK
<1>12. ASSUME NEW w \in Workers, Abandon(w) PROVE Goal
  BY <1>2, <1>12 DEF Abandon, rows
<1>13. ASSUME UNCHANGED vars PROVE Goal
  BY <1>2, <1>13 DEF vars
<1>14. ASSUME NEW o \in Orders, NEW p \in Providers, BindProvider(o, p) PROVE Goal
  BY <1>2, <1>14 DEF BindProvider, rows
<1> HIDE DEF Goal
<1>15. Goal
  BY <1>1, <1>6, <1>7, <1>8, <1>9, <1>10, <1>11, <1>12, <1>13, <1>14, Steps
<1> QED
  BY <1>15 DEF Goal

LEMMA AnswersFollowStep == IInv /\ [Next]_vars => AnswersFollow'
<1> SUFFICES ASSUME IInv, [Next]_vars, NEW q \in Requests, state'[q] = "absent"
             PROVE  state'[AnswerTo[q]] = "absent"
  BY DEF AnswersFollow
<1>1. state[q] = "absent"
  BY RowsStep, RecordKinds
<1>2. state[AnswerTo[q]] = "absent"
  BY <1>1 DEF IInv, AnswersFollow
<1>3. ~ \E w \in Workers : StageAnswer(w) /\ worker[w].current = q
  BY <1>1, CurrentRecord DEF StageAnswer
<1> QED
  BY <1>2, <1>3, AnswerStep

LEMMA OneAnswerTaskStep == IInv /\ [Next]_vars => OneAnswerTask'
<1> SUFFICES ASSUME IInv, [Next]_vars, NEW w \in Workers, worker'[w].pc = "answering"
             PROVE  /\ state'[AnswerTo[worker'[w].current]] = "absent"
                    /\ \A v \in Workers : worker'[v].pc = "answering"
                          /\ worker'[v].current = worker'[w].current => v = w
  BY DEF OneAnswerTask
<1> DEFINE q == worker'[w].current
<1>1. TypeOK
  BY DEF IInv
<1>2. CASE worker'[w] = worker[w]
  <2>1. worker[w].pc = "answering" /\ worker[w].current = q /\ q \in Requests /\ state[q] # "absent"
    BY <1>2 DEF IInv, WorkersHaveRows
  <2>2. state[AnswerTo[q]] = "absent"
    BY <2>1 DEF IInv, OneAnswerTask
  <2>3. ASSUME NEW u \in Workers, StageAnswer(u), worker[u].current = q PROVE FALSE
    <3>1. u = w
      BY <2>1, <2>3 DEF StageAnswer, IInv, OneAnswerTask
    <3>2. worker'[w].pc = "working"
      BY <1>1, <2>3, <3>1 DEF StageAnswer, Starts, TypeOK
    <3> QED
      BY <3>2
  <2>4. ASSUME NEW v \in Workers, worker'[v].pc = "answering", worker'[v].current = q PROVE v = w
    <3>1. CASE worker'[v] = worker[v]
      BY <2>1, <2>4, <3>1 DEF IInv, OneAnswerTask
    <3>2. CASE ReceiveRequest(v, q)
      BY <2>1, <3>2 DEF ReceiveRequest, Created
    <3> QED
      BY <2>4, <3>1, <3>2, AnsweringStep
  <2> QED
    BY <2>1, <2>2, <2>3, <2>4, AnswerStep
<1>3. CASE q \in Requests /\ ReceiveRequest(w, q)
  <2>1. state[q] = "absent" /\ worker[w].pc = "idle"
    BY <1>3 DEF ReceiveRequest, Created
  <2>2. ~ \E u \in Workers : StageAnswer(u) /\ worker[u].current = q
    BY <2>1, CurrentRecord DEF StageAnswer
  <2>3. state'[AnswerTo[q]] = "absent"
    BY <1>3, <2>1, <2>2, AnswerStep DEF IInv, AnswersFollow
  <2>4. ASSUME NEW v \in Workers, worker'[v].pc = "answering", worker'[v].current = q, v # w
        PROVE  FALSE
    <3>1. worker'[v] = worker[v]
      BY <1>1, <1>3, <2>4, OthersKeep DEF ReceiveRequest
    <3> QED
      BY <2>1, <2>4, <3>1, CurrentRecord
  <2> QED
    BY <2>3, <2>4
<1> QED
  BY <1>2, <1>3, AnsweringStep

\* The invariant is inductive.
THEOREM Inductive == Spec => []IInv
<1>1. Init => IInv
  BY InitIInv
<1>2. IInv /\ [Next]_vars => IInv'
  <2> SUFFICES ASSUME IInv, [Next]_vars PROVE IInv'
    OBVIOUS
  <2>1. TypeOK' /\ WorkersHaveRows' /\ SuccessHappened' /\ EffectOnce' /\ BindingsAllow'
    BY TypeStep, WorkersHaveRowsStep, SuccessHappenedStep, EffectOnceStep
  <2>2. OneAnswerTask' /\ AnswersFollow'
    BY OneAnswerTaskStep, AnswersFollowStep
  <2> QED
    BY <2>1, <2>2 DEF IInv
<1> QED
  BY <1>1, <1>2, PTL DEF Spec

\* Every reachable state is well typed.
THEOREM TypeCorrect == Spec => []TypeOK
<1>1. IInv => TypeOK
  BY DEF IInv
<1> QED
  BY <1>1, Inductive, PTL

\* A RET10 callback's effect is committed at most once, a LOG10 callback's at
\* most once for every time its provider was bound to the order.
THEOREM CallbacksApplyOnce == Spec => []EffectOnce
<1>1. IInv => EffectOnce
  BY DEF IInv
<1> QED
  BY <1>1, Inductive, PTL

\* A request has one background task, which finds its answer not yet staged.
THEOREM OneTaskAnswers == Spec => []OneAnswerTask
<1>1. IInv => OneAnswerTask
  BY DEF IInv
<1> QED
  BY <1>1, Inductive, PTL

-----------------------------------------------------------------------------
(* Delivered records.                                                      *)

LEMMA DeliveredStep ==
    ASSUME IInv, [Next]_vars, NEW m \in Records, state[m] = "delivered"
    PROVE  state'[m] = "delivered" /\ lease'[m] = lease[m]
<1> DEFINE Goal == state'[m] = "delivered" /\ lease'[m] = lease[m]
<1> USE RecordKinds
<1>1. TypeOK
  BY DEF IInv
<1>2. ASSUME UNCHANGED rows PROVE Goal
  BY <1>2 DEF rows
<1>3. ASSUME NEW n \in Records, Persisted(n) PROVE Goal
  BY <1>1, <1>3 DEF Persisted, TypeOK
<1>4. ASSUME NEW w \in Workers, NEW ms \in SUBSET Records, Claimed(w, ms),
             \A n \in ms : state[n] = "absent" \/ Claimable(n)
      PROVE  Goal
  BY <1>4 DEF Claimed, Claimable
<1>5. ASSUME NEW w \in Workers, NEW n \in Records, Holds(w, n), MarkDelivered(n) \/ ScheduleRetry(n)
      PROVE  Goal
  BY <1>1, <1>5 DEF Holds, MarkDelivered, ScheduleRetry, TypeOK
<1>6. ASSUME NEW w \in Workers, NEW q \in Requests, ReceiveRequest(w, q) PROVE Goal
  BY <1>3, <1>6 DEF ReceiveRequest
<1>7. ASSUME NEW w \in Workers, NEW c \in Callbacks, ReceiveCallback(w, c) PROVE Goal
  BY <1>3, <1>7 DEF ReceiveCallback
<1>8. ASSUME NEW w \in Workers, NEW d \in Dispatches, Dispatch(w, d) PROVE Goal
  <2>1. {d} \in SUBSET Records /\ Claimed(w, {d}) /\ (state[d] = "absent" \/ Claimable(d))
    BY <1>8 DEF Dispatch
  <2> QED
    BY <1>4, <2>1
<1>9. ASSUME NEW w \in Workers, NEW queue \in SUBSET Records, NEW batch \in SUBSET Records,
             Drain(w, queue, batch)
      PROVE  Goal
  BY <1>4, <1>9 DEF Drain
<1>10. ASSUME NEW w \in Workers, Work(w) PROVE Goal
  <2> DEFINE n == worker[w].current
  <2>1. CASE StageAnswer(w)
    <3>1. n \in Requests /\ AnswerTo[n] \in Records
      BY <2>1 DEF StageAnswer, IInv, WorkersHaveRows
    <3>2. /\ {AnswerTo[n]} \in SUBSET Records /\ Claimed(w, {AnswerTo[n]})
          /\ state[AnswerTo[n]] = "absent" \/ Claimable(AnswerTo[n])
      BY <2>1, <3>1 DEF StageAnswer
    <3> QED
      BY <1>4, <3>2
  <2>2. CASE ClaimCallback(w)
    <3>1. {n} \in SUBSET Records
      BY <2>2, CurrentRecord DEF ClaimCallback
    <3>2. CASE Claimable(n) /\ Claimed(w, {n})
      BY <1>4, <3>1, <3>2
    <3> QED
      BY <1>2, <2>2, <3>2 DEF ClaimCallback
  <2>3. CASE RecordSuccess(w) \/ RecordFailure(w) \/ DoubtSuccess(w)
    <3>1. n \in Records
      BY <2>3, CurrentRecord DEF RecordSuccess, RecordFailure, DoubtSuccess
    <3>2. UNCHANGED rows \/ (Holds(w, n) /\ (MarkDelivered(n) \/ ScheduleRetry(n)))
      BY <2>3 DEF RecordSuccess, RecordFailure, DoubtSuccess
    <3> QED
      BY <1>2, <1>5, <3>1, <3>2
  <2>4. CASE Send(w) \/ ReconcileCallback(w) \/ ReconcileRequest(w) \/ LoseLease(w)
    BY <1>2, <2>4 DEF Send, ReconcileCallback, ReconcileRequest, LoseLease
  <2> QED
    BY <1>10, <2>1, <2>2, <2>3, <2>4 DEF Work
<1>11. ASSUME NEW n \in Records, RequeueDeadLetter(n) \/ ExpireLease(n) \/ EndWaiting(n)
       PROVE  Goal
  BY <1>1, <1>11 DEF RequeueDeadLetter, ExpireLease, EndWaiting, TypeOK
<1>12. ASSUME NEW w \in Workers, Abandon(w) PROVE Goal
  BY <1>2, <1>12 DEF Abandon
<1>13. ASSUME UNCHANGED vars PROVE Goal
  BY <1>2, <1>13 DEF vars, rows
<1>14. ASSUME NEW o \in Orders, NEW p \in Providers, BindProvider(o, p) PROVE Goal
  BY <1>2, <1>14 DEF BindProvider
<1> HIDE DEF Goal
<1>15. Goal
  BY <1>1, <1>6, <1>7, <1>8, <1>9, <1>10, <1>11, <1>12, <1>13, <1>14, Steps
<1> QED
  BY <1>15 DEF Goal

\* What was delivered stays delivered, under the lease that delivered it.
THEOREM DeliveredStays == Spec => DeliveredIsFinal
<1>1. IInv /\ [Next]_vars => [\A m \in Records : state[m] = "delivered" =>
                                 state'[m] = "delivered" /\ lease'[m] = lease[m]]_vars
  BY DeliveredStep
<1> QED
  BY <1>1, Inductive, PTL DEF Spec, DeliveredIsFinal

-----------------------------------------------------------------------------
(* The queues implement DurableDelivery.                                   *)

Durable == Callbacks \cup Outbox

LEMMA MoveStep ==
    ASSUME NEW m \in Durable, NEW from, NEW to, Stage(m) = from, Stage(m)' = to,
           \A n \in Durable : n # m => state'[n] = state[n],
           received' = received, applied' = applied
    PROVE  Abstract!Move(m, from, to)
<1>1. \A n \in Durable : n # m => Stage(n)' = Stage(n)
  BY DEF Stage
<1>2. [n \in Durable |-> Stage(n)]' = [[n \in Durable |-> Stage(n)] EXCEPT ![m] = to]
  BY <1>1
<1> QED
  BY <1>2 DEF Abstract!Move, Durable

\* Nothing happens to the messages, or only effects do.
LEMMA StayStep ==
    ASSUME \A n \in Durable : Stage(n)' = Stage(n)
    PROVE  /\ Done' = Done => [Abstract!Next]_<<[m \in Durable |-> Stage(m)], Done>>
           /\ \A m \in Durable : Stage(m) # "none" /\ Done' = Done \cup {m} => Abstract!Next
<1>1. [n \in Durable |-> Stage(n)]' = [n \in Durable |-> Stage(n)]
  OBVIOUS
<1>2. ASSUME NEW m \in Durable, Stage(m) # "none", Done' = Done \cup {m} PROVE Abstract!Next
  BY <1>1, <1>2 DEF Abstract!Next, Abstract!Happen, Done, Durable
<1> QED
  BY <1>1, <1>2

LEMMA AbstractStep ==
    ASSUME IInv, [Next]_vars
    PROVE  [Abstract!Next]_<<[m \in Durable |-> Stage(m)], Done>>
<1> DEFINE Goal == [Abstract!Next]_<<[m \in Durable |-> Stage(m)], Done>>
<1> USE RecordKinds
<1>1. TypeOK /\ Durable \subseteq Records /\ Durable \cap Requests = {}
  BY RecordAssumption DEF IInv, Durable, Inbox
<1>2. ASSUME \A n \in Durable : Stage(n)' = Stage(n), received' = received, applied' = applied
      PROVE  Goal
  BY <1>2, StayStep DEF Done
<1>3. ASSUME NEW m \in Durable, NEW from, NEW to, Abstract!Move(m, from, to),
             \/ from = "none" /\ to = "queued"
             \/ from = "queued" /\ to = "delivered" /\ m \in Done
             \/ from = "queued" /\ to = "parked"
             \/ from = "parked" /\ to = "queued"
      PROVE  Goal
  <2>1. Abstract!Accept(m) \/ Abstract!Deliver(m) \/ Abstract!Park(m) \/ Abstract!Recover(m)
    BY <1>3 DEF Abstract!Accept, Abstract!Deliver, Abstract!Park, Abstract!Recover, Done
  <2> QED
    BY <2>1 DEF Abstract!Next, Durable
<1>4. ASSUME NEW m \in Durable, state[m] = "absent", state'[m] \in {"pending", "processing"},
             \A n \in Records : n # m => state'[n] = state[n],
             received' = received, applied' = applied
      PROVE  Goal
  <2>1. Stage(m) = "none" /\ Stage(m)' = "queued"
    BY <1>4 DEF Stage
  <2> QED
    BY <1>1, <1>3, <1>4, <2>1, MoveStep
<1>5. ASSUME NEW w \in Workers, NEW ms \in SUBSET Records, \A n \in ms : Claimable(n), Claimed(w, ms),
             received' = received, applied' = applied
      PROVE  Goal
  <2>1. \A n \in Durable : Stage(n)' = Stage(n)
    BY <1>1, <1>5 DEF Claimed, Claimable, Stage
  <2> QED
    BY <1>2, <1>5, <2>1
<1>6. ASSUME NEW w \in Workers, NEW m \in Durable, Claimed(w, {m}), state[m] = "absent" \/ Claimable(m),
             received' = received, applied' = applied
      PROVE  Goal
  <2>1. CASE state[m] = "absent"
    BY <1>1, <1>4, <1>6, <2>1 DEF Claimed
  <2>2. CASE Claimable(m)
    BY <1>1, <1>5, <1>6, <2>2
  <2> QED
    BY <1>6, <2>1, <2>2
<1>7. ASSUME NEW w \in Workers, NEW q \in Requests, ReceiveRequest(w, q) PROVE Goal
  <2>1. \A n \in Durable : state'[n] = state[n]
    BY <1>1, <1>7 DEF ReceiveRequest, Persisted, TypeOK
  <2> QED
    BY <1>2, <1>7, <2>1 DEF ReceiveRequest, Stage
<1>8. ASSUME NEW w \in Workers, NEW c \in Callbacks, ReceiveCallback(w, c) PROVE Goal
  <2>1. c \in Durable
    BY DEF Durable
  <2>2. CASE state[c] = "absent"
    BY <1>1, <1>4, <1>8, <2>1, <2>2 DEF ReceiveCallback, Persisted, TypeOK
  <2>3. CASE state[c] # "absent"
    BY <1>1, <1>2, <1>8, <2>3 DEF ReceiveCallback, Persisted, Stage
  <2> QED
    BY <2>2, <2>3
<1>9. ASSUME NEW w \in Workers, NEW d \in Dispatches, Dispatch(w, d) PROVE Goal
  <2>1. d \in Durable
    BY DEF Durable, Outbox
  <2> QED
    BY <1>6, <1>9, <2>1 DEF Dispatch
<1>10. ASSUME NEW w \in Workers, NEW queue \in SUBSET Records, NEW batch \in SUBSET Records,
              Drain(w, queue, batch)
       PROVE  Goal
  BY <1>5, <1>10 DEF Drain
<1>11. ASSUME NEW w \in Workers, Work(w) PROVE Goal
  <2> DEFINE m == worker[w].current
  <2>1. CASE StageAnswer(w)
    <3>1. AnswerTo[m] \in Durable
      BY <2>1 DEF StageAnswer, IInv, WorkersHaveRows, Durable, Outbox
    <3> QED
      BY <1>6, <2>1, <3>1 DEF StageAnswer
  <2>2. CASE ClaimCallback(w)
    <3>1. m \in Records
      BY <2>2, CurrentRecord DEF ClaimCallback
    <3>2. CASE Claimable(m) /\ Claimed(w, {m})
      BY <1>5, <2>2, <3>1, <3>2 DEF ClaimCallback
    <3>3. CASE UNCHANGED rows
      BY <1>2, <2>2, <3>3 DEF ClaimCallback, rows, Stage
    <3> QED
      BY <2>2, <3>2, <3>3 DEF ClaimCallback
  <2>3. CASE Send(w)
    <3>1. m \in Durable /\ Stage(m) # "none" /\ \A n \in Durable : Stage(n)' = Stage(n)
      BY <2>3, CurrentRecord DEF Send, Durable, Stage, rows
    <3>2. Done' = Done \/ Done' = Done \cup {m}
      BY <2>3 DEF Send, Done
    <3> QED
      BY <3>1, <3>2, StayStep
  <2>4. CASE ReconcileCallback(w)
    <3>1. /\ m \in Callbacks /\ m \in Durable /\ Stage(m) # "none"
          /\ \A n \in Durable : Stage(n)' = Stage(n)
      BY <2>4, CurrentRecord DEF ReconcileCallback, Applied, Durable, Stage, rows
    <3>2. CASE UNCHANGED effects
      BY <1>2, <2>4, <3>1, <3>2 DEF ReconcileCallback
    <3>3. CASE Applied(m)
      <4>1. Done' = Done \cup {m}
        BY <1>1, <2>4, <3>1, <3>3, AppliedChanges DEF ReconcileCallback, Done, TypeOK, IInv,
           BindingsAllow
      <4> QED
        BY <3>1, <4>1, StayStep
    <3> QED
      BY <2>4, <3>2, <3>3 DEF ReconcileCallback
  <2>5. CASE Holds(w, m) /\ worker[w].pc = "succeeded" /\ MarkDelivered(m) /\ UNCHANGED <<received, effects>>
    <3>1. PICK k \in Records : k = m
      BY <2>5, CurrentRecord
    <3>2. \A n \in Records : n # k => state'[n] = state[n]
      BY <1>1, <2>5, <3>1 DEF MarkDelivered, TypeOK
    <3>3. CASE k \in Durable
      <4>1. Stage(k) = "queued" /\ Stage(k)' = "delivered"
        BY <1>1, <2>5, <3>1 DEF Holds, MarkDelivered, Stage, TypeOK
      <4>2. k \in Done
        BY <1>1, <2>5, <3>1, <3>3 DEF IInv, SuccessHappened
      <4> QED
        BY <1>1, <1>3, <2>5, <3>2, <3>3, <4>1, <4>2, MoveStep
    <3>4. CASE k \notin Durable
      BY <1>1, <1>2, <2>5, <3>2, <3>4 DEF Stage
    <3> QED
      BY <3>3, <3>4
  <2>6. CASE RecordFailure(w)
    <3>1. PICK k \in Records : k = m
      BY <2>6, CurrentRecord DEF RecordFailure
    <3>2. \A n \in Records : n # k => state'[n] = state[n]
      BY <1>1, <2>6, <3>1 DEF RecordFailure, ScheduleRetry, TypeOK
    <3>3. state[k] = "processing" /\ state'[k] \in {"pending", "dead_letter"}
      BY <1>1, <2>6, <3>1 DEF RecordFailure, Holds, ScheduleRetry, TypeOK
    <3>4. CASE k \in Durable /\ state'[k] = "dead_letter"
      <4>1. Stage(k) = "queued" /\ Stage(k)' = "parked"
        BY <3>3, <3>4 DEF Stage
      <4> QED
        BY <1>1, <1>3, <2>6, <3>2, <3>4, <4>1, MoveStep DEF RecordFailure
    <3>5. CASE k \notin Durable \/ state'[k] = "pending"
      <4>1. \A n \in Durable : Stage(n)' = Stage(n)
        BY <1>1, <3>2, <3>3, <3>5 DEF Stage
      <4> QED
        BY <1>2, <2>6, <4>1 DEF RecordFailure
    <3> QED
      BY <3>3, <3>4, <3>5
  <2>7. CASE UNCHANGED <<rows, received, effects>>
    BY <1>2, <2>7 DEF rows, Stage
  <2>8. RecordSuccess(w) => Goal
    BY <2>5 DEF RecordSuccess
  <2>9. DoubtSuccess(w) => Goal
    BY <2>5, <2>7 DEF DoubtSuccess
  <2> HIDE DEF Goal
  <2> QED
    BY <1>11, <2>1, <2>2, <2>3, <2>4, <2>6, <2>7, <2>8, <2>9 DEF Work, ReconcileRequest, LoseLease
<1>12. ASSUME NEW m \in Records, RequeueDeadLetter(m) PROVE Goal
  <2>1. CASE m \in Durable
    <3>1. Stage(m) = "parked" /\ Stage(m)' = "queued"
      BY <1>1, <1>12 DEF RequeueDeadLetter, Stage, TypeOK
    <3> QED
      BY <1>1, <1>3, <1>12, <2>1, <3>1, MoveStep DEF RequeueDeadLetter, TypeOK
  <2>2. CASE m \notin Durable
    BY <1>1, <1>2, <1>12, <2>2 DEF RequeueDeadLetter, Stage, TypeOK
  <2> QED
    BY <2>1, <2>2
<1>13. ASSUME NEW m \in Records, ExpireLease(m) \/ EndWaiting(m) PROVE Goal
  BY <1>2, <1>13 DEF ExpireLease, EndWaiting, Stage
<1>14. ASSUME NEW w \in Workers, Abandon(w) PROVE Goal
  BY <1>2, <1>14 DEF Abandon, rows, Stage
<1>15. ASSUME UNCHANGED vars PROVE Goal
  BY <1>2, <1>15 DEF vars, Stage
<1>16. ASSUME NEW o \in Orders, NEW p \in Providers, BindProvider(o, p) PROVE Goal
  BY <1>2, <1>16 DEF BindProvider, rows, Stage
<1> HIDE DEF Goal
<1>17. Goal
  BY <1>1, <1>7, <1>8, <1>9, <1>10, <1>11, <1>12, <1>13, <1>14, <1>15, <1>16, Steps
<1> QED
  BY <1>17 DEF Goal

\* The queues deliver a callback only with its effect and an outgoing message
\* only with an acknowledgement, and what they park they can queue again.
THEOREM QueuesImplementDelivery == Spec => ImplementsDelivery
<1>1. Init => Abstract!Init
  <2> SUFFICES ASSUME Init PROVE Abstract!Init
    OBVIOUS
  <2>1. \A m \in Durable : Stage(m) = "none"
    BY RecordKinds DEF Init, Stage, Durable
  <2>2. Done = {}
    BY DEF Init, Done
  <2> QED
    BY <2>1, <2>2 DEF Abstract!Init, Done, Durable
<1>2. IInv /\ [Next]_vars => [Abstract!Next]_<<[m \in Durable |-> Stage(m)], Done>>
  BY AbstractStep
<1>3. IInv /\ [Next]_vars =>
        [Abstract!Next]_<<[m \in Callbacks \cup Outbox |-> Stage(m)],
                          received \cup {c \in Callbacks : applied[c] > 0}>>
  BY <1>2 DEF Durable, Done
<1> QED
  BY <1>1, <1>3, Inductive, PTL DEF Spec, ImplementsDelivery, Abstract!Spec
=============================================================================
