------------------------- MODULE BuyerActionsProofs -------------------------
(***************************************************************************)
(* The order after checkout and the Buyer's protected actions on it, for   *)
(* any callbacks, providers, requests, policies, keys, issues and runners. *)
(*                                                                         *)
(* Callbacks: a rebinding forgets what its provider has sent, so that a    *)
(* callback of a bound provider that is not remembered must have been      *)
(* applied less often than the provider was bound.                         *)
(*                                                                         *)
(* Receipts: an action has at most one because its effect can happen only  *)
(* once, whoever does it: orders do not leave "cancelled", returns do not  *)
(* disappear and closed issues stay closed.  These are promises of         *)
(* Aftersales, so that the refinement comes first and the receipts follow. *)
(***************************************************************************)
EXTENDS BuyerActions, BuyerAuthorityProofs, Sequences


\* A logistics callback that may still be applied has a binding left for it.
BindingLeft ==
    \A c \in LogisticsCallbacks :
        logistics.bpp = c.bpp /\ c \notin logistics.processed =>
            applied[c] < bindings[c.bpp]

ScenarioOK == scenario \in Scenarios

FulfilmentInv ==
    /\ FulfilmentTypeOK /\ ScenarioOK
    /\ BindingLeft /\ CallbackOnce /\ RefundTrue

\* What the invariant says of a step that leaves the order alone.
LEMMA OrderAlone ==
    ASSUME FulfilmentInv, UNCHANGED fulfilmentVars, scenario' = scenario
    PROVE  FulfilmentInv'
  BY DEF FulfilmentInv, FulfilmentTypeOK, ScenarioOK, BindingLeft, CallbackOnce, RefundTrue,
         fulfilmentVars, refundVars

-----------------------------------------------------------------------------
(* The operators callbacks are read with                                   *)

LEMMA MovesAreStatuses ==
    ASSUME NEW from, NEW to, <<from, to>> \in OrderMoves
    PROVE  from \in OrderStatuses /\ to \in OrderStatuses
  BY DEF OrderMoves, OrderStatuses

LEMMA StatusAfterType ==
    ASSUME order \in OrderStatuses, NEW target, NEW review
    PROVE  StatusAfter(target, review) \in OrderStatuses
  BY MovesAreStatuses DEF StatusAfter

LEMMA LatestType ==
    ASSUME NEW time \in Times, NEW before \in Times
    PROVE  Latest(time, before) \in Times
  BY DEF Latest

LEMMA StaleIsBoolean ==
    ASSUME NEW time, NEW before
    PROVE  IsStale(time, before) \in BOOLEAN
  BY DEF IsStale

LEMMA ReturnTargetsAre ==
    ReturnTargets = {"requested", "approved", "in_transit", "received", "refund_pending",
                     "completed"}
  BY DEF ReturnTargets, ReturnPath

LEMMA ReturnAfterType ==
    ASSUME return \in ReturnStatuses \cup {"none"}, NEW c
    PROVE  ReturnAfter(c) \in ReturnStatuses \cup {"none"}
  <1>1. RetailReturnTarget(c.return) \in ReturnStatuses \cup {"none"}
    BY DEF RetailReturnTarget, ReturnStatuses
  <1>2. ReturnNow \in ReturnStatuses
    BY DEF ReturnNow, ReturnStatuses
  <1> QED BY <1>1, <1>2 DEF ReturnAfter, WalkReturn

\* The envelope fields the types of the bindings need.
LEMMA EnvelopeTypes ==
    /\ \A c \in RetailCallbacks : c.time \in Times
    /\ \A c \in LogisticsCallbacks :
        c.time \in Times /\ c.bpp \in Providers /\ c.compliant \in BOOLEAN
                         /\ c.insecure \in BOOLEAN
    /\ \A c \in RetailCallbacks : c \notin LogisticsCallbacks /\ c.insecure \in BOOLEAN
  BY CallbackAssumption DEF RetailEnvelope, LogisticsEnvelope

-----------------------------------------------------------------------------
(* The steps of the order                                                  *)

LEMMA InitInv == Init => FulfilmentInv
  <1> SUFFICES ASSUME Init PROVE FulfilmentInv
    OBVIOUS
  <1> USE DEF Init, FulfilmentInit, NoBinding, NoRefund
  <1>1. FulfilmentTypeOK
    BY ScenarioAssumption, BindingAssumption DEF FulfilmentTypeOK, Times, RefundKeys
  <1>2. BindingLeft /\ CallbackOnce
    BY EnvelopeTypes, KeyAssumption DEF BindingLeft, CallbackOnce
  <1>3. ScenarioOK /\ RefundTrue
    BY DEF ScenarioOK, RefundTrue
  <1> QED BY <1>1, <1>2, <1>3 DEF FulfilmentInv

LEMMA RecordPaymentInv == ASSUME FulfilmentInv, RecordPayment, UNCHANGED scenario PROVE FulfilmentInv'
  <1> USE DEF FulfilmentInv, FulfilmentTypeOK, RecordPayment, refundVars
  <1>1. FulfilmentTypeOK' /\ ScenarioOK'
    BY MovesAreStatuses DEF ScenarioOK
  <1>2. BindingLeft' /\ CallbackOnce' /\ RefundTrue'
    BY DEF BindingLeft, CallbackOnce, RefundTrue
  <1> QED BY <1>1, <1>2

\* A new binding, the start of another or the same provider's.
LEMMA BindInv ==
    ASSUME FulfilmentInv, NEW p \in Providers, Bind(p),
           order' \in OrderStatuses,
           UNCHANGED <<rail, captured, retail, applied, return, refundVars, scenario>>
    PROVE  FulfilmentInv'
  <1> USE DEF FulfilmentInv, FulfilmentTypeOK, Bind, BindingOf, NoBinding, refundVars
  <1>1. logistics' = [bpp |-> p, processed |-> {}, latest |-> 0, review |-> FALSE,
                      conformance |-> "none"]
    OBVIOUS
  <1>2. bindings' \in [Providers -> 0..MaxBindings]
    BY BindingAssumption
  <1>3. FulfilmentTypeOK' /\ ScenarioOK'
    <2>1. 0 \in Times
      BY DEF Times
    <2>2. logistics' \in [bpp : Providers \cup {NoProvider}, processed : SUBSET LogisticsCallbacks,
                          latest : Times, review : BOOLEAN,
                          conformance : {"none", "accepted", "rejected"}]
      BY <1>1, <2>1
    <2> QED BY <1>2, <2>2 DEF ScenarioOK
  <1>4. \A q \in Providers : bindings'[q] >= bindings[q] /\ bindings'[p] = bindings[p] + 1
    BY BindingAssumption
  <1>5. CallbackOnce'
    BY <1>1, <1>4, EnvelopeTypes, BindingAssumption DEF CallbackOnce
  <1>6. BindingLeft'
    BY <1>1, <1>4, EnvelopeTypes, BindingAssumption DEF CallbackOnce, BindingLeft
  <1>7. RefundTrue'
    BY DEF RefundTrue
  <1> QED BY <1>3, <1>5, <1>6, <1>7

LEMMA TransitionInv ==
    ASSUME FulfilmentInv, NEW to, NEW p \in Providers \cup {NoProvider}, TransitionOrder(to, p),
           UNCHANGED scenario
    PROVE  FulfilmentInv'
  <1>1. order' \in OrderStatuses
    BY MovesAreStatuses DEF TransitionOrder
  <1>2. CASE p = NoProvider
    <2>1. UNCHANGED bindingVars
      BY <1>2 DEF TransitionOrder
    <2>2. FulfilmentTypeOK' /\ ScenarioOK'
      BY <1>1, <2>1 DEF FulfilmentInv, FulfilmentTypeOK, ScenarioOK, TransitionOrder, bindingVars,
                        refundVars
    <2>3. BindingLeft' /\ CallbackOnce' /\ RefundTrue'
      BY <2>1 DEF FulfilmentInv, BindingLeft, CallbackOnce, RefundTrue, TransitionOrder,
                  bindingVars, refundVars
    <2> QED BY <2>2, <2>3 DEF FulfilmentInv
  <1>3. CASE p # NoProvider
    BY <1>1, <1>3, BindInv DEF TransitionOrder
  <1> QED BY <1>2, <1>3

LEMMA RebindInv ==
    ASSUME FulfilmentInv, NEW p \in Providers, Rebind(p), UNCHANGED scenario
    PROVE  FulfilmentInv'
  BY BindInv DEF Rebind, FulfilmentInv, FulfilmentTypeOK

LEMMA BindRetailInv == ASSUME FulfilmentInv, BindRetail, UNCHANGED scenario PROVE FulfilmentInv'
  <1> USE DEF FulfilmentInv, FulfilmentTypeOK, BindRetail, refundVars
  <1>1. retail' \in [bound : BOOLEAN, processed : SUBSET RetailCallbacks, latest : Times,
                     review : BOOLEAN]
        /\ retail'.processed = retail.processed /\ retail'.bound
    OBVIOUS
  <1>2. FulfilmentTypeOK' /\ ScenarioOK'
    BY <1>1 DEF ScenarioOK
  <1>3. BindingLeft' /\ CallbackOnce' /\ RefundTrue'
    BY <1>1 DEF BindingLeft, CallbackOnce, RefundTrue
  <1> QED BY <1>2, <1>3

LEMMA ApplyLogisticsInv ==
    ASSUME FulfilmentInv, NEW c \in LogisticsCallbacks, ApplyLogistics(c), UNCHANGED scenario
    PROVE  FulfilmentInv'
  <1> DEFINE stale == IsStale(c.time, logistics.latest)
             held == stale \/ LogisticsReview(c)
             review == held \/ IllegalTarget(LogisticsTarget(c))
  <1>1. stale \in BOOLEAN /\ review \in BOOLEAN
    BY StaleIsBoolean, EnvelopeTypes DEF LogisticsReview, IllegalTarget
  <1>2. order' = StatusAfter(LogisticsTarget(c), held)
    BY DEF ApplyLogistics
  <1>3. /\ logistics'.bpp = logistics.bpp
        /\ logistics'.processed = logistics.processed \cup {c}
        /\ logistics' \in [bpp : Providers \cup {NoProvider},
                           processed : SUBSET LogisticsCallbacks, latest : Times,
                           review : BOOLEAN, conformance : {"none", "accepted", "rejected"}]
    <2>1. Latest(c.time, logistics.latest) \in Times
      BY LatestType, EnvelopeTypes DEF FulfilmentInv, FulfilmentTypeOK
    <2>2. Conformance(c, logistics.conformance) \in {"none", "accepted", "rejected"}
      BY DEF Conformance, FulfilmentInv, FulfilmentTypeOK
    <2>3. logistics' = [logistics EXCEPT
             !.processed = logistics.processed \cup {c},
             !.latest = Latest(c.time, logistics.latest),
             !.review = review,
             !.conformance = IF stale THEN logistics.conformance
                             ELSE Conformance(c, logistics.conformance)]
      BY DEF ApplyLogistics, Processed
    <2> HIDE DEF stale, review
    <2> QED BY <1>1, <2>1, <2>2, <2>3 DEF FulfilmentInv, FulfilmentTypeOK
  <1>4. FulfilmentTypeOK' /\ ScenarioOK'
    BY <1>2, <1>3, StatusAfterType
       DEF ApplyLogistics, FulfilmentInv, FulfilmentTypeOK, ScenarioOK, refundVars
  <1>5. applied[c] < bindings[c.bpp] /\ logistics.bpp = c.bpp /\ c \notin logistics.processed
    BY DEF ApplyLogistics, FulfilmentInv, BindingLeft
  <1>6. /\ applied' = [applied EXCEPT ![c] = applied[c] + 1]
        /\ UNCHANGED <<captured, rail, retail, bindings, refund, postings, refunded>>
    BY DEF ApplyLogistics, refundVars
  <1>7. CallbackOnce'
    BY <1>3, <1>5, <1>6, EnvelopeTypes, BindingAssumption
       DEF FulfilmentInv, FulfilmentTypeOK, CallbackOnce
  <1>8. BindingLeft'
    BY <1>3, <1>5, <1>6, EnvelopeTypes DEF FulfilmentInv, FulfilmentTypeOK, BindingLeft
  <1>9. RefundTrue'
    BY <1>6 DEF FulfilmentInv, RefundTrue
  <1> QED BY <1>4, <1>7, <1>8, <1>9 DEF FulfilmentInv

-----------------------------------------------------------------------------
(* Network retail callbacks and refunds                                    *)

\* A retail callback that is recorded is remembered and counted with its event.
LEMMA RecordRetailInv ==
    ASSUME FulfilmentInv, NEW c \in RetailCallbacks, NEW review \in BOOLEAN, CanApplyRetail(c),
           RecordRetail(c, review), UNCHANGED scenario,
           refund' \in [status : {"none", "pending", "succeeded"}, key : RefundKeys \cup {NoKey}],
           postings' \in SUBSET RefundKeys, refunded' \in SUBSET RefundKeys
    PROVE  /\ FulfilmentTypeOK' /\ ScenarioOK' /\ BindingLeft' /\ CallbackOnce'
           /\ retail'.processed = retail.processed \cup {c} /\ retail'.bound
           /\ UNCHANGED <<rail, captured>>
  <1>1. Latest(c.time, retail.latest) \in Times
    BY LatestType, EnvelopeTypes DEF FulfilmentInv, FulfilmentTypeOK
  <1>2. retail' = [retail EXCEPT !.processed = retail.processed \cup {c},
                                 !.latest = Latest(c.time, retail.latest), !.review = review]
    BY DEF RecordRetail, Processed
  <1>3. /\ retail' \in [bound : BOOLEAN, processed : SUBSET RetailCallbacks, latest : Times,
                        review : BOOLEAN]
        /\ retail'.processed = retail.processed \cup {c} /\ retail'.bound
    BY <1>1, <1>2 DEF FulfilmentInv, FulfilmentTypeOK, CanApplyRetail
  <1>4. order' \in OrderStatuses /\ return' \in ReturnStatuses \cup {"none"}
    BY StatusAfterType, ReturnAfterType DEF RecordRetail, FulfilmentInv, FulfilmentTypeOK
  <1>5. /\ applied' = [applied EXCEPT ![c] = applied[c] + 1]
        /\ UNCHANGED <<rail, captured, logistics, bindings>>
    BY DEF RecordRetail
  <1>6. FulfilmentTypeOK' /\ ScenarioOK'
    BY <1>3, <1>4, <1>5 DEF FulfilmentInv, FulfilmentTypeOK, ScenarioOK
  <1>7. CallbackOnce'
    BY <1>3, <1>5, EnvelopeTypes
       DEF FulfilmentInv, FulfilmentTypeOK, CallbackOnce, CanApplyRetail
  <1>8. BindingLeft'
    BY <1>5, EnvelopeTypes DEF FulfilmentInv, FulfilmentTypeOK, BindingLeft
  <1> QED BY <1>3, <1>5, <1>6, <1>7, <1>8

\* A refund that is posted is true.
LEMMA PostedIsTrue ==
    ASSUME FulfilmentInv, NEW key \in RefundKeys, refund = NoRefund, captured, PostRefund(key),
           UNCHANGED <<rail, captured>>
    PROVE  /\ refund' \in [status : {"none", "pending", "succeeded"}, key : RefundKeys \cup {NoKey}]
           /\ postings' \in SUBSET RefundKeys /\ refunded' \in SUBSET RefundKeys
           /\ RefundTrue'
  <1>1. postings = {}
    BY DEF FulfilmentInv, RefundTrue, NoRefund
  <1>2. /\ refund' = [status |-> "succeeded", key |-> key]
        /\ postings' = {key}
        /\ refunded' = IF rail = "razorpay_test" THEN refunded \cup {key} ELSE refunded
    BY <1>1 DEF PostRefund
  <1> QED BY <1>2 DEF FulfilmentInv, FulfilmentTypeOK, RefundTrue

LEMMA ApplyRetailInv ==
    ASSUME FulfilmentInv, NEW c \in RetailCallbacks, ApplyRetail(c), UNCHANGED scenario
    PROVE  FulfilmentInv'
  <1> DEFINE review == RetailHeld(c) \/ ReturnRefused(c) \/ RefundRefused(c)
  <1>1. review \in BOOLEAN
    OBVIOUS
  <1>2. CanApplyRetail(c) /\ RecordRetail(c, review) /\ UNCHANGED refundVars
    BY DEF ApplyRetail
  <1> HIDE DEF review
  <1>3. /\ FulfilmentTypeOK' /\ ScenarioOK' /\ BindingLeft' /\ CallbackOnce'
        /\ retail'.processed = retail.processed \cup {c} /\ retail'.bound
        /\ UNCHANGED <<rail, captured>>
    BY <1>1, <1>2, RecordRetailInv DEF FulfilmentInv, FulfilmentTypeOK, refundVars
  <1>4. RefundTrue'
    BY <1>2, <1>3 DEF FulfilmentInv, RefundTrue, refundVars
  <1> QED BY <1>3, <1>4 DEF FulfilmentInv

LEMMA ApplyRetailRefundInv ==
    ASSUME FulfilmentInv, NEW c \in RetailCallbacks, ApplyRetailRefund(c), UNCHANGED scenario
    PROVE  FulfilmentInv'
  <1>1. /\ CanApplyRetail(c) /\ RecordRetail(c, FALSE) /\ PostRefund(c)
        /\ refund = NoRefund /\ captured /\ UNCHANGED <<rail, captured>>
    BY DEF ApplyRetailRefund, CreatesRefund, RefundRefused, RecordRetail
  <1>2. c \in RefundKeys
    BY DEF RefundKeys
  <1>3. /\ refund' \in [status : {"none", "pending", "succeeded"}, key : RefundKeys \cup {NoKey}]
        /\ postings' \in SUBSET RefundKeys /\ refunded' \in SUBSET RefundKeys
        /\ RefundTrue'
    BY <1>1, <1>2, PostedIsTrue
  <1> QED BY <1>1, <1>3, RecordRetailInv DEF FulfilmentInv

LEMMA ApplyRetailUnpaidInv ==
    ASSUME FulfilmentInv, NEW c \in RetailCallbacks, ApplyRetailUnpaid(c), UNCHANGED scenario
    PROVE  FulfilmentInv'
  <1>1. /\ CanApplyRetail(c) /\ RecordRetail(c, TRUE)
        /\ refund' = [status |-> "pending", key |-> c] /\ UNCHANGED <<postings, refunded>>
        /\ refund = NoRefund /\ rail = "razorpay_test"
    BY DEF ApplyRetailUnpaid, CreatesRefund, PendingRow
  <1>2. refund' \in [status : {"none", "pending", "succeeded"}, key : RefundKeys \cup {NoKey}]
    BY <1>1 DEF RefundKeys
  <1>3. /\ FulfilmentTypeOK' /\ ScenarioOK' /\ BindingLeft' /\ CallbackOnce'
        /\ retail'.processed = retail.processed \cup {c} /\ retail'.bound
        /\ UNCHANGED <<rail, captured>>
    BY <1>1, <1>2, RecordRetailInv DEF FulfilmentInv, FulfilmentTypeOK
  <1>4. RefundTrue'
    BY <1>1, <1>3 DEF FulfilmentInv, RefundTrue, NoRefund
  <1> QED BY <1>3, <1>4 DEF FulfilmentInv

LEMMA IssueRefundInv ==
    ASSUME FulfilmentInv, NEW key \in SellerKeys, IssueRefund(key), UNCHANGED scenario
    PROVE  FulfilmentInv'
  <1>1. /\ refund' \in [status : {"none", "pending", "succeeded"}, key : RefundKeys \cup {NoKey}]
        /\ postings' \in SUBSET RefundKeys /\ refunded' \in SUBSET RefundKeys
        /\ RefundTrue'
    BY PostedIsTrue DEF IssueRefund, CanIssueRefund, RefundKeys
  <1>2. FulfilmentTypeOK' /\ ScenarioOK' /\ BindingLeft' /\ CallbackOnce'
    BY <1>1 DEF IssueRefund, FulfilmentInv, FulfilmentTypeOK, ScenarioOK, BindingLeft, CallbackOnce
  <1> QED BY <1>1, <1>2 DEF FulfilmentInv

LEMMA LoseRefundInv ==
    ASSUME FulfilmentInv, NEW key \in RefundKeys, LoseRefund(key), UNCHANGED scenario
    PROVE  FulfilmentInv'
  <1>1. refunded' = refunded \cup {key}
    BY DEF LoseRefund
  <1>2. FulfilmentTypeOK' /\ ScenarioOK' /\ BindingLeft' /\ CallbackOnce'
    BY <1>1 DEF LoseRefund, FulfilmentInv, FulfilmentTypeOK, ScenarioOK, BindingLeft, CallbackOnce
  <1>3. RefundTrue'
    BY <1>1 DEF LoseRefund, FulfilmentInv, RefundTrue
  <1> QED BY <1>2, <1>3 DEF FulfilmentInv

LEMMA CreateReturnInv == ASSUME FulfilmentInv, CreateReturn, UNCHANGED scenario PROVE FulfilmentInv'
  BY DEF CreateReturn, FulfilmentInv, FulfilmentTypeOK, ScenarioOK, BindingLeft, CallbackOnce,
         RefundTrue, ReturnStatuses, refundVars

-----------------------------------------------------------------------------
(* Every step                                                              *)

\* The callbacks, targets and requests of a scenario are the module's.
LEMMA ScenarioParts ==
    ASSUME ScenarioOK
    PROVE  /\ scenario.retail \subseteq RetailCallbacks
           /\ scenario.logistics \subseteq LogisticsCallbacks
           /\ scenario.requests \subseteq Requests
           /\ scenario.issues \subseteq IssueIds
  BY ScenarioAssumption DEF ScenarioOK

LEMMA OrderNextInv == ASSUME FulfilmentInv, OrderNext PROVE FulfilmentInv'
  <1> USE DEF OrderNext, callVars
  <1>1. CASE SellerStep
    <2>1. ASSUME NEW to, TransitionOrder(to, NoProvider) PROVE FulfilmentInv'
      BY <2>1, TransitionInv
    <2>2. ASSUME NEW to, NEW c \in scenario.logistics, TransitionOrder(to, c.bpp)
          PROVE  FulfilmentInv'
      BY <2>2, TransitionInv, ScenarioParts, EnvelopeTypes DEF FulfilmentInv
    <2>3. ASSUME NEW c \in scenario.logistics, Rebind(c.bpp) PROVE FulfilmentInv'
      BY <2>3, RebindInv, ScenarioParts, EnvelopeTypes DEF FulfilmentInv
    <2>4. ASSUME NEW key \in SellerKeys, IssueRefund(key) PROVE FulfilmentInv'
      BY <2>4, IssueRefundInv
    <2> QED BY <1>1, <2>1, <2>2, <2>3, <2>4 DEF SellerStep
  <1>2. CASE CallbackStep
    <2>1. CASE BindRetail
      BY <2>1, BindRetailInv
    <2>2. ASSUME NEW c \in scenario.retail,
                 ApplyRetail(c) \/ ApplyRetailRefund(c) \/ ApplyRetailUnpaid(c)
          PROVE  FulfilmentInv'
      BY <2>2, ApplyRetailInv, ApplyRetailRefundInv, ApplyRetailUnpaidInv, ScenarioParts
         DEF FulfilmentInv
    <2>3. ASSUME NEW c \in scenario.logistics, ApplyLogistics(c) PROVE FulfilmentInv'
      BY <2>3, ApplyLogisticsInv, ScenarioParts DEF FulfilmentInv
    <2>4. ASSUME NEW key \in SellerKeys \cup scenario.retail, LoseRefund(key)
          PROVE  FulfilmentInv'
      BY <2>4, LoseRefundInv, ScenarioParts DEF FulfilmentInv, RefundKeys
    <2> QED BY <1>2, <2>1, <2>2, <2>3, <2>4 DEF CallbackStep
  <1>3. CASE RecordPayment
    BY <1>3, RecordPaymentInv
  <1> QED BY <1>1, <1>2, <1>3

\* A call touches the order in its effect alone.
LEMMA CallStepInv == ASSUME FulfilmentInv, NEW r \in Runners, CallStep(r) PROVE FulfilmentInv'
  <1>1. CASE RunEffect(r)
    <2>1. TransitionOrder("cancelled", NoProvider) \/ CreateReturn \/ UNCHANGED fulfilmentVars
      BY <1>1 DEF RunEffect
    <2> QED BY <1>1, <2>1, TransitionInv, CreateReturnInv, OrderAlone DEF RunEffect
  <1>2. CASE ~RunEffect(r)
    <2>1. UNCHANGED fulfilmentVars /\ scenario' = scenario
      BY <1>2 DEF CallStep, BeginEvaluate, RecordDecision, CheckAction, ClaimAction, JoinAction,
                  RecordOutcome, Abandon
    <2> QED BY <2>1, OrderAlone
  <1> QED BY <1>1, <1>2

LEMMA StepInv == ASSUME FulfilmentInv, [Next]_vars PROVE FulfilmentInv'
  <1>1. CASE AuthorityNext \/ IssueNext \/ UNCHANGED vars
    <2>1. UNCHANGED fulfilmentVars /\ scenario' = scenario
      BY <1>1 DEF AuthorityNext, IssueNext, vars, callVars
    <2> QED BY <2>1, OrderAlone
  <1> QED BY <1>1, OrderNextInv, CallStepInv DEF Next

LEMMA AlwaysInv == Spec => []FulfilmentInv
  <1>1. FulfilmentInv /\ [Next]_vars => FulfilmentInv'
    BY StepInv
  <1> QED BY <1>1, InitInv, PTL DEF Spec

\* No callback is applied twice, whatever duplicates, reviews, stale timestamps
\* and rebindings there are (apply_retail_update, apply_logistics_update).
THEOREM CallbackAlwaysOnce == Spec => []CallbackOnce
  <1>1. FulfilmentInv => CallbackOnce
    BY DEF FulfilmentInv
  <1> QED BY <1>1, AlwaysInv, PTL

\* A refund said to have succeeded was made, once, of a captured payment, however
\* its provider fails and its transaction is lost (issue_refund, apply_retail_update).
THEOREM RefundAlwaysTrue == Spec => []RefundTrue
  <1>1. FulfilmentInv => RefundTrue
    BY DEF FulfilmentInv
  <1> QED BY <1>1, AlwaysInv, PTL



-----------------------------------------------------------------------------
(* Issues                                                                  *)

\* An issue of status "none" has nothing else, and so has one being inserted.
IssueInv ==
    /\ IssuesTypeOK
    /\ IssueAnswerable
    /\ \A i \in IssueIds : issues[i].status = "none" => issues[i] = NoIssue
    /\ \A i \in binders : issues[i] = NoIssue

\* What a step does to the status of an issue.
IssueMoved(i) ==
    LET from == issues[i].status
        to == issues[i].status'
    IN  \/ to = from
        \/ from = "none" /\ to = "open"
        \/ from \notin {"none", "closed"} /\ to \in IssueStatuses \ {"open"}

LEMMA IssuesAlone ==
    ASSUME IssueInv, UNCHANGED issueVars
    PROVE  IssueInv' /\ \A i \in IssueIds : IssueMoved(i)
  BY DEF IssueInv, IssuesTypeOK, IssueAnswerable, IssueMoved, issueVars

\* The row of one issue is replaced.
LEMMA IssueReplaced ==
    ASSUME IssueInv, NEW i \in IssueIds, NEW row \in IssueRow,
           issues' = [issues EXCEPT ![i] = row],
           binders' \in SUBSET IssueIds,
           \A j \in binders' : j # i /\ issues[j] = NoIssue,
           row.status # "none",
           row.status = "open" \/ (row.owned /\ row.due),
           \/ row.status = issues[i].status
           \/ issues[i].status = "none" /\ row.status = "open"
           \/ issues[i].status \notin {"none", "closed"} /\ row.status # "open"
    PROVE  IssueInv' /\ \A j \in IssueIds : IssueMoved(j)
  <1> USE DEF IssueInv, IssuesTypeOK
  <1>1. /\ issues' \in [IssueIds -> IssueRow]
        /\ issues'[i] = row
        /\ \A j \in IssueIds : j # i => issues'[j] = issues[j]
    OBVIOUS
  <1>2. row.status \in IssueStatuses
    BY DEF IssueRow
  <1>3. IssueAnswerable'
    BY <1>1 DEF IssueAnswerable
  <1>4. \A j \in IssueIds : issues'[j].status = "none" => issues'[j] = NoIssue
    BY <1>1
  <1>5. \A j \in binders' : issues'[j] = NoIssue
    BY <1>1
  <1>6. \A j \in IssueIds : IssueMoved(j)
    BY <1>1, <1>2 DEF IssueMoved
  <1> QED BY <1>1, <1>3, <1>4, <1>5, <1>6

LEMMA IssueMovesAre ==
    ASSUME NEW from, NEW to, <<from, to>> \in IssueMoves
    PROVE  /\ from \in IssueStatuses \ {"closed"} /\ to \in IssueStatuses \ {"open"}
           /\ from = "open" => to = "acknowledged"
           /\ to = "accepted" => from = "resolution_proposed"
  BY DEF IssueMoves, IssueStatuses

LEMMA CreateIssueInv ==
    ASSUME IssueInv, NEW i \in IssueIds, CreateIssue(i)
    PROVE  IssueInv' /\ \A j \in IssueIds : IssueMoved(j)
  <1> DEFINE row == [issues[i] EXCEPT !.status = "open"]
  <1>1. row \in IssueRow /\ row.status = "open"
    BY DEF IssueInv, IssuesTypeOK, IssueRow, IssueStatuses
  <1>2. issues' = [issues EXCEPT ![i] = row] /\ binders' = binders /\ i \notin binders
    BY DEF CreateIssue, IssueInv, IssuesTypeOK
  <1>3. issues[i].status = "none"
    BY DEF CreateIssue, NoIssue
  <1> HIDE DEF row
  <1> QED BY <1>1, <1>2, <1>3, IssueReplaced DEF IssueInv, IssuesTypeOK

LEMMA BeginBindIssueInv ==
    ASSUME IssueInv, NEW i \in IssueIds, BeginBindIssue(i)
    PROVE  IssueInv' /\ \A j \in IssueIds : IssueMoved(j)
  BY DEF BeginBindIssue, IssueInv, IssuesTypeOK, IssueAnswerable, IssueMoved

LEMMA InsertProtocolIssueInv ==
    ASSUME IssueInv, NEW i \in IssueIds, InsertProtocolIssue(i)
    PROVE  IssueInv' /\ \A j \in IssueIds : IssueMoved(j)
  <1> DEFINE row == [issues[i] EXCEPT !.status = "open", !.protocol = TRUE]
  <1>1. row \in IssueRow /\ row.status = "open"
    BY DEF IssueInv, IssuesTypeOK, IssueRow, IssueStatuses
  <1>2. issues' = [issues EXCEPT ![i] = row] /\ binders' = binders \ {i}
    BY DEF InsertProtocolIssue, IssueInv, IssuesTypeOK
  <1>3. issues[i].status = "none"
    BY DEF InsertProtocolIssue, NoIssue, IssueInv
  <1> HIDE DEF row
  <1> QED BY <1>1, <1>2, <1>3, IssueReplaced DEF IssueInv, IssuesTypeOK

LEMMA UpdateIssueInv ==
    ASSUME IssueInv, NEW i \in IssueIds, NEW to, NEW owner \in BOOLEAN, NEW minutes \in BOOLEAN,
           UpdateIssue(i, to, owner, minutes)
    PROVE  IssueInv' /\ \A j \in IssueIds : IssueMoved(j)
  <1> DEFINE passes == issues[i].status = "open" /\ to = "resolution_proposed"
             due == issues[i].due \/ passes \/ to = "acknowledged"
             row == [issues[i] EXCEPT !.status = to, !.owned = TRUE, !.due = due]
  <1>1. <<IF passes THEN "acknowledged" ELSE issues[i].status, to>> \in IssueMoves
    BY DEF UpdateIssue
  <1>2. to \in IssueStatuses \ {"open"} /\ issues[i].status \notin {"none", "closed"}
    BY <1>1, IssueMovesAre DEF IssueStatuses
  <1>3. due \in BOOLEAN
    BY DEF IssueInv, IssuesTypeOK, IssueRow
  <1>4. due
    <2>1. CASE issues[i].status = "open"
      BY <1>1, <2>1, IssueMovesAre
    <2>2. CASE issues[i].status # "open"
      BY <1>2, <2>2 DEF IssueInv, IssueAnswerable
    <2> QED BY <2>1, <2>2
  <1>5. issues' = [issues EXCEPT ![i] = row] /\ binders' = binders
    BY DEF UpdateIssue, IssueInv, IssuesTypeOK
  <1>6. issues[i] \in IssueRow
    BY DEF IssueInv, IssuesTypeOK
  <1> HIDE DEF due
  <1>7. row \in IssueRow /\ row.status = to /\ row.owned = TRUE /\ row.due = due
    BY <1>2, <1>3, <1>6 DEF IssueRow
  <1> HIDE DEF row
  <1>8. i \notin binders
    BY <1>2 DEF IssueInv, NoIssue
  <1> QED BY <1>2, <1>4, <1>5, <1>7, <1>8, IssueReplaced DEF IssueInv, IssuesTypeOK, IssueStatuses

LEMMA NetworkEventInv ==
    ASSUME IssueInv, NEW i \in IssueIds, NEW code, NetworkEvent(i, code)
    PROVE  IssueInv' /\ \A j \in IssueIds : IssueMoved(j)
  <1> DEFINE to == ApplyIgmLegalPath(issues[i].status, code)
             due == issues[i].due \/ to # "open"
             row == [issues[i] EXCEPT !.status = to, !.owned = TRUE, !.due = due]
  <1>1. issues[i] \in IssueRow /\ issues[i].status # "none"
    BY DEF NetworkEvent, IssueInv, IssuesTypeOK
  <1>2. /\ to \in IssueStatuses
        /\ to # issues[i].status => issues[i].status # "closed" /\ to # "open"
    BY <1>1 DEF ApplyIgmLegalPath, IssueRow, IssueStatuses
  <1>3. issues' = [issues EXCEPT ![i] = row] /\ binders' = binders
    BY DEF NetworkEvent, DueAfter, IssueInv, IssuesTypeOK
  <1> HIDE DEF to
  <1>4. row \in IssueRow /\ row.status = to /\ row.owned = TRUE /\ (to # "open" => row.due)
    BY <1>1, <1>2 DEF IssueRow
  <1> HIDE DEF row
  <1>5. i \notin binders
    BY <1>1 DEF IssueInv, NoIssue
  <1>6. row.status # "none"
    BY <1>2, <1>4 DEF IssueStatuses
  <1> QED BY <1>1, <1>2, <1>3, <1>4, <1>5, <1>6, IssueReplaced DEF IssueInv, IssuesTypeOK

LEMMA AcceptRemedyInv ==
    ASSUME IssueInv, NEW i \in IssueIds, CanAcceptRemedy(i), AcceptRemedy(i), UNCHANGED binders
    PROVE  IssueInv' /\ \A j \in IssueIds : IssueMoved(j)
  <1> DEFINE row == [issues[i] EXCEPT !.status = "closed"]
  <1>1. issues[i].status = "resolution_proposed"
    BY IssueMovesAre DEF CanAcceptRemedy
  <1>2. issues[i] \in IssueRow /\ issues[i].owned /\ issues[i].due
    BY <1>1 DEF IssueInv, IssuesTypeOK, IssueAnswerable
  <1>3. /\ row \in IssueRow /\ row.status = "closed"
        /\ row.owned = issues[i].owned /\ row.due = issues[i].due
    BY <1>2 DEF IssueRow, IssueStatuses
  <1>4. issues' = [issues EXCEPT ![i] = row]
    BY DEF AcceptRemedy, IssueInv, IssuesTypeOK
  <1>5. i \notin binders
    BY <1>1 DEF IssueInv, NoIssue
  <1> HIDE DEF row
  <1> QED BY <1>1, <1>2, <1>3, <1>4, <1>5, IssueReplaced DEF IssueInv, IssuesTypeOK

LEMMA IssueInit == Init => IssueInv
  BY DEF Init, IssuesInit, IssueInv, IssuesTypeOK, IssueAnswerable, NoIssue, IssueRow

\* A call past its checks is for a request.
RequestsOK == \A r \in Runners : runner[r].pc # "idle" => runner[r].req \in Requests

LEMMA IssueNextInv ==
    ASSUME IssueInv, ScenarioOK, IssueNext
    PROVE  IssueInv' /\ \A j \in IssueIds : IssueMoved(j)
  <1>1. PICK i \in scenario.issues :
            \/ CreateIssue(i)
            \/ BeginBindIssue(i)
            \/ InsertProtocolIssue(i)
            \/ \E to \in IssueStatuses, owner, minutes \in BOOLEAN :
                   UpdateIssue(i, to, owner, minutes)
            \/ \E code \in IgmCodes : NetworkEvent(i, code)
    BY DEF IssueNext
  <1>2. i \in IssueIds
    BY ScenarioParts
  <1> QED BY <1>1, <1>2, CreateIssueInv, BeginBindIssueInv, InsertProtocolIssueInv,
             UpdateIssueInv, NetworkEventInv

\* A call touches an issue when it accepts its remedy.
LEMMA IssueStepInv ==
    ASSUME IssueInv, RequestsOK, ScenarioOK, [Next]_vars
    PROVE  IssueInv' /\ \A j \in IssueIds : IssueMoved(j)
  <1>1. CASE IssueNext
    BY <1>1, IssueNextInv
  <1>2. CASE AuthorityNext \/ OrderNext \/ UNCHANGED vars
    BY <1>2, IssuesAlone DEF AuthorityNext, OrderNext, vars
  <1>3. ASSUME NEW r \in Runners, CallStep(r) PROVE IssueInv' /\ \A j \in IssueIds : IssueMoved(j)
    <2>1. CASE RunEffect(r)
      <3> DEFINE q == runner[r].req
                 i == IssueOf[q]
      <3>1. \/ UNCHANGED issueVars
            \/ CanAcceptRemedy(i) /\ AcceptRemedy(i) /\ UNCHANGED binders
        BY <2>1 DEF RunEffect
      <3>2. i \in IssueIds
        BY <2>1, IssueAssumption DEF RunEffect, RequestsOK, AtStep
      <3> HIDE DEF i
      <3> QED BY <3>1, <3>2, IssuesAlone, AcceptRemedyInv
    <2>2. CASE ~RunEffect(r)
      BY <1>3, <2>2, IssuesAlone
         DEF CallStep, BeginEvaluate, RecordDecision, CheckAction, ClaimAction, JoinAction,
             RecordOutcome, Abandon
    <2> QED BY <2>1, <2>2
  <1> QED BY <1>1, <1>2, <1>3 DEF Next

-----------------------------------------------------------------------------
(* Aftersales                                                              *)

\* A return is only ever at a status the callbacks' path has.
ReturnOnPath == return \in ReturnTargets \cup {"none"}

OrderMoved == order' = order \/ <<order, order'>> \in OrderMoves
ReturnMoved ==
    \/ return' = return
    \/ /\ return' \in ReturnTargets
       /\ return = "none" \/ Stage(return) < Stage(return')
RefundMoved ==
    refund'.status = refund.status
        \/ (refund.status = "none" /\ refund'.status \in {"pending", "succeeded"})
Moved == OrderMoved /\ ReturnMoved /\ RefundMoved

LEMMA Stages ==
    /\ Stage("requested") = 1 /\ Stage("approved") = 2 /\ Stage("in_transit") = 3
    /\ Stage("received") = 4 /\ Stage("refund_pending") = 5 /\ Stage("completed") = 6
  <1>1. Len(ReturnPath) = 6
    BY DEF ReturnPath
  <1>2. ASSUME NEW n \in 1..6 PROVE Stage(ReturnPath[n]) = n
    <2>1. \A i \in 1..6 : ReturnPath[i] = ReturnPath[n] => i = n
      BY DEF ReturnPath
    <2> QED BY <1>1, <2>1 DEF Stage
  <1>3. /\ ReturnPath[1] = "requested" /\ ReturnPath[2] = "approved"
        /\ ReturnPath[3] = "in_transit" /\ ReturnPath[4] = "received"
        /\ ReturnPath[5] = "refund_pending" /\ ReturnPath[6] = "completed"
    BY DEF ReturnPath
  <1> QED BY <1>2, <1>3

\* A walk goes forward or nowhere.
LEMMA ReturnAfterMoves ==
    ASSUME ReturnOnPath, NEW c, return' = ReturnAfter(c)
    PROVE  ReturnMoved /\ ReturnOnPath'
  <1> DEFINE to == RetailReturnTarget(c.return)
  <1>1. CASE RetailHeld(c) \/ to = "none"
    BY <1>1 DEF ReturnAfter, ReturnMoved, ReturnOnPath
  <1>2. CASE ~RetailHeld(c) /\ to # "none"
    <2>1. to \in ReturnTargets
      BY <1>2, ReturnTargetsAre DEF RetailReturnTarget
    <2>2. return' = WalkReturn(ReturnNow, to)
      BY <1>2 DEF ReturnAfter
    <2> HIDE DEF to
    <2>3. CASE return = "none"
      <3>1. return' \in ReturnTargets
        BY <2>1, <2>2, <2>3, ReturnTargetsAre DEF WalkReturn, ReturnNow
      <3> QED BY <2>3, <3>1 DEF ReturnMoved, ReturnOnPath
    <2>4. CASE return # "none"
      <3>1. Stage(return) \in 1..6 /\ Stage(to) \in 1..6
        BY <2>1, <2>4, Stages, ReturnTargetsAre DEF ReturnOnPath
      <3>2. return' = return \/ (return' = to /\ Stage(return) < Stage(to))
        BY <2>2, <2>4, <3>1 DEF WalkReturn, ReturnNow
      <3> QED BY <2>1, <3>2 DEF ReturnMoved, ReturnOnPath
    <2> QED BY <2>3, <2>4
  <1> QED BY <1>1, <1>2

LEMMA StatusAfterMoves ==
    ASSUME NEW target, NEW review, order' = StatusAfter(target, review)
    PROVE  OrderMoved
  BY DEF StatusAfter, OrderMoved

LEMMA MovedAlone ==
    ASSUME ReturnOnPath, UNCHANGED fulfilmentVars
    PROVE  Moved /\ ReturnOnPath'
  BY DEF Moved, OrderMoved, ReturnMoved, RefundMoved, ReturnOnPath, fulfilmentVars, refundVars

LEMMA TransitionMoves ==
    ASSUME ReturnOnPath, NEW to, NEW p, TransitionOrder(to, p)
    PROVE  Moved /\ ReturnOnPath'
  BY DEF TransitionOrder, Moved, OrderMoved, ReturnMoved, RefundMoved, ReturnOnPath, refundVars

LEMMA RecordRetailMoves ==
    ASSUME ReturnOnPath, NEW c, NEW review, RecordRetail(c, review)
    PROVE  OrderMoved /\ ReturnMoved /\ ReturnOnPath'
  BY StatusAfterMoves, ReturnAfterMoves DEF RecordRetail

LEMMA RefundMoves ==
    ASSUME refund = NoRefund, NEW key,
           PostRefund(key) \/ refund' = PendingRow(key)
    PROVE  RefundMoved
  BY DEF PostRefund, PendingRow, NoRefund, RefundMoved

LEMMA SellerStepMoves == ASSUME ReturnOnPath, SellerStep PROVE Moved /\ ReturnOnPath'
  <1>1. ASSUME NEW p, Rebind(p) PROVE Moved /\ ReturnOnPath'
    BY <1>1 DEF Rebind, Moved, OrderMoved, ReturnMoved, RefundMoved, ReturnOnPath, refundVars
  <1>2. ASSUME NEW key, IssueRefund(key) PROVE Moved /\ ReturnOnPath'
    BY <1>2, RefundMoves
       DEF IssueRefund, CanIssueRefund, Moved, OrderMoved, ReturnMoved, ReturnOnPath
  <1> QED BY <1>1, <1>2, TransitionMoves DEF SellerStep

LEMMA CallbackStepMoves == ASSUME ReturnOnPath, CallbackStep PROVE Moved /\ ReturnOnPath'
  <1> USE DEF Moved
  <1>1. CASE BindRetail \/ \E key \in SellerKeys \cup scenario.retail : LoseRefund(key)
    BY <1>1 DEF BindRetail, LoseRefund, OrderMoved, ReturnMoved, RefundMoved, ReturnOnPath,
                refundVars
  <1>2. ASSUME NEW c, ApplyRetail(c) PROVE Moved /\ ReturnOnPath'
    <2>1. RefundMoved
      BY <1>2 DEF ApplyRetail, RefundMoved, refundVars
    <2> QED BY <1>2, <2>1, RecordRetailMoves DEF ApplyRetail
  <1>3. ASSUME NEW c, ApplyRetailRefund(c) PROVE Moved /\ ReturnOnPath'
    BY <1>3, RecordRetailMoves, RefundMoves DEF ApplyRetailRefund, CreatesRefund
  <1>4. ASSUME NEW c, ApplyRetailUnpaid(c) PROVE Moved /\ ReturnOnPath'
    BY <1>4, RecordRetailMoves, RefundMoves DEF ApplyRetailUnpaid, CreatesRefund
  <1>5. ASSUME NEW c, ApplyLogistics(c) PROVE Moved /\ ReturnOnPath'
    <2>1. OrderMoved
      BY <1>5, StatusAfterMoves DEF ApplyLogistics
    <2> QED BY <1>5, <2>1 DEF ApplyLogistics, ReturnMoved, RefundMoved, ReturnOnPath, refundVars
  <1> QED BY <1>1, <1>2, <1>3, <1>4, <1>5 DEF CallbackStep

LEMMA EffectMoves ==
    ASSUME ReturnOnPath, NEW r \in Runners, RunEffect(r)
    PROVE  Moved /\ ReturnOnPath'
  <1>1. TransitionOrder("cancelled", NoProvider) \/ CreateReturn \/ UNCHANGED fulfilmentVars
    BY DEF RunEffect
  <1>2. CASE CreateReturn
    BY <1>2, ReturnTargetsAre
       DEF CreateReturn, Moved, OrderMoved, ReturnMoved, RefundMoved, ReturnOnPath, refundVars
  <1> QED BY <1>1, <1>2, TransitionMoves, MovedAlone

LEMMA StepMoves == ASSUME ReturnOnPath, [Next]_vars PROVE Moved /\ ReturnOnPath'
  <1>1. CASE AuthorityNext \/ IssueNext \/ UNCHANGED vars
    BY <1>1, MovedAlone DEF AuthorityNext, IssueNext, vars
  <1>2. CASE OrderNext
    <2>1. CASE RecordPayment
      BY <2>1 DEF RecordPayment, Moved, OrderMoved, ReturnMoved, RefundMoved, ReturnOnPath,
                  refundVars
    <2> QED BY <1>2, <2>1, SellerStepMoves, CallbackStepMoves DEF OrderNext
  <1>3. ASSUME NEW r \in Runners, CallStep(r) PROVE Moved /\ ReturnOnPath'
    <2>1. CASE ~RunEffect(r)
      BY <1>3, <2>1, MovedAlone
         DEF CallStep, BeginEvaluate, RecordDecision, CheckAction, ClaimAction, JoinAction,
             RecordOutcome, Abandon
    <2> QED BY <2>1, EffectMoves
  <1> QED BY <1>1, <1>2, <1>3 DEF Next

-----------------------------------------------------------------------------
(* Calls                                                                   *)

IntentRow == [status : {"absent", "executing", "succeeded"},
              req : Requests \cup {NoRequest}, decision : Decisions \cup {NoDecision}]
RunnerRow == [pc : {"idle", "evaluating", "checked", "claimed", "verified"},
              req : Requests \cup {NoRequest}, key : Keys \cup {NoKey},
              decision : Decisions \cup {NoDecision},
              verdict : Verdicts \cup {"absent"}, ver : 0..MaxVersion]
CallsTypeOK ==
    /\ intents \in [Keys -> IntentRow]
    /\ receipts \in SUBSET Keys
    /\ runner \in [Runners -> RunnerRow]

\* An intent stands on a decision for its request that authorises it.
IntentBacked(k) ==
    IF intents[k].status = "absent" THEN intents[k] = NoIntent
    ELSE /\ intents[k].decision \in Decisions
         /\ decisions[intents[k].decision] # NoDecisionRow
         /\ decisions[intents[k].decision].req = intents[k].req
         /\ intents[k].req \in Requests
         /\ Authorises(intents[k].decision)

\* What a call has established on its way.
RowBacked(row) ==
    /\ row.pc # "idle" => row.req \in Requests
    /\ row.pc = "evaluating" => row.verdict \in Verdicts
    /\ row.pc \in {"checked", "claimed", "verified"} =>
        /\ row.key \in Keys /\ row.decision \in Decisions
        /\ decisions[row.decision].req = row.req
        /\ decisions[row.decision].status \in {"allow", "need_approval"}
    /\ row.pc \in {"claimed", "verified"} =>
        intents[row.key].status # "absent" /\ intents[row.key].req = row.req

ReceiptsBacked == \A k \in receipts : intents[k].status = "succeeded"

CallsInv ==
    /\ CallsTypeOK /\ AuthorityInv /\ ReceiptsBacked
    /\ \A k \in Keys : IntentBacked(k)
    /\ \A r \in Runners : RowBacked(runner[r])

LEMMA RequestsFollow == ASSUME CallsInv PROVE RequestsOK
  BY DEF CallsInv, RowBacked, RequestsOK

\* An intent keeps its request and its decision.
IntentsKept ==
    \A k \in Keys :
        intents[k].status # "absent" =>
            intents'[k].status # "absent" /\ intents'[k].req = intents[k].req

LEMMA IntentStays ==
    ASSUME CallsInv, AuthorityStays, NEW k \in Keys, intents'[k] = intents[k]
    PROVE  IntentBacked(k)'
  <1>1. CASE intents[k].status = "absent"
    BY <1>1 DEF CallsInv, IntentBacked
  <1>2. CASE intents[k].status # "absent"
    <2> DEFINE d == intents[k].decision
    <2>1. /\ d \in Decisions /\ decisions[d] # NoDecisionRow /\ Authorises(d)
          /\ decisions[d].req = intents[k].req /\ intents[k].req \in Requests
      BY <1>2 DEF CallsInv, IntentBacked
    <2>2. decisions'[d] = decisions[d] /\ intents'[k].decision = d
      BY <2>1 DEF AuthorityStays
    <2>3. \A e \in Decisions : e = d => Authorises(e)'
      BY <2>1, AuthorisedStays
    <2>4. Authorises(intents[k].decision)'
      BY <2>1, <2>2, <2>3
    <2> QED BY <1>2, <2>1, <2>2, <2>4 DEF IntentBacked
  <1> QED BY <1>1, <1>2

LEMMA RowStays ==
    ASSUME AuthorityStays, IntentsKept, NEW row, RowBacked(row)
    PROVE  RowBacked(row)'
  BY DEF RowBacked, AuthorityStays, IntentsKept, NoDecisionRow

\* One call goes on, or none; the others find what they relied on.
LEMMA RunnerReplaced ==
    ASSUME CallsInv, AuthorityInv', AuthorityStays, IntentsKept, ReceiptsBacked',
           NEW r \in Runners, NEW row \in RunnerRow, runner' = [runner EXCEPT ![r] = row],
           RowBacked(row)', intents' \in [Keys -> IntentRow], receipts' \in SUBSET Keys,
           \A k \in Keys : IntentBacked(k)'
    PROVE  CallsInv'
  <1>1. CallsTypeOK'
    BY DEF CallsInv, CallsTypeOK
  <1>2. \A s \in Runners : runner'[s] = IF s = r THEN row ELSE runner[s]
    BY DEF CallsInv, CallsTypeOK
  <1>3. \A s \in Runners : RowBacked(runner[s])
    BY DEF CallsInv
  <1>4. ASSUME NEW s \in Runners PROVE RowBacked(runner[s])'
    <2>1. CASE s = r
      BY <1>2, <2>1 DEF RowBacked
    <2>2. CASE s # r
      <3>1. runner'[s] = runner[s] /\ RowBacked(runner[s])
        BY <1>2, <1>3, <2>2
      <3> QED BY <3>1 DEF RowBacked, AuthorityStays, IntentsKept, NoDecisionRow
    <2> QED BY <2>1, <2>2
  <1> QED BY <1>1, <1>4 DEF CallsInv

\* The call alone goes on.
LEMMA OnlyRunner ==
    ASSUME CallsInv, UNCHANGED <<authorityVars, intents, receipts>>,
           NEW r \in Runners, NEW row \in RunnerRow, runner' = [runner EXCEPT ![r] = row],
           RowBacked(row)
    PROVE  CallsInv'
  <1>1. AuthorityInv' /\ AuthorityStays
    BY AuthorityAlone DEF CallsInv
  <1>2. IntentsKept /\ ReceiptsBacked'
    BY DEF CallsInv, IntentsKept, ReceiptsBacked
  <1>3. \A k \in Keys : IntentBacked(k)'
    BY <1>1, IntentStays
  <1>4. RowBacked(row)'
    BY <1>1, <1>2, RowStays
  <1> QED BY <1>1, <1>2, <1>3, <1>4, RunnerReplaced DEF CallsInv, CallsTypeOK

LEMMA IdleRow == IdleRunner \in RunnerRow /\ RowBacked(IdleRunner)
  BY VersionAssumption DEF IdleRunner, RunnerRow, RowBacked

LEMMA CallsAlone ==
    ASSUME CallsInv, AuthorityInv', AuthorityStays,
           UNCHANGED <<intents, receipts, runner>>
    PROVE  CallsInv'
  <1>1. \A k \in Keys : IntentBacked(k)'
    BY IntentStays
  <1>2. \A r \in Runners : RowBacked(runner[r])'
    BY DEF CallsInv, RowBacked, AuthorityStays, NoDecisionRow
  <1> QED BY <1>1, <1>2 DEF CallsInv, CallsTypeOK, ReceiptsBacked

-----------------------------------------------------------------------------
(* The steps of a call                                                     *)

LEMMA BeginEvaluateInv ==
    ASSUME CallsInv, NEW r \in Runners, NEW q \in Requests, BeginEvaluate(r, q)
    PROVE  CallsInv'
  <1> DEFINE row == [IdleRunner EXCEPT !.pc = "evaluating", !.req = q, !.ver = current,
                                       !.verdict = VerdictFor(q)]
  <1>1. /\ current \in 0..MaxVersion /\ current \in Versions
        /\ mandates[current] \in MandateRow
    BY DEF BeginEvaluate, CallsInv, AuthorityInv, AuthorityTypeOK, Versions
  <1>2. VerdictFor(q) \in Verdicts
    BY <1>1, PolicyAssumption DEF VerdictFor, MandateRow, Verdicts
  <1>3. row \in RunnerRow
    BY <1>1, <1>2, IdleRow DEF RunnerRow
  <1>4. row.pc = "evaluating" /\ row.req = q /\ row.verdict = VerdictFor(q)
    BY IdleRow DEF RunnerRow
  <1>5. runner' = [runner EXCEPT ![r] = row]
    BY DEF BeginEvaluate
  <1> HIDE DEF row
  <1>6. RowBacked(row)
    BY <1>2, <1>4 DEF RowBacked
  <1> QED BY <1>3, <1>5, <1>6, OnlyRunner DEF BeginEvaluate

LEMMA RecordDecisionInv ==
    ASSUME CallsInv, NEW r \in Runners, NEW d \in Decisions, RecordDecision(r, d)
    PROVE  CallsInv'
  <1> DEFINE verdict == runner[r].verdict
             q == runner[r].req
             ver == runner[r].ver
  <1>1. verdict \in Verdicts /\ q \in Requests /\ ver \in 0..MaxVersion
    <2>1. RowBacked(runner[r]) /\ runner[r] \in RunnerRow
      BY DEF CallsInv, CallsTypeOK
    <2> QED BY <2>1 DEF RecordDecision, AtStep, RowBacked, RunnerRow
  <1>2. InsertDecision(d, verdict, q, ver) /\ UNCHANGED <<mandateVars, lapsed>>
    BY DEF RecordDecision
  <1> HIDE DEF verdict, q, ver
  <1>3. AuthorityInv' /\ AuthorityStays
    BY <1>1, <1>2, InsertDecisionInv DEF CallsInv
  <1>5. IntentsKept /\ ReceiptsBacked' /\ UNCHANGED <<intents, receipts>>
    BY DEF RecordDecision, IntentsKept, CallsInv, ReceiptsBacked
  <1>6. \A k \in Keys : IntentBacked(k)'
    BY <1>3, <1>5, IntentStays
  <1>7. RowBacked(IdleRunner)'
    BY <1>3, <1>5, IdleRow, RowStays
  <1>8. runner' = [runner EXCEPT ![r] = IdleRunner]
    BY DEF RecordDecision
  <1> QED BY <1>3, <1>5, <1>6, <1>7, <1>8, IdleRow, RunnerReplaced DEF CallsInv, CallsTypeOK

LEMMA CheckActionInv ==
    ASSUME CallsInv, NEW r \in Runners, NEW d \in Decisions, NEW k \in Keys, CheckAction(r, d, k)
    PROVE  CallsInv'
  <1> DEFINE row == [IdleRunner EXCEPT !.pc = "checked", !.req = decisions[d].req, !.key = k,
                                       !.decision = d]
  <1>1. decisions[d].req \in Requests /\ decisions[d].status \in {"allow", "need_approval"}
    BY DEF CheckAction, CallsInv, AuthorityInv, NoDecisionRow
  <1>2. row \in RunnerRow
    BY <1>1, IdleRow DEF RunnerRow
  <1>3. row.pc = "checked" /\ row.req = decisions[d].req /\ row.key = k /\ row.decision = d
    BY IdleRow DEF RunnerRow
  <1>4. runner' = [runner EXCEPT ![r] = row]
    BY DEF CheckAction
  <1> HIDE DEF row
  <1>5. RowBacked(row)
    BY <1>1, <1>3 DEF RowBacked
  <1> QED BY <1>2, <1>4, <1>5, OnlyRunner DEF CheckAction

LEMMA ClaimActionInv ==
    ASSUME CallsInv, NEW r \in Runners, ClaimAction(r)
    PROVE  CallsInv'
  <1> DEFINE k == runner[r].key
             d == runner[r].decision
             q == runner[r].req
             row == [runner[r] EXCEPT !.pc = "claimed"]
             intent == [status |-> "executing", req |-> q, decision |-> d]
  <1>1. /\ runner[r] \in RunnerRow /\ k \in Keys /\ d \in Decisions /\ q \in Requests
        /\ decisions[d].req = q /\ decisions[d].status \in {"allow", "need_approval"}
    <2>1. RowBacked(runner[r]) /\ runner[r] \in RunnerRow
      BY DEF CallsInv, CallsTypeOK
    <2> QED BY <2>1 DEF ClaimAction, AtStep, RowBacked
  <1>2. /\ intents[k] = NoIntent /\ intents' = [intents EXCEPT ![k] = intent]
        /\ approvals' = Spend(d) /\ UNCHANGED <<mandateVars, decisions, lapsed, receipts>>
        /\ runner' = [runner EXCEPT ![r] = row]
    BY DEF ClaimAction, CallsInv, CallsTypeOK
  <1>3. intent \in IntentRow /\ row \in RunnerRow
    BY <1>1 DEF IntentRow, RunnerRow
  <1>4. /\ row.pc = "claimed" /\ row.key = k /\ row.decision = d /\ row.req = q
        /\ intent.status = "executing" /\ intent.req = q /\ intent.decision = d
    BY <1>1 DEF RunnerRow
  <1> HIDE DEF k, d, q, row, intent
  <1>5. AuthorityInv' /\ AuthorityStays
    BY <1>1, <1>2, SpendInv DEF CallsInv
  <1>7. intents' \in [Keys -> IntentRow] /\ receipts' \in SUBSET Keys /\ intents'[k] = intent
        /\ \A j \in Keys : j # k => intents'[j] = intents[j]
    BY <1>1, <1>2, <1>3 DEF CallsInv, CallsTypeOK
  <1>8. IntentsKept /\ ReceiptsBacked'
    BY <1>2, <1>7 DEF IntentsKept, CallsInv, CallsTypeOK, ReceiptsBacked, NoIntent
  <1>9. ASSUME NEW j \in Keys PROVE IntentBacked(j)'
    <2>1. CASE j # k
      BY <1>5, <1>7, <2>1, IntentStays
    <2>2. CASE j = k
      <3>1. approvals'[d] = "consumed" \/ decisions[d].status = "allow"
        BY <1>1, <1>2 DEF Spend, NeedsApproval, CallsInv, AuthorityInv, AuthorityTypeOK
      <3>2. intents'[j] = intent /\ decisions' = decisions
        BY <1>2, <1>7, <2>2
      <3> QED BY <1>1, <1>4, <3>1, <3>2 DEF IntentBacked, Authorises, NoDecisionRow
    <2> QED BY <2>1, <2>2
  <1>10. PICK claimed \in RunnerRow : claimed = row
    BY <1>3
  <1>11. RowBacked(claimed)'
    BY <1>1, <1>2, <1>4, <1>7, <1>10 DEF RowBacked
  <1> QED BY <1>2, <1>5, <1>7, <1>8, <1>9, <1>10, <1>11, RunnerReplaced

LEMMA JoinActionInv ==
    ASSUME CallsInv, NEW r \in Runners, JoinAction(r)
    PROVE  CallsInv'
  <1> DEFINE row == [runner[r] EXCEPT !.pc = "claimed"]
  <1>1. RowBacked(runner[r]) /\ runner[r] \in RunnerRow
    BY DEF CallsInv, CallsTypeOK
  <1>2. row \in RunnerRow /\ RowBacked(row)
    BY <1>1 DEF JoinAction, AtStep, RowBacked, RunnerRow
  <1>3. runner' = [runner EXCEPT ![r] = row]
    BY DEF JoinAction, CallsInv, CallsTypeOK
  <1> HIDE DEF row
  <1> QED BY <1>2, <1>3, OnlyRunner DEF JoinAction

LEMMA RunEffectInv ==
    ASSUME CallsInv, NEW r \in Runners, RunEffect(r)
    PROVE  CallsInv'
  <1> DEFINE row == [runner[r] EXCEPT !.pc = "verified"]
  <1>1. RowBacked(runner[r]) /\ runner[r] \in RunnerRow
    BY DEF CallsInv, CallsTypeOK
  <1>2. row \in RunnerRow /\ RowBacked(row)
    BY <1>1 DEF RunEffect, AtStep, RowBacked, RunnerRow
  <1>3. runner' = [runner EXCEPT ![r] = row]
    BY DEF RunEffect, CallsInv, CallsTypeOK
  <1> HIDE DEF row
  <1> QED BY <1>2, <1>3, OnlyRunner DEF RunEffect

LEMMA RecordOutcomeInv ==
    ASSUME CallsInv, NEW r \in Runners, RecordOutcome(r)
    PROVE  CallsInv'
  <1> DEFINE k == runner[r].key
             intent == [intents[k] EXCEPT !.status = "succeeded"]
  <1>1. k \in Keys /\ intents[k].status # "absent"
    <2>1. RowBacked(runner[r])
      BY DEF CallsInv
    <2> QED BY <2>1 DEF RecordOutcome, AtStep, RowBacked
  <1>2. /\ intents' = [intents EXCEPT ![k] = intent] /\ receipts' = receipts \cup {k}
        /\ runner' = [runner EXCEPT ![r] = IdleRunner] /\ UNCHANGED authorityVars
    BY DEF RecordOutcome, CallsInv, CallsTypeOK
  <1>3. intents[k] \in IntentRow
    BY <1>1 DEF CallsInv, CallsTypeOK
  <1>4. /\ intent \in IntentRow /\ intent.status = "succeeded" /\ intent.req = intents[k].req
        /\ intent.decision = intents[k].decision
    BY <1>3 DEF IntentRow
  <1> HIDE DEF k, intent
  <1>5. AuthorityInv' /\ AuthorityStays
    BY <1>2, AuthorityAlone DEF CallsInv
  <1>7. intents' \in [Keys -> IntentRow] /\ receipts' \in SUBSET Keys /\ intents'[k] = intent
        /\ \A j \in Keys : j # k => intents'[j] = intents[j]
    BY <1>1, <1>2, <1>4 DEF CallsInv, CallsTypeOK
  <1>8. IntentsKept /\ ReceiptsBacked'
    BY <1>2, <1>4, <1>7 DEF IntentsKept, CallsInv, CallsTypeOK, ReceiptsBacked
  <1>9. ASSUME NEW j \in Keys PROVE IntentBacked(j)'
    <2>1. CASE j # k
      BY <1>5, <1>7, <2>1, IntentStays
    <2>2. CASE j = k
      <3>1. IntentBacked(k)
        BY <1>1 DEF CallsInv
      <3>2. intents'[j] = intent /\ UNCHANGED <<decisions, approvals>>
        BY <1>2, <1>7, <2>2 DEF authorityVars
      <3> QED BY <1>1, <1>4, <3>1, <3>2 DEF IntentBacked, Authorises
    <2> QED BY <2>1, <2>2
  <1>10. RowBacked(IdleRunner)'
    BY <1>5, <1>8, IdleRow, RowStays
  <1> QED BY <1>2, <1>5, <1>7, <1>8, <1>9, <1>10, IdleRow, RunnerReplaced

LEMMA AbandonInv ==
    ASSUME CallsInv, NEW r \in Runners, Abandon(r)
    PROVE  CallsInv'
  BY IdleRow, OnlyRunner DEF Abandon

LEMMA CallsStep == ASSUME CallsInv, ScenarioOK, [Next]_vars PROVE CallsInv'
  <1>1. CASE AuthorityNext
    <2>1. OwnerStep
      BY <1>1 DEF AuthorityNext, OwnerStep
    <2>2. AuthorityInv' /\ AuthorityStays
      BY <2>1, OwnerInv DEF CallsInv
    <2> QED BY <1>1, <2>2, CallsAlone DEF AuthorityNext, callVars
  <1>2. CASE OrderNext \/ IssueNext \/ UNCHANGED vars
    <2>1. UNCHANGED authorityVars /\ UNCHANGED <<intents, receipts, runner>>
      BY <1>2 DEF OrderNext, IssueNext, vars, callVars
    <2>2. AuthorityInv' /\ AuthorityStays
      BY <2>1, AuthorityAlone DEF CallsInv
    <2> QED BY <2>1, <2>2, CallsAlone
  <1>3. ASSUME NEW r \in Runners, CallStep(r) PROVE CallsInv'
    BY <1>3, ScenarioParts, BeginEvaluateInv, RecordDecisionInv, CheckActionInv, ClaimActionInv,
       JoinActionInv, RunEffectInv, RecordOutcomeInv, AbandonInv DEF CallStep
  <1> QED BY <1>1, <1>2, <1>3 DEF Next

LEMMA CallsInit == Init => CallsInv
  <1> SUFFICES ASSUME Init PROVE CallsInv
    OBVIOUS
  <1>1. AuthorityInv
    BY AuthorityStarts DEF Init
  <1>2. CallsTypeOK
    BY IdleRow DEF Init, CallsTypeOK, NoIntent, IntentRow
  <1>3. ReceiptsBacked
    BY DEF Init, ReceiptsBacked
  <1>4. \A k \in Keys : IntentBacked(k)
    BY DEF Init, IntentBacked, NoIntent
  <1>5. \A r \in Runners : RowBacked(runner[r])
    BY IdleRow DEF Init
  <1> QED BY <1>1, <1>2, <1>3, <1>4, <1>5 DEF CallsInv

-----------------------------------------------------------------------------
(* One receipt                                                             *)

SameEffect(p, q) == KindOf[p] = KindOf[q] /\ IssueOf[p] = IssueOf[q]

\* Whoever has carried out an action, and is about to sign or has signed its
\* receipt, is the only one.
DoneOnce ==
    /\ \A k \in receipts : EffectDone(intents[k].req)
    /\ \A r \in Runners : AtStep(r, "verified") => EffectDone(runner[r].req)
    /\ \A j, k \in receipts : SameEffect(intents[j].req, intents[k].req) => j = k
    /\ \A r \in Runners, k \in receipts :
        AtStep(r, "verified") => ~SameEffect(runner[r].req, intents[k].req)
    /\ \A r, s \in Runners :
        AtStep(r, "verified") /\ AtStep(s, "verified")
            /\ SameEffect(runner[r].req, runner[s].req) => r = s

\* An effect that is done stays done, and cannot be done again.
LEMMA EffectStays ==
    ASSUME Moved, \A j \in IssueIds : IssueMoved(j), NEW q \in Requests, EffectDone(q)
    PROVE  EffectDone(q)'
  <1>1. KindOf[q] \in Kinds /\ IssueOf[q] \in IssueIds
    BY KindAssumption, IssueAssumption
  <1>2. order = "cancelled" => order' = "cancelled"
    BY DEF Moved, OrderMoved, OrderMoves
  <1>3. return # "none" => return' # "none"
    BY ReturnTargetsAre DEF Moved, ReturnMoved
  <1>4. issues[IssueOf[q]].status = "closed" => issues'[IssueOf[q]].status = "closed"
    BY <1>1 DEF IssueMoved
  <1> QED BY <1>1, <1>2, <1>3, <1>4 DEF EffectDone, Kinds

LEMMA EffectNew ==
    ASSUME IssueInv, NEW r \in Runners, RunEffect(r), NEW q \in Requests, q = runner[r].req
    PROVE  ~EffectDone(q) /\ EffectDone(q)'
  <1>1. KindOf[q] \in Kinds /\ IssueOf[q] \in IssueIds
    BY KindAssumption, IssueAssumption
  <1>2. CASE KindOf[q] = "cancel"
    <2>1. order # "cancelled" /\ order' = "cancelled"
      BY <1>2 DEF RunEffect, TransitionOrder, OrderMoves
    <2> QED BY <1>2, <2>1 DEF EffectDone
  <1>3. CASE KindOf[q] = "return"
    <2>1. return = "none" /\ return' = "requested"
      BY <1>3 DEF RunEffect, CreateReturn
    <2> QED BY <1>3, <2>1 DEF EffectDone
  <1>4. CASE KindOf[q] = "remedy"
    <2>1. /\ issues[IssueOf[q]].status # "closed"
          /\ issues' = [issues EXCEPT ![IssueOf[q]].status = "closed"]
      BY <1>4, IssueMovesAre DEF RunEffect, CanAcceptRemedy, AcceptRemedy
    <2>2. issues'[IssueOf[q]].status = "closed"
      BY <1>1, <2>1 DEF IssueInv, IssuesTypeOK, IssueRow
    <2> QED BY <1>4, <2>1, <2>2 DEF EffectDone
  <1> QED BY <1>1, <1>2, <1>3, <1>4 DEF Kinds

LEMMA SameEffectsDone ==
    ASSUME NEW p, NEW q, SameEffect(p, q), EffectDone(p), KindOf[p] \in Kinds
    PROVE  EffectDone(q)
  BY DEF SameEffect, EffectDone, Kinds

LEMMA DoneOnceStep ==
    ASSUME CallsInv, IssueInv, ScenarioOK, DoneOnce, [Next]_vars,
           Moved, \A j \in IssueIds : IssueMoved(j)
    PROVE  DoneOnce'
  <1>1. /\ \A k \in receipts : intents[k].req \in Requests
        /\ \A r \in Runners : runner[r].pc # "idle" => runner[r].req \in Requests
        /\ receipts \subseteq Keys
    <2>1. \A k \in receipts : k \in Keys /\ IntentBacked(k) /\ intents[k].status # "absent"
      BY DEF CallsInv, CallsTypeOK, ReceiptsBacked
    <2> QED BY <2>1, RequestsFollow DEF IntentBacked, RequestsOK
  <1>2. \A q \in Requests : EffectDone(q) => EffectDone(q)'
    BY EffectStays
  <1>3. /\ \A k \in receipts : \A q \in Requests : q = intents[k].req => EffectDone(q)'
        /\ \A r \in Runners : AtStep(r, "verified") =>
              \A q \in Requests : q = runner[r].req => EffectDone(q)'
    BY <1>1, <1>2 DEF DoneOnce, AtStep
  <1>4. ASSUME UNCHANGED receipts,
               \A k \in receipts : intents'[k].req = intents[k].req,
               \A r \in Runners : runner'[r] = runner[r] \/ ~AtStep(r, "verified")'
        PROVE  DoneOnce'
    BY <1>1, <1>3, <1>4 DEF DoneOnce, AtStep, EffectDone
  <1>5. CASE UNCHANGED callVars
    BY <1>4, <1>5 DEF callVars
  <1>6. ASSUME NEW r \in Runners, CallStep(r) PROVE DoneOnce'
    <2>1. CASE \/ \E q \in scenario.requests : BeginEvaluate(r, q)
               \/ \E d \in Decisions : RecordDecision(r, d)
               \/ \E d \in Decisions, k \in Keys : CheckAction(r, d, k)
               \/ JoinAction(r) \/ Abandon(r)
      <3>1. UNCHANGED <<intents, receipts>>
        BY <2>1 DEF BeginEvaluate, RecordDecision, CheckAction, JoinAction, Abandon
      <3>2. /\ \A s \in Runners : s # r => runner'[s] = runner[s]
            /\ ~AtStep(r, "verified")'
        <4>1. PICK row :
                  runner' = [runner EXCEPT ![r] = row] /\ row.pc # "verified"
          <5>1. CASE JoinAction(r)
            <6>1. [runner[r] EXCEPT !.pc = "claimed"].pc # "verified"
              BY DEF CallsInv, CallsTypeOK, RunnerRow
            <6> QED BY <5>1, <6>1 DEF JoinAction
          <5>2. ASSUME NEW q, BeginEvaluate(r, q)
                PROVE  \E row : runner' = [runner EXCEPT ![r] = row] /\ row.pc # "verified"
            <6>1. [IdleRunner EXCEPT !.pc = "evaluating", !.req = q, !.ver = current,
                                     !.verdict = VerdictFor(q)].pc # "verified"
              BY DEF IdleRunner
            <6> QED BY <5>2, <6>1 DEF BeginEvaluate
          <5>3. ASSUME NEW d, NEW k, CheckAction(r, d, k)
                PROVE  \E row : runner' = [runner EXCEPT ![r] = row] /\ row.pc # "verified"
            <6>1. [IdleRunner EXCEPT !.pc = "checked", !.req = decisions[d].req, !.key = k,
                                     !.decision = d].pc # "verified"
              BY DEF IdleRunner
            <6> QED BY <5>3, <6>1 DEF CheckAction
          <5>4. CASE Abandon(r) \/ \E d \in Decisions : RecordDecision(r, d)
            <6>1. IdleRunner.pc # "verified"
              BY DEF IdleRunner
            <6> QED BY <5>4, <6>1 DEF Abandon, RecordDecision
          <5> QED BY <2>1, <5>1, <5>2, <5>3, <5>4
        <4> QED BY <4>1 DEF CallsInv, CallsTypeOK, AtStep
      <3> QED BY <1>4, <3>1, <3>2
    <2>2. CASE ClaimAction(r)
      <3>1. receipts' = receipts /\ \A k \in receipts : intents'[k] = intents[k]
        BY <1>1, <2>2 DEF ClaimAction, CallsInv, CallsTypeOK, ReceiptsBacked, NoIntent
      <3>2. /\ \A s \in Runners : s # r => runner'[s] = runner[s]
            /\ ~AtStep(r, "verified")'
        BY <2>2 DEF ClaimAction, CallsInv, CallsTypeOK, AtStep, RunnerRow
      <3> QED BY <1>4, <3>1, <3>2
    <2>3. CASE RunEffect(r)
      <3>1. PICK q \in Requests : q = runner[r].req
        BY <1>1, <2>3 DEF RunEffect, AtStep
      <3>2. ~EffectDone(q) /\ EffectDone(q)'
        BY <2>3, <3>1, EffectNew
      <3>3. /\ \A s \in Runners : s # r => runner'[s] = runner[s]
            /\ runner'[r].req = q /\ UNCHANGED <<intents, receipts>>
        BY <2>3, <3>1 DEF RunEffect, CallsInv, CallsTypeOK, RunnerRow
      <3>4. /\ \A k \in receipts : ~SameEffect(q, intents[k].req)
            /\ \A s \in Runners :
                AtStep(s, "verified") =>
                    ~SameEffect(q, runner[s].req) /\ ~SameEffect(runner[s].req, q)
        BY <1>1, <3>2, SameEffectsDone, KindAssumption DEF DoneOnce, SameEffect, AtStep
      <3>5. \A s \in Runners : s # r /\ AtStep(s, "verified")' => AtStep(s, "verified")
        BY <3>3 DEF AtStep
      <3>6. /\ (\A k \in receipts : EffectDone(intents[k].req))'
            /\ (\A s \in Runners : AtStep(s, "verified") => EffectDone(runner[s].req))'
        BY <1>1, <1>3, <3>2, <3>3, <3>5 DEF EffectDone, AtStep
      <3> HIDE DEF SameEffect
      <3>7. (\A j, k \in receipts : SameEffect(intents[j].req, intents[k].req) => j = k)'
        BY <3>3 DEF DoneOnce, SameEffect
      <3>8. /\ (\A s \in Runners, k \in receipts :
                AtStep(s, "verified") => ~SameEffect(runner[s].req, intents[k].req))'
            /\ (\A s, t \in Runners :
                AtStep(s, "verified") /\ AtStep(t, "verified")
                    /\ SameEffect(runner[s].req, runner[t].req) => s = t)'
        BY <3>3, <3>4, <3>5 DEF DoneOnce, SameEffect
      <3> QED BY <3>6, <3>7, <3>8 DEF DoneOnce
    <2>4. CASE RecordOutcome(r)
      <3> DEFINE k0 == runner[r].key
      <3>1. /\ k0 \in Keys /\ intents[k0].req = runner[r].req /\ AtStep(r, "verified")
            /\ runner[r].req \in Requests
        BY <2>4 DEF RecordOutcome, AtStep, CallsInv, RowBacked
      <3>2. k0 \notin receipts
        BY <3>1 DEF DoneOnce, SameEffect
      <3>3. /\ receipts' = receipts \cup {k0}
            /\ \A k \in Keys : intents'[k].req = intents[k].req
            /\ \A s \in Runners : s # r => runner'[s] = runner[s]
            /\ ~AtStep(r, "verified")'
        <4>1. intents' = [intents EXCEPT ![k0].status = "succeeded"]
              /\ receipts' = receipts \cup {k0} /\ runner' = [runner EXCEPT ![r] = IdleRunner]
          BY <2>4 DEF RecordOutcome
        <4>2. \A k \in Keys : intents'[k].req = intents[k].req
          BY <3>1, <4>1 DEF CallsInv, CallsTypeOK, IntentRow
        <4>3. \A s \in Runners : runner'[s] = IF s = r THEN IdleRunner ELSE runner[s]
          BY <4>1 DEF CallsInv, CallsTypeOK
        <4> QED BY <4>1, <4>2, <4>3 DEF AtStep, IdleRunner
      <3>4. \A s \in Runners : AtStep(s, "verified")' => s # r /\ AtStep(s, "verified")
        BY <3>3 DEF AtStep
      <3> HIDE DEF k0
      <3>5. /\ (\A k \in receipts : EffectDone(intents[k].req))'
            /\ (\A s \in Runners : AtStep(s, "verified") => EffectDone(runner[s].req))'
        BY <1>1, <1>3, <3>1, <3>3, <3>4 DEF EffectDone, AtStep
      <3>6. /\ \A k \in receipts : ~SameEffect(intents[k].req, runner[r].req)
            /\ \A s \in Runners : s # r /\ AtStep(s, "verified") =>
                  ~SameEffect(runner[s].req, runner[r].req)
        BY <3>1 DEF DoneOnce, SameEffect
      <3>7. (\A j, k \in receipts : SameEffect(intents[j].req, intents[k].req) => j = k)'
        BY <1>1, <3>1, <3>3, <3>6 DEF DoneOnce, SameEffect
      <3>8. (\A s \in Runners, k \in receipts :
                AtStep(s, "verified") => ~SameEffect(runner[s].req, intents[k].req))'
        BY <1>1, <3>1, <3>3, <3>4, <3>6 DEF DoneOnce, SameEffect
      <3>9. (\A s, t \in Runners :
                AtStep(s, "verified") /\ AtStep(t, "verified")
                    /\ SameEffect(runner[s].req, runner[t].req) => s = t)'
        BY <3>3, <3>4 DEF DoneOnce, SameEffect
      <3> QED BY <3>5, <3>7, <3>8, <3>9 DEF DoneOnce
    <2> QED BY <1>6, <2>1, <2>2, <2>3, <2>4 DEF CallStep
  <1> QED BY <1>5, <1>6 DEF Next, AuthorityNext, OrderNext, IssueNext, vars

LEMMA ActionsInit == Init => IssueInv /\ CallsInv /\ ScenarioOK /\ ReturnOnPath /\ DoneOnce
  <1> SUFFICES ASSUME Init PROVE DoneOnce
    BY IssueInit, CallsInit DEF Init, FulfilmentInit, ScenarioOK, ReturnOnPath
  <1> QED BY DEF Init, DoneOnce, AtStep, IdleRunner

-----------------------------------------------------------------------------
(* Every behaviour                                                         *)

ActionsInv == IssueInv /\ CallsInv /\ ScenarioOK /\ ReturnOnPath /\ DoneOnce

LEMMA ActionsStep ==
    ASSUME ActionsInv, [Next]_vars
    PROVE  ActionsInv' /\ Moved /\ \A j \in IssueIds : IssueMoved(j)
  <1> USE DEF ActionsInv
  <1>1. Moved /\ ReturnOnPath'
    BY StepMoves
  <1>2. IssueInv' /\ \A j \in IssueIds : IssueMoved(j)
    BY IssueStepInv, RequestsFollow
  <1>3. ScenarioOK'
    BY DEF Next, AuthorityNext, CallStep, OrderNext, IssueNext, vars, callVars, ScenarioOK,
           BeginEvaluate, RecordDecision, CheckAction, ClaimAction, JoinAction, RunEffect,
           RecordOutcome, Abandon
  <1> QED BY <1>1, <1>2, <1>3, CallsStep, DoneOnceStep

LEMMA AlwaysActions == Spec => []ActionsInv
  <1>1. Init => ActionsInv
    BY ActionsInit DEF ActionsInv
  <1>2. ActionsInv /\ [Next]_vars => ActionsInv'
    BY ActionsStep
  <1> QED BY <1>1, <1>2, PTL DEF Spec

\* Type correctness of the Buyer's actions with the order they act on.
THEOREM ActionsTyped == Spec => []TypeOK
  <1>1. ActionsInv /\ FulfilmentInv => TypeOK
    BY DEF ActionsInv, FulfilmentInv, IssueInv, CallsInv, AuthorityInv, CallsTypeOK, ScenarioOK,
           IntentRow, RunnerRow, TypeOK
  <1> QED BY <1>1, AlwaysActions, AlwaysInv, PTL

\* Every issue past open has an owner and due dates, whatever order responses,
\* remedies and network messages come in (_update_issue, record_igm_network_event).
THEOREM IssuesAlwaysAnswerable == Spec => []IssueAnswerable
  <1>1. ActionsInv => IssueAnswerable
    BY DEF ActionsInv, IssueInv
  <1> QED BY <1>1, AlwaysActions, PTL

\* A receipt is of an action that happened under spent authority, and no action
\* has two (execute_protected_action).
THEOREM ReceiptsAlwaysTrue == Spec => []ReceiptTrue
  <1>1. ASSUME ActionsInv PROVE ReceiptTrue
    <2>1. ASSUME NEW k \in receipts
          PROVE  /\ intents[k].status = "succeeded"
                 /\ decisions[intents[k].decision].req = intents[k].req
                 /\ Authorises(intents[k].decision)
                 /\ EffectDone(intents[k].req)
      <3>1. k \in Keys /\ IntentBacked(k) /\ intents[k].status = "succeeded"
        BY <1>1 DEF ActionsInv, CallsInv, CallsTypeOK, ReceiptsBacked
      <3> QED BY <1>1, <3>1 DEF ActionsInv, DoneOnce, IntentBacked
    <2>2. \A j, k \in receipts : SameEffect(intents[j].req, intents[k].req) => j = k
      BY <1>1 DEF ActionsInv, DoneOnce
    <2> QED BY <2>1, <2>2 DEF ReceiptTrue, SameEffect
  <1> QED BY <1>1, AlwaysActions, PTL

-----------------------------------------------------------------------------
(* Refinement                                                              *)

LEMMA AbstractInit == Init => Abstract!Init
  BY DEF Init, FulfilmentInit, IssuesInit, NoRefund, NoIssue, Abstract!Init

LEMMA AbstractStage == \A s \in ReturnTargets : Abstract!Stage(s) = Stage(s)
  BY DEF Abstract!Stage, Abstract!ReturnPath, Stage, ReturnPath

LEMMA AbstractStep ==
    ASSUME ActionsInv, [Next]_vars
    PROVE  Abstract!Next
  <1>1. ActionsInv' /\ Moved /\ \A j \in IssueIds : IssueMoved(j)
    BY ActionsStep
  <1>2. Abstract!OrderStep
    BY <1>1 DEF Moved, OrderMoved, Abstract!OrderStep, Abstract!OrderMoves, OrderMoves
  <1>3. Abstract!ReturnTargets = ReturnTargets
    BY DEF Abstract!ReturnTargets, Abstract!ReturnPath, ReturnTargets, ReturnPath
  <1>4. Abstract!ReturnStep
    <2>1. return \in ReturnTargets \cup {"none"}
      BY DEF ActionsInv, ReturnOnPath
    <2> QED BY <1>1, <1>3, <2>1, AbstractStage
            DEF Moved, ReturnMoved, Abstract!ReturnStep, Abstract!Forward
  <1>5. Abstract!RefundStep
    BY <1>1 DEF Moved, RefundMoved, Abstract!RefundStep
  <1>6. [i \in IssueIds |-> issues[i].status]' \in
            [IssueIds -> Abstract!IssueStatuses \cup {"none"}]
    BY <1>1 DEF ActionsInv, IssueInv, IssuesTypeOK, IssueRow, IssueStatuses,
                Abstract!IssueStatuses
  <1>7. \A i \in IssueIds : Abstract!IssueStep(i)
    BY <1>1 DEF IssueMoved, Abstract!IssueStep, IssueStatuses, Abstract!IssueStatuses
  <1> QED BY <1>2, <1>4, <1>5, <1>6, <1>7 DEF Abstract!Next

\* Callbacks, Seller, Buyer and network move the order, its return, its refund
\* and its issues only as Aftersales lets them.
THEOREM ActionsImplementAftersales == Spec => ImplementsAftersales
  <1>1. Init => Abstract!Init
    BY AbstractInit
  <1>2. ActionsInv /\ [Next]_vars => [Abstract!Next]_(Abstract!vars)
    BY AbstractStep
  <1> QED BY <1>1, <1>2, AlwaysActions, PTL DEF Spec, ImplementsAftersales, Abstract!Spec

=============================================================================
