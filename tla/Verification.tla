----------------------------- MODULE Verification -----------------------------
(***************************************************************************)
(* The verification of a wallet's documents (agent_manager.py, routes.py). *)
(* A submission replaces the document's record and starts a background run *)
(* that asks the fraud agent, the compliance agent and the chain in turn;  *)
(* reviewers, revocations, Setu's callbacks and further submissions work   *)
(* on the same records while it waits.  Records are kept in memory and     *)
(* written to the store as a whole.                                        *)
(*                                                                         *)
(* The handlers run in one event loop: a step lasts from one await that    *)
(* suspends to the next.  A record is a mutable object: its number says    *)
(* whether the one a call holds is still the one in the table.             *)
(***************************************************************************)
EXTENDS Naturals

CONSTANTS
    Documents,      \* the wallet's documents
    SetuDocument,   \* the one Setu verifies: Aadhaar
    Runs,           \* background runs at the same time
    Reviews,        \* review calls at the same time
    MaxSubmissions,
    MaxWrites       \* BOUND on the writes that fail

ASSUME VerificationAssumption ==
    /\ SetuDocument \in Documents
    /\ MaxSubmissions \in Nat
    /\ MaxWrites \in Nat

VARIABLES
    mode,     \* [production, onChain], fixed by the settings
    records,  \* verification_records
    durable,  \* the records in the trust store
    up,
    runs, reviews,
    linked,   \* a Setu request for the document is on file
    last,     \* the number of the newest record
    lost      \* writes that failed so far

verificationVars == <<mode, records, durable, up, runs, reviews, linked, last, lost>>

Clarities == {"clear", "poor", "gaps"}
FraudAnswers == {"approve", "manual_review", "block", "gaps"}
ComplianceAnswers == {"approve", "violation", "unlawful", "gaps"}
NotAsked == [answer |-> "gaps", fallback |-> FALSE]
NoEvidence == [clarity |-> "gaps", fraud |-> NotAsked, compliance |-> NotAsked]

NoMetadata == [decision |-> "none", reason |-> "none", evidence |-> NoEvidence, signed |-> FALSE]
Absent == [status |-> "absent", number |-> 0, metadata |-> NoMetadata]
IdleRun == [pc |-> "idle", document |-> SetuDocument, consent |-> FALSE, number |-> 0,
            evidence |-> NoEvidence]
IdleReview == [pc |-> "idle", document |-> SetuDocument, number |-> 0, metadata |-> NoMetadata]

Agents(Answers) == [answer : Answers, fallback : BOOLEAN]
Evidence == [clarity : Clarities, fraud : Agents(FraudAnswers),
             compliance : Agents(ComplianceAnswers)]
Metadata == [decision : {"none", "approve", "manual_review", "reject"},
             reason : {"none", "rules", "chain_failed", "reviewer", "revoked", "setu"},
             evidence : Evidence, signed : BOOLEAN]
Record == [status : {"absent", "pending", "processing", "verified", "manual_review", "failed"},
           number : 0..MaxSubmissions, metadata : Metadata]

VerificationTypeOK ==
    /\ mode \in [production : BOOLEAN, onChain : BOOLEAN]
    /\ records \in [Documents -> Record]
    /\ durable \in [Documents -> Record]
    /\ up \in BOOLEAN
    /\ runs \in [Runs -> [pc : {"idle", "queued", "fraud", "compliance", "chain"},
                          document : Documents, consent : BOOLEAN,
                          number : 0..MaxSubmissions, evidence : Evidence]]
    /\ reviews \in [Reviews -> [pc : {"idle", "chain"}, document : Documents,
                                number : 0..MaxSubmissions, metadata : Metadata]]
    /\ linked \in BOOLEAN
    /\ last \in 0..MaxSubmissions
    /\ lost \in 0..MaxWrites

VerificationInit ==
    /\ mode \in [production : BOOLEAN, onChain : BOOLEAN]
    /\ records = [d \in Documents |-> Absent]
    /\ durable = records
    /\ up = TRUE
    /\ runs = [r \in Runs |-> IdleRun]
    /\ reviews = [c \in Reviews |-> IdleReview]
    /\ linked = FALSE
    /\ last = 0
    /\ lost = 0

-----------------------------------------------------------------------------
(* Records and decisions                                                   *)

Decided == {"verified", "manual_review", "failed"}

\* A write of every record, or one the store refuses and the handler raises.
Persist == durable' = records' /\ UNCHANGED lost
WriteFails == lost < MaxWrites /\ lost' = lost + 1

StatusFor(decision) ==
    IF decision = "approve" THEN "verified"
    ELSE IF decision = "manual_review" THEN "manual_review" ELSE "failed"

Create(d, status) == [records EXCEPT ![d] =
    [status |-> status, number |-> last + 1, metadata |-> NoMetadata]]

\* _record_step on the object a run holds.
Processing(d, number) ==
    IF records[d].number = number
    THEN [records EXCEPT ![d].status = "processing"]
    ELSE records

\* complete_verification finds the record by its identifier.
Completed(d, metadata) ==
    IF records[d] = Absent THEN records
    ELSE [records EXCEPT ![d].status = StatusFor(metadata.decision), ![d].metadata = metadata]

Gaps(e) == e.clarity = "gaps" \/ e.fraud.answer = "gaps" \/ e.compliance.answer = "gaps"
Fallback(e) == e.fraud.fallback \/ e.compliance.fallback

\* A mutant: production approves what the fallbacks answered.
DecisionTrustingFallback(e) ==
    IF Gaps(e) THEN "manual_review"
    ELSE IF e.compliance.answer = "violation" \/ e.fraud.answer = "block" THEN "reject"
    ELSE IF e.fraud.answer = "manual_review" \/ e.clarity = "poor" THEN "manual_review"
    ELSE IF e.compliance.answer = "unlawful" THEN "reject"
    ELSE "approve"

\* _build_metadata. A fraud answer above 0.7 blocks; that compliance asks for
\* a review does not matter.
Decision(e) ==
    IF Gaps(e) THEN "manual_review"
    ELSE IF e.compliance.answer = "violation" \/ e.fraud.answer = "block" THEN "reject"
    ELSE IF e.fraud.answer = "manual_review" \/ e.clarity = "poor" THEN "manual_review"
    ELSE IF e.compliance.answer = "unlawful" THEN "reject"
    ELSE IF mode.production /\ Fallback(e) THEN "manual_review"
    ELSE "approve"

\* The evidence of what is not an approval is not kept here: nothing reads it.
Judged(e) ==
    [decision |-> Decision(e), reason |-> "rules", signed |-> FALSE,
     evidence |-> IF Decision(e) = "approve" THEN e ELSE NoEvidence]

\* The deterministic answers when an agent times out or gives no contract; a
\* number that is not the document's is a risk above 0.7.
FraudFallback(e) ==
    {"manual_review", "block"} \cup (IF e.clarity = "clear" THEN {"approve"} ELSE {})

-----------------------------------------------------------------------------
(* Submissions and their runs                                              *)

\* create_verification, and the task queued behind the response.
Submit(r, d, clarity, consent) ==
    /\ up
    /\ runs[r] = IdleRun
    /\ last < MaxSubmissions
    /\ d # SetuDocument => consent
    /\ last' = last + 1
    /\ records' = Create(d, "pending")
    /\ \/ /\ Persist
          /\ runs' = [runs EXCEPT ![r] =
                [pc |-> "queued", document |-> d, consent |-> consent, number |-> 0,
                 evidence |-> [NoEvidence EXCEPT !.clarity = clarity]]]
       \/ WriteFails /\ UNCHANGED <<durable, runs>>
    /\ UNCHANGED <<mode, up, reviews, linked>>

\* The run's last step; its write may fail in the background unseen.
FinishRun(r, metadata) ==
    /\ records' = Completed(runs[r].document, metadata)
    /\ runs' = [runs EXCEPT ![r] = IdleRun]
    /\ Persist \/ (WriteFails /\ UNCHANGED durable)
    /\ UNCHANGED <<mode, up, reviews, linked, last>>

\* orchestrate_verification up to its first await; without a readable document
\* neither agent is asked.
Start(r) ==
    LET run == runs[r] IN
    /\ up
    /\ run.pc = "queued"
    /\ IF run.evidence.clarity = "gaps"
       THEN FinishRun(r, Judged(run.evidence))
       ELSE /\ records' = Processing(run.document, records[run.document].number)
            /\ runs' = [runs EXCEPT ![r].pc = "fraud", ![r].number = records[run.document].number]
            /\ UNCHANGED <<mode, durable, up, reviews, linked, last, lost>>

\* detect_fraud returns.
FraudAnswered(r, verdict) ==
    LET run == runs[r] IN
    /\ up
    /\ run.pc = "fraud"
    /\ verdict.fallback => verdict.answer \in FraudFallback(run.evidence)
    /\ records' = Processing(run.document, run.number)
    /\ runs' = [runs EXCEPT ![r].pc = "compliance", ![r].evidence.fraud = verdict]
    /\ UNCHANGED <<mode, durable, up, reviews, linked, last, lost>>

\* check_compliance returns: missing consent is a violation whatever the agent
\* says, and the fallback finds no other. An approval goes to the chain first.
ComplianceAnswered(r, verdict) ==
    LET run == runs[r]
        answer == IF run.consent \/ verdict.answer = "gaps" THEN verdict.answer ELSE "violation"
        evidence == [run.evidence EXCEPT !.compliance = [verdict EXCEPT !.answer = answer]]
    IN
    /\ up
    /\ run.pc = "compliance"
    /\ verdict.fallback => verdict.answer = "approve"
    /\ IF Decision(evidence) = "approve" /\ mode.onChain
       THEN /\ records' = Processing(run.document, run.number)
            /\ runs' = [runs EXCEPT ![r].pc = "chain", ![r].evidence = evidence]
            /\ UNCHANGED <<mode, durable, up, reviews, linked, last, lost>>
       ELSE FinishRun(r, Judged(evidence))

\* A mutant: a failed upload is noted and the approval stands.
UploadedAnyway(metadata, confirmed) ==
    [metadata EXCEPT !.reason = IF confirmed THEN @ ELSE "chain_failed", !.signed = confirmed]

\* _submit_on_chain_verification: a failed upload leaves the case to a reviewer.
Uploaded(metadata, confirmed) ==
    IF confirmed THEN [metadata EXCEPT !.signed = TRUE]
    ELSE [metadata EXCEPT !.decision = "manual_review", !.reason = "chain_failed",
                          !.signed = FALSE]

ChainAnswered(r, confirmed) ==
    /\ up
    /\ runs[r].pc = "chain"
    /\ FinishRun(r, Uploaded(Judged(runs[r].evidence), confirmed))

-----------------------------------------------------------------------------
(* Reviewers and revocations                                               *)

SaveOrFail == Persist \/ (WriteFails /\ UNCHANGED durable)

\* decide_review, but an approval that goes to the chain.
Review(d, decision) ==
    /\ up
    /\ records[d].status = "manual_review"
    /\ decision = "approve" => ~mode.onChain
    /\ records' = [records EXCEPT
         ![d].status = StatusFor(decision),
         ![d].metadata = [@ EXCEPT !.decision = decision, !.reason = "reviewer"]]
    /\ SaveOrFail
    /\ UNCHANGED <<mode, up, runs, reviews, linked, last>>

\* The approval is a copy of the metadata until the chain has answered.
ReviewOnChain(c, d) ==
    /\ up
    /\ mode.onChain
    /\ reviews[c] = IdleReview
    /\ records[d].status = "manual_review"
    /\ records' = [records EXCEPT ![d].metadata.reason = "reviewer"]
    /\ reviews' = [reviews EXCEPT ![c] =
         [pc |-> "chain", document |-> d, number |-> records[d].number,
          metadata |-> [records[d].metadata EXCEPT !.decision = "approve", !.reason = "reviewer"]]]
    /\ UNCHANGED <<mode, durable, up, runs, linked, last, lost>>

\* It lands on the record the reviewer read, replaced or decided anew or not.
ReviewAnswered(c, confirmed) ==
    LET review == reviews[c]
        metadata == Uploaded(review.metadata, confirmed)
    IN
    /\ up
    /\ review.pc = "chain"
    /\ records' = IF records[review.document].number # review.number THEN records
                  ELSE [records EXCEPT ![review.document].status = StatusFor(metadata.decision),
                                       ![review.document].metadata = metadata]
    /\ reviews' = [reviews EXCEPT ![c] = IdleReview]
    /\ SaveOrFail
    /\ UNCHANGED <<mode, up, runs, linked, last>>

\* revoke_trust
RevokeTrust(d) ==
    /\ up
    /\ records[d].status \in {"verified", "manual_review"}
    /\ records' = [records EXCEPT
         ![d].status = "failed",
         ![d].metadata = [@ EXCEPT !.decision = "reject", !.reason = "revoked"]]
    /\ SaveOrFail
    /\ UNCHANGED <<mode, up, runs, reviews, linked, last>>

-----------------------------------------------------------------------------
(* Setu's hosted verification                                              *)

\* start_setu_aadhaar_ekyc: the record is replaced before Setu is called, and
\* every link names the same record.
StartSetu ==
    /\ up
    /\ last < MaxSubmissions
    /\ last' = last + 1
    /\ records' = Create(SetuDocument, "processing")
    /\ \/ Persist /\ linked' \in {linked, TRUE}
       \/ WriteFails /\ UNCHANGED <<durable, linked>>
    /\ UNCHANGED <<mode, up, runs, reviews>>

\* The first check of _finalize_setu_ekyc. A queued run puts a decided record back
\* to "processing", and Setu may decide it again.
Undecided(d) == records[d].status \notin Decided

\* A webhook, or the poll after the redirect: repeated, late and in any order.
SetuReports(outcome) ==
    LET d == SetuDocument IN
    /\ up
    /\ linked
    /\ Undecided(d)
    /\ records' = IF outcome = "pending" THEN Processing(d, records[d].number)
                  ELSE Completed(d, [decision |-> outcome, reason |-> "setu",
                                     evidence |-> NoEvidence, signed |-> FALSE])
    /\ SaveOrFail
    /\ UNCHANGED <<mode, up, runs, reviews, linked, last>>

-----------------------------------------------------------------------------

Stop ==
    /\ up
    /\ up' = FALSE
    /\ runs' = [r \in Runs |-> IdleRun]
    /\ reviews' = [c \in Reviews |-> IdleReview]
    /\ UNCHANGED <<mode, records, durable, linked, last, lost>>

\* load_gateway_state; the background runs are not started again.
Restart ==
    /\ ~up
    /\ up' = TRUE
    /\ records' = durable
    /\ UNCHANGED <<mode, durable, runs, reviews, linked, last, lost>>

RunStep(r) ==
    \/ \E d \in Documents, clarity \in Clarities, consent \in BOOLEAN :
           Submit(r, d, clarity, consent)
    \/ Start(r)
    \/ \E verdict \in Agents(FraudAnswers) : FraudAnswered(r, verdict)
    \/ \E verdict \in Agents(ComplianceAnswers) : ComplianceAnswered(r, verdict)
    \/ \E confirmed \in BOOLEAN : ChainAnswered(r, confirmed)

OperatorStep(d) ==
    \/ \E decision \in {"approve", "manual_review", "reject"} : Review(d, decision)
    \/ \E c \in Reviews : ReviewOnChain(c, d)
    \/ RevokeTrust(d)

VerificationNext ==
    \/ \E r \in Runs : RunStep(r)
    \/ \E d \in Documents : OperatorStep(d)
    \/ \E c \in Reviews, confirmed \in BOOLEAN : ReviewAnswered(c, confirmed)
    \/ StartSetu
    \/ \E outcome \in {"pending", "approve", "reject"} : SetuReports(outcome)
    \/ Stop
    \/ Restart

VerificationSpec == VerificationInit /\ [][VerificationNext]_verificationVars

-----------------------------------------------------------------------------
(* Properties                                                              *)

\* What each way to an approval owes: the rules a complete and favourable set
\* of contracts, never fallbacks in production; the rules and the reviewers,
\* when the bridge is on, a confirmed upload; Setu that it is Setu's document.
Earned(d, metadata) ==
    \/ /\ metadata.reason = "rules"
       /\ metadata.evidence.clarity = "clear"
       /\ metadata.evidence.fraud.answer = "approve"
       /\ metadata.evidence.compliance.answer = "approve"
       /\ mode.production => ~Fallback(metadata.evidence)
       /\ mode.onChain => metadata.signed
    \/ metadata.reason = "reviewer" /\ (mode.onChain => metadata.signed)
    \/ metadata.reason = "setu" /\ d = SetuDocument

\* A decided record carries the decision its status shows, and a verified one
\* an earned approval, in memory and in the store, whatever runs, reviews,
\* revocations and callbacks overlapped, writes failed and restarts came
\* between (the assumptions agent_manager.py writes into every decision).
ApprovalEarned ==
    \A d \in Documents : \A r \in {records[d], durable[d]} :
        r.status \in Decided =>
            /\ r.status = StatusFor(r.metadata.decision)
            /\ r.status = "verified" => Earned(d, r.metadata)
=============================================================================
