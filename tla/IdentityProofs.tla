---------------------------- MODULE IdentityProofs ----------------------------
(***************************************************************************)
(* What Sessions and Verification keep for every value of their constants. *)
(***************************************************************************)
EXTENDS Sessions, Verification, TLAPS

-----------------------------------------------------------------------------
(***************************************************************************)
(* A revoked session stays revoked, for any sessions, principals and calls.*)
(*                                                                         *)
(* RevocationHolds speaks of the memory, which a restart replaces by the   *)
(* tables, so the tables must hold it too; and the tables may go back to   *)
(* an older second when one revocation overtakes another, so a session     *)
(* that only its age revokes must be older than every write under way.     *)
(***************************************************************************)

\* A revocation of the principal that is still to be written.
Ending(c, s) == writes[c].kind = "revoke_principal" /\ writes[c].principal = PrincipalOf[s]
\* s is older than this second and every revocation of its principal under way.
Older(s) ==
    /\ issued[s] < clock
    /\ \A c \in Calls : Ending(c, s) => issued[s] < writes[c].ts

\* Nothing is stamped later than now.
Stamped ==
    /\ \A s \in Sids : issued[s] <= clock
    /\ \A p \in Principals : cache.before[p] <= clock /\ tables.before[p] <= clock
    /\ \A c \in Calls : writes[c].ts <= clock
\* What the registry and the writes name has been issued.
IssuedNames ==
    /\ \A s \in cache.sessions \cup tables.sessions : issued[s] # 0
    /\ \A c \in Calls : \A s \in writes[c].sids : issued[s] # 0
\* A process that is down has no writes under way.
DownIsIdle == ~ready => \A c \in Calls : writes[c].kind = "none" /\ writes[c].ending = {}
\* A session the process neither lists nor has revoked is from before it opened.
Listed ==
    ready => \A s \in Sids :
        issued[s] # 0 => s \in cache.sessions \/ s \in cache.revoked \/ Older(s)
\* A session a write is to end is revoked in memory, by name or by age.
Promised ==
    \A c \in Calls : \A s \in writes[c].ending :
        /\ issued[s] # 0
        /\ \/ /\ writes[c].kind \in {"revoke_sid", "revoke_principal"}
              /\ s \in writes[c].sids
              /\ s \in cache.revoked
           \/ Ending(c, s) /\ Older(s) /\ issued[s] < cache.before[PrincipalOf[s]]
\* A session that was ended is revoked in the tables, by name or by age.
Kept ==
    \A s \in ended :
        /\ issued[s] # 0
        /\ s \in tables.revoked \/ (Older(s) /\ issued[s] < tables.before[PrincipalOf[s]])

SessionIInv ==
    /\ SessionTypeOK /\ Stamped /\ IssuedNames /\ DownIsIdle /\ Listed /\ Promised /\ Kept
    /\ RevocationHolds

-----------------------------------------------------------------------------

LEMMA NoWriteType == NoWrite \in Write
  <1>1. (CHOOSE p \in Principals : TRUE) \in Principals
    BY SessionAssumption
  <1> QED BY <1>1, SessionAssumption DEF NoWrite, Write

LEMMA SessionInitInv == ASSUME SessionInit PROVE SessionIInv
  <1> USE SessionAssumption DEF SessionInit, EmptyRegistry
  <1>1. SessionTypeOK
    BY NoWriteType DEF SessionTypeOK, Registry
  <1>2. Stamped /\ IssuedNames /\ DownIsIdle
    BY DEF Stamped, IssuedNames, DownIsIdle, NoWrite
  <1>3. Listed /\ Promised /\ Kept /\ RevocationHolds
    BY DEF Listed, Promised, Kept, RevocationHolds, NoWrite
  <1> QED BY <1>1, <1>2, <1>3 DEF SessionIInv

LEMMA TickInv == ASSUME SessionIInv, Tick PROVE SessionIInv'
  <1> USE NoWriteType, SessionAssumption
          DEF SessionIInv, SessionTypeOK, Registry, Write, NoWrite, Tick
  <1>1. SessionTypeOK'
    OBVIOUS
  <1>2. Stamped'
    BY DEF Stamped
  <1>3. IssuedNames'
    BY DEF IssuedNames
  <1>4. DownIsIdle'
    BY DEF DownIsIdle
  <1>5. Listed'
    BY DEF Listed, Older, Ending, Stamped, DownIsIdle
  <1>6. Promised'
    BY DEF Promised, Older, Ending, Stamped, Listed, IssuedNames, DownIsIdle, Revoked
  <1>7. Kept'
    BY DEF Kept, Older, Ending, Stamped, Promised, IssuedNames, DownIsIdle
  <1>8. RevocationHolds'
    BY DEF RevocationHolds, Revoked, Kept, Promised, Older, Ending, IssuedNames, Stamped
  <1> QED BY <1>1, <1>2, <1>3, <1>4, <1>5, <1>6, <1>7, <1>8

LEMMA LoginWalletInv == ASSUME NEW s \in Sids, SessionIInv, LoginWallet(s) PROVE SessionIInv'
  <1> USE NoWriteType, SessionAssumption
          DEF SessionIInv, SessionTypeOK, Registry, Write, NoWrite, LoginWallet, Register
  <1>1. SessionTypeOK'
    <2>1. clock \in 0..MaxClock
      OBVIOUS
    <2>2. cache' \in Registry
      OBVIOUS
    <2>3. issued' \in [Sids -> 0..MaxClock]
      BY <2>1
    <2> QED BY <2>2, <2>3
  <1>2. Stamped'
    BY DEF Stamped
  <1>3. IssuedNames'
    BY DEF IssuedNames
  <1>4. DownIsIdle'
    BY DEF DownIsIdle
  <1>5. Listed'
    BY DEF Listed, Older, Ending, Stamped, DownIsIdle
  <1>6. Promised'
    BY DEF Promised, Older, Ending, Stamped, Listed, IssuedNames, DownIsIdle, Revoked
  <1>7. Kept'
    BY DEF Kept, Older, Ending, Stamped, Promised, IssuedNames, DownIsIdle
  <1>8. RevocationHolds'
    BY DEF RevocationHolds, Revoked, Kept, Promised, Older, Ending, IssuedNames, Stamped
  <1> QED BY <1>1, <1>2, <1>3, <1>4, <1>5, <1>6, <1>7, <1>8

LEMMA LoginInv == ASSUME NEW c \in Calls, NEW s \in Sids, SessionIInv, Login(c, s) PROVE SessionIInv'
  <1> USE NoWriteType, SessionAssumption
          DEF SessionIInv, SessionTypeOK, Registry, Write, NoWrite, Login, Register
  <1>1. SessionTypeOK'
    <2>1. clock \in 0..MaxClock
      OBVIOUS
    <2>2. cache' \in Registry
      OBVIOUS
    <2>3. issued' \in [Sids -> 0..MaxClock]
      BY <2>1
    <2>4. writes' \in [Calls -> Write]
      OBVIOUS
    <2> QED BY <2>2, <2>3, <2>4
  <1>2. Stamped'
    BY DEF Stamped
  <1>3. IssuedNames'
    BY DEF IssuedNames
  <1>4. DownIsIdle'
    BY DEF DownIsIdle
  <1>5. Listed'
    BY DEF Listed, Older, Ending, Stamped, DownIsIdle
  <1>6. Promised'
    BY DEF Promised, Older, Ending, Stamped, Listed, IssuedNames, DownIsIdle, Revoked
  <1>7. Kept'
    BY DEF Kept, Older, Ending, Stamped, Promised, IssuedNames, DownIsIdle
  <1>8. RevocationHolds'
    BY DEF RevocationHolds, Revoked, Kept, Promised, Older, Ending, IssuedNames, Stamped
  <1> QED BY <1>1, <1>2, <1>3, <1>4, <1>5, <1>6, <1>7, <1>8

LEMMA RevokeSidInv ==
    ASSUME NEW c \in Calls, NEW caller \in Sids, NEW s \in Sids, SessionIInv, RevokeSid(c, caller, s)
    PROVE  SessionIInv'
  <1> USE NoWriteType, SessionAssumption
          DEF SessionIInv, SessionTypeOK, Registry, Write, NoWrite, RevokeSid, Accepted, Revoked
  <1>1. SessionTypeOK'
    OBVIOUS
  <1>2. Stamped'
    BY DEF Stamped
  <1>3. IssuedNames'
    BY DEF IssuedNames
  <1>4. DownIsIdle'
    BY DEF DownIsIdle
  <1>5. Listed'
    BY DEF Listed, Older, Ending, Stamped, DownIsIdle
  <1>6. Promised'
    BY DEF Promised, Older, Ending, Stamped, Listed, IssuedNames, DownIsIdle, Revoked
  <1>7. Kept'
    BY DEF Kept, Older, Ending, Stamped, Promised, IssuedNames, DownIsIdle
  <1>8. RevocationHolds'
    BY DEF RevocationHolds, Revoked, Kept, Promised, Older, Ending, IssuedNames, Stamped
  <1> QED BY <1>1, <1>2, <1>3, <1>4, <1>5, <1>6, <1>7, <1>8

LEMMA RevokePrincipalInv ==
    ASSUME NEW c \in Calls, NEW caller \in Sids, SessionIInv, RevokePrincipal(c, caller)
    PROVE  SessionIInv'
  <1> USE NoWriteType, SessionAssumption
          DEF SessionIInv, SessionTypeOK, Registry, Write, NoWrite, RevokePrincipal, Accepted,
              Revoked
  <1>1. SessionTypeOK'
    OBVIOUS
  <1>2. Stamped'
    BY DEF Stamped
  <1>3. IssuedNames'
    BY DEF IssuedNames
  <1>4. DownIsIdle'
    BY DEF DownIsIdle
  <1>5. Listed'
    BY DEF Listed, Older, Ending, Stamped, DownIsIdle
  <1>6. Promised'
    BY DEF Promised, Older, Ending, Stamped, Listed, IssuedNames, DownIsIdle, Revoked
  <1>7. Kept'
    BY DEF Kept, Older, Ending, Stamped, Promised, IssuedNames, DownIsIdle
  <1>8. RevocationHolds'
    BY DEF RevocationHolds, Revoked, Kept, Promised, Older, Ending, IssuedNames, Stamped
  <1> QED BY <1>1, <1>2, <1>3, <1>4, <1>5, <1>6, <1>7, <1>8

LEMMA CommitInv == ASSUME NEW c \in Calls, SessionIInv, Commit(c) PROVE SessionIInv'
  <1> USE NoWriteType, SessionAssumption
          DEF SessionIInv, SessionTypeOK, Registry, Write, NoWrite, Commit, RowsAfter
  <1>1. SessionTypeOK'
    <2>1. writes[c] \in Write
      OBVIOUS
    <2>2. tables' \in Registry
      BY <2>1
    <2>3. writes' \in [Calls -> Write] /\ ended' \in SUBSET Sids
      BY <2>1
    <2> QED BY <2>2, <2>3
  <1>2. Stamped'
    BY DEF Stamped
  <1>3. IssuedNames'
    BY DEF IssuedNames
  <1>4. DownIsIdle'
    BY DEF DownIsIdle
  <1>5. Listed'
    BY DEF Listed, Older, Ending, Stamped, DownIsIdle
  <1>6. Promised'
    BY DEF Promised, Older, Ending, Stamped, Listed, IssuedNames, DownIsIdle, Revoked
  <1>7. Kept'
    BY DEF Kept, Older, Ending, Stamped, Promised, IssuedNames, DownIsIdle
  <1>8. RevocationHolds'
    BY DEF RevocationHolds, Revoked, Kept, Promised, Older, Ending, IssuedNames, Stamped
  <1> QED BY <1>1, <1>2, <1>3, <1>4, <1>5, <1>6, <1>7, <1>8

LEMMA FailInv == ASSUME NEW c \in Calls, SessionIInv, Fail(c) PROVE SessionIInv'
  <1> USE NoWriteType, SessionAssumption
          DEF SessionIInv, SessionTypeOK, Registry, Write, NoWrite, Fail
  <1>1. SessionTypeOK'
    OBVIOUS
  <1>2. Stamped'
    BY DEF Stamped
  <1>3. IssuedNames'
    BY DEF IssuedNames
  <1>4. DownIsIdle'
    BY DEF DownIsIdle
  <1>5. Listed'
    BY DEF Listed, Older, Ending, Stamped, DownIsIdle
  <1>6. Promised'
    BY DEF Promised, Older, Ending, Stamped, Listed, IssuedNames, DownIsIdle, Revoked
  <1>7. Kept'
    BY DEF Kept, Older, Ending, Stamped, Promised, IssuedNames, DownIsIdle
  <1>8. RevocationHolds'
    BY DEF RevocationHolds, Revoked, Kept, Promised, Older, Ending, IssuedNames, Stamped
  <1> QED BY <1>1, <1>2, <1>3, <1>4, <1>5, <1>6, <1>7, <1>8

LEMMA SessionCrashInv == ASSUME SessionIInv, Crash PROVE SessionIInv'
  <1> USE NoWriteType, SessionAssumption
          DEF SessionIInv, SessionTypeOK, Registry, Write, NoWrite, Crash, EmptyRegistry
  <1>1. SessionTypeOK'
    OBVIOUS
  <1>2. Stamped'
    BY DEF Stamped
  <1>3. IssuedNames'
    BY DEF IssuedNames
  <1>4. DownIsIdle'
    BY DEF DownIsIdle
  <1>5. Listed'
    BY DEF Listed, Older, Ending, Stamped, DownIsIdle
  <1>6. Promised'
    BY DEF Promised, Older, Ending, Stamped, Listed, IssuedNames, DownIsIdle, Revoked
  <1>7. Kept'
    BY DEF Kept, Older, Ending, Stamped, Promised, IssuedNames, DownIsIdle
  <1>8. RevocationHolds'
    BY DEF RevocationHolds, Revoked, Kept, Promised, Older, Ending, IssuedNames, Stamped
  <1> QED BY <1>1, <1>2, <1>3, <1>4, <1>5, <1>6, <1>7, <1>8

LEMMA OpenInv == ASSUME SessionIInv, Open PROVE SessionIInv'
  <1> USE NoWriteType, SessionAssumption
          DEF SessionIInv, SessionTypeOK, Registry, Write, NoWrite, Open
  <1>1. SessionTypeOK'
    OBVIOUS
  <1>2. Stamped'
    BY DEF Stamped
  <1>3. IssuedNames'
    BY DEF IssuedNames
  <1>4. DownIsIdle'
    BY DEF DownIsIdle
  <1>5. Listed'
    BY DEF Listed, Older, Ending, Stamped, DownIsIdle
  <1>6. Promised'
    BY DEF Promised, Older, Ending, Stamped, Listed, IssuedNames, DownIsIdle, Revoked
  <1>7. Kept'
    BY DEF Kept, Older, Ending, Stamped, Promised, IssuedNames, DownIsIdle
  <1>8. RevocationHolds'
    BY DEF RevocationHolds, Revoked, Kept, Promised, Older, Ending, IssuedNames, Stamped
  <1> QED BY <1>1, <1>2, <1>3, <1>4, <1>5, <1>6, <1>7, <1>8

LEMMA SessionStutterInv == ASSUME SessionIInv, UNCHANGED sessionVars PROVE SessionIInv'
  <1> USE NoWriteType, SessionAssumption
          DEF SessionIInv, SessionTypeOK, Registry, Write, NoWrite, sessionVars
  <1>1. SessionTypeOK'
    OBVIOUS
  <1>2. Stamped'
    BY DEF Stamped
  <1>3. IssuedNames'
    BY DEF IssuedNames
  <1>4. DownIsIdle'
    BY DEF DownIsIdle
  <1>5. Listed'
    BY DEF Listed, Older, Ending, Stamped, DownIsIdle
  <1>6. Promised'
    BY DEF Promised, Older, Ending, Stamped, Listed, IssuedNames, DownIsIdle, Revoked
  <1>7. Kept'
    BY DEF Kept, Older, Ending, Stamped, Promised, IssuedNames, DownIsIdle
  <1>8. RevocationHolds'
    BY DEF RevocationHolds, Revoked, Kept, Promised, Older, Ending, IssuedNames, Stamped
  <1> QED BY <1>1, <1>2, <1>3, <1>4, <1>5, <1>6, <1>7, <1>8

LEMMA SessionStepInv == ASSUME SessionIInv, [SessionNext]_sessionVars PROVE SessionIInv'
  <1>1. CASE UNCHANGED sessionVars
    BY <1>1, SessionStutterInv
  <1>2. CASE SessionNext
    BY <1>2, TickInv, LoginWalletInv, LoginInv, RevokeSidInv, RevokePrincipalInv, CommitInv,
       FailInv, SessionCrashInv, OpenInv DEF SessionNext
  <1> QED BY <1>1, <1>2

LEMMA SessionAlwaysInv == SessionSpec => []SessionIInv
  <1>1. SessionInit => SessionIInv
    BY SessionInitInv
  <1>2. SessionIInv /\ [SessionNext]_sessionVars => SessionIInv'
    BY SessionStepInv
  <1> QED BY <1>1, <1>2, PTL DEF SessionSpec

\* Every reachable state of the registry, the tables and the writes is of its
\* type (session_registry).
THEOREM SessionsTyped == SessionSpec => []SessionTypeOK
  <1>1. SessionIInv => SessionTypeOK
    BY DEF SessionIInv
  <1> QED BY <1>1, SessionAlwaysInv, PTL

\* However many sessions, principals and requests there are, a session whose
\* revocation was confirmed is never accepted again (session_registry).
THEOREM RevocationHoldsAlways == SessionSpec => []RevocationHolds
  <1>1. SessionIInv => RevocationHolds
    BY DEF SessionIInv
  <1> QED BY <1>1, SessionAlwaysInv, PTL

-----------------------------------------------------------------------------
(***************************************************************************)
(* Every approval is earned, for any documents, runs                       *)
(* and reviews.                                                            *)
(*                                                                         *)
(* ApprovalEarned speaks of the records; an approval in the hands of a run *)
(* or of a reviewer that waits for the chain is still to be written, so    *)
(* what it was judged on must be kept too.                                 *)
(***************************************************************************)

\* A run, as VerificationTypeOK has it.
RunRow == [pc : {"idle", "queued", "fraud", "compliance", "chain"}, document : Documents,
           consent : BOOLEAN, number : 0..MaxSubmissions, evidence : Evidence]

\* A run waits for the chain with an approval only.
RunsJudged ==
    \A r \in Runs :
        runs[r].pc = "chain" => Decision(runs[r].evidence) = "approve" /\ mode.onChain
\* So does a review.
ReviewsJudged ==
    \A c \in Reviews :
        reviews[c].pc = "chain" =>
            /\ reviews[c].metadata.decision = "approve"
            /\ reviews[c].metadata.reason = "reviewer"

\* What ApprovalEarned says of one record.
RecordEarned(d, r) ==
    r.status \in Decided =>
        /\ r.status = StatusFor(r.metadata.decision)
        /\ r.status = "verified" => Earned(d, r.metadata)

VerificationIInv == VerificationTypeOK /\ RunsJudged /\ ReviewsJudged /\ ApprovalEarned

-----------------------------------------------------------------------------

\* What the rules decide is of its type.
LEMMA JudgedType == ASSUME NEW e \in Evidence PROVE Judged(e) \in Metadata
  <1>1. Decision(e) \in {"approve", "manual_review", "reject"}
    BY DEF Decision
  <1>2. NoEvidence \in Evidence
    BY
       DEF NoEvidence, NotAsked, Evidence, Agents, Clarities, FraudAnswers,
           ComplianceAnswers
  <1> QED BY <1>1, <1>2 DEF Judged, Metadata

\* An approval of the rules names evidence that earns it.
LEMMA RulesEarn ==
    ASSUME NEW e \in Evidence, mode \in [production : BOOLEAN, onChain : BOOLEAN],
           Decision(e) = "approve"
    PROVE  /\ Judged(e) = [decision |-> "approve", reason |-> "rules", signed |-> FALSE,
                           evidence |-> e]
           /\ e.clarity = "clear" /\ e.fraud.answer = "approve"
           /\ e.compliance.answer = "approve"
           /\ mode.production => ~Fallback(e)
  <1>1. /\ e.clarity \in Clarities
        /\ e.fraud.answer \in FraudAnswers
        /\ e.compliance.answer \in ComplianceAnswers
    BY DEF Evidence, Agents
  <1> QED BY <1>1 DEF Decision, Judged, Gaps, Clarities, FraudAnswers, ComplianceAnswers

\* An upload that is not confirmed is left to a reviewer, whoever approved.
LEMMA UploadedType ==
    ASSUME NEW metadata \in Metadata, NEW confirmed \in BOOLEAN
    PROVE  /\ Uploaded(metadata, confirmed) \in Metadata
           /\ confirmed => /\ Uploaded(metadata, confirmed).decision = metadata.decision
                           /\ Uploaded(metadata, confirmed).reason = metadata.reason
                           /\ Uploaded(metadata, confirmed).evidence = metadata.evidence
                           /\ Uploaded(metadata, confirmed).signed
           /\ ~confirmed => /\ Uploaded(metadata, confirmed).decision = "manual_review"
                            /\ Uploaded(metadata, confirmed).reason = "chain_failed"
  BY DEF Uploaded, Metadata

LEMMA StatusForType ==
    ASSUME NEW decision
    PROVE  /\ StatusFor(decision) \in Decided
           /\ StatusFor(decision) = "verified" <=> decision = "approve"
           /\ StatusFor(decision) \in {"verified", "manual_review", "failed"}
  BY DEF StatusFor, Decided

LEMMA EmptyTypes ==
    /\ NoMetadata \in Metadata
    /\ Absent \in Record
    /\ NoEvidence \in Evidence
  <1>1. NoEvidence \in Evidence
    BY
       DEF NoEvidence, NotAsked, Evidence, Agents, Clarities, FraudAnswers,
           ComplianceAnswers
  <1>2. NoMetadata \in Metadata
    BY <1>1 DEF NoMetadata, Metadata
  <1> QED BY <1>1, <1>2, VerificationAssumption DEF Absent, Record

LEMMA IdleTypes ==
    /\ IdleRun \in [pc : {"idle", "queued", "fraud", "compliance", "chain"},
                    document : Documents, consent : BOOLEAN,
                    number : 0..MaxSubmissions, evidence : Evidence]
    /\ IdleReview \in [pc : {"idle", "chain"}, document : Documents,
                       number : 0..MaxSubmissions, metadata : Metadata]
    /\ IdleRun.pc = "idle" /\ IdleReview.pc = "idle"
  BY EmptyTypes, VerificationAssumption DEF IdleRun, IdleReview

LEMMA VerificationInitInv == ASSUME VerificationInit PROVE VerificationIInv
  <1> USE VerificationAssumption DEF VerificationInit
  <1>1. VerificationTypeOK
    <2>1. records \in [Documents -> Record] /\ durable \in [Documents -> Record]
      BY EmptyTypes
    <2>2. runs \in [Runs -> [pc : {"idle", "queued", "fraud", "compliance", "chain"},
                             document : Documents, consent : BOOLEAN,
                             number : 0..MaxSubmissions, evidence : Evidence]]
      BY IdleTypes
    <2>3. reviews \in [Reviews -> [pc : {"idle", "chain"}, document : Documents,
                                   number : 0..MaxSubmissions, metadata : Metadata]]
      BY IdleTypes
    <2>4. last \in 0..MaxSubmissions /\ lost \in 0..MaxWrites
      OBVIOUS
    <2>5. mode \in [production : BOOLEAN, onChain : BOOLEAN] /\ up \in BOOLEAN /\ linked \in BOOLEAN
      OBVIOUS
    <2> HIDE DEF VerificationInit
    <2> QED BY <2>1, <2>2, <2>3, <2>4, <2>5 DEF VerificationTypeOK
  <1>2. RunsJudged /\ ReviewsJudged
    BY IdleTypes DEF RunsJudged, ReviewsJudged
  <1>3. ApprovalEarned
    BY DEF ApprovalEarned, Absent, Decided
  <1> QED BY <1>1, <1>2, <1>3 DEF VerificationIInv

-----------------------------------------------------------------------------
(* What a step does to the records                                         *)

\* complete_verification with a decision that is earned.
LEMMA CompletedEarned ==
    ASSUME VerificationIInv, NEW d \in Documents, NEW metadata \in Metadata,
           metadata.decision = "approve" => Earned(d, metadata)
    PROVE  /\ Completed(d, metadata) \in [Documents -> Record]
           /\ \A x \in Documents : RecordEarned(x, Completed(d, metadata)[x])
  <1>1. StatusFor(metadata.decision) \in {"verified", "manual_review", "failed"}
    BY StatusForType
  <1>2. StatusFor(metadata.decision) = "verified" => metadata.decision = "approve"
    BY StatusForType
  <1>3. Completed(d, metadata) \in [Documents -> Record]
    <2>1. ASSUME NEW r \in Record, NEW status \in {"verified", "manual_review", "failed"}
          PROVE  [r EXCEPT !.status = status, !.metadata = metadata] \in Record
      BY DEF Record
    <2>2. records \in [Documents -> Record]
      BY DEF VerificationIInv, VerificationTypeOK
    <2> QED BY <1>1, <2>1, <2>2 DEF Completed
  <1>4. ASSUME NEW x \in Documents PROVE RecordEarned(x, Completed(d, metadata)[x])
    <2>1. CASE records[d] = Absent \/ x # d
      BY <2>1 DEF Completed, VerificationIInv, VerificationTypeOK, ApprovalEarned, RecordEarned
    <2>2. CASE records[d] # Absent /\ x = d
      <3>1. /\ Completed(d, metadata)[d].status = StatusFor(metadata.decision)
            /\ Completed(d, metadata)[d].metadata = metadata
        BY <2>2 DEF Completed, VerificationIInv, VerificationTypeOK, Record
      <3> QED BY <2>2, <3>1, <1>2 DEF RecordEarned
    <2> QED BY <2>1, <2>2
  <1> QED BY <1>3, <1>4

\* _record_step on the record of a run.
LEMMA ProcessingEarned ==
    ASSUME VerificationIInv, NEW d \in Documents, NEW n
    PROVE  /\ Processing(d, n) \in [Documents -> Record]
           /\ \A x \in Documents : RecordEarned(x, Processing(d, n)[x])
  BY
     DEF Processing, VerificationIInv, VerificationTypeOK, Record, ApprovalEarned, RecordEarned,
         Decided

\* A record that a new submission replaces is not decided.
LEMMA CreatedEarned ==
    ASSUME VerificationIInv, NEW d \in Documents, NEW status \in {"pending", "processing"},
           last < MaxSubmissions
    PROVE  /\ Create(d, status) \in [Documents -> Record]
           /\ \A x \in Documents : RecordEarned(x, Create(d, status)[x])
  <1>1. last + 1 \in 0..MaxSubmissions
    BY VerificationAssumption DEF VerificationIInv, VerificationTypeOK
  <1>2. Create(d, status) \in [Documents -> Record]
    BY <1>1, EmptyTypes DEF Create, Record, VerificationIInv, VerificationTypeOK
  <1>3. \A x \in Documents : RecordEarned(x, Create(d, status)[x])
    BY DEF Create, VerificationIInv, VerificationTypeOK, ApprovalEarned, RecordEarned, Decided
  <1> QED BY <1>2, <1>3

\* The records stay earned in memory and in the store.
LEMMA WriteEarned ==
    ASSUME VerificationIInv, mode' = mode, records' \in [Documents -> Record],
           \A d \in Documents : RecordEarned(d, records'[d]),
           durable' = records' \/ durable' = durable
    PROVE  /\ durable' \in [Documents -> Record]
           /\ ApprovalEarned'
  BY DEF VerificationIInv, VerificationTypeOK, ApprovalEarned, RecordEarned, Earned

-----------------------------------------------------------------------------
(* The steps of the runs                                                   *)

LEMMA FinishInv ==
    ASSUME VerificationIInv, NEW r \in Runs, NEW metadata \in Metadata, FinishRun(r, metadata),
           metadata.decision = "approve" => Earned(runs[r].document, metadata)
    PROVE  VerificationIInv'
  <1>1. runs[r].document \in Documents
    BY DEF VerificationIInv, VerificationTypeOK
  <1>2. /\ records' \in [Documents -> Record]
        /\ \A x \in Documents : RecordEarned(x, records'[x])
    BY <1>1, CompletedEarned DEF FinishRun
  <1>3. durable' \in [Documents -> Record] /\ ApprovalEarned'
    BY <1>2, WriteEarned DEF FinishRun, Persist
  <1>4. VerificationTypeOK'
    BY <1>2, <1>3, IdleTypes, VerificationAssumption
       DEF FinishRun, Persist, WriteFails, VerificationIInv, VerificationTypeOK
  <1>5. RunsJudged' /\ ReviewsJudged'
    BY IdleTypes
       DEF FinishRun, VerificationIInv, VerificationTypeOK, RunsJudged, ReviewsJudged, Decision,
           Fallback
  <1> QED BY <1>3, <1>4, <1>5 DEF VerificationIInv

LEMMA SubmitInv ==
    ASSUME VerificationIInv, NEW r \in Runs, NEW d \in Documents, NEW clarity \in Clarities,
           NEW consent \in BOOLEAN, Submit(r, d, clarity, consent)
    PROVE  VerificationIInv'
  <1>1. /\ records' \in [Documents -> Record]
        /\ \A x \in Documents : RecordEarned(x, records'[x])
    BY CreatedEarned DEF Submit
  <1>2. durable' \in [Documents -> Record] /\ ApprovalEarned'
    BY <1>1, WriteEarned DEF Submit, Persist
  <1>3. [NoEvidence EXCEPT !.clarity = clarity] \in Evidence
    BY EmptyTypes DEF Evidence
  <1>4. runs' \in [Runs -> [pc : {"idle", "queued", "fraud", "compliance", "chain"},
                            document : Documents, consent : BOOLEAN,
                            number : 0..MaxSubmissions, evidence : Evidence]]
    BY <1>3, VerificationAssumption DEF Submit, VerificationIInv, VerificationTypeOK
  <1>5. last' \in 0..MaxSubmissions /\ lost' \in 0..MaxWrites
    BY VerificationAssumption DEF Submit, Persist, WriteFails, VerificationIInv, VerificationTypeOK
  <1>6. VerificationTypeOK'
    BY <1>1, <1>2, <1>4, <1>5 DEF Submit, VerificationIInv, VerificationTypeOK
  <1>7. RunsJudged' /\ ReviewsJudged'
    BY DEF Submit, VerificationIInv, VerificationTypeOK, RunsJudged, ReviewsJudged, Decision, Fallback
  <1> QED BY <1>2, <1>6, <1>7 DEF VerificationIInv

LEMMA StartInv == ASSUME VerificationIInv, NEW r \in Runs, Start(r) PROVE VerificationIInv'
  <1> DEFINE run == runs[r]
  <1>1. /\ run.document \in Documents /\ run.evidence \in Evidence
        /\ records[run.document].number \in 0..MaxSubmissions
    BY DEF VerificationIInv, VerificationTypeOK, Record
  <1>2. CASE run.evidence.clarity = "gaps"
    <2>1. Judged(run.evidence) \in Metadata /\ Judged(run.evidence).decision = "manual_review"
      BY <1>1, <1>2, JudgedType DEF Judged, Decision, Gaps
    <2> QED BY <1>2, <2>1, FinishInv DEF Start
  <1>3. CASE run.evidence.clarity # "gaps"
    <2>1. /\ records' \in [Documents -> Record]
          /\ \A x \in Documents : RecordEarned(x, records'[x])
      BY <1>1, <1>3, ProcessingEarned DEF Start
    <2>2. ApprovalEarned'
      BY <1>3, <2>1, WriteEarned DEF Start
    <2>3. VerificationTypeOK'
      <3>1. [run EXCEPT !.pc = "fraud", !.number = records[run.document].number] \in RunRow
        BY <1>1 DEF VerificationIInv, VerificationTypeOK, RunRow
      <3>2. runs' \in [Runs -> RunRow]
        BY <1>3, <3>1 DEF Start, VerificationIInv, VerificationTypeOK, RunRow
      <3> QED BY <1>3, <2>1, <3>2 DEF Start, VerificationIInv, VerificationTypeOK, RunRow
    <2>4. RunsJudged' /\ ReviewsJudged'
      BY <1>3
         DEF Start, VerificationIInv, VerificationTypeOK, RunsJudged, ReviewsJudged, Decision,
             Fallback
    <2> QED BY <2>2, <2>3, <2>4 DEF VerificationIInv
  <1> QED BY <1>2, <1>3

LEMMA FraudAnsweredInv ==
    ASSUME VerificationIInv, NEW r \in Runs, NEW verdict \in Agents(FraudAnswers),
           FraudAnswered(r, verdict)
    PROVE  VerificationIInv'
  <1>1. /\ records' \in [Documents -> Record]
        /\ \A x \in Documents : RecordEarned(x, records'[x])
    BY ProcessingEarned DEF FraudAnswered, VerificationIInv, VerificationTypeOK
  <1>2. ApprovalEarned'
    BY <1>1, WriteEarned DEF FraudAnswered
  <1>3. [runs[r].evidence EXCEPT !.fraud = verdict] \in Evidence
    BY DEF Evidence, VerificationIInv, VerificationTypeOK
  <1>4. VerificationTypeOK'
    <2>1. [runs[r] EXCEPT !.pc = "compliance",
                          !.evidence = [runs[r].evidence EXCEPT !.fraud = verdict]] \in RunRow
      BY <1>3 DEF VerificationIInv, VerificationTypeOK, RunRow
    <2>2. runs' \in [Runs -> RunRow]
      BY <2>1 DEF FraudAnswered, VerificationIInv, VerificationTypeOK, RunRow
    <2> QED BY <1>1, <2>2 DEF FraudAnswered, VerificationIInv, VerificationTypeOK, RunRow
  <1>5. RunsJudged' /\ ReviewsJudged'
    BY
       DEF FraudAnswered, VerificationIInv, VerificationTypeOK, RunsJudged, ReviewsJudged, Decision,
           Fallback
  <1> QED BY <1>2, <1>4, <1>5 DEF VerificationIInv

LEMMA ComplianceAnsweredInv ==
    ASSUME VerificationIInv, NEW r \in Runs, NEW verdict \in Agents(ComplianceAnswers),
           ComplianceAnswered(r, verdict)
    PROVE  VerificationIInv'
  <1> DEFINE answer == IF runs[r].consent \/ verdict.answer = "gaps" THEN verdict.answer
                       ELSE "violation"
             evidence == [runs[r].evidence EXCEPT
                              !.compliance = [verdict EXCEPT !.answer = answer]]
  <1>1. answer \in ComplianceAnswers
    BY DEF Agents, ComplianceAnswers
  <1>2. [verdict EXCEPT !.answer = answer] \in Agents(ComplianceAnswers)
    BY <1>1 DEF Agents
  <1>3. evidence \in Evidence /\ runs[r].document \in Documents
    <2>1. runs[r].evidence \in Evidence /\ runs[r].document \in Documents
      BY DEF VerificationIInv, VerificationTypeOK
    <2> HIDE DEF answer
    <2> QED BY <1>2, <2>1 DEF Evidence
  <1>4. ComplianceAnswered(r, verdict) <=>
          /\ up /\ runs[r].pc = "compliance"
          /\ verdict.fallback => verdict.answer = "approve"
          /\ IF Decision(evidence) = "approve" /\ mode.onChain
             THEN /\ records' = Processing(runs[r].document, runs[r].number)
                  /\ runs' = [runs EXCEPT ![r].pc = "chain", ![r].evidence = evidence]
                  /\ UNCHANGED <<mode, durable, up, reviews, linked, last, lost>>
             ELSE FinishRun(r, Judged(evidence))
    BY DEF ComplianceAnswered
  <1> HIDE DEF evidence
  <1>5. CASE Decision(evidence) = "approve" /\ mode.onChain
    <2>1. /\ records' = Processing(runs[r].document, runs[r].number)
          /\ runs' = [runs EXCEPT ![r].pc = "chain", ![r].evidence = evidence]
          /\ UNCHANGED <<mode, durable, up, reviews, linked, last, lost>>
      BY <1>4, <1>5
    <2>2. /\ records' \in [Documents -> Record]
          /\ \A x \in Documents : RecordEarned(x, records'[x])
      BY <1>3, <2>1, ProcessingEarned
    <2>3. ApprovalEarned'
      BY <2>1, <2>2, WriteEarned
    <2>4. VerificationTypeOK'
      <3>1. [runs[r] EXCEPT !.pc = "chain", !.evidence = evidence] \in RunRow
        BY <1>3 DEF VerificationIInv, VerificationTypeOK, RunRow
      <3>2. runs' \in [Runs -> RunRow]
        BY <2>1, <3>1 DEF VerificationIInv, VerificationTypeOK, RunRow
      <3> QED BY <2>1, <2>2, <3>2 DEF VerificationIInv, VerificationTypeOK, RunRow
    <2>5. RunsJudged' /\ ReviewsJudged'
      BY <1>5, <2>1
         DEF VerificationIInv, VerificationTypeOK, RunsJudged, ReviewsJudged, Decision, Fallback
    <2> QED BY <2>3, <2>4, <2>5 DEF VerificationIInv
  <1>6. CASE ~(Decision(evidence) = "approve" /\ mode.onChain)
    <2>1. FinishRun(r, Judged(evidence)) /\ Judged(evidence) \in Metadata
      BY <1>3, <1>4, <1>6, JudgedType
    <2>2. Judged(evidence).decision = Decision(evidence)
      BY DEF Judged
    <2>3. Decision(evidence) = "approve" => Earned(runs[r].document, Judged(evidence))
      BY <1>3, <1>6, RulesEarn DEF Earned, VerificationIInv, VerificationTypeOK
    <2> QED BY <2>1, <2>2, <2>3, FinishInv
  <1> QED BY <1>5, <1>6

LEMMA ChainAnsweredInv ==
    ASSUME VerificationIInv, NEW r \in Runs, NEW confirmed \in BOOLEAN,
           ChainAnswered(r, confirmed)
    PROVE  VerificationIInv'
  <1> DEFINE metadata == Judged(runs[r].evidence)
  <1>1. runs[r].evidence \in Evidence /\ Decision(runs[r].evidence) = "approve"
    BY DEF ChainAnswered, VerificationIInv, VerificationTypeOK, RunsJudged
  <1>2. metadata \in Metadata
    BY <1>1, JudgedType
  <1>3. Uploaded(metadata, confirmed) \in Metadata
    BY <1>2, UploadedType
  <1>4. Uploaded(metadata, confirmed).decision = "approve" =>
            Earned(runs[r].document, Uploaded(metadata, confirmed))
    <2>1. metadata.reason = "rules" /\ metadata.evidence = runs[r].evidence
      BY <1>1, RulesEarn DEF VerificationIInv, VerificationTypeOK
    <2>2. confirmed => /\ Uploaded(metadata, confirmed).reason = "rules"
                       /\ Uploaded(metadata, confirmed).evidence = runs[r].evidence
                       /\ Uploaded(metadata, confirmed).signed
      BY <1>2, <2>1, UploadedType
    <2>3. ~confirmed => Uploaded(metadata, confirmed).decision # "approve"
      BY <1>2, UploadedType
    <2>4. /\ runs[r].evidence.clarity = "clear"
          /\ runs[r].evidence.fraud.answer = "approve"
          /\ runs[r].evidence.compliance.answer = "approve"
          /\ mode.production => ~Fallback(runs[r].evidence)
      BY <1>1, RulesEarn DEF VerificationIInv, VerificationTypeOK
    <2> HIDE DEF metadata
    <2> QED BY <2>2, <2>3, <2>4 DEF Earned
  <1>5. FinishRun(r, Uploaded(metadata, confirmed))
    BY DEF ChainAnswered
  <1> HIDE DEF metadata
  <1> QED BY <1>3, <1>4, <1>5, FinishInv

-----------------------------------------------------------------------------
(* Reviewers, revocations and Setu                                         *)

\* What a written step keeps when it leaves runs, reviews and numbers alone.
LEMMA RecordsInv ==
    ASSUME VerificationIInv,
           records' \in [Documents -> Record],
           \A d \in Documents : RecordEarned(d, records'[d]),
           SaveOrFail \/ (durable' = durable /\ lost' = lost),
           UNCHANGED <<mode, up, runs, last>>, linked' \in BOOLEAN,
           reviews' \in [Reviews -> [pc : {"idle", "chain"}, document : Documents,
                                     number : 0..MaxSubmissions, metadata : Metadata]],
           ReviewsJudged'
    PROVE  VerificationIInv'
  <1>1. durable' = records' \/ durable' = durable
    BY DEF SaveOrFail, Persist
  <1>2. durable' \in [Documents -> Record] /\ ApprovalEarned'
    BY <1>1, WriteEarned
  <1>3. lost' \in 0..MaxWrites
    BY VerificationAssumption
       DEF SaveOrFail, Persist, WriteFails, VerificationIInv, VerificationTypeOK
  <1>4. VerificationTypeOK'
    BY <1>2, <1>3 DEF VerificationIInv, VerificationTypeOK
  <1>5. RunsJudged'
    BY DEF VerificationIInv, RunsJudged, Decision, Fallback
  <1> QED BY <1>2, <1>4, <1>5 DEF VerificationIInv

\* A record whose status and metadata are replaced by a decision that is earned.
LEMMA DecidedEarned ==
    ASSUME VerificationIInv, NEW d \in Documents, NEW metadata \in Metadata,
           metadata.decision = "approve" => Earned(d, metadata),
           records' = [records EXCEPT ![d].status = StatusFor(metadata.decision),
                                      ![d].metadata = metadata]
    PROVE  /\ records' \in [Documents -> Record]
           /\ \A x \in Documents : RecordEarned(x, records'[x])
  <1>1. CASE records[d] # Absent
    BY <1>1, CompletedEarned DEF Completed
  <1>2. CASE records[d] = Absent
    <2>1. /\ StatusFor(metadata.decision) \in {"verified", "manual_review", "failed"}
          /\ StatusFor(metadata.decision) = "verified" => metadata.decision = "approve"
      BY StatusForType
    <2>2. ASSUME NEW r \in Record, NEW status \in {"verified", "manual_review", "failed"}
          PROVE  [r EXCEPT !.status = status, !.metadata = metadata] \in Record
      BY DEF Record
    <2>3. records \in [Documents -> Record]
      BY DEF VerificationIInv, VerificationTypeOK
    <2>4. records' \in [Documents -> Record]
      BY <2>1, <2>2, <2>3
    <2>5. ASSUME NEW x \in Documents, x # d PROVE RecordEarned(x, records'[x])
      BY <2>3, <2>5 DEF VerificationIInv, ApprovalEarned, RecordEarned
    <2>6. /\ records'[d].status = StatusFor(metadata.decision)
          /\ records'[d].metadata = metadata
      BY <2>3 DEF Record
    <2>7. RecordEarned(d, records'[d])
      BY <2>1, <2>6 DEF RecordEarned
    <2> QED BY <2>4, <2>5, <2>7
  <1> QED BY <1>1, <1>2

LEMMA ReviewInv ==
    ASSUME VerificationIInv, NEW d \in Documents,
           NEW decision \in {"approve", "manual_review", "reject"}, Review(d, decision)
    PROVE  VerificationIInv'
  <1> DEFINE metadata == [records[d].metadata EXCEPT !.decision = decision, !.reason = "reviewer"]
  <1>1. records[d].metadata \in Metadata
    BY DEF VerificationIInv, VerificationTypeOK, Record
  <1>2. metadata \in Metadata /\ metadata.decision = decision /\ metadata.reason = "reviewer"
    BY <1>1 DEF Metadata
  <1>3. records' = [records EXCEPT ![d].status = StatusFor(decision), ![d].metadata = metadata]
    BY DEF Review, VerificationIInv, VerificationTypeOK, Record
  <1>4. metadata.decision = "approve" => Earned(d, metadata)
    BY <1>2 DEF Review, Earned
  <1> HIDE DEF metadata
  <1>5. /\ records' \in [Documents -> Record]
        /\ \A x \in Documents : RecordEarned(x, records'[x])
    BY <1>2, <1>3, <1>4, DecidedEarned
  <1>6. ReviewsJudged'
    BY DEF Review, VerificationIInv, ReviewsJudged
  <1> QED BY <1>5, <1>6, RecordsInv DEF Review, VerificationIInv, VerificationTypeOK

LEMMA ReviewOnChainInv ==
    ASSUME VerificationIInv, NEW c \in Reviews, NEW d \in Documents, ReviewOnChain(c, d)
    PROVE  VerificationIInv'
  <1> DEFINE review == [pc |-> "chain", document |-> d, number |-> records[d].number,
                        metadata |-> [records[d].metadata EXCEPT !.decision = "approve",
                                                                 !.reason = "reviewer"]]
  <1>1. records[d] \in Record /\ records[d].metadata \in Metadata
    BY DEF VerificationIInv, VerificationTypeOK, Record
  <1>2. [records[d].metadata EXCEPT !.reason = "reviewer"] \in Metadata
    BY <1>1 DEF Metadata
  <1>3. [records[d] EXCEPT !.metadata = [records[d].metadata EXCEPT !.reason = "reviewer"]]
            \in Record
    BY <1>1, <1>2 DEF Record
  <1>4. records' \in [Documents -> Record]
    BY <1>3 DEF ReviewOnChain, VerificationIInv, VerificationTypeOK
  <1>5. ASSUME NEW x \in Documents PROVE RecordEarned(x, records'[x])
    <2>1. CASE x # d
      BY <2>1 DEF ReviewOnChain, VerificationIInv, VerificationTypeOK, ApprovalEarned, RecordEarned
    <2>2. CASE x = d
      <3>1. /\ records'[d].status = "manual_review"
            /\ records'[d].metadata.decision = records[d].metadata.decision
        BY <1>1 DEF ReviewOnChain, VerificationIInv, VerificationTypeOK, Record, Metadata
      <3>2. records[d].status = StatusFor(records[d].metadata.decision)
        BY DEF ReviewOnChain, VerificationIInv, ApprovalEarned, Decided
      <3> QED BY <2>2, <3>1, <3>2 DEF ReviewOnChain, RecordEarned
    <2> QED BY <2>1, <2>2
  <1>6. review.metadata \in Metadata
    BY <1>1 DEF Metadata
  <1>7. review \in [pc : {"idle", "chain"}, document : Documents,
                    number : 0..MaxSubmissions, metadata : Metadata]
    BY <1>1, <1>6 DEF Record
  <1>8. review.metadata.decision = "approve" /\ review.metadata.reason = "reviewer"
    BY <1>1 DEF Metadata
  <1>9. reviews' = [reviews EXCEPT ![c] = review]
    BY DEF ReviewOnChain
  <1> HIDE DEF review
  <1>10. reviews' \in [Reviews -> [pc : {"idle", "chain"}, document : Documents,
                                   number : 0..MaxSubmissions, metadata : Metadata]]
    BY <1>7, <1>9 DEF VerificationIInv, VerificationTypeOK
  <1>11. ReviewsJudged'
    BY <1>8, <1>9 DEF VerificationIInv, VerificationTypeOK, ReviewsJudged
  <1> QED BY <1>4, <1>5, <1>10, <1>11, RecordsInv
          DEF ReviewOnChain, VerificationIInv, VerificationTypeOK

LEMMA ReviewAnsweredInv ==
    ASSUME VerificationIInv, NEW c \in Reviews, NEW confirmed \in BOOLEAN,
           ReviewAnswered(c, confirmed)
    PROVE  VerificationIInv'
  <1> DEFINE d == reviews[c].document
             metadata == Uploaded(reviews[c].metadata, confirmed)
  <1>1. /\ d \in Documents /\ reviews[c].metadata \in Metadata
        /\ reviews[c].metadata.decision = "approve"
        /\ reviews[c].metadata.reason = "reviewer"
    BY DEF ReviewAnswered, VerificationIInv, VerificationTypeOK, ReviewsJudged
  <1>2. metadata \in Metadata
    BY <1>1, UploadedType
  <1>3. metadata.decision = "approve" => Earned(d, metadata)
    BY <1>1, UploadedType DEF Earned
  <1>4. records' = IF records[d].number # reviews[c].number THEN records
                   ELSE [records EXCEPT ![d].status = StatusFor(metadata.decision),
                                        ![d].metadata = metadata]
    BY DEF ReviewAnswered
  <1> HIDE DEF d, metadata
  <1>5. /\ records' \in [Documents -> Record]
        /\ \A x \in Documents : RecordEarned(x, records'[x])
    <2>1. CASE records[d].number # reviews[c].number
      BY <1>4, <2>1 DEF VerificationIInv, VerificationTypeOK, ApprovalEarned, RecordEarned
    <2>2. CASE records[d].number = reviews[c].number
      BY <1>1, <1>2, <1>3, <1>4, <2>2, DecidedEarned
    <2> QED BY <2>1, <2>2
  <1>6. /\ reviews' \in [Reviews -> [pc : {"idle", "chain"}, document : Documents,
                                     number : 0..MaxSubmissions, metadata : Metadata]]
        /\ ReviewsJudged'
    BY IdleTypes DEF ReviewAnswered, VerificationIInv, VerificationTypeOK, ReviewsJudged
  <1> QED BY <1>5, <1>6, RecordsInv DEF ReviewAnswered, VerificationIInv, VerificationTypeOK

LEMMA RevokeInv == ASSUME VerificationIInv, NEW d \in Documents, RevokeTrust(d) PROVE VerificationIInv'
  <1> DEFINE metadata == [records[d].metadata EXCEPT !.decision = "reject", !.reason = "revoked"]
  <1>1. records[d].metadata \in Metadata
    BY DEF VerificationIInv, VerificationTypeOK, Record
  <1>2. metadata \in Metadata /\ metadata.decision = "reject"
    BY <1>1 DEF Metadata
  <1>3. records' = [records EXCEPT ![d].status = StatusFor(metadata.decision),
                                   ![d].metadata = metadata]
    BY <1>2 DEF RevokeTrust, VerificationIInv, VerificationTypeOK, Record, StatusFor
  <1> HIDE DEF metadata
  <1>4. /\ records' \in [Documents -> Record]
        /\ \A x \in Documents : RecordEarned(x, records'[x])
    BY <1>2, <1>3, DecidedEarned
  <1>5. ReviewsJudged'
    BY DEF RevokeTrust, VerificationIInv, ReviewsJudged
  <1> QED BY <1>4, <1>5, RecordsInv DEF RevokeTrust, VerificationIInv, VerificationTypeOK

LEMMA StartSetuInv == ASSUME VerificationIInv, StartSetu PROVE VerificationIInv'
  <1>1. /\ records' \in [Documents -> Record]
        /\ \A x \in Documents : RecordEarned(x, records'[x])
    BY CreatedEarned, VerificationAssumption DEF StartSetu
  <1>2. durable' \in [Documents -> Record] /\ ApprovalEarned'
    BY <1>1, WriteEarned DEF StartSetu, Persist
  <1>3. last' \in 0..MaxSubmissions /\ lost' \in 0..MaxWrites /\ linked' \in BOOLEAN
    <2>1. last' \in 0..MaxSubmissions
      BY VerificationAssumption DEF StartSetu, VerificationIInv, VerificationTypeOK
    <2>2. lost' \in 0..MaxWrites
      <3>1. lost' = lost \/ (lost < MaxWrites /\ lost' = lost + 1)
        BY DEF StartSetu, Persist, WriteFails
      <3> QED BY <3>1, VerificationAssumption DEF VerificationIInv, VerificationTypeOK
    <2>3. linked' \in BOOLEAN
      BY DEF StartSetu, Persist, VerificationIInv, VerificationTypeOK
    <2> QED BY <2>1, <2>2, <2>3
  <1>4. VerificationTypeOK'
    BY <1>1, <1>2, <1>3 DEF StartSetu, VerificationIInv, VerificationTypeOK
  <1>5. RunsJudged' /\ ReviewsJudged'
    BY
       DEF StartSetu, VerificationIInv, VerificationTypeOK, RunsJudged, ReviewsJudged, Decision,
           Fallback
  <1> QED BY <1>2, <1>4, <1>5 DEF VerificationIInv

LEMMA SetuReportsInv ==
    ASSUME VerificationIInv, NEW outcome \in {"pending", "approve", "reject"},
           SetuReports(outcome)
    PROVE  VerificationIInv'
  <1> DEFINE metadata == [decision |-> outcome, reason |-> "setu", evidence |-> NoEvidence,
                          signed |-> FALSE]
  <1>1. /\ records' \in [Documents -> Record]
        /\ \A x \in Documents : RecordEarned(x, records'[x])
    <2>1. CASE outcome = "pending"
      BY <2>1, ProcessingEarned, VerificationAssumption DEF SetuReports
    <2>2. CASE outcome # "pending"
      <3>1. metadata \in Metadata
        BY <2>2, EmptyTypes DEF Metadata
      <3>2. metadata.decision = "approve" => Earned(SetuDocument, metadata)
        BY DEF Earned
      <3>3. records' = Completed(SetuDocument, metadata)
        BY <2>2 DEF SetuReports
      <3> HIDE DEF metadata
      <3> QED BY <3>1, <3>2, <3>3, CompletedEarned, VerificationAssumption
    <2> QED BY <2>1, <2>2
  <1>2. ReviewsJudged'
    BY DEF SetuReports, VerificationIInv, ReviewsJudged
  <1> QED BY <1>1, <1>2, RecordsInv DEF SetuReports, VerificationIInv, VerificationTypeOK

LEMMA VerificationCrashInv == ASSUME VerificationIInv, Stop PROVE VerificationIInv'
  <1>1. VerificationTypeOK'
    BY IdleTypes DEF Stop, VerificationIInv, VerificationTypeOK
  <1>2. RunsJudged' /\ ReviewsJudged'
    BY IdleTypes DEF Stop, RunsJudged, ReviewsJudged
  <1>3. ApprovalEarned'
    BY DEF Stop, VerificationIInv, ApprovalEarned, Earned
  <1> QED BY <1>1, <1>2, <1>3 DEF VerificationIInv

LEMMA RestartInv == ASSUME VerificationIInv, Restart PROVE VerificationIInv'
  <1>1. VerificationTypeOK'
    BY DEF Restart, VerificationIInv, VerificationTypeOK
  <1>2. RunsJudged' /\ ReviewsJudged'
    BY DEF Restart, VerificationIInv, RunsJudged, ReviewsJudged, Decision, Fallback
  <1>3. ApprovalEarned'
    BY DEF Restart, VerificationIInv, ApprovalEarned, Earned
  <1> QED BY <1>1, <1>2, <1>3 DEF VerificationIInv

LEMMA VerificationStutterInv == ASSUME VerificationIInv, UNCHANGED verificationVars PROVE VerificationIInv'
  <1>1. VerificationTypeOK'
    BY DEF verificationVars, VerificationIInv, VerificationTypeOK
  <1>2. RunsJudged' /\ ReviewsJudged'
    BY DEF verificationVars, VerificationIInv, RunsJudged, ReviewsJudged, Decision, Fallback
  <1>3. ApprovalEarned'
    BY DEF verificationVars, VerificationIInv, ApprovalEarned, Earned
  <1> QED BY <1>1, <1>2, <1>3 DEF VerificationIInv

LEMMA VerificationStepInv == ASSUME VerificationIInv, [VerificationNext]_verificationVars PROVE VerificationIInv'
  <1>1. CASE UNCHANGED verificationVars
    BY <1>1, VerificationStutterInv
  <1>2. ASSUME NEW r \in Runs, RunStep(r) PROVE VerificationIInv'
    BY <1>2, SubmitInv, StartInv, FraudAnsweredInv, ComplianceAnsweredInv, ChainAnsweredInv
       DEF RunStep
  <1>3. ASSUME NEW d \in Documents, OperatorStep(d) PROVE VerificationIInv'
    BY <1>3, ReviewInv, ReviewOnChainInv, RevokeInv DEF OperatorStep
  <1>4. CASE \E c \in Reviews, confirmed \in BOOLEAN : ReviewAnswered(c, confirmed)
    BY <1>4, ReviewAnsweredInv
  <1>5. CASE \E outcome \in {"pending", "approve", "reject"} : SetuReports(outcome)
    BY <1>5, SetuReportsInv
  <1> QED BY <1>1, <1>2, <1>3, <1>4, <1>5, StartSetuInv, VerificationCrashInv, RestartInv
          DEF VerificationNext

LEMMA VerificationAlwaysInv == VerificationSpec => []VerificationIInv
  <1>1. VerificationInit => VerificationIInv
    BY VerificationInitInv
  <1>2. VerificationIInv /\ [VerificationNext]_verificationVars => VerificationIInv'
    BY VerificationStepInv
  <1> QED BY <1>1, <1>2, PTL DEF VerificationSpec

\* Every reachable state of the records, the runs and the reviews is of its
\* type (agent_manager.py).
THEOREM VerificationTyped == VerificationSpec => []VerificationTypeOK
  <1>1. VerificationIInv => VerificationTypeOK
    BY DEF VerificationIInv
  <1> QED BY <1>1, VerificationAlwaysInv, PTL

\* However many submissions, background runs and reviewers overlap, a verified
\* record carries an approval that was earned (agent_manager.py, decide_review,
\* _finalize_setu_ekyc).
THEOREM ApprovalAlwaysEarned == VerificationSpec => []ApprovalEarned
  <1>1. VerificationIInv => ApprovalEarned
    BY DEF VerificationIInv
  <1> QED BY <1>1, VerificationAlwaysInv, PTL
=============================================================================
