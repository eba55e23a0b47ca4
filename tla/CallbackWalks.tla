---------------------------- MODULE CallbackWalks ----------------------------
(***************************************************************************)
(* The two walks of DomainStateMachines as the loops over hops that the    *)
(* code has: _apply_retail_return and apply_igm_legal_path. The operators  *)
(* there say what these loops come to.                                     *)
(***************************************************************************)
EXTENDS DomainStateMachines

LOCAL INSTANCE Naturals
LOCAL INSTANCE Sequences
LOCAL INSTANCE SequencesExt

\* The hops of a return must be legal or already reached.
HopReturn(walk, hop) ==
    IF walk.refused \/ walk.at = hop THEN walk
    ELSE IF <<walk.at, hop>> \in ReturnMoves THEN [walk EXCEPT !.at = hop]
    ELSE [walk EXCEPT !.refused = TRUE]

ASSUME ReturnWalkAssumption ==
    \A current, target \in ReturnTargets :
        FoldLeft(HopReturn, [at |-> current, refused |-> FALSE],
                 SubSeq(ReturnPath, 2, Stage(target)))
            = [at |-> WalkReturn(current, target),
               refused |-> RefusesReturn(current, target)]

\* Of an issue, those that are not legal are skipped.
IssuePath == <<"acknowledged", "resolution_proposed", "accepted", "closed">>
PathOf(code) ==
    SubSeq(IssuePath, 1, IF code = "CLOSED" THEN 4 ELSE IF code = "RESOLVED" THEN 2
                         ELSE IF code = "PROCESSING" THEN 1 ELSE 0)

HopIssue(current, hop) == IF <<current, hop>> \in IssueMoves THEN hop ELSE current

ASSUME IgmPathAssumption ==
    \A current \in IssueStatuses, code \in IgmCodes :
        FoldLeft(HopIssue, current, PathOf(code)) = ApplyIgmLegalPath(current, code)

=============================================================================
