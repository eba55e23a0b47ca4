------------------------------- MODULE Issues -------------------------------
(***************************************************************************)
(* The issues of an order: what the Buyer raises, what is bound to an ONDC *)
(* order by the protocol, how the Seller answers, and what the network's   *)
(* IGM messages do to them (commerce_compat.py, ondc_routes.py).           *)
(***************************************************************************)
EXTENDS DomainStateMachines, FiniteSets

CONSTANT IssueIds

VARIABLES
    issues,     \* issues[i]: the row of commerce_issues
    binders     \* calls of bind_protocol_issue that found no issue

issueVars == <<issues, binders>>

\* owned: owner_id is set; due: response_due_at and escalation_due_at are set.
IssueRow == [status : IssueStatuses \cup {"none"}, owned : BOOLEAN, due : BOOLEAN,
             protocol : BOOLEAN]
NoIssue == [status |-> "none", owned |-> FALSE, due |-> FALSE, protocol |-> FALSE]

IssuesTypeOK ==
    /\ issues \in [IssueIds -> IssueRow]
    /\ binders \in SUBSET IssueIds

IssuesInit ==
    /\ issues = [i \in IssueIds |-> NoIssue]
    /\ binders = {}

\* create_issue of the Buyer.
CreateIssue(i) ==
    /\ issues[i] = NoIssue
    /\ i \notin binders
    /\ issues' = [issues EXCEPT ![i].status = "open"]
    /\ UNCHANGED binders

\* bind_protocol_issue, for the first IGM message of a confirmed ONDC order: it
\* looks for the order's issue in one transaction and inserts one in another,
\* so that two calls can both insert.
BeginBindIssue(i) ==
    /\ issues[i] = NoIssue
    /\ i \notin binders
    /\ \A j \in IssueIds : ~issues[j].protocol
    /\ binders' = binders \cup {i}
    /\ UNCHANGED issues
InsertProtocolIssue(i) ==
    /\ i \in binders
    /\ issues' = [issues EXCEPT ![i].status = "open", ![i].protocol = TRUE]
    /\ binders' = binders \ {i}

\* _update_issue, called by respond, transition and remedy; with or without an
\* owner and a response target of the caller's.  A remedy for an open issue
\* acknowledges it on the way, which sets what is missing.
UpdateIssue(i, to, owner, minutes) ==
    LET row == issues[i]
        passes == row.status = "open" /\ to = "resolution_proposed"
        from == IF passes THEN "acknowledged" ELSE row.status
        owned == row.owned \/ owner \/ passes
    IN
    /\ owned
    /\ to = "acknowledged" => minutes
    /\ <<from, to>> \in IssueMoves
    /\ issues' = [issues EXCEPT ![i].status = to, ![i].owned = TRUE,
                                ![i].due = @ \/ passes \/ to = "acknowledged"]
    /\ UNCHANGED binders

\* accept_remedy, of an issue the Buyer raised: accepted and closed at once.
CanAcceptRemedy(i) == <<issues[i].status, "accepted">> \in IssueMoves
AcceptRemedy(i) == issues' = [issues EXCEPT ![i].status = "closed"]

\* Variant: only what was open before gets its due dates.
DueWhenOpen(row, to) == row.due \/ (row.status = "open" /\ to = "acknowledged")

\* record_igm_network_event fills in the due dates of every issue past open.
DueAfter(row, to) == row.due \/ to # "open"

\* A message about an issue: a callback, as often as the inbox delivers it, or
\* the copy of one sent, whether or not it reached the network.
NetworkEvent(i, code) ==
    LET to == ApplyIgmLegalPath(issues[i].status, code) IN
    /\ issues[i] # NoIssue
    /\ issues' = [issues EXCEPT ![i].status = to, ![i].owned = TRUE,
                                ![i].due = DueAfter(issues[i], to)]
    /\ UNCHANGED binders

\* Every issue somebody has answered can be pursued: it has an owner and dates
\* by which it escalates.  Responses, remedies and network messages, which skip
\* statuses and carry no owner, come in any order.
IssueAnswerable ==
    \A i \in IssueIds :
        issues[i].status \notin {"none", "open"} => issues[i].owned /\ issues[i].due

=============================================================================
