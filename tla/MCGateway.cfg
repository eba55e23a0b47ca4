CONSTANTS
    Sids = {sid1, sid2, sid3}
    principal = principal
    Principals = {principal}
    PrincipalOf <- MCPrincipalOf
    Calls = {call1, call2}
    MaxClock = 3
    item1 = item1
    item2 = item2
    order1 = order1
    order2 = order2
    issue1 = issue1
    Items = {item1, item2}
    Orders = {order1, order2}
    IssueIds = {issue1, issue2}
    Keys = {key1, key2}
    Price = 2
    NewStock = 1
    Approvals = {app1, app2}
    Limits <- MCLimits
    DefaultLimit = 1
    MaxMandates = 2
    Scenarios <- MCScenarios
    Documents = {aadhaar}
    SetuDocument = aadhaar
    Runs = {run1, run2}
    Reviews = {review1}
    MaxSubmissions = 2
    MaxWrites = 1
SPECIFICATION GatewaySpec
INVARIANTS RevocationHolds AuthorityTrail RefundsWithinOrder ApprovalEarned
PROPERTIES ImplementsOneTimeApproval
CHECK_DEADLOCK FALSE
