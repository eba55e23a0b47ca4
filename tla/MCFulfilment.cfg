CONSTANTS
    pA = pA
    pB = pB
    cancelling = cancelling
    returning = returning
    accepting = accepting
    i1 = i1
    i2 = i2
    Requests = {cancelling, returning, accepting}
    ActorOf <- MCActorOf
    KindOf <- MCKindOf
    IssueOf <- MCIssueOf
    IssueIds = {i1, i2}
    Policies <- MCPolicies
    DefaultPolicy <- MCLowLimit
    MaxVersion = 2
    Decisions = {d1, d2}
    Keys = {k1, k2}
    Runners = {r1, r2}
    RetailCallbacks <- MCRetailCallbacks
    LogisticsCallbacks <- MCLogisticsCallbacks
    Providers = {pA, pB}
    SellerKeys = {s1}
    MaxBindings = 2
    Scenarios <- MCScenarios
    NoRequest = NoRequest
    NoDecision = NoDecision
    NoKey = NoKey
    NoProvider = NoProvider
SPECIFICATION Spec
SYMMETRY Symmetry
INVARIANTS TypeOK CallbackOnce RefundTrue IssueAnswerable ReceiptTrue
PROPERTIES ImplementsAftersales
CHECK_DEADLOCK FALSE
