CONSTANTS
    f = f
    a = a
    b = b
    Requests = {b, f}
    RefundRequests = {b, f}
    Keys = {k1}
    RefundKeys = {k1}
    Decisions = {d1, d2}
    Runners = {r1}
    Confirmers = {c1, c2}
    Policies <- MCTwoPolicies
    DefaultPolicy <- MCDefaultPolicy
    MaxVersion = 3
    CrashPoints <- CrashInEffect
    NoRequest = NoRequest
    NoKey = NoKey
    NoDecision = NoDecision
SPECIFICATION FairSpec
INVARIANTS ReplayMatchesRequest
PROPERTIES ConfirmActivatesItsDraft FailedEffectReleasesKey
