CONSTANTS
    f = f
    a = a
    b = b
    Requests = {b, a}
    RefundRequests = {}
    Keys = {k1}
    RefundKeys = {}
    Decisions = {d1, d2}
    Runners = {r1, r2}
    Confirmers = {c1}
    Policies <- MCOnePolicy
    DefaultPolicy <- MCDefaultPolicy
    MaxVersion = 1
    CrashPoints <- CrashInEffect
    NoRequest = NoRequest
    NoKey = NoKey
    NoDecision = NoDecision
SPECIFICATION Spec
PROPERTIES SuccessKeepsItsKey
