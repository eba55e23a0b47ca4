CONSTANTS
    f = f
    a = a
    b = b
    Requests = {a}
    RefundRequests = {}
    Keys = {k1, k2}
    RefundKeys = {}
    Decisions = {d1, d2}
    Runners = {r1, r2}
    Confirmers = {c1}
    Policies <- MCOnePolicy
    DefaultPolicy <- MCDefaultPolicy
    MaxVersion = 3
    CrashPoints <- CrashInEffect
    NoRequest = NoRequest
    NoKey = NoKey
    NoDecision = NoDecision
SPECIFICATION Spec
SYMMETRY Symmetry
INVARIANTS TypeOK EffectAuthorised ApprovalBindsOneKey SucceededHasReceipt
PROPERTIES ConsumeUnderLiveAuthority OneTime
