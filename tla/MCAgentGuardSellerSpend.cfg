CONSTANTS
    f = f
    a = a
    b = b
    Requests = {f}
    RefundRequests = {f}
    Keys = {k1}
    RefundKeys = {k1}
    Decisions = {d1, d2}
    Runners = {r1, r2}
    Confirmers = {c1}
    Policies <- MCOnePolicy
    DefaultPolicy <- MCDefaultPolicy
    MaxVersion = 1
    CrashPoints <- CrashInEffect
    NoRequest = NoRequest
    NoKey = NoKey
    NoDecision = NoDecision
SPECIFICATION Spec
INVARIANTS ReceiptCitesSpentApproval
