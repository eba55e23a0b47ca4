CONSTANTS
    quote1 = quote1
    byAgent = byAgent
    byUser = byUser
    Requests = {byAgent, byUser}
    ActorOf <- MCActorOf
    QuoteOf <- MCQuoteOf
    Quotes = {quote1}
    Policies <- MCPolicies
    DefaultPolicy <- MCLowLimit
    MaxVersion = 2
    Decisions = {d1, d2}
    Keys = {k1, k2}
    Runners = {r1, r2}
    Payments = {m1, m2}
    Callbacks = {c1, c2}
    Rails = {"simulated", "razorpay_test"}
    Bounds <- MCBounds
    NoRequest = NoRequest
    NoQuote = NoQuote
    NoPayment = NoPayment
    NoKey = NoKey
    NoDecision = NoDecision
SPECIFICATION Spec
SYMMETRY Symmetry
INVARIANTS TypeOK OrderAuthorised OutcomeTrue EventSettled
PROPERTIES CaptureIsFinal ConsumeUnderLiveAuthority OneTime
CHECK_DEADLOCK FALSE
