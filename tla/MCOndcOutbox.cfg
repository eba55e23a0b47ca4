SPECIFICATION Spec
CONSTANTS
    q = q
    a = a
    o = o
    A = A
    Requests = {q}
    Callbacks = {}
    Logistics = {}
    Orders = {}
    Providers = {}
    OrderOf <- MCOrderOf
    ProviderOf <- MCProviderOf
    MaxBindings = 0
    Dispatches = {d}
    Answers = {a}
    AnswerTo <- MCAnswerTo
    Workers = {w1, w2}
    MaxAttempts = 2
    MaxBatch = 2
    NoRecord = NoRecord
    NoWorker = NoWorker
    NoProvider = NoProvider
SYMMETRY Symmetry
CHECK_DEADLOCK FALSE
INVARIANTS
    OneAnswerTask
PROPERTIES
    DeliveredIsFinal
    ImplementsDelivery
