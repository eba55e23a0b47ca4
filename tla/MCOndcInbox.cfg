SPECIFICATION Spec
CONSTANTS
    q = q
    a = a
    o = o
    A = A
    Requests = {}
    Callbacks = {c, l}
    Logistics = {l}
    Orders = {o}
    Providers = {A, B}
    OrderOf <- MCOrderOf
    ProviderOf <- MCProviderOf
    MaxBindings = 2
    Dispatches = {}
    Answers = {}
    AnswerTo <- MCAnswerTo
    Workers = {w1, w2}
    MaxAttempts = 2
    MaxBatch = 2
    NoRecord = NoRecord
    NoWorker = NoWorker
    NoProvider = NoProvider
SYMMETRY Symmetry
INVARIANTS
    TypeOK
    EffectOnce
PROPERTIES
    ImplementsDelivery
