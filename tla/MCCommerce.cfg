SPECIFICATION Spec
CONSTANTS
    Skus = {s1}
    Carts = {c1, c2}
    Quotes = {q1, q2, q3}
    Keys = {k1, k2}
    MaxQuantity = 2
    MaxStock = 2
    NoCart = NoCart
    NoQuote = NoQuote
    NoKey = NoKey
SYMMETRY Symmetry
INVARIANTS
    TypeOK
    StockConserved
    HoldsFollowSales
    LedgerFollowsPayments
    KeysFollowOrders
PROPERTIES
    SettledStaysSettled
    ImplementsPurchase
