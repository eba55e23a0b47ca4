SPECIFICATION Spec
CONSTANTS
    Skus = {s1}
    Carts = {c1, c2}
    Quotes = {q1, q2}
    Keys = {k1, k2}
    MaxQuantity = 2
    MaxStock = 3
    NoCart = NoCart
    NoQuote = NoQuote
    NoKey = NoKey
SYMMETRY Symmetry
INVARIANTS PaidOrderIsCaptured
