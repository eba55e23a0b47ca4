--------------------------- MODULE CommerceProofs ---------------------------
(***************************************************************************)
(* What Commerce keeps for every number of skus, carts, quotes and keys    *)
(* and every quantity: the reserved counter is exact, holds and postings   *)
(* follow the sales, and the tables implement Purchase.                    *)
(*                                                                         *)
(* The counting argument is about sets of units, pairs of a quote and a    *)
(* number up to its quantity: a release subtracts the units of the quotes  *)
(* it closes from the units of the held ones, a preview adds the units of  *)
(* a quote that was not held.                                              *)
(***************************************************************************)
EXTENDS Commerce, FiniteSetTheorems, TLAPS

HeldQuotes == {q \in Quotes : reservation[q] = "held"}

\* A key's record names a quote once it is written.
KeysNameQuotes == \A k \in Keys : prepared[k].status # "absent" => prepared[k].quote \in Quotes

IInv ==
    /\ TypeOK
    /\ StockConserved
    /\ HoldsFollowSales
    /\ LedgerFollowsPayments
    /\ KeysNameQuotes
    /\ KeysFollowOrders

-----------------------------------------------------------------------------
(* Counting units.                                                         *)

UnitSet(f, qs) == {u \in qs \X (1..MaxQuantity) : u[2] <= f[u[1]]}

LEMMA UnitSetFinite ==
    ASSUME NEW f, NEW qs \in SUBSET Quotes
    PROVE  IsFiniteSet(UnitSet(f, qs)) /\ Cardinality(UnitSet(f, qs)) \in Nat
<1>1. IsFiniteSet(qs)
  BY FiniteAssumption, FS_Subset
<1>2. IsFiniteSet(1..MaxQuantity)
  BY BoundAssumption, FS_Interval
<1>3. IsFiniteSet(qs \X (1..MaxQuantity))
  BY <1>1, <1>2, FS_Product
<1>4. UnitSet(f, qs) \in SUBSET (qs \X (1..MaxQuantity))
  BY DEF UnitSet
<1>5. IsFiniteSet(UnitSet(f, qs))
  BY <1>3, <1>4, FS_Subset
<1> QED
  BY <1>5, FS_CardinalityType

\* One quote has as many units as its quantity.
LEMMA UnitSetOfOne ==
    ASSUME NEW f \in [Quotes -> 0..MaxQuantity], NEW q \in Quotes
    PROVE  Cardinality(UnitSet(f, {q})) = f[q]
<1>1. f[q] \in Nat /\ f[q] <= MaxQuantity
  BY BoundAssumption
<1>2. UnitSet(f, {q}) = {q} \X (1..f[q])
  BY <1>1, BoundAssumption DEF UnitSet
<1>3. IsFiniteSet({q}) /\ Cardinality({q}) = 1
  BY FS_Singleton
<1>4. IsFiniteSet(1..f[q]) /\ Cardinality(1..f[q]) = f[q]
  BY <1>1, FS_Interval
<1>5. Cardinality({q} \X (1..f[q])) = Cardinality({q}) * Cardinality(1..f[q])
  BY <1>3, <1>4, FS_Product, Zenon
<1>6. Cardinality({q} \X (1..f[q])) = 1 * f[q]
  BY <1>3, <1>4, <1>5, Zenon
<1>7. 1 * f[q] = f[q]
  BY <1>1
<1> QED
  BY <1>2, <1>6, <1>7, Zenon

\* Closing some of the quotes takes away exactly their units.
LEMMA UnitSetWithout ==
    ASSUME NEW f, NEW qs \in SUBSET Quotes, NEW es \in SUBSET qs
    PROVE  /\ Cardinality(UnitSet(f, qs \ es)) = Cardinality(UnitSet(f, qs)) - Cardinality(UnitSet(f, es))
           /\ Cardinality(UnitSet(f, es)) <= Cardinality(UnitSet(f, qs))
<1>1. UnitSet(f, qs \ es) = UnitSet(f, qs) \ UnitSet(f, es)
  BY DEF UnitSet
<1>2. UnitSet(f, qs) \cap UnitSet(f, es) = UnitSet(f, es)
  BY DEF UnitSet
<1>3. IsFiniteSet(UnitSet(f, qs))
  BY UnitSetFinite
<1>4. Cardinality(UnitSet(f, qs) \ UnitSet(f, es)) =
        Cardinality(UnitSet(f, qs)) - Cardinality(UnitSet(f, qs) \cap UnitSet(f, es))
  BY <1>3, FS_Difference
<1>5. Cardinality(UnitSet(f, qs) \cap UnitSet(f, es)) <= Cardinality(UnitSet(f, qs))
  BY <1>3, FS_Intersection
<1> QED
  BY <1>1, <1>2, <1>4, <1>5

\* A new quote adds exactly its own units.
LEMMA UnitSetWith ==
    ASSUME NEW f \in [Quotes -> 0..MaxQuantity], NEW qs \in SUBSET Quotes,
           NEW q \in Quotes, q \notin qs
    PROVE  Cardinality(UnitSet(f, qs \cup {q})) = Cardinality(UnitSet(f, qs)) + f[q]
<1>1. UnitSet(f, qs \cup {q}) = UnitSet(f, qs) \cup UnitSet(f, {q})
  BY DEF UnitSet
<1>2. UnitSet(f, qs) \cap UnitSet(f, {q}) = {}
  BY DEF UnitSet
<1>3. IsFiniteSet(UnitSet(f, qs)) /\ IsFiniteSet(UnitSet(f, {q}))
  BY UnitSetFinite
<1>4. Cardinality(UnitSet(f, qs) \cup UnitSet(f, {q})) =
        Cardinality(UnitSet(f, qs)) + Cardinality(UnitSet(f, {q}))
          - Cardinality(UnitSet(f, qs) \cap UnitSet(f, {q}))
  BY <1>3, FS_Union
<1>5. Cardinality(UnitSet(f, qs)) \in Nat /\ Cardinality(UnitSet(f, {q})) \in Nat
  BY UnitSetFinite
<1>6. Cardinality(UnitSet(f, qs) \cap UnitSet(f, {q})) = 0
  BY <1>2, FS_EmptySet, Zenon
<1>7. Cardinality(UnitSet(f, {q})) = f[q]
  BY UnitSetOfOne
<1>8. Cardinality(UnitSet(f, qs \cup {q})) = Cardinality(UnitSet(f, qs)) + f[q] - 0
  BY <1>1, <1>4, <1>6, <1>7, Zenon
<1> QED
  BY <1>5, <1>7, <1>8

\* Only the quantities of the quotes counted matter.
LEMMA UnitSetAgrees ==
    ASSUME NEW f, NEW g, NEW qs \in SUBSET Quotes, \A q \in qs : f[q] = g[q]
    PROVE  UnitSet(f, qs) = UnitSet(g, qs)
BY DEF UnitSet

-----------------------------------------------------------------------------
(* The units of the model.                                                 *)

Quantity(s) == [q \in Quotes |-> quote[q].lines[s]]

LEMMA QuantityType ==
    ASSUME TypeOK, NEW s \in Skus
    PROVE  Quantity(s) \in [Quotes -> 0..MaxQuantity]
BY DEF TypeOK, Quantity, Quote, Lines

LEMMA UnitsAreUnitSets ==
    ASSUME NEW s \in Skus, NEW qs \in SUBSET Quotes
    PROVE  Units(qs, s) = UnitSet(Quantity(s), qs)
BY DEF Units, UnitSet, Quantity

\* StockConserved in terms of unit sets, in this state and in the next.
LEMMA StockAsUnitSets ==
    /\ StockConserved <=>
        \A s \in Skus : /\ reserved[s] = Cardinality(UnitSet(Quantity(s), HeldQuotes))
                        /\ reserved[s] <= available[s]
    /\ StockConserved' <=>
        \A s \in Skus : /\ reserved'[s] = Cardinality(UnitSet(Quantity(s)', HeldQuotes'))
                        /\ reserved'[s] <= available'[s]
<1>1. \A s \in Skus : Units(HeldQuotes, s) = UnitSet(Quantity(s), HeldQuotes)
  BY DEF Units, UnitSet, Quantity, HeldQuotes
<1>2. \A s \in Skus : Units(HeldQuotes, s)' = UnitSet(Quantity(s)', HeldQuotes')
  BY DEF Units, UnitSet, Quantity, HeldQuotes
<1>3. StockConserved <=>
        \A s \in Skus : /\ reserved[s] = Cardinality(Units(HeldQuotes, s))
                        /\ reserved[s] <= available[s]
  BY DEF StockConserved, HeldQuotes
<1>4. StockConserved' <=>
        \A s \in Skus : /\ reserved'[s] = Cardinality(Units(HeldQuotes, s)')
                        /\ reserved'[s] <= available'[s]
  BY DEF StockConserved, HeldQuotes, Units
<1> QED
  BY <1>1, <1>2, <1>3, <1>4

\* Nothing held changes: the counter stays exact.
LEMMA SameHolds ==
    ASSUME TypeOK, StockConserved, HeldQuotes' = HeldQuotes, reserved' = reserved,
           \A q \in HeldQuotes : quote'[q].lines = quote[q].lines,
           \A s \in Skus : reserved[s] <= available'[s]
    PROVE  StockConserved'
<1> SUFFICES ASSUME NEW s \in Skus
             PROVE  reserved'[s] = Cardinality(UnitSet(Quantity(s)', HeldQuotes'))
  BY StockAsUnitSets
<1>1. HeldQuotes \in SUBSET Quotes
  BY DEF HeldQuotes
<1>2. \A q \in HeldQuotes : Quantity(s)'[q] = Quantity(s)[q]
  BY <1>1 DEF Quantity
<1>3. UnitSet(Quantity(s)', HeldQuotes) = UnitSet(Quantity(s), HeldQuotes)
  BY <1>1, <1>2, UnitSetAgrees
<1> QED
  BY <1>3, StockAsUnitSets

\* Some holds end: what ReservedWithout leaves in the counter is exact.
LEMMA HoldsEnd ==
    ASSUME TypeOK, StockConserved, NEW es \in SUBSET HeldQuotes, NEW s \in Skus
    PROVE  /\ ReservedWithout(es)[s] = Cardinality(UnitSet(Quantity(s), HeldQuotes \ es))
           /\ ReservedWithout(es)[s] \in Nat
           /\ ReservedWithout(es)[s] <= reserved[s]
           /\ reserved[s] - ReservedWithout(es)[s] = Cardinality(UnitSet(Quantity(s), es))
<1>1. HeldQuotes \in SUBSET Quotes /\ es \in SUBSET Quotes /\ HeldQuotes \ es \in SUBSET Quotes
  BY DEF HeldQuotes
<1>2. ReservedWithout(es)[s] = reserved[s] - Cardinality(UnitSet(Quantity(s), es))
  BY <1>1, UnitsAreUnitSets DEF ReservedWithout
<1>3. reserved[s] = Cardinality(UnitSet(Quantity(s), HeldQuotes))
  BY StockAsUnitSets
<1>4. Cardinality(UnitSet(Quantity(s), HeldQuotes \ es)) =
        Cardinality(UnitSet(Quantity(s), HeldQuotes)) - Cardinality(UnitSet(Quantity(s), es))
  BY <1>1, UnitSetWithout
<1>5. /\ Cardinality(UnitSet(Quantity(s), es)) \in Nat
      /\ Cardinality(UnitSet(Quantity(s), HeldQuotes)) \in Nat
      /\ Cardinality(UnitSet(Quantity(s), HeldQuotes \ es)) \in Nat
  BY <1>1, UnitSetFinite
<1> HIDE DEF HeldQuotes
<1> QED
  BY <1>2, <1>3, <1>4, <1>5

\* A held quote has no more units of a sku than the counter.
LEMMA HeldWithinReserved ==
    ASSUME TypeOK, StockConserved, NEW q \in HeldQuotes, NEW s \in Skus
    PROVE  /\ ReservedWithout({q})[s] = reserved[s] - quote[q].lines[s]
           /\ ReservedWithout({q})[s] \in Nat
           /\ quote[q].lines[s] \in Nat
<1>1. q \in Quotes /\ {q} \in SUBSET HeldQuotes
  BY DEF HeldQuotes
<1>2. /\ ReservedWithout({q})[s] \in Nat
      /\ reserved[s] - ReservedWithout({q})[s] = Cardinality(UnitSet(Quantity(s), {q}))
  BY <1>1, HoldsEnd
<1>3. Cardinality(UnitSet(Quantity(s), {q})) = Quantity(s)[q]
  BY <1>1, QuantityType, UnitSetOfOne
<1>4. Quantity(s)[q] = quote[q].lines[s] /\ Quantity(s)[q] \in Nat
  BY <1>1, QuantityType, BoundAssumption DEF Quantity
<1>5. reserved[s] \in Nat
  BY BoundAssumption DEF TypeOK
<1> QED
  BY <1>2, <1>3, <1>4, <1>5

\* A step that ends the holds of es, and takes no more stock than they held,
\* keeps the counter exact.
LEMMA EndingHoldsConserves ==
    ASSUME TypeOK, StockConserved, NEW es \in SUBSET HeldQuotes,
           HeldQuotes' = HeldQuotes \ es, reserved' = ReservedWithout(es),
           \A q \in HeldQuotes : quote'[q].lines = quote[q].lines,
           \A s \in Skus : reserved'[s] <= available'[s]
    PROVE  StockConserved'
<1> SUFFICES ASSUME NEW s \in Skus
             PROVE  reserved'[s] = Cardinality(UnitSet(Quantity(s)', HeldQuotes'))
  BY StockAsUnitSets
<1>1. HeldQuotes \ es \in SUBSET Quotes
  BY DEF HeldQuotes
<1>2. \A q \in HeldQuotes \ es : Quantity(s)'[q] = Quantity(s)[q]
  BY <1>1 DEF Quantity
<1>3. UnitSet(Quantity(s)', HeldQuotes \ es) = UnitSet(Quantity(s), HeldQuotes \ es)
  BY <1>1, <1>2, UnitSetAgrees
<1> QED
  BY <1>3, HoldsEnd

\* A step that ends the holds of es and starts one of a fresh quote that fits.
LEMMA NewHoldConserves ==
    ASSUME TypeOK, StockConserved, NEW es \in SUBSET HeldQuotes,
           NEW p \in Quotes, p \notin HeldQuotes,
           HeldQuotes' = (HeldQuotes \ es) \cup {p},
           \A q \in HeldQuotes : quote'[q].lines = quote[q].lines,
           quote'[p].lines \in Lines,
           \A s \in Skus : /\ reserved'[s] = ReservedWithout(es)[s] + quote'[p].lines[s]
                           /\ reserved'[s] <= available'[s]
    PROVE  StockConserved'
<1> SUFFICES ASSUME NEW s \in Skus
             PROVE  reserved'[s] = Cardinality(UnitSet(Quantity(s)', HeldQuotes'))
  BY StockAsUnitSets
<1> DEFINE f == [Quantity(s) EXCEPT ![p] = quote'[p].lines[s]]
<1>1. HeldQuotes \ es \in SUBSET Quotes /\ HeldQuotes' \in SUBSET Quotes /\ p \notin HeldQuotes \ es
  BY DEF HeldQuotes
<1>2. f \in [Quotes -> 0..MaxQuantity] /\ f[p] = quote'[p].lines[s]
  BY QuantityType DEF Lines
<1>3. \A q \in HeldQuotes \ es : f[q] = Quantity(s)[q]
  BY <1>1, QuantityType
<1>4. \A q \in HeldQuotes' : Quantity(s)'[q] = f[q]
  BY <1>1, QuantityType DEF Quantity
<1> HIDE DEF f
<1>5. UnitSet(Quantity(s)', HeldQuotes') = UnitSet(f, HeldQuotes')
  BY <1>1, <1>4, UnitSetAgrees
<1>6. Cardinality(UnitSet(f, (HeldQuotes \ es) \cup {p})) = Cardinality(UnitSet(f, HeldQuotes \ es)) + f[p]
  BY <1>1, <1>2, UnitSetWith
<1>7. UnitSet(f, HeldQuotes \ es) = UnitSet(Quantity(s), HeldQuotes \ es)
  BY <1>1, <1>3, UnitSetAgrees
<1>8. ReservedWithout(es)[s] = Cardinality(UnitSet(Quantity(s), HeldQuotes \ es))
  BY HoldsEnd
<1> QED
  BY <1>2, <1>5, <1>6, <1>7, <1>8

-----------------------------------------------------------------------------
(* What the helpers of the handlers do.                                    *)

\* An open quote, and the quote of an unsettled order, is held.
LEMMA LiveIsHeld ==
    ASSUME TypeOK, HoldsFollowSales, NEW q \in Quotes
    PROVE  /\ Open(q) \/ attempt[q] \in {"pending", "unknown"} => q \in HeldQuotes
           /\ Open(q) => attempt[q] = "none" /\ order[q] = "absent"
           /\ attempt[q] # "none" => quote[q].status = "consumed"
           /\ quote[q].status = "absent" => reservation[q] = "none" /\ attempt[q] = "none"
BY DEF HoldsFollowSales, HeldQuotes, Open, Captured

LEMMA ReleasedType ==
    ASSUME TypeOK, NEW es \in SUBSET HeldQuotes
    PROVE  /\ Released(es) \in [Quotes -> ReservationStatus]
           /\ \A q \in Quotes : Released(es)[q] = IF q \in es THEN "released" ELSE reservation[q]
           /\ {q \in Quotes : Released(es)[q] = "held"} = HeldQuotes \ es
BY DEF TypeOK, Released, ReservationStatus, HeldQuotes

LEMMA ClosedType ==
    ASSUME TypeOK, NEW es \in SUBSET Quotes, NEW to \in {"expired", "released"}
    PROVE  /\ Closed(es, to) \in [Quotes -> Quote]
           /\ \A q \in Quotes :
                /\ Closed(es, to)[q].lines = quote[q].lines
                /\ Closed(es, to)[q].cart = quote[q].cart
                /\ Closed(es, to)[q].status = IF q \in es /\ Open(q) THEN to ELSE quote[q].status
<1> SUFFICES ASSUME NEW q \in Quotes
             PROVE  /\ Closed(es, to)[q] \in Quote
                    /\ Closed(es, to)[q].lines = quote[q].lines
                    /\ Closed(es, to)[q].cart = quote[q].cart
                    /\ Closed(es, to)[q].status = IF q \in es /\ Open(q) THEN to ELSE quote[q].status
  BY DEF Closed
<1>1. quote[q] \in Quote
  BY DEF TypeOK
<1>2. CASE q \in es /\ Open(q)
  BY <1>1, <1>2 DEF Closed, Quote
<1>3. CASE ~(q \in es /\ Open(q))
  BY <1>1, <1>3 DEF Closed, Quote
<1> QED
  BY <1>2, <1>3

\* The three ways the counter moves keep it a stock quantity.
LEMMA ReservedWithoutType ==
    ASSUME TypeOK, StockConserved, NEW es \in SUBSET HeldQuotes
    PROVE  /\ ReservedWithout(es) \in [Skus -> 0..MaxStock]
           /\ \A s \in Skus : ReservedWithout(es)[s] <= available[s]
<1>1. \A s \in Skus : /\ ReservedWithout(es)[s] \in Nat
                      /\ ReservedWithout(es)[s] <= reserved[s]
                      /\ reserved[s] <= available[s]
  BY HoldsEnd, StockAsUnitSets
<1>2. \A s \in Skus : reserved[s] \in 0..MaxStock /\ available[s] \in 0..MaxStock
  BY DEF TypeOK
<1>3. \A s \in Skus : /\ ReservedWithout(es)[s] \in 0..MaxStock
                      /\ ReservedWithout(es)[s] <= available[s]
  BY <1>1, <1>2, BoundAssumption
<1>4. ReservedWithout(es) = [s \in Skus |-> ReservedWithout(es)[s]]
  BY DEF ReservedWithout
<1> QED
  BY <1>3, <1>4

-----------------------------------------------------------------------------
(* Type correctness.                                                       *)

LEMMA InitIInv == Init => IInv
<1> SUFFICES ASSUME Init
             PROVE  IInv
  OBVIOUS
<1>1. TypeOK
  BY BoundAssumption, NullAssumption
     DEF Init, TypeOK, Cart, Quote, Lines, Nothing, ReservationStatus, OrderStatus,
         AttemptStatus, Prepared, NoRecord
<1>2. StockConserved
  <2>1. HeldQuotes = {}
    BY DEF Init, HeldQuotes
  <2>2. \A s \in Skus : UnitSet(Quantity(s), HeldQuotes) = {}
    BY <2>1 DEF UnitSet
  <2> QED
    <3>1. Cardinality({}) = 0
      BY FS_EmptySet
    <3>2. \A s \in Skus : reserved[s] = 0 /\ available[s] = 0
      BY DEF Init
    <3> QED
      BY <2>2, <3>1, <3>2, StockAsUnitSets
<1>3. HoldsFollowSales
  BY DEF Init, HoldsFollowSales, Open, Captured
<1>4. LedgerFollowsPayments
  BY DEF Init, LedgerFollowsPayments
<1>5. KeysNameQuotes /\ KeysFollowOrders
  BY DEF Init, KeysNameQuotes, KeysFollowOrders, NoRecord
<1> QED
  BY <1>1, <1>2, <1>3, <1>4, <1>5 DEF IInv

\* Every action keeps the types.
LEMMA TypeStep == IInv /\ [Next]_vars => TypeOK'
<1> SUFFICES ASSUME IInv, [Next]_vars
             PROVE  TypeOK'
  OBVIOUS
<1> USE DEF IInv
<1>1. CASE UNCHANGED vars
  BY <1>1 DEF vars, TypeOK
<1>2. ASSUME NEW s \in Skus, NEW n \in 0..MaxStock, UpsertInventory(s, n)
      PROVE  TypeOK'
  BY <1>2 DEF UpsertInventory, TypeOK, QuotesOfSku, sales
<1>3. ASSUME NEW c \in Carts, CreateCart(c)
      PROVE  TypeOK'
  BY <1>3 DEF CreateCart, TypeOK, Cart, sales, stock
<1>4. ASSUME NEW c \in Carts, NEW s \in Skus, NEW n \in 0..MaxQuantity, SetCartLine(c, s, n)
      PROVE  TypeOK'
  <2>1. cart[c] \in Cart
    BY DEF TypeOK
  <2> DEFINE lines == [cart[c].lines EXCEPT ![s] = n]
             changed == [cart[c] EXCEPT !.lines = lines]
  <2>2. lines \in Lines
    BY <2>1 DEF Cart, Lines
  <2>3. cart' = [cart EXCEPT ![c] = changed]
    BY <1>4 DEF SetCartLine
  <2> HIDE DEF lines
  <2>4. changed \in Cart
    BY <2>1, <2>2 DEF Cart
  <2> HIDE DEF changed
  <2>5. cart' \in [Carts -> Cart]
    BY <2>3, <2>4 DEF TypeOK
  <2> QED
    BY <1>4, <2>5 DEF SetCartLine, TypeOK, QuotesOfCart, sales, stock
<1>5. ASSUME NEW c \in Carts, NEW q \in Quotes, NEW expired \in SUBSET lapsed,
             PreviewCheckout(c, q, expired)
      PROVE  TypeOK'
  <2>1. expired \in SUBSET HeldQuotes /\ expired \in SUBSET Quotes
    BY <1>5, LiveIsHeld DEF PreviewCheckout, TypeOK
  <2>2. cart[c].lines \in Lines
    BY DEF TypeOK, Cart
  <2>3. \A s \in Skus : ReservedWithout(expired)[s] + cart[c].lines[s] \in 0..MaxStock
    <3> SUFFICES ASSUME NEW s \in Skus
                 PROVE  ReservedWithout(expired)[s] + cart[c].lines[s] \in 0..MaxStock
      OBVIOUS
    <3>1. ReservedWithout(expired)[s] \in 0..MaxStock
      BY <2>1, ReservedWithoutType
    <3>2. cart[c].lines[s] \in 0..MaxQuantity /\ available[s] \in 0..MaxStock
      BY <2>2 DEF Lines, TypeOK
    <3>3. cart[c].lines[s] <= available[s] - ReservedWithout(expired)[s]
      BY <1>5 DEF PreviewCheckout, Fits
    <3> QED
      BY <3>1, <3>2, <3>3, BoundAssumption
  <2>4. reserved' \in [Skus -> 0..MaxStock]
    BY <1>5, <2>3 DEF PreviewCheckout
  <2>5. reservation' \in [Quotes -> ReservationStatus]
    BY <1>5, <2>1, ReleasedType DEF PreviewCheckout, ReservationStatus
  <2>6. quote' \in [Quotes -> Quote]
    BY <1>5, <2>1, <2>2, ClosedType DEF PreviewCheckout, Quote
  <2> QED
    BY <1>5, <2>4, <2>5, <2>6 DEF PreviewCheckout, TypeOK, sales
<1>6. ASSUME NEW q \in Quotes, Lapse(q)
      PROVE  TypeOK'
  BY <1>6 DEF Lapse, TypeOK, sales, stock
<1>7. ASSUME NEW q \in Quotes, ExpireQuote(q)
      PROVE  TypeOK'
  <2>1. {q} \in SUBSET HeldQuotes
    BY <1>7, LiveIsHeld DEF ExpireQuote
  <2>2. /\ reserved' \in [Skus -> 0..MaxStock]
        /\ reservation' \in [Quotes -> ReservationStatus]
        /\ quote' \in [Quotes -> Quote]
    BY <1>7, <2>1, ReservedWithoutType, ReleasedType, ClosedType DEF ExpireQuote
  <2> QED
    BY <1>7, <2>2 DEF ExpireQuote, TypeOK, sales
<1>8. ASSUME NEW k \in Keys, NEW q \in Quotes, PlaceOrder(k, q)
      PROVE  TypeOK'
  <2>1. order' \in [Quotes -> OrderStatus] /\ attempt' \in [Quotes -> AttemptStatus]
    BY <1>8 DEF PlaceOrder, TypeOK, OrderStatus, AttemptStatus
  <2>2. quote' \in [Quotes -> Quote]
    BY <1>8 DEF PlaceOrder, TypeOK, Quote
  <2>3. cart' \in [Carts -> Cart]
    BY <1>8 DEF PlaceOrder, TypeOK, Cart
  <2>4. prepared' \in [Keys -> Prepared]
    BY <1>8 DEF PlaceOrder, TypeOK, Prepared
  <2> QED
    BY <1>8, <2>1, <2>2, <2>3, <2>4 DEF PlaceOrder, TypeOK, stock
<1>9. ASSUME NEW k \in Keys, NEW q \in Quotes, RejectQuote(k, q)
      PROVE  TypeOK'
  <2>1. {q} \in SUBSET HeldQuotes
    BY <1>9, LiveIsHeld DEF RejectQuote
  <2>2. /\ reserved' \in [Skus -> 0..MaxStock]
        /\ reservation' \in [Quotes -> ReservationStatus]
    BY <1>9, <2>1, ReservedWithoutType, ReleasedType DEF RejectQuote
  <2>3. quote' \in [Quotes -> Quote]
    BY <1>9, ClosedType DEF RejectQuote
  <2>4. prepared' \in [Keys -> Prepared]
    BY <1>9 DEF RejectQuote, TypeOK, Prepared
  <2> QED
    BY <1>9, <2>2, <2>3, <2>4 DEF RejectQuote, TypeOK, sales
<1>10. ASSUME NEW q \in Quotes, NEW target \in OrderStatus, TransitionOrder(q, target)
       PROVE  TypeOK'
  BY <1>10 DEF TransitionOrder, TypeOK, stock
<1>11. ASSUME NEW q \in Quotes, NEW status \in {"succeeded", "failed", "unknown", "reconciled"},
              Settle(q, status)
       PROVE  TypeOK'
  <2>1. /\ attempt' \in [Quotes -> AttemptStatus]
        /\ order' \in [Quotes -> OrderStatus]
        /\ ledger' \in SUBSET Posting
    <3>1. attempt' \in [Quotes -> AttemptStatus]
      BY <1>11 DEF Settle, TypeOK, AttemptStatus
    <3>2. PaymentOrderTarget[status] \in OrderStatus
      BY DEF PaymentOrderTarget, OrderStatus
    <3>3. order' \in [Quotes -> OrderStatus]
      BY <1>11, <3>2 DEF Settle, TypeOK
    <3>4. ledger' \in SUBSET Posting
      BY <1>11 DEF Settle, TypeOK, Posting, Posted
    <3> QED
      BY <3>1, <3>3, <3>4
  <2>2. q \in HeldQuotes
    BY <1>11, LiveIsHeld DEF Settle, Settles, PaymentEdges
  <2>3. CASE status \in {"succeeded", "reconciled"} /\ ConsumeReservations(q)
    <3>1. available' \in [Skus -> 0..MaxStock]
      <4> SUFFICES ASSUME NEW s \in Skus
                   PROVE  available[s] - quote[q].lines[s] \in 0..MaxStock
        BY <2>3 DEF ConsumeReservations
      <4>1. /\ reserved[s] - quote[q].lines[s] \in Nat
            /\ quote[q].lines[s] \in Nat
        BY <2>2, HeldWithinReserved
      <4>2. reserved[s] <= available[s] /\ reserved[s] \in 0..MaxStock /\ available[s] \in 0..MaxStock
        BY DEF StockConserved, TypeOK
      <4> QED
        BY <4>1, <4>2, BoundAssumption
    <3>2. reserved' \in [Skus -> 0..MaxStock]
      BY <2>2, <2>3, ReservedWithoutType DEF ConsumeReservations
    <3>3. reservation' \in [Quotes -> ReservationStatus]
      BY <2>3 DEF ConsumeReservations, TypeOK, ReservationStatus
    <3>4. outdated' \in SUBSET Quotes /\ quote' = quote
      BY <2>3 DEF ConsumeReservations, TypeOK
    <3> QED
      BY <1>11, <2>1, <3>1, <3>2, <3>3, <3>4 DEF Settle, TypeOK
  <2>4. CASE status = "failed" /\ ReleaseReservations(q)
    <3>1. /\ reserved' \in [Skus -> 0..MaxStock]
          /\ reservation' \in [Quotes -> ReservationStatus]
          /\ quote' \in [Quotes -> Quote]
      BY <2>2, <2>4, ReservedWithoutType, ReleasedType, ClosedType DEF ReleaseReservations
    <3> QED
      BY <1>11, <2>1, <2>4, <3>1 DEF Settle, ReleaseReservations, TypeOK
  <2>5. CASE status = "unknown" /\ UNCHANGED <<stock, reservation, quote, outdated>>
    BY <1>11, <2>1, <2>5 DEF Settle, TypeOK, stock
  <2> QED
    BY <1>11, <2>3, <2>4, <2>5 DEF Settle
<1>12. ASSUME NEW q \in Quotes, NEW k \in Keys, IssueRefund(q, k)
       PROVE  TypeOK'
  BY <1>12 DEF IssueRefund, TypeOK, Posting, stock
<1> QED
  BY <1>1, <1>2, <1>3, <1>4, <1>5, <1>6, <1>7, <1>8, <1>9, <1>10, <1>11, <1>12
     DEF Next, RecordPaymentResult, ReconcilePayment

-----------------------------------------------------------------------------
(* The counter.                                                            *)

\* The steps that leave the counter and the reservation rows alone.
LEMMA StockUntouched ==
    ASSUME TypeOK, StockConserved, reserved' = reserved, reservation' = reservation,
           \A q \in Quotes : quote'[q].lines = quote[q].lines,
           \A s \in Skus : reserved[s] <= available'[s]
    PROVE  StockConserved'
<1>1. HeldQuotes' = HeldQuotes /\ HeldQuotes \subseteq Quotes
  BY DEF HeldQuotes
<1> QED
  BY <1>1, SameHolds

\* release_quote and release_order_reservations on one held quote.
LEMMA ReleasingOneConserves ==
    ASSUME TypeOK, StockConserved, NEW q \in HeldQuotes, NEW to \in {"expired", "released"},
           reserved' = ReservedWithout({q}), reservation' = Released({q}),
           quote' = Closed({q}, to), available' = available
    PROVE  StockConserved'
<1>1. {q} \in SUBSET HeldQuotes /\ q \in Quotes /\ HeldQuotes \subseteq Quotes
  BY DEF HeldQuotes
<1>2. HeldQuotes' = HeldQuotes \ {q}
  BY <1>1, ReleasedType DEF HeldQuotes
<1>3. \A p \in Quotes : quote'[p].lines = quote[p].lines
  BY <1>1, ClosedType
<1>4. \A s \in Skus : reserved'[s] <= available'[s]
  BY <1>1, ReservedWithoutType
<1> QED
  BY <1>1, <1>2, <1>3, <1>4, EndingHoldsConserves

LEMMA StockStep == IInv /\ [Next]_vars => StockConserved'
<1> SUFFICES ASSUME IInv, [Next]_vars
             PROVE  StockConserved'
  OBVIOUS
<1> USE DEF IInv
<1>0. \A s \in Skus : reserved[s] <= available[s]
  BY DEF StockConserved
<1>1. CASE UNCHANGED vars
  BY <1>0, <1>1, StockUntouched DEF vars
<1>2. ASSUME NEW s \in Skus, NEW n \in 0..MaxStock, UpsertInventory(s, n)
      PROVE  StockConserved'
  <2>1. \A t \in Skus : reserved[t] <= available'[t]
    BY <1>0, <1>2 DEF UpsertInventory, TypeOK
  <2> QED
    BY <1>2, <2>1, StockUntouched DEF UpsertInventory
<1>3. ASSUME NEW c \in Carts, CreateCart(c)
      PROVE  StockConserved'
  BY <1>0, <1>3, StockUntouched DEF CreateCart, stock
<1>4. ASSUME NEW c \in Carts, NEW s \in Skus, NEW n \in 0..MaxQuantity, SetCartLine(c, s, n)
      PROVE  StockConserved'
  BY <1>0, <1>4, StockUntouched DEF SetCartLine, stock
<1>5. ASSUME NEW c \in Carts, NEW q \in Quotes, NEW expired \in SUBSET lapsed,
             PreviewCheckout(c, q, expired)
      PROVE  StockConserved'
  <2>1. expired \in SUBSET HeldQuotes /\ expired \in SUBSET Quotes
    BY <1>5, LiveIsHeld DEF PreviewCheckout, TypeOK
  <2>2. q \notin HeldQuotes
    BY <1>5, LiveIsHeld DEF PreviewCheckout, HeldQuotes
  <2>3. HeldQuotes' = (HeldQuotes \ expired) \cup {q}
    <3>1. Released(expired) \in [Quotes -> ReservationStatus]
      BY <2>1, ReleasedType
    <3>2. HeldQuotes' = {p \in Quotes : Released(expired)[p] = "held"} \cup {q}
      BY <1>5, <3>1 DEF PreviewCheckout, HeldQuotes
    <3> QED
      BY <2>1, <3>2, ReleasedType
  <2>4. cart[c].lines \in Lines /\ quote'[q].lines = cart[c].lines
    BY <1>5, <2>1, ClosedType DEF PreviewCheckout, TypeOK, Cart
  <2>5. \A p \in HeldQuotes : quote'[p].lines = quote[p].lines
    BY <1>5, <2>1, <2>2, ClosedType DEF PreviewCheckout, HeldQuotes
  <2>6. \A s \in Skus : /\ reserved'[s] = ReservedWithout(expired)[s] + quote'[q].lines[s]
                        /\ reserved'[s] <= available'[s]
    <3> SUFFICES ASSUME NEW s \in Skus
                 PROVE  /\ reserved'[s] = ReservedWithout(expired)[s] + quote'[q].lines[s]
                        /\ reserved'[s] <= available'[s]
      OBVIOUS
    <3>1. reserved'[s] = ReservedWithout(expired)[s] + cart[c].lines[s]
      BY <1>5 DEF PreviewCheckout
    <3>2. cart[c].lines[s] <= available[s] - ReservedWithout(expired)[s] /\ available' = available
      BY <1>5 DEF PreviewCheckout, Fits
    <3>3. ReservedWithout(expired)[s] \in 0..MaxStock
      BY <2>1, ReservedWithoutType
    <3>4. cart[c].lines[s] \in 0..MaxQuantity /\ available[s] \in 0..MaxStock
      BY <2>4 DEF Lines, TypeOK
    <3> QED
      BY <2>4, <3>1, <3>2, <3>3, <3>4, BoundAssumption
  <2> QED
    BY <2>1, <2>2, <2>3, <2>4, <2>5, <2>6, NewHoldConserves
<1>6. ASSUME NEW q \in Quotes, Lapse(q)
      PROVE  StockConserved'
  BY <1>0, <1>6, StockUntouched DEF Lapse, stock
<1>7. ASSUME NEW q \in Quotes, ExpireQuote(q)
      PROVE  StockConserved'
  <2>1. q \in HeldQuotes
    BY <1>7, LiveIsHeld DEF ExpireQuote
  <2> QED
    BY <1>7, <2>1, ReleasingOneConserves DEF ExpireQuote
<1>8. ASSUME NEW k \in Keys, NEW q \in Quotes, PlaceOrder(k, q)
      PROVE  StockConserved'
  <2>1. \A p \in Quotes : quote'[p].lines = quote[p].lines
    BY <1>8 DEF PlaceOrder, TypeOK, Quote
  <2> QED
    BY <1>0, <1>8, <2>1, StockUntouched DEF PlaceOrder, stock
<1>9. ASSUME NEW k \in Keys, NEW q \in Quotes, RejectQuote(k, q)
      PROVE  StockConserved'
  <2>1. q \in HeldQuotes
    BY <1>9, LiveIsHeld DEF RejectQuote
  <2> QED
    BY <1>9, <2>1, ReleasingOneConserves DEF RejectQuote
<1>10. ASSUME NEW q \in Quotes, NEW target \in OrderStatus, TransitionOrder(q, target)
       PROVE  StockConserved'
  BY <1>0, <1>10, StockUntouched DEF TransitionOrder, stock
<1>11. ASSUME NEW q \in Quotes, NEW status \in {"succeeded", "failed", "unknown", "reconciled"},
              Settle(q, status)
       PROVE  StockConserved'
  <2>1. q \in HeldQuotes
    BY <1>11, LiveIsHeld DEF Settle, Settles, PaymentEdges
  <2>2. CASE ConsumeReservations(q)
    <3>1. {q} \in SUBSET HeldQuotes /\ HeldQuotes \subseteq Quotes
      BY <2>1 DEF HeldQuotes
    <3>2. HeldQuotes' = HeldQuotes \ {q}
      BY <2>2 DEF ConsumeReservations, HeldQuotes, TypeOK
    <3>3. \A s \in Skus : reserved'[s] <= available'[s]
      <4> SUFFICES ASSUME NEW s \in Skus
                   PROVE  reserved'[s] <= available'[s]
        OBVIOUS
      <4>1. /\ reserved'[s] = reserved[s] - quote[q].lines[s]
            /\ quote[q].lines[s] \in Nat
        BY <2>1, <2>2, HeldWithinReserved DEF ConsumeReservations
      <4>2. available'[s] = available[s] - quote[q].lines[s]
        BY <2>2 DEF ConsumeReservations
      <4>3. reserved[s] \in 0..MaxStock /\ available[s] \in 0..MaxStock
        BY DEF TypeOK
      <4> QED
        BY <1>0, <4>1, <4>2, <4>3, BoundAssumption
    <3> QED
      BY <2>2, <3>1, <3>2, <3>3, EndingHoldsConserves DEF ConsumeReservations
  <2>3. CASE ReleaseReservations(q)
    BY <2>1, <2>3, ReleasingOneConserves DEF ReleaseReservations
  <2>4. CASE UNCHANGED <<stock, reservation, quote, outdated>>
    BY <1>0, <2>4, StockUntouched DEF stock
  <2> QED
    BY <1>11, <2>2, <2>3, <2>4 DEF Settle
<1>12. ASSUME NEW q \in Quotes, NEW k \in Keys, IssueRefund(q, k)
       PROVE  StockConserved'
  BY <1>0, <1>12, StockUntouched DEF IssueRefund, stock
<1> QED
  BY <1>1, <1>2, <1>3, <1>4, <1>5, <1>6, <1>7, <1>8, <1>9, <1>10, <1>11, <1>12
     DEF Next, RecordPaymentResult, ReconcilePayment

-----------------------------------------------------------------------------
(* Holds and sales.                                                        *)

LEMMA HoldsStep == IInv /\ [Next]_vars => HoldsFollowSales'
<1> SUFFICES ASSUME IInv, [Next]_vars
             PROVE  HoldsFollowSales'
  OBVIOUS
<1> USE DEF IInv
<1>1. CASE UNCHANGED <<quote, reservation, order, attempt>>
  BY <1>1 DEF HoldsFollowSales, Open, Captured
<1>2. ASSUME NEW c \in Carts, NEW q \in Quotes, NEW expired \in SUBSET lapsed,
             PreviewCheckout(c, q, expired)
      PROVE  HoldsFollowSales'
  <2>1. expired \in SUBSET HeldQuotes /\ expired \in SUBSET Quotes
    BY <1>2, LiveIsHeld DEF PreviewCheckout, TypeOK
  <2> SUFFICES ASSUME NEW p \in Quotes
               PROVE  /\ attempt'[p] # "none" <=> quote'[p].status = "consumed"
                      /\ order'[p] # "absent" <=> quote'[p].status = "consumed"
                      /\ reservation'[p] = "none" <=> quote'[p].status = "absent"
                      /\ reservation'[p] = "held" <=> Open(p)' \/ attempt'[p] \in {"pending", "unknown"}
                      /\ reservation'[p] = "consumed" <=> Captured(p)'
    BY DEF HoldsFollowSales
  <2>2. UNCHANGED <<order, attempt>>
    BY <1>2 DEF PreviewCheckout, sales
  <2>3. CASE p = q
    <3>1. reservation'[p] = "held" /\ quote'[p].status = "open"
      BY <1>2, <2>1, <2>3, ReleasedType, ClosedType DEF PreviewCheckout
    <3> QED
      BY <1>2, <2>2, <2>3, <3>1, LiveIsHeld DEF PreviewCheckout, HoldsFollowSales, Open, Captured
  <2>4. CASE p # q
    <3>1. /\ reservation'[p] = IF p \in expired THEN "released" ELSE reservation[p]
          /\ quote'[p].status = IF p \in expired /\ Open(p) THEN "expired" ELSE quote[p].status
      BY <1>2, <2>1, <2>4, ReleasedType, ClosedType DEF PreviewCheckout
    <3>2. p \in expired => Open(p)
      BY <1>2 DEF PreviewCheckout
    <3> QED
      BY <2>2, <3>1, <3>2 DEF HoldsFollowSales, Open, Captured
  <2> QED
    BY <2>3, <2>4
<1>3. ASSUME NEW q \in Quotes, NEW to \in {"expired", "released"}, Open(q),
             reservation' = Released({q}), quote' = Closed({q}, to), UNCHANGED <<order, attempt>>
      PROVE  HoldsFollowSales'
  <2>1. {q} \in SUBSET HeldQuotes
    BY <1>3, LiveIsHeld
  <2>2. \A p \in Quotes :
            /\ reservation'[p] = IF p = q THEN "released" ELSE reservation[p]
            /\ quote'[p].status = IF p = q THEN to ELSE quote[p].status
    BY <1>3, <2>1, ReleasedType, ClosedType
  <2> QED
    BY <1>3, <2>2 DEF HoldsFollowSales, Open, Captured
<1>4. ASSUME NEW k \in Keys, NEW q \in Quotes, PlaceOrder(k, q)
      PROVE  HoldsFollowSales'
  <2>1. \A p \in Quotes :
            /\ quote'[p].status = IF p = q THEN "consumed" ELSE quote[p].status
            /\ order'[p] = IF p = q THEN "payment_pending" ELSE order[p]
            /\ attempt'[p] = IF p = q THEN "pending" ELSE attempt[p]
    BY <1>4 DEF PlaceOrder, TypeOK, Quote
  <2>2. reservation' = reservation /\ Open(q)
    BY <1>4 DEF PlaceOrder
  <2> QED
    BY <2>1, <2>2 DEF HoldsFollowSales, Open, Captured
<1>5. ASSUME NEW q \in Quotes, NEW target \in OrderStatus, TransitionOrder(q, target)
      PROVE  HoldsFollowSales'
  <2>1. /\ order[q] # "absent" /\ target # "absent"
        /\ \A p \in Quotes : order'[p] = IF p = q THEN target ELSE order[p]
    BY <1>5 DEF TransitionOrder, OrderEdges, TypeOK
  <2> QED
    BY <1>5, <2>1 DEF TransitionOrder, HoldsFollowSales, Open, Captured
<1>6. ASSUME NEW q \in Quotes, NEW status \in {"succeeded", "failed", "unknown", "reconciled"},
             Settle(q, status)
      PROVE  HoldsFollowSales'
  <2>1. /\ attempt[q] \in {"pending", "unknown"}
        /\ order[q] # "absent"
        /\ PaymentOrderTarget[status] # "absent"
    BY <1>6 DEF Settle, Settles, PaymentEdges, OrderEdges
  <2>2. quote[q].status = "consumed" /\ reservation[q] = "held"
    BY <2>1 DEF HoldsFollowSales
  <2>3. \A p \in Quotes :
            /\ attempt'[p] = IF p = q THEN status ELSE attempt[p]
            /\ order'[p] = IF p = q THEN PaymentOrderTarget[status] ELSE order[p]
    BY <1>6 DEF Settle, TypeOK
  <2>4. CASE status \in {"succeeded", "reconciled"} /\ ConsumeReservations(q)
    <3>1. /\ \A p \in Quotes : reservation'[p] = IF p = q THEN "consumed" ELSE reservation[p]
          /\ quote' = quote
      BY <2>4 DEF ConsumeReservations, TypeOK
    <3> QED
      BY <2>1, <2>2, <2>3, <2>4, <3>1 DEF HoldsFollowSales, Open, Captured
  <2>5. CASE status = "failed" /\ ReleaseReservations(q)
    <3>1. {q} \in SUBSET HeldQuotes
      BY <2>1, LiveIsHeld
    <3>2. \A p \in Quotes :
            /\ reservation'[p] = IF p = q THEN "released" ELSE reservation[p]
            /\ quote'[p].status = quote[p].status
      BY <2>2, <2>5, <3>1, ReleasedType, ClosedType DEF ReleaseReservations, Open
    <3> QED
      BY <2>1, <2>2, <2>3, <2>5, <3>2 DEF HoldsFollowSales, Open, Captured
  <2>6. CASE status = "unknown" /\ UNCHANGED <<stock, reservation, quote, outdated>>
    BY <2>1, <2>2, <2>3, <2>6 DEF HoldsFollowSales, Open, Captured
  <2> QED
    BY <1>6, <2>4, <2>5, <2>6 DEF Settle
<1>7. ASSUME NEW q \in Quotes, ExpireQuote(q)
      PROVE  HoldsFollowSales'
  BY <1>3, <1>7 DEF ExpireQuote, sales
<1>8. ASSUME NEW k \in Keys, NEW q \in Quotes, RejectQuote(k, q)
      PROVE  HoldsFollowSales'
  BY <1>3, <1>8 DEF RejectQuote, sales
<1>9. ASSUME \/ \E s \in Skus, n \in 0..MaxStock : UpsertInventory(s, n)
             \/ \E c \in Carts : CreateCart(c)
             \/ \E c \in Carts, s \in Skus, n \in 0..MaxQuantity : SetCartLine(c, s, n)
             \/ \E q \in Quotes : Lapse(q)
             \/ \E q \in Quotes, k \in Keys : IssueRefund(q, k)
             \/ UNCHANGED vars
      PROVE  HoldsFollowSales'
  BY <1>1, <1>9 DEF UpsertInventory, CreateCart, SetCartLine, Lapse, IssueRefund, sales, vars
<1> QED
  BY <1>2, <1>4, <1>5, <1>6, <1>7, <1>8, <1>9
     DEF Next, RecordPaymentResult, ReconcilePayment

-----------------------------------------------------------------------------
(* The ledger.                                                             *)

LEMMA LedgerStep == IInv /\ [Next]_vars => LedgerFollowsPayments'
<1> SUFFICES ASSUME IInv, [Next]_vars
             PROVE  LedgerFollowsPayments'
  OBVIOUS
<1> USE DEF IInv
<1>1. CASE UNCHANGED <<attempt, ledger, refund>>
  BY <1>1 DEF LedgerFollowsPayments, Captured
<1>2. ASSUME NEW k \in Keys, NEW q \in Quotes, PlaceOrder(k, q)
      PROVE  LedgerFollowsPayments'
  <2>1. attempt[q] = "none" /\ UNCHANGED <<ledger, refund>>
    BY <1>2, LiveIsHeld DEF PlaceOrder
  <2>2. \A p \in Quotes : attempt'[p] = IF p = q THEN "pending" ELSE attempt[p]
    BY <1>2 DEF PlaceOrder, TypeOK
  <2> QED
    BY <2>1, <2>2 DEF LedgerFollowsPayments, Captured
<1>3. ASSUME NEW q \in Quotes, NEW status \in {"succeeded", "failed", "unknown", "reconciled"},
             Settle(q, status)
      PROVE  LedgerFollowsPayments'
  <2>1. attempt[q] \in {"pending", "unknown"} /\ refund' = refund
    BY <1>3 DEF Settle, Settles, PaymentEdges
  <2>2. \A p \in Quotes : attempt'[p] = IF p = q THEN status ELSE attempt[p]
    BY <1>3 DEF Settle, TypeOK
  <2>3. \A p \in Quotes, type \in {"payment", "reconciliation", "refund"} :
            <<p, type>> \in ledger' <=> <<p, type>> \in ledger \/ (p = q /\ type \in Posted(status))
    BY <1>3 DEF Settle
  <2>4. /\ "payment" \in Posted(status) <=> status = "succeeded"
        /\ "reconciliation" \in Posted(status) <=> status = "reconciled"
        /\ "refund" \notin Posted(status)
    BY DEF Posted
  <2> QED
    BY <2>1, <2>2, <2>3, <2>4 DEF LedgerFollowsPayments, Captured
<1>4. ASSUME NEW q \in Quotes, NEW k \in Keys, IssueRefund(q, k)
      PROVE  LedgerFollowsPayments'
  <2>1. /\ attempt' = attempt
        /\ \A p \in Quotes : refund'[p] = IF p = q THEN k ELSE refund[p]
        /\ \A p \in Quotes : refund[p] # k
        /\ Captured(q) /\ k # NoKey
    BY <1>4, NullAssumption DEF IssueRefund, TypeOK
  <2>2. \A p \in Quotes, type \in {"payment", "reconciliation", "refund"} :
            <<p, type>> \in ledger' <=> <<p, type>> \in ledger \/ (p = q /\ type = "refund")
    BY <1>4 DEF IssueRefund
  <2> QED
    BY <2>1, <2>2 DEF LedgerFollowsPayments, Captured
<1>5. ASSUME ~ (\E k \in Keys, q \in Quotes : PlaceOrder(k, q)),
             ~ (\E q \in Quotes, status \in {"succeeded", "failed", "unknown", "reconciled"} :
                    Settle(q, status)),
             ~ (\E q \in Quotes, k \in Keys : IssueRefund(q, k))
      PROVE  UNCHANGED <<attempt, ledger, refund>>
  BY <1>5 DEF Next, vars, UpsertInventory, CreateCart, SetCartLine, PreviewCheckout, Lapse,
              ExpireQuote, RejectQuote, TransitionOrder, RecordPaymentResult,
              ReconcilePayment, sales
<1> QED
  BY <1>1, <1>2, <1>3, <1>4, <1>5

-----------------------------------------------------------------------------
(* The idempotency records.                                                *)

\* What a written record says stays true: an order never vanishes and a closed
\* quote stays closed.
LEMMA SettledRecordsLast ==
    ASSUME IInv, [Next]_vars, NEW q \in Quotes
    PROVE  /\ order[q] # "absent" => order'[q] # "absent"
           /\ quote[q].status \in {"expired", "released"} =>
                /\ quote'[q].status = quote[q].status
                /\ reservation'[q] = reservation[q]
<1> USE DEF IInv
<1>1. CASE UNCHANGED <<quote, reservation, order>>
  BY <1>1
<1>2. ASSUME NEW c \in Carts, NEW p \in Quotes, NEW expired \in SUBSET lapsed,
             PreviewCheckout(c, p, expired), quote[q].status # "absent"
      PROVE  /\ order' = order
             /\ ~ Open(q) => quote'[q].status = quote[q].status /\ reservation'[q] = reservation[q]
  <2>1. expired \in SUBSET HeldQuotes /\ expired \in SUBSET Quotes /\ p # q
    BY <1>2, LiveIsHeld DEF PreviewCheckout, TypeOK
  <2>2. \A e \in expired : Open(e)
    BY <1>2 DEF PreviewCheckout
  <2> QED
    BY <1>2, <2>1, <2>2, ReleasedType, ClosedType DEF PreviewCheckout, sales
<1>3. ASSUME NEW p \in Quotes, NEW to \in {"expired", "released"}, p \in HeldQuotes,
             reservation' = Released({p}), quote' = Closed({p}, to),
             ~ Open(q), reservation[q] # "held"
      PROVE  quote'[q].status = quote[q].status /\ reservation'[q] = reservation[q]
  BY <1>3, ReleasedType, ClosedType DEF HeldQuotes
<1>4. ASSUME NEW k \in Keys, NEW p \in Quotes, PlaceOrder(k, p)
      PROVE  /\ order'[q] # "absent" \/ order'[q] = order[q]
             /\ ~ Open(q) => quote'[q].status = quote[q].status
             /\ reservation' = reservation
  BY <1>4 DEF PlaceOrder, TypeOK, Quote
<1>5. ASSUME NEW p \in Quotes, NEW target \in OrderStatus, TransitionOrder(p, target)
      PROVE  /\ UNCHANGED <<quote, reservation>>
             /\ order'[q] # "absent" \/ order'[q] = order[q]
  BY <1>5 DEF TransitionOrder, OrderEdges, TypeOK
<1>6. ASSUME NEW p \in Quotes, NEW status \in {"succeeded", "failed", "unknown", "reconciled"},
             Settle(p, status), ~ Open(q)
      PROVE  /\ order'[q] # "absent" \/ order'[q] = order[q]
             /\ reservation[q] # "held" =>
                  quote'[q].status = quote[q].status /\ reservation'[q] = reservation[q]
  <2>1. p \in HeldQuotes
    BY <1>6, LiveIsHeld DEF Settle, Settles, PaymentEdges
  <2>2. order'[q] # "absent" \/ order'[q] = order[q]
    BY <1>6 DEF Settle, PaymentOrderTarget, TypeOK
  <2>3. CASE ConsumeReservations(p)
    BY <2>1, <2>2, <2>3 DEF ConsumeReservations, TypeOK, HeldQuotes
  <2>4. CASE ReleaseReservations(p)
    BY <1>3, <1>6, <2>1, <2>2, <2>4 DEF ReleaseReservations, HeldQuotes
  <2>5. CASE UNCHANGED <<stock, reservation, quote, outdated>>
    BY <2>2, <2>5
  <2> QED
    BY <1>6, <2>3, <2>4, <2>5 DEF Settle
<1>7. order[q] # "absent" => quote[q].status = "consumed"
  BY DEF HoldsFollowSales
<1>8. quote[q].status \in {"expired", "released"} =>
        ~ Open(q) /\ reservation[q] # "held" /\ order[q] = "absent"
  BY DEF HoldsFollowSales, Open
<1>9. ASSUME NEW p \in Quotes, Open(p)
      PROVE  p \in HeldQuotes
  BY <1>9, LiveIsHeld
<1>10. ASSUME NEW p \in Quotes, ExpireQuote(p)
       PROVE  /\ order' = order
              /\ quote[q].status \in {"expired", "released"} =>
                   quote'[q].status = quote[q].status /\ reservation'[q] = reservation[q]
  BY <1>3, <1>8, <1>9, <1>10 DEF ExpireQuote, sales
<1>11. ASSUME NEW k \in Keys, NEW p \in Quotes, RejectQuote(k, p)
       PROVE  /\ order' = order
              /\ quote[q].status \in {"expired", "released"} =>
                   quote'[q].status = quote[q].status /\ reservation'[q] = reservation[q]
  BY <1>3, <1>8, <1>9, <1>11 DEF RejectQuote, sales
<1>12. ASSUME \/ \E s \in Skus, n \in 0..MaxStock : UpsertInventory(s, n)
              \/ \E c \in Carts : CreateCart(c)
              \/ \E c \in Carts, s \in Skus, n \in 0..MaxQuantity : SetCartLine(c, s, n)
              \/ \E p \in Quotes : Lapse(p)
              \/ \E p \in Quotes, k \in Keys : IssueRefund(p, k)
              \/ UNCHANGED vars
       PROVE  UNCHANGED <<quote, reservation, order>>
  BY <1>12 DEF UpsertInventory, CreateCart, SetCartLine, Lapse, IssueRefund, sales, vars
<1>13. CASE order[q] # "absent" \/ quote[q].status \in {"expired", "released"}
  <2>1. quote[q].status # "absent" /\ ~ Open(q)
    BY <1>7, <1>8, <1>13 DEF Open
  <2> QED
    BY <1>1, <1>2, <1>4, <1>5, <1>6, <1>7, <1>8, <1>10, <1>11, <1>12, <2>1
       DEF Next, RecordPaymentResult, ReconcilePayment
<1> QED
  BY <1>13

\* No order is made without a record: only PlaceOrder makes one.
LEMMA OrderMakers ==
    ASSUME IInv, [Next]_vars, NEW q \in Quotes, order[q] = "absent", order'[q] # "absent"
    PROVE  \E k \in Keys : PlaceOrder(k, q)
<1>0. order \in [Quotes -> OrderStatus]
  BY DEF IInv, TypeOK
<1>1. ASSUME NEW k \in Keys, NEW p \in Quotes, PlaceOrder(k, p)
      PROVE  p = q
  BY <1>0, <1>1 DEF PlaceOrder
<1>2. ASSUME NEW p \in Quotes, NEW target \in OrderStatus, TransitionOrder(p, target)
      PROVE  FALSE
  <2>1. order[p] # "absent"
    BY <1>2 DEF TransitionOrder, OrderEdges
  <2>2. order'[q] = order[q]
    BY <1>0, <1>2, <2>1 DEF TransitionOrder
  <2> QED
    BY <2>2
<1>3. ASSUME NEW p \in Quotes, NEW status \in {"succeeded", "failed", "unknown", "reconciled"},
             Settle(p, status)
      PROVE  FALSE
  <2>1. order[p] # "absent"
    BY <1>3 DEF Settle, Settles, OrderEdges
  <2>2. order'[q] = order[q]
    BY <1>0, <1>3, <2>1 DEF Settle
  <2> QED
    BY <2>2
<1> QED
  BY <1>1, <1>2, <1>3
     DEF Next, vars, UpsertInventory, CreateCart, SetCartLine, PreviewCheckout, Lapse,
         ExpireQuote, RejectQuote, RecordPaymentResult, ReconcilePayment, IssueRefund, sales

LEMMA KeysStep == IInv /\ [Next]_vars => KeysNameQuotes' /\ KeysFollowOrders'
<1> SUFFICES ASSUME IInv, [Next]_vars
             PROVE  KeysNameQuotes' /\ KeysFollowOrders'
  OBVIOUS
<1>1. CASE UNCHANGED prepared
  <2>1. KeysNameQuotes'
    BY <1>1 DEF IInv, KeysNameQuotes
  <2>2. ASSUME NEW q \in Quotes
        PROVE  order'[q] # "absent" <=> order[q] # "absent"
    <3>1. CASE order[q] = "absent" /\ order'[q] # "absent"
      <4>1. PICK k \in Keys : PlaceOrder(k, q)
        BY <3>1, OrderMakers
      <4>2. prepared[k].status = "absent" /\ prepared'[k].status = "success"
        BY <4>1 DEF PlaceOrder, IInv, TypeOK
      <4> QED
        BY <1>1, <4>2
    <3> QED
      BY <3>1, SettledRecordsLast
  <2> QED
    BY <1>1, <2>1, <2>2, SettledRecordsLast DEF IInv, KeysNameQuotes, KeysFollowOrders
<1>2. ASSUME NEW k \in Keys, NEW q \in Quotes, PlaceOrder(k, q)
      PROVE  KeysNameQuotes' /\ KeysFollowOrders'
  <2>1. /\ \A j \in Keys :
             prepared'[j] = IF j = k THEN [status |-> "success", quote |-> q] ELSE prepared[j]
        /\ \A p \in Quotes : order'[p] = IF p = q THEN "payment_pending" ELSE order[p]
        /\ prepared[k].status = "absent"
    BY <1>2 DEF PlaceOrder, IInv, TypeOK
  <2>2. order[q] = "absent"
    BY <1>2, LiveIsHeld DEF PlaceOrder, IInv
  <2>3. KeysNameQuotes'
    BY <2>1 DEF IInv, KeysNameQuotes
  <2>4. ASSUME NEW j \in Keys
        PROVE  /\ prepared'[j].status = "success" => order'[prepared'[j].quote] # "absent"
               /\ prepared'[j].status = "failure" =>
                    /\ quote'[prepared'[j].quote].status \in {"expired", "released"}
                    /\ reservation'[prepared'[j].quote] = "released"
    <3>1. CASE j = k
      BY <2>1, <3>1
    <3>2. CASE j # k
      BY <2>1, <3>2, SettledRecordsLast DEF IInv, KeysNameQuotes, KeysFollowOrders
    <3> QED
      BY <3>1, <3>2
  <2>5. ASSUME NEW p \in Quotes, order'[p] # "absent"
        PROVE  \E i \in Keys : \A j \in Keys :
                    prepared'[j] = [status |-> "success", quote |-> p] <=> j = i
    <3>1. CASE p = q
      <4>1. \A j \in Keys : prepared[j] # [status |-> "success", quote |-> q]
        BY <2>2 DEF IInv, KeysFollowOrders
      <4>2. \A j \in Keys : prepared'[j] = [status |-> "success", quote |-> q] <=> j = k
        BY <2>1, <4>1
      <4> QED
        BY <3>1, <4>2
    <3>2. CASE p # q
      <4>1. order[p] # "absent"
        BY <2>1, <2>5, <3>2
      <4>2. PICK i \in Keys : \A j \in Keys :
                    prepared[j] = [status |-> "success", quote |-> p] <=> j = i
        BY <4>1 DEF IInv, KeysFollowOrders
      <4>3. i # k
        BY <2>1, <4>2
      <4>4. \A j \in Keys : prepared'[j] = [status |-> "success", quote |-> p] <=> j = i
        BY <2>1, <3>2, <4>2, <4>3
      <4> QED
        BY <4>4
    <3> QED
      BY <3>1, <3>2
  <2> QED
    BY <2>3, <2>4, <2>5 DEF KeysFollowOrders
<1>3. ASSUME NEW k \in Keys, NEW q \in Quotes, RejectQuote(k, q)
      PROVE  KeysNameQuotes' /\ KeysFollowOrders'
  <2>1. /\ \A j \in Keys :
             prepared'[j] = IF j = k THEN [status |-> "failure", quote |-> q] ELSE prepared[j]
        /\ order' = order
        /\ prepared[k].status = "absent"
    BY <1>3 DEF RejectQuote, IInv, TypeOK, sales
  <2>2. {q} \in SUBSET HeldQuotes /\ Open(q)
    BY <1>3, LiveIsHeld DEF RejectQuote, IInv
  <2>3. quote'[q].status \in {"expired", "released"} /\ reservation'[q] = "released"
    BY <1>3, <2>2, ReleasedType, ClosedType DEF RejectQuote, IInv
  <2>4. KeysNameQuotes'
    BY <2>1 DEF IInv, KeysNameQuotes
  <2>5. ASSUME NEW j \in Keys
        PROVE  /\ prepared'[j].status = "success" => order'[prepared'[j].quote] # "absent"
               /\ prepared'[j].status = "failure" =>
                    /\ quote'[prepared'[j].quote].status \in {"expired", "released"}
                    /\ reservation'[prepared'[j].quote] = "released"
    <3>1. CASE j = k
      BY <2>1, <2>3, <3>1
    <3>2. CASE j # k
      BY <2>1, <3>2, SettledRecordsLast DEF IInv, KeysNameQuotes, KeysFollowOrders
    <3> QED
      BY <3>1, <3>2
  <2>6. ASSUME NEW p \in Quotes, order'[p] # "absent"
        PROVE  \E i \in Keys : \A j \in Keys :
                    prepared'[j] = [status |-> "success", quote |-> p] <=> j = i
    <3>1. PICK i \in Keys : \A j \in Keys :
                    prepared[j] = [status |-> "success", quote |-> p] <=> j = i
      BY <2>1, <2>6 DEF IInv, KeysFollowOrders
    <3>2. i # k
      BY <2>1, <3>1
    <3>3. \A j \in Keys : prepared'[j] = [status |-> "success", quote |-> p] <=> j = i
      BY <2>1, <3>1, <3>2
    <3> QED
      BY <3>3
  <2> QED
    BY <2>4, <2>5, <2>6 DEF KeysFollowOrders
<1>4. ASSUME ~ (\E k \in Keys, q \in Quotes : PlaceOrder(k, q) \/ RejectQuote(k, q))
      PROVE  UNCHANGED prepared
  BY <1>4 DEF Next, vars, UpsertInventory, CreateCart, SetCartLine, PreviewCheckout, Lapse,
              ExpireQuote, TransitionOrder, RecordPaymentResult, ReconcilePayment, Settle,
              IssueRefund
<1> QED
  BY <1>1, <1>2, <1>3, <1>4

-----------------------------------------------------------------------------
(* The theorems.                                                           *)

\* IInv is inductive: it holds at first and every transaction keeps it.
THEOREM Inductive == Spec => []IInv
<1>1. IInv /\ [Next]_vars => IInv'
  BY TypeStep, StockStep, HoldsStep, LedgerStep, KeysStep DEF IInv
<1> QED
  BY <1>1, InitIInv, PTL DEF Spec

\* Every column keeps its type; in particular no sale makes a stock negative.
THEOREM TypeCorrect == Spec => []TypeOK
BY Inductive, PTL DEF IInv

\* The reserved counter is always the number of held units and within the stock.
THEOREM StockIsConserved == Spec => []StockConserved
BY Inductive, PTL DEF IInv

\* Stock is held, consumed and released with the quote and the payment, and with
\* nothing else: the hold of an order cancelled before it was paid never ends.
THEOREM HoldsFollow == Spec => []HoldsFollowSales
BY Inductive, PTL DEF IInv

\* The postings are those of the payments and refunds, one of each at most.
THEOREM LedgerFollows == Spec => []LedgerFollowsPayments
BY Inductive, PTL DEF IInv

\* An idempotent replay of prepare_checkout tells what happened to its quote.
THEOREM KeysFollow == Spec => []KeysFollowOrders
BY Inductive, PTL DEF IInv

\* A settled attempt, or one whose order was cancelled, is never settled again.
THEOREM SettledIsFinal == Spec => SettledStaysSettled
<1> DEFINE Settled(q) == attempt[q] \in {"succeeded", "failed", "reconciled"} \/ order[q] = "cancelled"
           Kept(q) == /\ attempt'[q] = attempt[q]
                      /\ reservation'[q] = reservation[q]
                      /\ \A type \in {"payment", "reconciliation"} :
                            <<q, type>> \in ledger' <=> <<q, type>> \in ledger
<1>1. ASSUME IInv, [Next]_vars, NEW q \in Quotes, Settled(q)
      PROVE  Kept(q)
  <2> USE DEF IInv
  <2>1. quote[q].status = "consumed" /\ ~ Open(q)
    BY <1>1 DEF HoldsFollowSales, Open
  <2>2. CASE UNCHANGED <<attempt, reservation, ledger>>
    BY <2>2
  <2>3. ASSUME NEW c \in Carts, NEW p \in Quotes, NEW expired \in SUBSET lapsed,
               PreviewCheckout(c, p, expired)
        PROVE  Kept(q)
    <3>1. expired \in SUBSET HeldQuotes /\ p # q /\ q \notin expired
      BY <1>1, <2>1, <2>3, LiveIsHeld DEF PreviewCheckout, TypeOK
    <3> QED
      BY <1>1, <2>3, <3>1, ReleasedType DEF PreviewCheckout, sales
  <2>4. ASSUME NEW p \in Quotes, Open(p), reservation' = Released({p}),
               UNCHANGED <<attempt, ledger>>
        PROVE  Kept(q)
    <3>1. {p} \in SUBSET HeldQuotes /\ p # q
      BY <1>1, <2>1, <2>4, LiveIsHeld
    <3> QED
      BY <1>1, <2>4, <3>1, ReleasedType
  <2>5. ASSUME NEW k \in Keys, NEW p \in Quotes, PlaceOrder(k, p)
        PROVE  Kept(q)
    BY <1>1, <2>1, <2>5 DEF PlaceOrder, TypeOK
  <2>6. ASSUME NEW p \in Quotes, NEW status \in {"succeeded", "failed", "unknown", "reconciled"},
               Settle(p, status)
        PROVE  Kept(q)
    <3>1. p # q
      BY <1>1, <2>6 DEF Settle, Settles, PaymentEdges, OrderEdges
    <3>2. attempt'[q] = attempt[q]
      BY <1>1, <2>6, <3>1 DEF Settle, TypeOK
    <3>3. \A type \in {"payment", "reconciliation"} : <<q, type>> \in ledger' <=> <<q, type>> \in ledger
      BY <2>6, <3>1 DEF Settle
    <3>4. {p} \in SUBSET HeldQuotes
      BY <1>1, <2>6, LiveIsHeld DEF Settle, Settles, PaymentEdges
    <3>5. reservation'[q] = reservation[q]
      BY <1>1, <2>6, <3>1, <3>4, ReleasedType
         DEF Settle, ConsumeReservations, ReleaseReservations, TypeOK
    <3> QED
      BY <3>2, <3>3, <3>5
  <2>7. ASSUME NEW p \in Quotes, NEW k \in Keys, IssueRefund(p, k)
        PROVE  Kept(q)
    BY <2>7 DEF IssueRefund
  <2>8. ASSUME NEW p \in Quotes, ExpireQuote(p)
        PROVE  Kept(q)
    BY <2>4, <2>8 DEF ExpireQuote, sales
  <2>9. ASSUME NEW k \in Keys, NEW p \in Quotes, RejectQuote(k, p)
        PROVE  Kept(q)
    BY <2>4, <2>9 DEF RejectQuote, sales
  <2>10. ASSUME \/ \E s \in Skus, n \in 0..MaxStock : UpsertInventory(s, n)
                \/ \E c \in Carts : CreateCart(c)
                \/ \E c \in Carts, s \in Skus, n \in 0..MaxQuantity : SetCartLine(c, s, n)
                \/ \E p \in Quotes : Lapse(p)
                \/ \E p \in Quotes, target \in OrderStatus : TransitionOrder(p, target)
                \/ UNCHANGED vars
         PROVE  UNCHANGED <<attempt, reservation, ledger>>
    BY <2>10 DEF UpsertInventory, CreateCart, SetCartLine, Lapse, TransitionOrder, sales, vars
  <2> QED
    BY <1>1, <2>2, <2>3, <2>5, <2>6, <2>7, <2>8, <2>9, <2>10
       DEF Next, RecordPaymentResult, ReconcilePayment
<1>2. IInv /\ [Next]_vars => [\A q \in Quotes : Settled(q) => Kept(q)]_vars
  BY <1>1
<1> QED
  BY <1>2, Inductive, PTL DEF Spec, SettledStaysSettled

-----------------------------------------------------------------------------
(* Commerce implements Purchase.                                           *)

LEMMA StageFacts ==
    ASSUME IInv, NEW q \in Quotes
    PROVE  /\ Stage(q) = "held" <=> q \in HeldQuotes
           /\ Stage(q) = "none" <=> quote[q].status = "absent"
           /\ Stage(q) = "sold" <=> Captured(q) /\ refund[q] = NoKey
           /\ refund[q] # NoKey => Captured(q)
BY DEF IInv, Stage, HoldsFollowSales, LedgerFollowsPayments, HeldQuotes, TypeOK,
       ReservationStatus

\* A purchase whose rows are left alone keeps its stage.
LEMMA StageKept ==
    ASSUME NEW q \in Quotes, reservation'[q] = reservation[q], refund'[q] = refund[q]
    PROVE  Stage(q)' = Stage(q)
BY DEF Stage

LEMMA AbstractUnits ==
    ASSUME NEW ps \in SUBSET Quotes, NEW s \in Skus
    PROVE  Abstract!Units(ps, s) = UnitSet(Quantity(s), ps)
BY DEF Abstract!Units, UnitSet, Quantity

LEMMA SameCardinality == ASSUME NEW S PROVE Abstract!Cardinality(S) = Cardinality(S)
BY DEF Abstract!Cardinality, Cardinality

\* What Purchase counts is what the counter caches.
LEMMA AbstractHeld ==
    ASSUME IInv, NEW s \in Skus
    PROVE  /\ Abstract!HeldUnits(s) = reserved[s]
           /\ \A es \in SUBSET HeldQuotes :
                Abstract!HeldUnits(s) - Cardinality(Abstract!Units(es, s)) = ReservedWithout(es)[s]
<1>1. HeldQuotes \in SUBSET Quotes
  BY DEF HeldQuotes
<1>2. {q \in Quotes : [p \in Quotes |-> Stage(p)][q] = "held"} = HeldQuotes
  BY <1>1, StageFacts
<1>3. Abstract!HeldUnits(s) = Cardinality(UnitSet(Quantity(s), HeldQuotes))
  BY <1>1, <1>2, AbstractUnits, SameCardinality DEF Abstract!HeldUnits
<1>4. reserved[s] = Cardinality(UnitSet(Quantity(s), HeldQuotes))
  BY StockAsUnitSets DEF IInv
<1>5. ASSUME NEW es \in SUBSET HeldQuotes
      PROVE  Cardinality(Abstract!Units(es, s)) = Cardinality(Units(es, s))
  BY <1>1, <1>5, AbstractUnits, UnitsAreUnitSets
<1> QED
  BY <1>3, <1>4, <1>5 DEF ReservedWithout

LEMMA AbstractInit == Init => Abstract!Init
<1> SUFFICES ASSUME Init
             PROVE  Abstract!Init
  OBVIOUS
<1>1. \A q \in Quotes : Stage(q) = "none"
  BY DEF Init, Stage
<1> QED
  BY <1>1 DEF Init, Abstract!Init, Nothing, Abstract!Nothing

\* One held purchase is dropped.
LEMMA DropRefines ==
    ASSUME IInv, NEW q \in HeldQuotes, NEW to \in {"expired", "released"},
           reservation' = Released({q}), quote' = Closed({q}, to),
           UNCHANGED <<available, refund>>
    PROVE  Abstract!Next
<1>1. q \in Quotes /\ {q} \in SUBSET HeldQuotes
  BY DEF HeldQuotes
<1>2. Stage(q) = "held" /\ refund[q] = NoKey
  BY <1>1, StageFacts DEF HeldQuotes, IInv, HoldsFollowSales
<1>3. \A p \in Quotes : reservation'[p] = IF p = q THEN "released" ELSE reservation[p]
  BY <1>1, ReleasedType DEF IInv
<1>4. \A p \in Quotes : Stage(p)' = IF p = q THEN "dropped" ELSE Stage(p)
  BY <1>1, <1>2, <1>3 DEF Stage
<1>5. \A p \in Quotes : quote'[p].lines = quote[p].lines
  BY <1>1, ClosedType DEF IInv
<1>6. Abstract!Drop(q)
  BY <1>1, <1>2, <1>4, <1>5 DEF Abstract!Drop
<1> QED
  BY <1>1, <1>6 DEF Abstract!Next

\* Nothing a purchase promises about changes.
LEMMA StutterRefines ==
    ASSUME UNCHANGED <<available, reservation, refund>>,
           \A q \in Quotes : quote'[q].lines = quote[q].lines
    PROVE  UNCHANGED <<available, [q \in Quotes |-> Stage(q)], [q \in Quotes |-> quote[q].lines]>>
BY DEF Stage

LEMMA SettleRefines ==
    ASSUME IInv, NEW q \in Quotes, NEW status \in {"succeeded", "failed", "unknown", "reconciled"},
           Settle(q, status)
    PROVE  \/ Abstract!Next
           \/ UNCHANGED <<available, [p \in Quotes |-> Stage(p)], [p \in Quotes |-> quote[p].lines]>>
<1>1. q \in HeldQuotes /\ refund' = refund
  BY LiveIsHeld DEF Settle, Settles, PaymentEdges, IInv
<1>2. Stage(q) = "held" /\ refund[q] = NoKey
  BY <1>1, StageFacts DEF HeldQuotes, IInv, HoldsFollowSales
<1>3. CASE ConsumeReservations(q)
  <2>1. \A p \in Quotes : reservation'[p] = IF p = q THEN "consumed" ELSE reservation[p]
    BY <1>3 DEF ConsumeReservations, IInv, TypeOK
  <2>2. \A p \in Quotes : Stage(p)' = IF p = q THEN "sold" ELSE Stage(p)
    BY <1>1, <1>2, <2>1 DEF Stage
  <2>3. Abstract!Sell(q)
    BY <1>2, <1>3, <2>2 DEF Abstract!Sell, ConsumeReservations
  <2> QED
    BY <2>3 DEF Abstract!Next
<1>4. CASE ReleaseReservations(q)
  BY <1>1, <1>4, DropRefines DEF ReleaseReservations
<1>5. CASE UNCHANGED <<stock, reservation, quote, outdated>>
  BY <1>1, <1>5, StutterRefines DEF stock
<1> QED
  BY <1>3, <1>4, <1>5 DEF Settle

LEMMA PreviewRefines ==
    ASSUME IInv, NEW c \in Carts, NEW q \in Quotes, NEW expired \in SUBSET lapsed,
           PreviewCheckout(c, q, expired)
    PROVE  Abstract!Next
<1> USE DEF IInv
<1>1. expired \in SUBSET HeldQuotes /\ expired \in SUBSET Quotes
  BY LiveIsHeld DEF PreviewCheckout, TypeOK
<1>2. Stage(q) = "none" /\ refund[q] = NoKey /\ q \notin expired
  BY StageFacts, LiveIsHeld DEF PreviewCheckout, Captured, Open
<1>3. \A e \in expired : Stage(e) = "held" /\ refund[e] = NoKey
  BY <1>1, StageFacts DEF HeldQuotes, HoldsFollowSales
<1>4. cart[c].lines \in Lines /\ cart[c].lines # Nothing
  BY DEF PreviewCheckout, TypeOK, Cart
<1>5. \A s \in Skus :
        Abstract!HeldUnits(s) - Cardinality(Abstract!Units(expired, s)) + cart[c].lines[s] <= available[s]
  <2> SUFFICES ASSUME NEW s \in Skus
               PROVE  Abstract!HeldUnits(s) - Cardinality(Abstract!Units(expired, s))
                        + cart[c].lines[s] <= available[s]
    OBVIOUS
  <2>1. Abstract!HeldUnits(s) - Cardinality(Abstract!Units(expired, s)) = ReservedWithout(expired)[s]
    BY <1>1, AbstractHeld
  <2>2. ReservedWithout(expired)[s] \in 0..MaxStock
    BY <1>1, ReservedWithoutType
  <2>3. cart[c].lines[s] \in 0..MaxQuantity /\ available[s] \in 0..MaxStock
    BY <1>4 DEF Lines, TypeOK
  <2>4. cart[c].lines[s] <= available[s] - ReservedWithout(expired)[s]
    BY DEF PreviewCheckout, Fits
  <2>5. ReservedWithout(expired)[s] + cart[c].lines[s] <= available[s]
    BY <2>2, <2>3, <2>4, BoundAssumption
  <2> QED
    BY <2>1, <2>5
<1>6. \A p \in Quotes : reservation'[p] =
        IF p = q THEN "held" ELSE IF p \in expired THEN "released" ELSE reservation[p]
  BY <1>1, ReleasedType DEF PreviewCheckout
<1>7. \A p \in Quotes : Stage(p)' =
        IF p = q THEN "held" ELSE IF p \in expired THEN "dropped" ELSE Stage(p)
  BY <1>2, <1>3, <1>6 DEF Stage, PreviewCheckout, sales
<1>8. \A p \in Quotes : quote'[p].lines = IF p = q THEN cart[c].lines ELSE quote[p].lines
  BY <1>1, ClosedType DEF PreviewCheckout
<1>9. [x \in Quotes |-> quote[x].lines]'
         = [[x \in Quotes |-> quote[x].lines] EXCEPT ![q] = cart[c].lines]
  BY <1>8
<1>10. Abstract!Hold(q, cart[c].lines, expired)
  BY <1>1, <1>2, <1>3, <1>4, <1>5, <1>7, <1>9, SameCardinality
     DEF Abstract!Hold, Nothing, Abstract!Nothing, PreviewCheckout
<1> QED
  BY <1>1, <1>4, <1>10 DEF Abstract!Next, Lines, Abstract!Lines

\* Every transaction is a step of Purchase or changes nothing it talks about.
LEMMA StepRefines ==
    ASSUME IInv, [Next]_vars
    PROVE  \/ Abstract!Next
           \/ UNCHANGED <<available, [q \in Quotes |-> Stage(q)], [q \in Quotes |-> quote[q].lines]>>
<1>1. ASSUME NEW s \in Skus, NEW n \in 0..MaxStock, UpsertInventory(s, n)
      PROVE  Abstract!Next
  <2>1. UNCHANGED <<[q \in Quotes |-> Stage(q)], [q \in Quotes |-> quote[q].lines]>>
    BY <1>1 DEF UpsertInventory, Stage, sales
  <2>2. Abstract!HeldUnits(s) <= n
    BY <1>1, AbstractHeld DEF UpsertInventory, IInv, TypeOK
  <2>3. Abstract!Restock(s, n)
    BY <1>1, <2>1, <2>2 DEF Abstract!Restock, UpsertInventory
  <2> QED
    BY <2>3 DEF Abstract!Next
<1>2. ASSUME NEW q \in Quotes, ExpireQuote(q)
      PROVE  Abstract!Next
  BY <1>2, LiveIsHeld, DropRefines DEF ExpireQuote, IInv, sales
<1>3. ASSUME NEW k \in Keys, NEW q \in Quotes, RejectQuote(k, q)
      PROVE  Abstract!Next
  BY <1>3, LiveIsHeld, DropRefines DEF RejectQuote, IInv, sales
<1>4. ASSUME NEW k \in Keys, NEW q \in Quotes, PlaceOrder(k, q)
      PROVE  UNCHANGED <<available, [p \in Quotes |-> Stage(p)], [p \in Quotes |-> quote[p].lines]>>
  <2>1. \A p \in Quotes : quote'[p].lines = quote[p].lines
    BY <1>4 DEF PlaceOrder, IInv, TypeOK, Quote
  <2> QED
    BY <1>4, <2>1, StutterRefines DEF PlaceOrder, stock
<1>5. ASSUME NEW q \in Quotes, NEW k \in Keys, IssueRefund(q, k)
      PROVE  Abstract!Next
  <2>1. \A p \in Quotes : refund'[p] = IF p = q THEN k ELSE refund[p]
    BY <1>5 DEF IssueRefund, IInv, TypeOK
  <2>2. Stage(q) = "sold" /\ k # NoKey
    BY <1>5, StageFacts, NullAssumption DEF IssueRefund
  <2>3. \A p \in Quotes : Stage(p)' = IF p = q THEN "refunded" ELSE Stage(p)
    BY <1>5, <2>1, <2>2 DEF Stage, IssueRefund
  <2>4. Abstract!Refund(q)
    BY <1>5, <2>2, <2>3 DEF Abstract!Refund, IssueRefund, stock
  <2> QED
    BY <2>4 DEF Abstract!Next
<1>6. ASSUME \/ \E c \in Carts : CreateCart(c)
             \/ \E c \in Carts, s \in Skus, n \in 0..MaxQuantity : SetCartLine(c, s, n)
             \/ \E q \in Quotes : Lapse(q)
             \/ \E q \in Quotes, target \in OrderStatus : TransitionOrder(q, target)
             \/ UNCHANGED vars
      PROVE  UNCHANGED <<available, [q \in Quotes |-> Stage(q)], [q \in Quotes |-> quote[q].lines]>>
  BY <1>6, StutterRefines
     DEF CreateCart, SetCartLine, Lapse, TransitionOrder, sales, stock, vars
<1> QED
  BY <1>1, <1>2, <1>3, <1>4, <1>5, <1>6, SettleRefines, PreviewRefines
     DEF Next, RecordPaymentResult, ReconcilePayment

\* The commerce tables implement Purchase for every stock, cart and quantity.
THEOREM CommerceImplementsPurchase == Spec => ImplementsPurchase
<1>1. IInv /\ [Next]_vars =>
        [Abstract!Next]_<<available, [q \in Quotes |-> Stage(q)], [q \in Quotes |-> quote[q].lines]>>
  BY StepRefines
<1> QED
  BY <1>1, AbstractInit, Inductive, PTL DEF Spec, ImplementsPurchase, Abstract!Spec

=============================================================================
