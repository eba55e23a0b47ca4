-------------------------- MODULE FileGuardProofs ---------------------------
(***************************************************************************)
(* What FileGuard keeps for every number of approvals, keys, orders and    *)
(* mandates and for every set of requests, wherever a handler dies between *)
(* its saves.  The invariant is stated of a guard file and a store file,   *)
(* so that it can be shown of every prefix of a handler's saves; money is  *)
(* counted where the handler ends, since a restart empties the adapter.    *)
(***************************************************************************)
EXTENDS FileGuard, FiniteSetTheorems, TLAPS

-----------------------------------------------------------------------------
(* Counting rupees: what becomes of a sum when a row comes or grows.       *)

Purse(x, n) == {x} \X (1..n)

LEMMA PurseCounted ==
    ASSUME NEW x, NEW n \in Nat
    PROVE  IsFiniteSet(Purse(x, n)) /\ Cardinality(Purse(x, n)) = n
  <1>1. IsFiniteSet(1..n) /\ Cardinality(1..n) = n
    BY FS_Interval
  <1>2. IsFiniteSet({x}) /\ Cardinality({x}) = 1
    BY FS_Singleton
  <1> QED BY <1>1, <1>2, FS_Product DEF Purse

LEMMA RupeesFinite ==
    ASSUME NEW rows, IsFiniteSet(rows), NEW amount, \A x \in rows : amount[x] \in Nat
    PROVE  /\ IsFiniteSet(RupeesOf(rows, amount))
           /\ Cardinality(RupeesOf(rows, amount)) \in Nat
  <1> DEFINE purse == [x \in rows |-> Purse(x, amount[x])]
             purses == {purse[x] : x \in rows}
  <1>1. purse \in Surjection(rows, purses)
    BY DEF Surjection
  <1>2. IsFiniteSet(purses)
    BY <1>1, FS_Surjection
  <1>3. \A s \in purses : IsFiniteSet(s)
    BY PurseCounted
  <1>4. RupeesOf(rows, amount) = UNION purses
    BY DEF RupeesOf, Purse
  <1>5. IsFiniteSet(UNION purses)
    BY <1>2, <1>3, FS_UNION
  <1> QED BY <1>4, <1>5, FS_CardinalityType

\* One row apart, the others count as they did.
LEMMA RupeesApart ==
    ASSUME NEW rows, IsFiniteSet(rows), NEW amount, \A y \in rows : amount[y] \in Nat,
           NEW x \in rows
    PROVE  Cardinality(RupeesOf(rows, amount))
               = Cardinality(RupeesOf(rows \ {x}, amount)) + amount[x]
  <1> DEFINE rest == RupeesOf(rows \ {x}, amount)
  <1>1. IsFiniteSet(rows \ {x})
    BY FS_RemoveElement
  <1>2. IsFiniteSet(rest) /\ Cardinality(rest) \in Nat
    BY <1>1, RupeesFinite
  <1>3. IsFiniteSet(Purse(x, amount[x])) /\ Cardinality(Purse(x, amount[x])) = amount[x]
    BY PurseCounted
  <1>4. RupeesOf(rows, amount) = rest \cup Purse(x, amount[x])
    BY DEF RupeesOf, Purse
  <1>5. rest \cap Purse(x, amount[x]) = {}
    BY DEF RupeesOf, Purse
  <1>6. Cardinality(rest \cap Purse(x, amount[x])) = 0
    BY <1>5, FS_EmptySet
  <1>7. Cardinality(rest \cup Purse(x, amount[x]))
            = Cardinality(rest) + amount[x] - Cardinality(rest \cap Purse(x, amount[x]))
    BY <1>2, <1>3, FS_Union
  <1>8. amount[x] \in Nat
    OBVIOUS
  <1> HIDE DEF rest
  <1>9. Cardinality(RupeesOf(rows, amount)) = Cardinality(rest) + amount[x]
    BY <1>2, <1>4, <1>6, <1>7, <1>8
  <1> QED BY <1>9 DEF rest

LEMMA RupeesSame ==
    ASSUME NEW rows, NEW before, NEW after, \A y \in rows : before[y] = after[y]
    PROVE  RupeesOf(rows, before) = RupeesOf(rows, after)
  BY DEF RupeesOf

\* One row counts n more.
LEMMA RupeesGrow ==
    ASSUME NEW rows, IsFiniteSet(rows), NEW before, NEW after, NEW x \in rows, NEW n \in Nat,
           \A y \in rows : before[y] \in Nat,
           \A y \in rows : after[y] = IF y = x THEN before[y] + n ELSE before[y]
    PROVE  Cardinality(RupeesOf(rows, after)) = Cardinality(RupeesOf(rows, before)) + n
  <1>1. \A y \in rows : after[y] \in Nat
    OBVIOUS
  <1>2. RupeesOf(rows \ {x}, before) = RupeesOf(rows \ {x}, after)
    BY RupeesSame
  <1>3. Cardinality(RupeesOf(rows \ {x}, before)) \in Nat
    BY FS_RemoveElement, RupeesFinite
  <1>4. Cardinality(RupeesOf(rows, before))
            = Cardinality(RupeesOf(rows \ {x}, before)) + before[x]
    BY RupeesApart
  <1>5. Cardinality(RupeesOf(rows, after))
            = Cardinality(RupeesOf(rows \ {x}, after)) + after[x]
    BY <1>1, RupeesApart
  <1> QED BY <1>2, <1>3, <1>4, <1>5

-----------------------------------------------------------------------------
(* The store: what one save of a protected action adds to what was there.  *)

By == Approvals \cup {"limit"}
Charge == [key : Keys, status : {"succeeded", "declined", "unknown"}]
RefundRow == [key : Keys, payment : Payments, amount : Nat,
              status : {"succeeded", "declined", "unknown"}]
AdapterRow == [charges : SUBSET Charge, refunds : SUBSET RefundRow]

Within(st) == \A o \in Orders : st.orders[o].refunded <= st.orders[o].amount

\* An order on record stays one, of its item and its amount.
RowsKept(st, s) ==
    \A o \in Orders :
        st.orders[o].status # "none" =>
            /\ s.orders[o].status # "none"
            /\ s.orders[o].item = st.orders[o].item
            /\ s.orders[o].amount = st.orders[o].amount
\* What has been done of q since st is remembered in s, as q asks for it and by
\* what authorised it, at most once apart from the item it had to create.
Adds(st, s, q, by) ==
    /\ st.memory \subseteq s.memory
    /\ RowsKept(st, s)
    /\ \A m \in s.memory \ st.memory :
        /\ m.by = by
        /\ m.op \in {"create", OpOf(q)}
        /\ m.op # "create" => AsAsked(s, m, q)
        /\ m.op = "refund" => q.action = "refund" /\ m.out = q.amount
    /\ \A m, n \in s.memory \ st.memory : m.op # "create" /\ n.op # "create" => m = n
\* Something remembered is what q asks for.
Told(s, q) ==
    \E m \in s.memory : m.op = OpOf(q) /\ (q.item # "new" => m.on = TargetOf(q))
\* No order on record is given another payment, and none but a refund changes
\* what was refunded.
MoneyAlone(st, s) ==
    \A o \in Orders :
        /\ st.orders[o].status # "none" => s.orders[o].status # "none"
        /\ s.orders[o].refunded = st.orders[o].refunded
        /\ s.orders[o].amount = st.orders[o].amount
        /\ s.orders[o].payment = st.orders[o].payment
        /\ s.orders[o].item = st.orders[o].item

LEMMA AloneKeepsRows ==
    ASSUME NEW st, NEW s, MoneyAlone(st, s)
    PROVE  RowsKept(st, s)
  BY DEF MoneyAlone, RowsKept

\* What was done as asked stays so while nothing is taken back.
LEMMA AsAskedStays ==
    ASSUME NEW st, NEW s, NEW m, NEW q, AsAsked(st, m, q), RowsKept(st, s),
           \A n \in st.memory :
              \E k \in s.memory : k.op = n.op /\ k.key = n.key /\ k.out = n.out
    PROVE  AsAsked(s, m, q)
  <1>1. m.op = OpOf(q) /\ (m.op = "refund" => m.out = q.amount)
    BY DEF AsAsked
  <1>2. IF q.action = "publish" /\ q.item = "new"
        THEN \E n \in s.memory : n.op = "create" /\ n.key = m.key /\ n.out = m.on
        ELSE m.on = TargetOf(q)
    BY DEF AsAsked
  <1>3. m.op = "order" => m.out \in Orders /\ Bought(s.orders[m.out], q)
    BY DEF AsAsked, RowsKept, Bought
  <1> QED BY <1>1, <1>2, <1>3 DEF AsAsked

Row(op, on, key, out, by) ==
    [op |-> op, on |-> on, key |-> key, out |-> out, by |-> by, kept |-> TRUE]

LEMMA Remembers ==
    ASSUME NEW st \in StoreRow, NEW op, NEW on, NEW key, NEW out, NEW by,
           Row(op, on, key, out, by) \in Memory
    PROVE  /\ Remember(st, op, on, key, out, by) \in StoreRow
           /\ Remember(st, op, on, key, out, by).memory
                  = st.memory \cup {Row(op, on, key, out, by)}
           /\ Remember(st, op, on, key, out, by).orders = st.orders
           /\ Remember(st, op, on, key, out, by).items = st.items
  <1> DEFINE m == Row(op, on, key, out, by)
  <1>1. Remember(st, op, on, key, out, by) = [st EXCEPT !.memory = st.memory \cup {m}]
    BY DEF Remember, Row
  <1> HIDE DEF m
  <1>2. [st EXCEPT !.memory = st.memory \cup {m}] \in StoreRow
    BY DEF StoreRow, m
  <1>3. /\ [st EXCEPT !.memory = st.memory \cup {m}].memory = st.memory \cup {m}
        /\ [st EXCEPT !.memory = st.memory \cup {m}].orders = st.orders
        /\ [st EXCEPT !.memory = st.memory \cup {m}].items = st.items
    BY DEF StoreRow
  <1> QED BY <1>1, <1>2, <1>3 DEF m

\* Remembering that q was done, on what st has become.
LEMMA RemembersAction ==
    ASSUME NEW q, NEW st \in StoreRow, NEW base \in StoreRow,
           NEW on \in Thing \cup {"any"}, NEW key \in Keys, NEW out \in Thing \cup Nat,
           NEW by \in By, NEW op \in Ops, NEW s,
           op = OpOf(q), base.memory = st.memory,
           s = Remember(base, op, on, key, out, by),
           op = "refund" => q.action = "refund" /\ out = q.amount,
           op = "create" => out \in Items,
           on = TargetOf(q), ~(q.action = "publish" /\ q.item = "new"), RowsKept(st, base),
           op = "order" => out \in Orders /\ Bought(base.orders[out], q)
    PROVE  s \in StoreRow /\ s.orders = base.orders /\ Adds(st, s, q, by) /\ Told(s, q)
  <1> DEFINE m == Row(op, on, key, out, by)
  <1>1. m \in Memory
    BY DEF Memory, By, Row
  <1>2. s \in StoreRow /\ s.memory = st.memory \cup {m} /\ s.orders = base.orders
    BY <1>1, Remembers
  <1>3. m.op = op /\ m.on = on /\ m.out = out /\ m.by = by
    BY DEF Row
  <1> HIDE DEF m
  <1>4. Adds(st, s, q, by)
    <2>1. AsAsked(s, m, q)
      BY <1>2, <1>3 DEF AsAsked
    <2>2. RowsKept(st, s)
      BY <1>2 DEF RowsKept
    <2> QED BY <1>2, <1>3, <2>1, <2>2 DEF Adds
  <1>5. Told(s, q)
    BY <1>2, <1>3 DEF Told
  <1> QED BY <1>2, <1>4, <1>5

-----------------------------------------------------------------------------
(* Money: RefundsWithinOrder of a store and an adapter, and what keeps it. *)

PaidRows(ad, p) == {x \in ad.refunds : x.payment = p /\ x.status = "succeeded"}
PaidSum(ad, p) == Cardinality(RupeesOf(PaidRows(ad, p), [x \in ad.refunds |-> x.amount]))
OrderRows(st, p) == {o \in Orders : st.orders[o].payment = p}
RefundedRupees(st, p) == RupeesOf(OrderRows(st, p), [o \in Orders |-> st.orders[o].refunded])
RefundedSum(st, p) == Cardinality(RefundedRupees(st, p))

Money(st, ad) ==
    /\ IsFiniteSet(ad.refunds)
    /\ \A x \in ad.refunds :
        \E o \in Orders : st.orders[o].status # "none" /\ st.orders[o].payment = x.payment
    /\ \A o \in Orders :
        PaidSum(ad, st.orders[o].payment) <= RefundedSum(st, st.orders[o].payment)

LEMMA SumsType ==
    ASSUME NEW st \in StoreRow, NEW ad \in AdapterRow, IsFiniteSet(ad.refunds), NEW p
    PROVE  /\ IsFiniteSet(PaidRows(ad, p)) /\ IsFiniteSet(OrderRows(st, p))
           /\ PaidSum(ad, p) \in Nat /\ RefundedSum(st, p) \in Nat
  <1>1. IsFiniteSet(PaidRows(ad, p))
    BY FS_Subset DEF PaidRows
  <1>2. IsFiniteSet(OrderRows(st, p))
    BY StockAssumption, FS_Subset DEF OrderRows
  <1>3. \A x \in PaidRows(ad, p) : [y \in ad.refunds |-> y.amount][x] \in Nat
    BY DEF PaidRows, AdapterRow, RefundRow
  <1>4. \A o \in OrderRows(st, p) : [x \in Orders |-> st.orders[x].refunded][o] \in Nat
    BY DEF OrderRows, StoreRow, OrderRow
  <1> QED BY <1>1, <1>2, <1>3, <1>4, RupeesFinite DEF PaidSum, RefundedSum, RefundedRupees

LEMMA MoneyKept ==
    ASSUME NEW st \in StoreRow, NEW s \in StoreRow, MoneyAlone(st, s),
           NEW ad \in AdapterRow, NEW after, after.refunds = ad.refunds, Money(st, ad)
    PROVE  Money(s, after)
  <1>1. \A p : PaidSum(after, p) = PaidSum(ad, p)
    BY DEF PaidSum, PaidRows
  <1>2. \A p : OrderRows(s, p) = OrderRows(st, p)
    BY DEF OrderRows, MoneyAlone
  <1>3. [x \in Orders |-> s.orders[x].refunded] = [x \in Orders |-> st.orders[x].refunded]
    BY DEF MoneyAlone
  <1>4. \A p : RefundedSum(s, p) = RefundedSum(st, p)
    BY <1>2, <1>3 DEF RefundedSum, RefundedRupees
  <1> QED BY <1>1, <1>4 DEF Money, MoneyAlone

\* A new order, whatever payment it is on.
LEMMA MoneyOrdered ==
    ASSUME NEW st \in StoreRow, NEW s \in StoreRow, NEW o \in Orders,
           st.orders[o] = NoOrder, s.orders[o].refunded = 0, s.orders[o].status # "none",
           \A x \in Orders : x # o => s.orders[x] = st.orders[x],
           NEW ad \in AdapterRow, NEW after, after.refunds = ad.refunds, Money(st, ad)
    PROVE  Money(s, after)
  <1>1. \A p : PaidSum(after, p) = PaidSum(ad, p)
    BY DEF PaidSum, PaidRows
  <1>2. st.orders[o].refunded = 0 /\ st.orders[o].status = "none"
    BY DEF NoOrder
  <1>3. ASSUME NEW p PROVE RefundedSum(s, p) = RefundedSum(st, p)
    <2>1. RefundedRupees(s, p) = RefundedRupees(st, p)
      BY <1>2 DEF RefundedRupees, RupeesOf, OrderRows
    <2> QED BY <2>1 DEF RefundedSum
  <1>4. \A x \in ad.refunds :
            \E y \in Orders : s.orders[y].status # "none" /\ s.orders[y].payment = x.payment
    BY <1>2 DEF Money
  <1>5. ASSUME NEW y \in Orders
        PROVE  PaidSum(ad, s.orders[y].payment) <= RefundedSum(st, s.orders[y].payment)
    <2> DEFINE p == s.orders[y].payment
    <2>1. CASE \E x \in Orders : st.orders[x].payment = p
      BY <2>1 DEF Money
    <2>2. CASE \A x \in Orders : st.orders[x].payment # p
      <3>1. PaidRows(ad, p) = {}
        BY <2>2 DEF PaidRows, Money
      <3>2. RupeesOf(PaidRows(ad, p), [x \in ad.refunds |-> x.amount]) = {}
        BY <3>1 DEF RupeesOf
      <3>3. PaidSum(ad, p) = 0
        BY <3>2, FS_EmptySet DEF PaidSum
      <3>4. RefundedSum(st, p) \in Nat
        BY SumsType DEF Money
      <3> QED BY <3>3, <3>4
    <2> QED BY <2>1, <2>2
  <1> QED BY <1>1, <1>3, <1>4, <1>5 DEF Money

\* A refund of n on order o, which the adapter may have answered before.
LEMMA MoneyRefunded ==
    ASSUME NEW st \in StoreRow, NEW s \in StoreRow, NEW o \in Orders, NEW n \in Nat,
           st.orders[o].status # "none",
           \A y \in Orders : /\ s.orders[y].status = "none" => st.orders[y].status = "none"
                             /\ s.orders[y].payment = st.orders[y].payment
                             /\ y # o => s.orders[y].refunded = st.orders[y].refunded,
           s.orders[o].refunded = st.orders[o].refunded + n,
           NEW ad \in AdapterRow, NEW after \in AdapterRow, Money(st, ad),
           \/ after.refunds = ad.refunds
           \/ \E x \in RefundRow : /\ x \notin ad.refunds
                                  /\ after.refunds = ad.refunds \cup {x}
                                  /\ x.payment = st.orders[o].payment /\ x.amount = n
    PROVE  Money(s, after)
  <1> DEFINE mine == st.orders[o].payment
             before == [y \in Orders |-> st.orders[y].refunded]
             now == [y \in Orders |-> s.orders[y].refunded]
  <1>1. IsFiniteSet(ad.refunds)
    BY DEF Money
  <1>2. \A p : OrderRows(s, p) = OrderRows(st, p)
    BY DEF OrderRows
  <1>3. \A y \in Orders : before[y] \in Nat /\ now[y] \in Nat
    BY DEF StoreRow, OrderRow
  <1>4. ASSUME NEW p, p # mine PROVE RefundedSum(s, p) = RefundedSum(st, p)
    <2>1. \A y \in OrderRows(st, p) : before[y] = now[y]
      BY <1>4 DEF OrderRows
    <2> HIDE DEF before, now
    <2>2. RupeesOf(OrderRows(st, p), before) = RupeesOf(OrderRows(st, p), now)
      BY <2>1, RupeesSame
    <2> QED BY <1>2, <2>2 DEF RefundedSum, RefundedRupees, before, now
  <1>5. RefundedSum(s, mine) = RefundedSum(st, mine) + n
    <2>1. o \in OrderRows(st, mine) /\ OrderRows(st, mine) \subseteq Orders
      BY DEF OrderRows
    <2>2. IsFiniteSet(OrderRows(st, mine))
      BY <1>1, SumsType
    <2>3. \A y \in OrderRows(st, mine) : before[y] \in Nat
      BY <1>3, <2>1
    <2>4. \A y \in OrderRows(st, mine) : now[y] = IF y = o THEN before[y] + n ELSE before[y]
      BY <1>3, <2>1
    <2> DEFINE rows == OrderRows(st, mine)
    <2> HIDE DEF before, now, rows
    <2>5. /\ o \in rows /\ IsFiniteSet(rows) /\ \A y \in rows : before[y] \in Nat
          /\ \A y \in rows : now[y] = IF y = o THEN before[y] + n ELSE before[y]
      BY <2>1, <2>2, <2>3, <2>4 DEF rows
    <2>6. Cardinality(RupeesOf(rows, now)) = Cardinality(RupeesOf(rows, before)) + n
      BY <2>5, RupeesGrow
    <2>7. Cardinality(RupeesOf(OrderRows(st, mine), now))
            = Cardinality(RupeesOf(OrderRows(st, mine), before)) + n
      BY <2>6 DEF rows
    <2> QED BY <1>2, <2>7 DEF RefundedSum, RefundedRupees, before, now
  <1>6. \A p : PaidSum(ad, p) \in Nat /\ RefundedSum(st, p) \in Nat
    BY <1>1, SumsType
  <1>7. CASE after.refunds = ad.refunds
    <2>1. \A p : PaidSum(after, p) = PaidSum(ad, p)
      BY <1>7 DEF PaidSum, PaidRows
    <2>2. \A y \in Orders :
            PaidSum(after, s.orders[y].payment) <= RefundedSum(s, s.orders[y].payment)
      <3> TAKE y \in Orders
      <3> DEFINE p == s.orders[y].payment
      <3>1. PaidSum(ad, p) <= RefundedSum(st, p)
        BY DEF Money
      <3>2. RefundedSum(st, p) <= RefundedSum(s, p)
        BY <1>4, <1>5, <1>6
      <3>3. RefundedSum(s, p) \in Nat
        BY <1>4, <1>5, <1>6
      <3> HIDE DEF p
      <3>4. PaidSum(after, p) <= RefundedSum(s, p)
        BY <1>6, <2>1, <3>1, <3>2, <3>3
      <3> QED BY <3>4 DEF p
    <2> QED BY <1>1, <1>7, <2>2 DEF Money
  <1>8. ASSUME NEW x \in RefundRow, x \notin ad.refunds, after.refunds = ad.refunds \cup {x},
               x.payment = mine, x.amount = n
        PROVE  Money(s, after)
    <2> DEFINE paid == [y \in ad.refunds |-> y.amount]
               pays == [y \in after.refunds |-> y.amount]
    <2>1. IsFiniteSet(after.refunds)
      BY <1>1, <1>8, FS_AddElement
    <2>2. ASSUME NEW p PROVE PaidSum(after, p) <= PaidSum(ad, p) + (IF p = mine THEN n ELSE 0)
      <3>1. RupeesOf(PaidRows(ad, p), pays) = RupeesOf(PaidRows(ad, p), paid)
        BY <1>8, RupeesSame DEF PaidRows
      <3>2. CASE p = mine /\ x.status = "succeeded"
        <4>1. PaidRows(after, p) = PaidRows(ad, p) \cup {x} /\ x \notin PaidRows(ad, p)
          BY <1>8, <3>2 DEF PaidRows
        <4>2. IsFiniteSet(PaidRows(after, p))
          BY <2>1, SumsType
        <4>3. \A y \in PaidRows(after, p) : pays[y] \in Nat
          BY DEF PaidRows, AdapterRow, RefundRow
        <4>4. pays[x] = n
          BY <1>8
        <4>5. PaidRows(after, p) \ {x} = PaidRows(ad, p)
          BY <4>1
        <4> HIDE DEF pays
        <4>6. Cardinality(RupeesOf(PaidRows(after, p), pays))
                = Cardinality(RupeesOf(PaidRows(after, p) \ {x}, pays)) + pays[x]
          BY <4>1, <4>2, <4>3, RupeesApart
        <4>7. PaidSum(after, p) = PaidSum(ad, p) + n
          BY <3>1, <4>4, <4>5, <4>6 DEF PaidSum, pays
        <4> QED BY <3>2, <4>7, <1>6
      <3>3. CASE ~(p = mine /\ x.status = "succeeded")
        <4>1. PaidRows(after, p) = PaidRows(ad, p)
          BY <1>8, <3>3 DEF PaidRows
        <4>2. PaidSum(after, p) = PaidSum(ad, p)
          BY <3>1, <4>1 DEF PaidSum
        <4> QED BY <4>2, <1>6
      <3> QED BY <3>2, <3>3
    <2>3. \A y \in Orders :
            PaidSum(after, s.orders[y].payment) <= RefundedSum(s, s.orders[y].payment)
      <3> TAKE y \in Orders
      <3> DEFINE p == s.orders[y].payment
      <3>1. PaidSum(ad, p) <= RefundedSum(st, p)
        BY DEF Money
      <3>2. PaidSum(after, p) \in Nat
        BY <2>1, SumsType
      <3> HIDE DEF p
      <3>3. PaidSum(after, p) <= RefundedSum(s, p)
        BY <1>4, <1>5, <1>6, <2>2, <3>1, <3>2
      <3> QED BY <3>3 DEF p
    <2>4. \A y \in after.refunds :
            \E z \in Orders : s.orders[z].status # "none" /\ s.orders[z].payment = y.payment
      BY <1>8 DEF Money
    <2> QED BY <2>1, <2>3, <2>4 DEF Money
  <1> QED BY <1>7, <1>8

-----------------------------------------------------------------------------
(* Protected actions: their saves, and the adapter after them.             *)

\* saves is what q did to the store, and after what it left of the adapter.
EffectOK(saves, q, by, after) ==
    /\ saves \in Seq(StoreRow)
    /\ \A n \in 1..Len(saves) : Adds(store, saves[n], q, by) /\ Within(saves[n])
    /\ Told(Saved(store, saves), q)
    /\ after \in AdapterRow /\ Money(Saved(store, saves), after)

LEMMA OneSave ==
    ASSUME NEW s \in StoreRow, NEW q, NEW by, NEW after \in AdapterRow,
           Adds(store, s, q, by), Within(s), Told(s, q), Money(s, after)
    PROVE  EffectOK(<<s>>, q, by, after)
  <1>1. <<s>> \in Seq(StoreRow) /\ Len(<<s>>) = 1 /\ <<s>>[1] = s /\ <<s>> # <<>>
    OBVIOUS
  <1>2. Saved(store, <<s>>) = s
    BY <1>1 DEF Saved
  <1> QED BY <1>1, <1>2 DEF EffectOK

StoreOK ==
    /\ store \in StoreRow /\ Within(store)
    /\ adapter \in AdapterRow /\ Money(store, adapter)

\* An order's row is replaced.
Ordered(st, o, row) == [st EXCEPT !.orders[o] = row]
LEMMA OrderedType ==
    ASSUME NEW st \in StoreRow, NEW o \in Orders, NEW row \in OrderRow
    PROVE  /\ Ordered(st, o, row) \in StoreRow
           /\ Ordered(st, o, row).memory = st.memory
           /\ Ordered(st, o, row).items = st.items
           /\ st.orders \in [Orders -> OrderRow]
           /\ \A x \in Orders : Ordered(st, o, row).orders[x] = IF x = o THEN row ELSE st.orders[x]
  <1>1. st.orders \in [Orders -> OrderRow]
    BY DEF StoreRow
  <1>2. [st.orders EXCEPT ![o] = row] \in [Orders -> OrderRow]
    BY <1>1
  <1>3. \A x \in Orders : [st.orders EXCEPT ![o] = row][x] = IF x = o THEN row ELSE st.orders[x]
    BY <1>1
  <1> DEFINE orders == [st.orders EXCEPT ![o] = row]
  <1> HIDE DEF orders
  <1>4. Ordered(st, o, row) = [st EXCEPT !.orders = orders]
    BY DEF Ordered, orders
  <1>5. [st EXCEPT !.orders = orders] \in StoreRow
    BY <1>2 DEF StoreRow, orders
  <1>6. /\ [st EXCEPT !.orders = orders].orders = orders
        /\ [st EXCEPT !.orders = orders].memory = st.memory
        /\ [st EXCEPT !.orders = orders].items = st.items
    BY DEF StoreRow
  <1> QED BY <1>1, <1>3, <1>4, <1>5, <1>6 DEF orders

RefundedRow(row, n, status) == [row EXCEPT !.refunded = n, !.status = status]
LEMMA OrderRowRefunded ==
    ASSUME NEW row \in OrderRow, NEW n \in Nat, NEW status \in OrderStatuses \cup {row.status},
           NEW next, next = RefundedRow(row, n, status)
    PROVE  /\ next \in OrderRow /\ next.refunded = n /\ next.status = status
           /\ next.payment = row.payment /\ next.amount = row.amount
           /\ next.item = row.item
  BY DEF OrderRow, RefundedRow

LEMMA RefundAtType ==
    ASSUME NEW st, NEW ad \in AdapterRow, NEW q, NEW key \in Keys, q.amount \in Nat,
           st.orders[q.order].payment \in Payments, NEW after,
           after = RefundAt(ad, st, q, key)
    PROVE  /\ after \in AdapterRow
           /\ \/ after.refunds = ad.refunds
              \/ \E x \in RefundRow : /\ x \notin ad.refunds
                                     /\ after.refunds = ad.refunds \cup {x}
                                     /\ x.payment = st.orders[q.order].payment
                                     /\ x.amount = q.amount
  <1> DEFINE x == [key |-> key, payment |-> st.orders[q.order].payment, amount |-> q.amount,
                   status |-> Outcome(q.mode)]
  <1>1. CASE \E y \in ad.refunds : y.key = key
    BY <1>1 DEF RefundAt
  <1>2. CASE ~\E y \in ad.refunds : y.key = key
    <2>1. Outcome(q.mode) \in {"succeeded", "declined", "unknown"}
      BY DEF Outcome
    <2>2. x \in RefundRow
      BY <2>1 DEF RefundRow
    <2>3. x.payment = st.orders[q.order].payment /\ x.amount = q.amount /\ x.key = key
      OBVIOUS
    <2>4. after = [ad EXCEPT !.refunds = @ \cup {x}]
      BY <1>2, Zenon DEF RefundAt
    <2> HIDE DEF x
    <2>5. x \notin ad.refunds
      BY <1>2, <2>3
    <2>6. after \in AdapterRow /\ after.refunds = ad.refunds \cup {x}
      BY <2>2, <2>4 DEF AdapterRow
    <2> QED BY <2>2, <2>3, <2>5, <2>6
  <1> QED BY <1>1, <1>2

\* A save that leaves the money alone.
LEMMA SaveAlone ==
    ASSUME StoreOK, NEW q, NEW by \in By, NEW base \in StoreRow, NEW s,
           base.memory = store.memory, MoneyAlone(store, base),
           NEW on \in Thing \cup {"any"}, NEW key \in Keys, NEW out \in Thing,
           NEW op \in Ops \ {"refund", "create", "order", "publish"}, op = OpOf(q),
           s = Remember(base, op, on, key, out, by), on = TargetOf(q)
    PROVE  EffectOK(<<s>>, q, by, adapter)
  <1>1. s \in StoreRow /\ s.orders = base.orders /\ Adds(store, s, q, by) /\ Told(s, q)
    <2>1. /\ out \in Thing \cup Nat /\ op \in Ops /\ store \in StoreRow
          /\ op = "refund" => q.action = "refund" /\ out = q.amount
          /\ op = "create" => out \in Items
          /\ op = "order" => out \in Orders /\ Bought(base.orders[out], q)
      BY DEF StoreOK
    <2>2. ~(q.action = "publish" /\ q.item = "new")
      BY DEF OpOf
    <2>3. RowsKept(store, base)
      BY AloneKeepsRows
    <2> QED BY <2>1, <2>2, <2>3, RemembersAction
  <1>2. MoneyAlone(store, s)
    BY <1>1 DEF MoneyAlone
  <1>3. Within(s)
    BY <1>2 DEF Within, MoneyAlone, StoreOK
  <1>4. adapter \in AdapterRow /\ Money(s, adapter)
    BY <1>1, <1>2, MoneyKept DEF StoreOK
  <1> QED BY <1>1, <1>3, <1>4, OneSave

LEMMA RefundSaves ==
    ASSUME StoreOK, NEW q \in Request, NEW key \in Keys, NEW by \in By,
           q.action = "refund", CanRefund(store, q)
    PROVE  EffectOK(<<Refund(store, q, key, by)>>, q, by, RefundAt(adapter, store, q, key))
  <1> DEFINE o == q.order
             row == store.orders[o]
             total == row.refunded + q.amount
             status == IF total = row.amount THEN "cancelled" ELSE row.status
             next == RefundedRow(row, total, status)
             base == Ordered(store, o, next)
             s == Refund(store, q, key, by)
             after == RefundAt(adapter, store, q, key)
  <1>1. /\ o \in Orders /\ q.amount \in Nat /\ row \in OrderRow
        /\ row.refunded \in Nat /\ row.amount \in Nat
    BY DEF StoreOK, StoreRow, Request, OrderRow
  <1>2. row.status \notin {"none", "removed"} /\ q.amount <= row.amount - row.refunded
    BY DEF CanRefund, Exists
  <1>3. /\ total \in Nat /\ total <= row.amount
        /\ status \in OrderStatuses \cup {row.status} /\ status # "none"
    BY <1>1, <1>2 DEF OrderStatuses
  <1> HIDE DEF row
  <1>4. /\ next \in OrderRow /\ next.refunded = total /\ next.payment = row.payment
        /\ next.amount = row.amount /\ next.item = row.item /\ next.status # "none"
    <2> HIDE DEF total, status
    <2> QED BY <1>1, <1>3, OrderRowRefunded
  <1>5. s = Remember(base, "refund", o, key, q.amount, by)
    BY DEF Refund, Ordered, RefundedRow, row
  <1> HIDE DEF next
  <1>6. /\ base \in StoreRow /\ base.memory = store.memory
        /\ \A x \in Orders : base.orders[x] = IF x = o THEN next ELSE store.orders[x]
    <2>1. store \in StoreRow
      BY DEF StoreOK
    <2> HIDE DEF o
    <2> HIDE DEF total, status
    <2> QED BY <1>1, <1>4, <2>1, OrderedType
  <1> HIDE DEF base
  <1>7. OpOf(q) = "refund" /\ TargetOf(q) = o
    BY DEF OpOf, TargetOf
  <1> HIDE DEF s
  <1>8. s \in StoreRow /\ s.orders = base.orders /\ Adds(store, s, q, by) /\ Told(s, q)
    <2>1. o \in Thing \cup {"any"}
      BY <1>1 DEF Thing
    <2>2. "refund" \in Ops
      BY DEF Ops
    <2>3. store \in StoreRow /\ q.amount \in Thing \cup Nat
      BY <1>1 DEF StoreOK
    <2>5. RowsKept(store, base)
      BY <1>4, <1>6 DEF RowsKept, row
    <2>6. ~(q.action = "publish" /\ q.item = "new")
      OBVIOUS
    <2> HIDE DEF o
    <2>4. \A op : op = "refund" =>
             s \in StoreRow /\ s.orders = base.orders /\ Adds(store, s, q, by) /\ Told(s, q)
      BY <1>5, <1>6, <1>7, <2>1, <2>2, <2>3, <2>5, <2>6, RemembersAction
    <2> QED BY <2>4
  <1> HIDE DEF s
  <1>9. Within(s)
    BY <1>1, <1>3, <1>4, <1>6, <1>8 DEF Within, StoreOK, row
  <1>10. /\ after \in AdapterRow
         /\ \/ after.refunds = adapter.refunds
            \/ \E x \in RefundRow : /\ x \notin adapter.refunds
                                   /\ after.refunds = adapter.refunds \cup {x}
                                   /\ x.payment = row.payment
                                   /\ x.amount = q.amount
    <2>1. row.payment \in Payments
      BY <1>1 DEF OrderRow
    <2>2. adapter \in AdapterRow
      BY DEF StoreOK
    <2> HIDE DEF after
    <2> QED BY <1>1, <2>1, <2>2, RefundAtType DEF row, after
  <1> HIDE DEF after
  <1>11. Money(s, after)
    <2>1. /\ store.orders[o].status # "none"
          /\ s.orders[o].refunded = store.orders[o].refunded + q.amount
          /\ \A y \in Orders : /\ s.orders[y].status = "none" => store.orders[y].status = "none"
                               /\ s.orders[y].payment = store.orders[y].payment
                               /\ y # o => s.orders[y].refunded = store.orders[y].refunded
      BY <1>1, <1>2, <1>4, <1>6, <1>8 DEF row
    <2>2. /\ store \in StoreRow /\ s \in StoreRow /\ o \in Orders /\ q.amount \in Nat
          /\ adapter \in AdapterRow /\ after \in AdapterRow /\ Money(store, adapter)
      BY <1>1, <1>8, <1>10 DEF StoreOK
    <2> HIDE DEF o
    <2> QED BY <1>10, <2>1, <2>2, MoneyRefunded DEF o, row
  <1> QED BY <1>8, <1>9, <1>10, <1>11, OneSave DEF s, after

LEMMA ArchiveSaves ==
    ASSUME StoreOK, NEW q \in Request, NEW key \in Keys, NEW by \in By,
           q.action = "archive", ~Known(store, "archive", q.item, key)
    PROVE  EffectOK(<<SetItem(store, "archive", q.item, "archived", key, by)>>, q, by, adapter)
  <1> DEFINE i == q.item
             base == [store EXCEPT !.items[i] = "archived"]
             s == SetItem(store, "archive", i, "archived", key, by)
  <1>1. i \in Items /\ store \in StoreRow
    BY DEF Request, StoreOK
  <1>2. base \in StoreRow /\ base.memory = store.memory /\ base.orders = store.orders
    BY <1>1 DEF StoreRow
  <1>3. s = Remember(base, "archive", i, key, i, by)
    BY DEF SetItem
  <1> HIDE DEF base, s
  <1>4. MoneyAlone(store, base)
    BY <1>2 DEF MoneyAlone
  <1>5. /\ "archive" = OpOf(q) /\ i = TargetOf(q)
        /\ i \in Thing /\ "archive" \in Ops \ {"refund", "create", "order", "publish"}
    BY <1>1 DEF OpOf, TargetOf, Thing, Ops, OrderStatuses
  <1> HIDE DEF i
  <1>6. EffectOK(<<s>>, q, by, adapter)
    BY <1>1, <1>2, <1>3, <1>4, <1>5, SaveAlone
  <1> QED BY <1>6 DEF s, i

LEMMA MoveSaves ==
    ASSUME StoreOK, NEW q \in Request, NEW key \in Keys, NEW by \in By,
           q.action \in {"accept", "reject", "fulfil", "cancel"}, CanMove(store, q.order, q.to)
    PROVE  EffectOK(<<MoveOrder(store, q.order, q.to, key, by)>>, q, by, adapter)
  <1> DEFINE o == q.order
             to == q.to
             base == [store EXCEPT !.orders[o].status = to]
             s == MoveOrder(store, o, to, key, by)
  <1>1. o \in Orders /\ store \in StoreRow /\ store.orders[o] \in OrderRow
    BY DEF Request, StoreOK, StoreRow
  <1>2. to \in OrderStatuses
    BY DEF CanMove, OrderMoves, OrderStatuses
  <1> DEFINE row == [store.orders[o] EXCEPT !.status = to]
  <1>3. /\ row \in OrderRow /\ row.status = to /\ row.refunded = store.orders[o].refunded
        /\ row.amount = store.orders[o].amount /\ row.payment = store.orders[o].payment
        /\ row.item = store.orders[o].item
    BY <1>1, <1>2 DEF OrderRow
  <1>4. base = Ordered(store, o, row)
    BY DEF Ordered
  <1>5. s = Remember(base, to, o, key, o, by)
    BY DEF MoveOrder
  <1> HIDE DEF row, base, s
  <1>6. /\ base \in StoreRow /\ base.memory = store.memory
        /\ \A x \in Orders : base.orders[x] = IF x = o THEN row ELSE store.orders[x]
    <2> HIDE DEF o
    <2> QED BY <1>1, <1>3, <1>4, OrderedType
  <1>7. MoneyAlone(store, base)
    BY <1>2, <1>3, <1>6 DEF MoneyAlone, OrderStatuses
  <1>8. /\ to = OpOf(q) /\ o = TargetOf(q) /\ o \in Thing
        /\ to \in Ops \ {"refund", "create", "order", "publish"}
    BY <1>1, <1>2 DEF OpOf, TargetOf, Thing, Ops, OrderStatuses
  <1> HIDE DEF o, to
  <1>9. EffectOK(<<s>>, q, by, adapter)
    BY <1>1, <1>5, <1>6, <1>7, <1>8, SaveAlone
  <1> QED BY <1>9 DEF s, o, to

LEMMA ReturnSaves ==
    ASSUME StoreOK, NEW q \in Request, NEW key \in Keys, NEW by \in By, q.action = "return"
    PROVE  EffectOK(<<ReturnOrder(store, q.order, key, by)>>, q, by, adapter)
  <1> DEFINE o == q.order
             base == [store EXCEPT !.returned = @ \cup {o}]
             s == ReturnOrder(store, o, key, by)
  <1>1. o \in Orders /\ store \in StoreRow
    BY DEF Request, StoreOK
  <1>2. base \in StoreRow /\ base.memory = store.memory /\ base.orders = store.orders
    BY <1>1 DEF StoreRow
  <1>3. s = Remember(base, "return", o, key, o, by)
    BY DEF ReturnOrder
  <1> HIDE DEF base, s
  <1>4. MoneyAlone(store, base)
    BY <1>2 DEF MoneyAlone
  <1>5. /\ "return" = OpOf(q) /\ o = TargetOf(q)
        /\ o \in Thing /\ "return" \in Ops \ {"refund", "create", "order", "publish"}
    BY <1>1 DEF OpOf, TargetOf, Thing, Ops, OrderStatuses
  <1> HIDE DEF o
  <1>6. EffectOK(<<s>>, q, by, adapter)
    BY <1>1, <1>2, <1>3, <1>4, <1>5, SaveAlone
  <1> QED BY <1>6 DEF s, o

\* An issue's row is replaced.
Issued(st, i, row) == [st EXCEPT !.issues[i] = row]
LEMMA IssuedType ==
    ASSUME NEW st \in StoreRow, NEW i \in IssueIds, NEW row \in DemoIssue
    PROVE  /\ Issued(st, i, row) \in StoreRow
           /\ Issued(st, i, row).orders = st.orders
           /\ Issued(st, i, row).memory = st.memory
  BY DEF Issued, StoreRow

LEMMA PromiseSaves ==
    ASSUME StoreOK, NEW q \in Request, NEW key \in Keys, NEW by \in By, q.action = "promise"
    PROVE  EffectOK(<<ProposeRemedy(store, q.issue, key, by)>>, q, by, adapter)
  <1> DEFINE i == q.issue
             row == [store.issues[i] EXCEPT !.status = "resolution_proposed",
                                            !.owned = TRUE, !.remedy = "promised"]
             base == Issued(store, i, row)
             s == ProposeRemedy(store, i, key, by)
  <1>1. i \in IssueIds /\ store \in StoreRow /\ store.issues[i] \in DemoIssue
    BY DEF Request, StoreOK, StoreRow
  <1>2. row \in DemoIssue
    BY <1>1 DEF DemoIssue, IssueStatuses
  <1>3. s = Remember(base, "promise", i, key, i, by)
    BY DEF ProposeRemedy, Issued
  <1> HIDE DEF row
  <1>4. base \in StoreRow /\ base.memory = store.memory /\ base.orders = store.orders
    <2> HIDE DEF i
    <2> QED BY <1>1, <1>2, IssuedType
  <1> HIDE DEF base, s
  <1>5. MoneyAlone(store, base)
    BY <1>4 DEF MoneyAlone
  <1>6. /\ "promise" = OpOf(q) /\ i = TargetOf(q)
        /\ i \in Thing /\ "promise" \in Ops \ {"refund", "create", "order", "publish"}
    BY <1>1 DEF OpOf, TargetOf, Thing, Ops, OrderStatuses
  <1> HIDE DEF i
  <1>7. EffectOK(<<s>>, q, by, adapter)
    BY <1>1, <1>3, <1>4, <1>5, <1>6, SaveAlone
  <1> QED BY <1>7 DEF s, i

LEMMA AcceptSaves ==
    ASSUME StoreOK, NEW q \in Request, NEW key \in Keys, NEW by \in By,
           q.action = "accept_remedy"
    PROVE  EffectOK(<<AcceptDemoRemedy(store, q.issue, key, by)>>, q, by, adapter)
  <1> DEFINE i == q.issue
             row == [store.issues[i] EXCEPT !.status = "closed", !.remedy = "accepted"]
             base == Issued(store, i, row)
             s == AcceptDemoRemedy(store, i, key, by)
  <1>1. i \in IssueIds /\ store \in StoreRow /\ store.issues[i] \in DemoIssue
    BY DEF Request, StoreOK, StoreRow
  <1>2. row \in DemoIssue
    BY <1>1 DEF DemoIssue, IssueStatuses
  <1>3. s = Remember(base, "accept_remedy", i, key, i, by)
    BY DEF AcceptDemoRemedy, Issued
  <1> HIDE DEF row
  <1>4. base \in StoreRow /\ base.memory = store.memory /\ base.orders = store.orders
    <2> HIDE DEF i
    <2> QED BY <1>1, <1>2, IssuedType
  <1> HIDE DEF base, s
  <1>5. MoneyAlone(store, base)
    BY <1>4 DEF MoneyAlone
  <1>6. /\ "accept_remedy" = OpOf(q) /\ i = TargetOf(q)
        /\ i \in Thing /\ "accept_remedy" \in Ops \ {"refund", "create", "order", "publish"}
    BY <1>1 DEF OpOf, TargetOf, Thing, Ops, OrderStatuses
  <1> HIDE DEF i
  <1>7. EffectOK(<<s>>, q, by, adapter)
    BY <1>1, <1>3, <1>4, <1>5, <1>6, SaveAlone
  <1> QED BY <1>7 DEF s, i

\* The row of a new order.
NewOrder(ad, q, key) ==
    LET charge == ChargeOf(ad, key, q.mode) IN
    [status |-> IF charge.status = "succeeded" THEN "paid" ELSE charge.status,
     item |-> Sold(q), amount |-> Cost(q), refunded |-> 0,
     payment |-> key, addressed |-> q.addressed, authorized |-> FALSE]

LEMMA Charges ==
    ASSUME NEW ad \in AdapterRow, NEW key \in Keys, NEW asked
    PROVE  /\ ChargeOf(ad, key, asked) \in Charge
           /\ Charged(ad, key, asked) \in AdapterRow
           /\ Charged(ad, key, asked).refunds = ad.refunds
  <1>1. ChargeOf(ad, key, asked) \in Charge
    <2>1. CASE \E c \in ad.charges : c.key = key
      <3>1. (CHOOSE c \in ad.charges : c.key = key) \in ad.charges
        BY <2>1
      <3> QED BY <2>1, <3>1 DEF ChargeOf, AdapterRow
    <2>2. CASE ~\E c \in ad.charges : c.key = key
      <3>1. Outcome(asked) \in {"succeeded", "declined", "unknown"}
        BY DEF Outcome
      <3> QED BY <2>2, <3>1 DEF ChargeOf, Charge
    <2> QED BY <2>1, <2>2
  <1>2. /\ Charged(ad, key, asked) \in AdapterRow
        /\ Charged(ad, key, asked).refunds = ad.refunds
    BY <1>1 DEF Charged, AdapterRow
  <1> QED BY <1>1, <1>2

LEMMA NewOrderType ==
    ASSUME NEW ad \in AdapterRow, NEW key \in Keys, NEW q \in Request
    PROVE  /\ NewOrder(ad, q, key) \in OrderRow
           /\ NewOrder(ad, q, key).refunded = 0
           /\ NewOrder(ad, q, key).status # "none"
           /\ NewOrder(ad, q, key).item = Sold(q)
           /\ NewOrder(ad, q, key).amount = Cost(q)
  <1> DEFINE charge == ChargeOf(ad, key, q.mode)
             status == IF charge.status = "succeeded" THEN "paid" ELSE charge.status
             item == Sold(q)
             amount == Cost(q)
  <1>1. status \in {"paid", "declined", "unknown"}
    BY Charges DEF Charge
  <1>2. status \in OrderStatuses \cup {"none", "removed", "declined", "unknown"}
    BY <1>1 DEF OrderStatuses
  <1>3. /\ item \in Items \cup {"cart"} /\ amount \in Nat /\ key \in Payments
        /\ q.addressed \in BOOLEAN
    BY StockAssumption DEF Request, Payments, Sold, Cost
  <1>4. NewOrder(ad, q, key) = [status |-> status, item |-> item, amount |-> amount,
            refunded |-> 0, payment |-> key, addressed |-> q.addressed, authorized |-> FALSE]
    BY DEF NewOrder
  <1> HIDE DEF status, item, amount
  <1>5. NewOrder(ad, q, key) \in OrderRow
    BY <1>2, <1>3, <1>4 DEF OrderRow
  <1>6. NewOrder(ad, q, key).item = item /\ NewOrder(ad, q, key).amount = amount
    BY <1>4
  <1> QED BY <1>1, <1>4, <1>5, <1>6 DEF item, amount

LEMMA CheckoutSaves ==
    ASSUME StoreOK, NEW q \in Request, NEW key \in Keys, NEW by \in By,
           q.action = "checkout", CanOrder(store, q)
    PROVE  EffectOK(<<CreateOrder(store, adapter, q, key, by)>>, q, by,
                    Charged(adapter, key, q.mode))
  <1> DEFINE o == CHOOSE x \in FreshOrders(store) : TRUE
             row == NewOrder(adapter, q, key)
             stock == IF Listed(store, q)
                      THEN [store.stock EXCEPT ![q.item] = store.stock[q.item] - 1]
                      ELSE store.stock
             placed == Ordered(store, o, row)
             base == [placed EXCEPT !.stock = stock]
             s == CreateOrder(store, adapter, q, key, by)
             after == Charged(adapter, key, q.mode)
  <1>1. store \in StoreRow /\ adapter \in AdapterRow /\ Money(store, adapter) /\ Within(store)
    BY DEF StoreOK
  <1>2. o \in Orders /\ store.orders[o] = NoOrder
    BY DEF CanOrder, FreshOrders
  <1>3. stock \in [Items -> Nat]
    <2>1. store.stock \in [Items -> Nat]
      BY <1>1 DEF StoreRow
    <2>2. CASE Listed(store, q)
      <3>1. store.stock[q.item] \in Nat /\ store.stock[q.item] - 1 \in Nat
        BY <2>1, <2>2 DEF CanOrder, Listed
      <3> QED BY <2>1, <2>2, <3>1
    <2> QED BY <2>1, <2>2
  <1>4. s = Remember(base, "order", "any", key, o, by)
    BY DEF CreateOrder, Ordered, NewOrder
  <1>5. /\ row \in OrderRow /\ row.refunded = 0 /\ row.status # "none"
        /\ row.item = Sold(q) /\ row.amount = Cost(q)
    BY <1>1, NewOrderType
  <1> HIDE DEF s, o, row, stock
  <1>6. /\ placed \in StoreRow /\ placed.memory = store.memory
        /\ \A x \in Orders : placed.orders[x] = IF x = o THEN row ELSE store.orders[x]
    BY <1>1, <1>2, <1>5, OrderedType
  <1> HIDE DEF placed
  <1>7. base \in StoreRow /\ base.memory = store.memory /\ base.orders = placed.orders
    BY <1>3, <1>6 DEF StoreRow
  <1> HIDE DEF base
  <1>8. OpOf(q) = "order" /\ TargetOf(q) = "any" /\ "order" \in Ops /\ o \in Thing
    BY <1>2 DEF OpOf, TargetOf, Ops, Thing
  <1>9. s \in StoreRow /\ s.orders = base.orders /\ Adds(store, s, q, by) /\ Told(s, q)
    <2>1. \A op, on : op = "order" /\ on = "any" =>
             s \in StoreRow /\ s.orders = base.orders /\ Adds(store, s, q, by) /\ Told(s, q)
      <3>1. RowsKept(store, base)
        BY <1>2, <1>6, <1>7 DEF RowsKept, NoOrder
      <3>2. o \in Orders /\ Bought(base.orders[o], q)
        BY <1>2, <1>5, <1>6, <1>7 DEF Bought
      <3>3. ~(q.action = "publish" /\ q.item = "new")
        OBVIOUS
      <3> QED BY <1>1, <1>4, <1>7, <1>8, <3>1, <3>2, <3>3, RemembersAction
    <2> QED BY <2>1
  <1>10. Within(s)
    BY <1>1, <1>5, <1>6, <1>7, <1>9 DEF Within, OrderRow
  <1>11. after \in AdapterRow /\ after.refunds = adapter.refunds
    BY <1>1, Charges
  <1> HIDE DEF after
  <1>12. Money(s, after)
    BY <1>1, <1>2, <1>5, <1>6, <1>7, <1>9, <1>11, MoneyOrdered
  <1>13. EffectOK(<<s>>, q, by, after)
    BY <1>9, <1>10, <1>11, <1>12, OneSave
  <1> QED BY <1>13 DEF s, after

\* Publishing, with the item it may have to create or to update first: middle is
\* the store once that is saved.
LEMMA PublishMiddle ==
    ASSUME StoreOK, NEW q \in Request, NEW by \in By, NEW key \in Keys,
           NEW i \in Items, NEW middle \in StoreRow, NEW whole,
           q.action = "publish", q.item # "new" => i = q.item,
           middle.orders = store.orders, store.memory \subseteq middle.memory,
           \A m \in middle.memory \ store.memory : m.op = "create" /\ m.by = by,
           q.item = "new" =>
              \E n \in middle.memory : n.op = "create" /\ n.key = key /\ n.out = i,
           whole = SetItem(middle, "publish", i, "published", key, by)
    PROVE  /\ whole \in StoreRow /\ whole.orders = store.orders
           /\ Adds(store, middle, q, by) /\ Adds(store, whole, q, by) /\ Told(whole, q)
  <1> DEFINE base == [middle EXCEPT !.items[i] = "published"]
             m == Row("publish", i, key, i, by)
  <1>1. OpOf(q) = "publish" /\ TargetOf(q) = q.item
    BY DEF OpOf, TargetOf
  <1>2. Adds(store, middle, q, by)
    BY DEF Adds, RowsKept
  <1>3. CASE Known(middle, "publish", i, key)
    <2>1. whole = middle
      BY <1>3 DEF SetItem
    <2>2. Told(middle, q)
      BY <1>1, <1>3 DEF Told, Known, Recalled
    <2> QED BY <1>2, <2>1, <2>2
  <1>4. CASE ~Known(middle, "publish", i, key)
    <2>1. whole = Remember(base, "publish", i, key, i, by)
      BY <1>4 DEF SetItem
    <2>2. base \in StoreRow /\ base.memory = middle.memory /\ base.orders = middle.orders
      BY DEF StoreRow
    <2> HIDE DEF base
    <2>3. m \in Memory
      BY DEF Memory, By, Row, Ops, Thing
    <2>4. /\ whole \in StoreRow /\ whole.memory = middle.memory \cup {m}
          /\ whole.orders = middle.orders
      BY <2>1, <2>2, <2>3, Remembers
    <2>5. m.op = "publish" /\ m.on = i /\ m.by = by /\ m.key = key
      BY DEF Row
    <2> HIDE DEF m
    <2>9. AsAsked(whole, m, q)
      BY <1>1, <2>4, <2>5 DEF AsAsked
    <2>10. RowsKept(store, whole)
      BY <2>4 DEF RowsKept
    <2>6. \A n \in whole.memory \ store.memory : n = m \/ (n.op = "create" /\ n.by = by)
      BY <2>4
    <2>7. Adds(store, whole, q, by)
      BY <1>1, <2>4, <2>5, <2>6, <2>9, <2>10 DEF Adds
    <2>8. Told(whole, q)
      BY <1>1, <2>4, <2>5 DEF Told
    <2> QED BY <1>2, <2>4, <2>7, <2>8
  <1> QED BY <1>3, <1>4

LEMMA Created ==
    ASSUME NEW st \in StoreRow, NEW i \in Items, NEW key \in Keys, NEW by \in By
    PROVE  /\ CreateItem(st, i, key, by) \in StoreRow
           /\ CreateItem(st, i, key, by).orders = st.orders
           /\ CreateItem(st, i, key, by).memory
                = st.memory \cup {Row("create", "any", key, i, by)}
  <1> DEFINE base == [st EXCEPT !.items[i] = "draft", !.stock[i] = NewStock]
  <1>1. base \in StoreRow /\ base.memory = st.memory /\ base.orders = st.orders
    <2> DEFINE items == [st.items EXCEPT ![i] = "draft"]
               stock == [st.stock EXCEPT ![i] = NewStock]
    <2>1. /\ items \in [Items -> {"none", "draft", "published", "archived"}]
          /\ stock \in [Items -> Nat]
      BY StockAssumption DEF StoreRow
    <2>2. base = [st EXCEPT !.items = items, !.stock = stock]
      BY DEF StoreRow
    <2> HIDE DEF items, stock
    <2> QED BY <2>1, <2>2 DEF StoreRow
  <1>2. Row("create", "any", key, i, by) \in Memory
    BY DEF Memory, By, Row, Ops, Thing
  <1>3. CreateItem(st, i, key, by) = Remember(base, "create", "any", key, i, by)
    BY DEF CreateItem
  <1> HIDE DEF base
  <1> QED BY <1>1, <1>2, <1>3, Remembers

LEMMA OneAtMost ==
    ASSUME NEW S, NEW first \in Seq(S), Len(first) <= 1, NEW n \in 1..Len(first)
    PROVE  n = 1 /\ Len(first) = 1 /\ first # <<>>
  <1>1. Len(first) \in Nat
    OBVIOUS
  <1>2. n = 1 /\ Len(first) = 1
    BY <1>1
  <1>3. first = <<>> => Len(first) = 0
    OBVIOUS
  <1> QED BY <1>2, <1>3

\* The steps of PublishSaves, given what it does first.
LEMMA PublishSequence ==
    ASSUME StoreOK, NEW q \in Request, NEW by \in By, NEW first \in Seq(StoreRow), NEW whole,
           Len(first) <= 1, whole \in StoreRow,
           whole.orders = store.orders, Saved(store, first).orders = store.orders,
           Adds(store, Saved(store, first), q, by), Adds(store, whole, q, by), Told(whole, q),
           NEW saves,
           saves = IF whole = Saved(store, first) THEN first ELSE Append(first, whole)
    PROVE  EffectOK(saves, q, by, adapter)
  <1> DEFINE middle == Saved(store, first)
  <1>1. ASSUME NEW s \in StoreRow, s.orders = store.orders
        PROVE  Within(s) /\ Money(s, adapter)
    <2>1. MoneyAlone(store, s)
      BY <1>1 DEF MoneyAlone
    <2> QED BY <1>1, <2>1, MoneyKept DEF StoreOK, Within
  <1>2. adapter \in AdapterRow
    BY DEF StoreOK
  <1>3. ASSUME NEW n \in 1..Len(first) PROVE n = 1 /\ Len(first) = 1 /\ first[n] = middle
    <2>1. n = 1 /\ Len(first) = 1 /\ first # <<>>
      BY OneAtMost
    <2> QED BY <2>1 DEF Saved
  <1>4. \A n \in 1..Len(first) :
            first[n] \in StoreRow /\ Adds(store, first[n], q, by) /\ Within(first[n])
    BY <1>1, <1>3
  <1>5. CASE whole = middle
    BY <1>1, <1>2, <1>4, <1>5 DEF EffectOK
  <1>6. CASE whole # middle
    <2>1. saves = Append(first, whole)
      BY <1>6
    <2>2. /\ saves \in Seq(StoreRow) /\ Len(saves) = Len(first) + 1 /\ saves # <<>>
          /\ saves[Len(saves)] = whole
          /\ \A n \in 1..Len(first) : saves[n] = first[n]
      BY <2>1
    <2>3. Saved(store, saves) = whole
      BY <2>2 DEF Saved
    <2>4. \A n \in 1..Len(saves) : n \in 1..Len(first) \/ n = Len(saves)
      BY <2>2
    <2>5. \A n \in 1..Len(saves) : Adds(store, saves[n], q, by) /\ Within(saves[n])
      BY <1>1, <1>4, <2>2, <2>4
    <2> QED BY <1>1, <1>2, <2>2, <2>3, <2>5 DEF EffectOK
  <1> QED BY <1>5, <1>6

LEMMA PublishEffect ==
    ASSUME StoreOK, NEW q \in Request, NEW key \in Keys, NEW by \in By,
           q.action = "publish", CanPublish(store, q, key)
    PROVE  EffectOK(PublishSaves(store, q, key, by), q, by, adapter)
  <1> DEFINE creates == q.item = "new" /\ ~Known(store, "create", "any", key)
             i == IF q.item # "new" THEN q.item
                  ELSE IF creates THEN CHOOSE j \in FreshItems(store) : TRUE
                  ELSE Answer(store, "create", "any", key)
             first == IF creates THEN <<CreateItem(store, i, key, by)>>
                      ELSE IF q.item # "new" /\ q.stock # 0
                      THEN <<UpdateItem(store, i, q.stock)>> ELSE <<>>
             middle == Saved(store, first)
             whole == SetItem(middle, "publish", i, "published", key, by)
  <1>1. store \in StoreRow
    BY DEF StoreOK
  <1>2. i \in Items
    <2>1. CASE q.item # "new"
      BY <2>1 DEF Request
    <2>2. CASE creates
      BY <2>2 DEF CanPublish, FreshItems
    <2>3. CASE q.item = "new" /\ ~creates
      <3> DEFINE told == Recalled(store, "create", "any", key)
      <3>1. told # {} /\ \A m \in told : m.out \in Items
        BY <1>1, <2>3 DEF Known, Recalled, StoreRow, Memory
      <3>2. (CHOOSE m \in told : TRUE) \in told
        BY <3>1
      <3>3. Answer(store, "create", "any", key) \in Items
        BY <3>1, <3>2 DEF Answer
      <3> QED BY <2>3, <3>3
    <2> QED BY <2>1, <2>2, <2>3
  <1>3. q.item # "new" => i = q.item
    OBVIOUS
  <1>7. ASSUME q.item = "new", ~creates
        PROVE  \E n \in store.memory : n.op = "create" /\ n.key = key /\ n.out = i
    <2> DEFINE told == Recalled(store, "create", "any", key)
    <2>1. told # {}
      BY <1>7 DEF Known
    <2>2. (CHOOSE m \in told : TRUE) \in told
      BY <2>1
    <2> QED BY <1>7, <2>2 DEF Answer, Recalled
  <1>4. PublishSaves(store, q, key, by) = IF whole = middle THEN first ELSE Append(first, whole)
    BY DEF PublishSaves
  <1>5. /\ first \in Seq(StoreRow) /\ Len(first) <= 1
        /\ middle \in StoreRow /\ middle.orders = store.orders
        /\ store.memory \subseteq middle.memory
        /\ \A m \in middle.memory \ store.memory : m.op = "create" /\ m.by = by
        /\ q.item = "new" =>
            \E n \in middle.memory : n.op = "create" /\ n.key = key /\ n.out = i
    <2>1. CASE creates
      <3> DEFINE c == CreateItem(store, i, key, by)
      <3> HIDE DEF i
      <3>1. /\ c \in StoreRow /\ c.orders = store.orders
            /\ c.memory = store.memory \cup {Row("create", "any", key, i, by)}
        BY <1>1, <1>2, Created
      <3>2. first = <<c>>
        BY <2>1
      <3> HIDE DEF c, first
      <3>3. middle = c
        BY <3>2 DEF Saved
      <3>4. first \in Seq(StoreRow) /\ Len(first) = 1
        BY <3>1, <3>2
      <3>5. \E n \in middle.memory : n.op = "create" /\ n.key = key /\ n.out = i
        <4> DEFINE n == Row("create", "any", key, i, by)
        <4>1. n.op = "create" /\ n.key = key /\ n.out = i
          BY DEF Row
        <4>2. n \in middle.memory
          BY <3>1, <3>3
        <4> HIDE DEF n, middle
        <4> QED BY <4>1, <4>2
      <3>6. \A m \in middle.memory \ store.memory : m.op = "create" /\ m.by = by
        BY <3>1, <3>3 DEF Row
      <3> QED BY <3>1, <3>3, <3>4, <3>5, <3>6
    <2>2. CASE ~creates /\ q.item # "new" /\ q.stock # 0
      <3> DEFINE c == UpdateItem(store, i, q.stock)
      <3>1. q.stock \in Nat
        BY DEF Request
      <3> HIDE DEF i
      <3>2. c \in StoreRow /\ c.orders = store.orders /\ c.memory = store.memory
        BY <1>1, <1>2, <3>1 DEF UpdateItem, StoreRow
      <3>3. first = <<c>>
        BY <2>2
      <3> HIDE DEF c, first
      <3>4. middle = c
        BY <3>3 DEF Saved
      <3>5. first \in Seq(StoreRow) /\ Len(first) = 1
        BY <3>2, <3>3
      <3> QED BY <2>2, <3>2, <3>4, <3>5
    <2>3. CASE ~creates /\ ~(q.item # "new" /\ q.stock # 0)
      <3>1. first = <<>>
        BY <2>3
      <3> HIDE DEF first
      <3>2. middle = store
        BY <3>1 DEF Saved
      <3> QED BY <1>1, <1>7, <2>3, <3>1, <3>2
    <2> QED BY <2>1, <2>2, <2>3
  <1> HIDE DEF first, i
  <1>6. /\ whole \in StoreRow /\ whole.orders = store.orders
        /\ Adds(store, middle, q, by) /\ Adds(store, whole, q, by) /\ Told(whole, q)
    BY <1>2, <1>3, <1>5, PublishMiddle
  <1> HIDE DEF whole
  <1> QED BY <1>4, <1>5, <1>6, PublishSequence

LEMMA EffectSucceeds ==
    ASSUME StoreOK, NEW q \in Request, NEW key \in Keys, NEW by \in By, Succeeds(q, key)
    PROVE  EffectOK(EffectSaves(q, key, by), q, by, AdapterAfter(q, key))
  <1>1. CASE Replays(store, q, key)
    <2>1. EffectSaves(q, key, by) = <<>> /\ AdapterAfter(q, key) = adapter
      BY <1>1 DEF EffectSaves, AdapterAfter
    <2>2. Told(store, q)
      BY <1>1 DEF Replays, Known, Recalled, Told
    <2>3. Saved(store, <<>>) = store
      BY DEF Saved
    <2>4. EffectOK(<<>>, q, by, adapter)
      BY <2>2, <2>3 DEF EffectOK, StoreOK
    <2> QED BY <2>1, <2>4
  <1>2. CASE ~Replays(store, q, key)
    <2>1. Reachable(store, q) /\ Doable(store, q, key)
      BY <1>2 DEF Succeeds
    <2>2. EffectSaves(q, key, by) = Effect(store, q, key, by)
      BY <1>2 DEF EffectSaves
    <2>3. AdapterAfter(q, key) = IF q.action = "checkout" THEN Charged(adapter, key, q.mode)
                                 ELSE IF q.action = "refund"
                                 THEN RefundAt(adapter, store, q, key) ELSE adapter
      BY <1>2 DEF AdapterAfter
    <2>4. CASE q.action = "checkout"
      <3>1. CanOrder(store, q)
        BY <2>1, <2>4 DEF Doable
      <3>2. Effect(store, q, key, by) = <<CreateOrder(store, adapter, q, key, by)>>
        BY <2>4 DEF Effect
      <3> QED BY <2>2, <2>3, <2>4, <3>1, <3>2, CheckoutSaves
    <2>5. CASE q.action = "publish"
      <3>1. CanPublish(store, q, key)
        BY <2>1, <2>5 DEF Doable
      <3>2. Effect(store, q, key, by) = PublishSaves(store, q, key, by)
        BY <2>5 DEF Effect
      <3> QED BY <2>2, <2>3, <2>5, <3>1, <3>2, PublishEffect
    <2>6. CASE q.action = "archive"
      <3>1. ~Known(store, "archive", q.item, key)
        BY <1>2, <2>6 DEF Replays, OpOf, TargetOf
      <3>2. Effect(store, q, key, by)
                = <<SetItem(store, "archive", q.item, "archived", key, by)>>
        BY <2>6 DEF Effect
      <3> QED BY <2>2, <2>3, <2>6, <3>1, <3>2, ArchiveSaves
    <2>7. CASE q.action = "refund"
      <3>1. CanRefund(store, q)
        BY <2>1, <2>7 DEF Doable
      <3>2. Effect(store, q, key, by) = <<Refund(store, q, key, by)>>
        BY <2>7 DEF Effect
      <3> QED BY <2>2, <2>3, <2>7, <3>1, <3>2, RefundSaves
    <2>8. CASE q.action = "return"
      <3>1. Effect(store, q, key, by) = <<ReturnOrder(store, q.order, key, by)>>
        BY <2>8 DEF Effect
      <3> QED BY <2>2, <2>3, <2>8, <3>1, ReturnSaves
    <2>9. CASE q.action = "promise"
      <3>1. Effect(store, q, key, by) = <<ProposeRemedy(store, q.issue, key, by)>>
        BY <2>9 DEF Effect
      <3> QED BY <2>2, <2>3, <2>9, <3>1, PromiseSaves
    <2>10. CASE q.action = "accept_remedy"
      <3>1. Effect(store, q, key, by) = <<AcceptDemoRemedy(store, q.issue, key, by)>>
        BY <2>10 DEF Effect
      <3> QED BY <2>2, <2>3, <2>10, <3>1, AcceptSaves
    <2>11. CASE q.action \in {"accept", "reject", "fulfil", "cancel"}
      <3>1. CanMove(store, q.order, q.to)
        BY <2>1, <2>11 DEF Doable
      <3>2. Effect(store, q, key, by) = <<MoveOrder(store, q.order, q.to, key, by)>>
        BY <2>11 DEF Effect
      <3> QED BY <2>2, <2>3, <2>11, <3>1, <3>2, MoveSaves
    <2>12. q.action # "price"
      BY <2>1 DEF Reachable
    <2> QED BY <2>4, <2>5, <2>6, <2>7, <2>8, <2>9, <2>10, <2>11, <2>12 DEF Request, Actions
  <1> QED BY <1>1, <1>2

-----------------------------------------------------------------------------
(* The guard file: its type, and what each of its changes keeps.           *)

AgentRow == [status : {"none", "active", "paused", "revoked"}, mandate : 0..MaxMandates]
MandateRow == [status : {"draft", "active", "revoked"}, limit : Nat]
ReceiptRow == [outcome : {"approved", "executed"}, req : AllRequests, by : By]
GuardRow == [agents : [Roles -> AgentRow], mandates : [Roles -> Seq(MandateRow)],
             approvals : [Approvals -> ApprovalRow], receipts : SUBSET ReceiptRow]
\* An agent has the mandate it names, and none at all before it is created.
MandatesOK(g) ==
    \A r \in Roles :
        /\ Len(g.mandates[r]) <= MaxMandates
        /\ g.agents[r].mandate \in 0..Len(g.mandates[r])
        /\ g.agents[r].mandate = 0 => Len(g.mandates[r]) = 0
GuardOK(g) == g \in GuardRow /\ MandatesOK(g)

StatusOf(g) == [a \in Approvals |-> g.approvals[a].status]
\* What the trail rests on is not taken back: spent approvals and what they were
\* for, the limits of mandates, and what is told.
Keeps(g, h) ==
    /\ \A a \in Approvals :
        g.approvals[a].status = "consumed" =>
            h.approvals[a].status = "consumed" /\ h.approvals[a].req = g.approvals[a].req
    /\ \A n \in 1..Len(g.mandates["seller"]) :
        /\ n \in 1..Len(h.mandates["seller"])
        /\ h.mandates["seller"][n].limit = g.mandates["seller"][n].limit
    /\ \A x \in h.receipts : x.outcome = "executed" => x \in g.receipts

LEMMA KeepsBoth ==
    ASSUME NEW f, NEW g, NEW h, Keeps(f, g), Keeps(g, h)
    PROVE  Keeps(f, h)
  BY DEF Keeps

SetAgent(g, r, row) == [g EXCEPT !.agents[r] = row]
LEMMA SetAgentType ==
    ASSUME NEW g \in GuardRow, NEW r \in Roles, NEW row \in AgentRow
    PROVE  /\ SetAgent(g, r, row) \in GuardRow
           /\ \A x \in Roles : SetAgent(g, r, row).agents[x] = IF x = r THEN row ELSE g.agents[x]
           /\ SetAgent(g, r, row).mandates = g.mandates
           /\ SetAgent(g, r, row).approvals = g.approvals
           /\ SetAgent(g, r, row).receipts = g.receipts
  <1> DEFINE agents == [g.agents EXCEPT ![r] = row]
  <1>1. /\ agents \in [Roles -> AgentRow]
        /\ \A x \in Roles : agents[x] = IF x = r THEN row ELSE g.agents[x]
    BY DEF GuardRow
  <1> HIDE DEF agents
  <1>2. SetAgent(g, r, row) = [g EXCEPT !.agents = agents]
    BY DEF SetAgent, agents
  <1> QED BY <1>1, <1>2 DEF GuardRow

SetMandates(g, r, list) == [g EXCEPT !.mandates[r] = list]
LEMMA SetMandatesType ==
    ASSUME NEW g \in GuardRow, NEW r \in Roles, NEW list \in Seq(MandateRow)
    PROVE  /\ SetMandates(g, r, list) \in GuardRow
           /\ \A x \in Roles :
                SetMandates(g, r, list).mandates[x] = IF x = r THEN list ELSE g.mandates[x]
           /\ SetMandates(g, r, list).agents = g.agents
           /\ SetMandates(g, r, list).approvals = g.approvals
           /\ SetMandates(g, r, list).receipts = g.receipts
  <1> DEFINE mandates == [g.mandates EXCEPT ![r] = list]
  <1>1. /\ mandates \in [Roles -> Seq(MandateRow)]
        /\ \A x \in Roles : mandates[x] = IF x = r THEN list ELSE g.mandates[x]
    BY DEF GuardRow
  <1> HIDE DEF mandates
  <1>2. SetMandates(g, r, list) = [g EXCEPT !.mandates = mandates]
    BY DEF SetMandates, mandates
  <1> QED BY <1>1, <1>2 DEF GuardRow

SetApproval(g, a, row) == [g EXCEPT !.approvals[a] = row]
LEMMA SetApprovalType ==
    ASSUME NEW g \in GuardRow, NEW a \in Approvals, NEW row \in ApprovalRow
    PROVE  /\ SetApproval(g, a, row) \in GuardRow
           /\ \A x \in Approvals :
                SetApproval(g, a, row).approvals[x] = IF x = a THEN row ELSE g.approvals[x]
           /\ SetApproval(g, a, row).agents = g.agents
           /\ SetApproval(g, a, row).mandates = g.mandates
           /\ SetApproval(g, a, row).receipts = g.receipts
  <1> DEFINE approvals == [g.approvals EXCEPT ![a] = row]
  <1>1. /\ approvals \in [Approvals -> ApprovalRow]
        /\ \A x \in Approvals : approvals[x] = IF x = a THEN row ELSE g.approvals[x]
    BY DEF GuardRow
  <1> HIDE DEF approvals
  <1>2. SetApproval(g, a, row) = [g EXCEPT !.approvals = approvals]
    BY DEF SetApproval, approvals
  <1> QED BY <1>1, <1>2 DEF GuardRow

\* Changes of approvals alone keep the mandates and the receipts.
LEMMA ApprovalsOnly ==
    ASSUME NEW g, GuardOK(g), NEW h \in GuardRow, h.agents = g.agents, h.mandates = g.mandates,
           h.receipts = g.receipts,
           \A a \in Approvals :
              g.approvals[a].status = "consumed" =>
                h.approvals[a].status = "consumed" /\ h.approvals[a].req = g.approvals[a].req
    PROVE  GuardOK(h) /\ Keeps(g, h)
  BY DEF GuardOK, MandatesOK, Keeps

\* Changes of an agent and of its mandates.
LEMMA AgentsOnly ==
    ASSUME NEW g, GuardOK(g), NEW h \in GuardRow, NEW r \in Roles, h.approvals = g.approvals,
           h.receipts = g.receipts,
           \A x \in Roles \ {r} : h.agents[x] = g.agents[x] /\ h.mandates[x] = g.mandates[x],
           Len(h.mandates[r]) <= MaxMandates, Len(g.mandates[r]) <= Len(h.mandates[r]),
           h.agents[r].mandate \in 1..Len(h.mandates[r]),
           \A n \in 1..Len(g.mandates[r]) : h.mandates[r][n].limit = g.mandates[r][n].limit
    PROVE  GuardOK(h) /\ Keeps(g, h) /\ StatusOf(h) = StatusOf(g)
  <1>1. /\ Len(h.mandates[r]) \in Nat /\ Len(g.mandates[r]) \in Nat
        /\ h.agents[r].mandate \in 0..Len(h.mandates[r]) /\ h.agents[r].mandate # 0
    BY DEF GuardRow, GuardOK
  <1>2. GuardOK(h)
    BY <1>1 DEF GuardOK, MandatesOK
  <1>3. \A n \in 1..Len(g.mandates["seller"]) :
            /\ n \in 1..Len(h.mandates["seller"])
            /\ h.mandates["seller"][n].limit = g.mandates["seller"][n].limit
    <2>1. CASE r = "seller"
      BY <1>1, <2>1
    <2>2. CASE r # "seller"
      BY <2>2 DEF Roles
    <2> QED BY <2>1, <2>2
  <1>4. Keeps(g, h)
    BY <1>3 DEF Keeps
  <1>5. StatusOf(h) = StatusOf(g)
    BY DEF StatusOf
  <1> QED BY <1>2, <1>4, <1>5

LEMMA KeepsItself == ASSUME NEW g PROVE Keeps(g, g)
  BY DEF Keeps

LEMMA RolesType == \A q : RoleOf(q) \in Roles
  BY DEF RoleOf, Roles

LEMMA Ensures ==
    ASSUME NEW g, GuardOK(g), NEW r \in Roles
    PROVE  /\ GuardOK(EnsureAgent(g, r)) /\ Keeps(g, EnsureAgent(g, r))
           /\ StatusOf(EnsureAgent(g, r)) = StatusOf(g)
           /\ EnsureAgent(g, r).approvals = g.approvals
           /\ EnsureAgent(g, r).agents[r].mandate \in 1..Len(EnsureAgent(g, r).mandates[r])
  <1>1. CASE g.agents[r].mandate # 0
    <2>1. EnsureAgent(g, r) = g
      BY <1>1 DEF EnsureAgent, Agent
    <2>2. g.agents[r].mandate \in 1..Len(g.mandates[r])
      BY <1>1 DEF GuardOK, MandatesOK
    <2> QED BY <2>1, <2>2, KeepsItself
  <1>2. CASE g.agents[r].mandate = 0
    <2> DEFINE agent == [status |-> "active", mandate |-> 1]
               list == <<[status |-> "active", limit |-> DefaultLimit]>>
               f == SetAgent(g, r, agent)
               h == SetMandates(f, r, list)
    <2>1. agent \in AgentRow /\ agent.mandate = 1
      BY LimitAssumption DEF AgentRow
    <2>2. list \in Seq(MandateRow) /\ Len(list) = 1
      BY LimitAssumption DEF MandateRow
    <2>3. EnsureAgent(g, r) = h
      BY <1>2 DEF EnsureAgent, Agent, SetAgent, SetMandates
    <2>4. g \in GuardRow /\ Len(g.mandates[r]) = 0
      BY <1>2 DEF GuardOK, MandatesOK
    <2> HIDE DEF agent, list
    <2>5. /\ f \in GuardRow /\ f.mandates = g.mandates /\ f.approvals = g.approvals
          /\ f.receipts = g.receipts
          /\ \A x \in Roles : f.agents[x] = IF x = r THEN agent ELSE g.agents[x]
      BY <2>1, <2>4, SetAgentType
    <2> HIDE DEF f
    <2>6. /\ h \in GuardRow /\ h.agents = f.agents /\ h.approvals = f.approvals
          /\ h.receipts = f.receipts
          /\ \A x \in Roles : h.mandates[x] = IF x = r THEN list ELSE f.mandates[x]
      BY <2>2, <2>5, SetMandatesType
    <2> HIDE DEF h
    <2>7. Len(h.mandates[r]) = 1 /\ h.agents[r].mandate = 1 /\ 1 <= MaxMandates
      BY <2>1, <2>2, <2>5, <2>6, LimitAssumption
    <2>8. GuardOK(h) /\ Keeps(g, h) /\ StatusOf(h) = StatusOf(g)
      <3>1. h.approvals = g.approvals /\ h.receipts = g.receipts /\ h \in GuardRow
        BY <2>5, <2>6
      <3>2. \A x \in Roles \ {r} : h.agents[x] = g.agents[x] /\ h.mandates[x] = g.mandates[x]
        BY <2>5, <2>6
      <3>3. /\ Len(h.mandates[r]) <= MaxMandates /\ Len(g.mandates[r]) <= Len(h.mandates[r])
            /\ h.agents[r].mandate \in 1..Len(h.mandates[r])
            /\ \A n \in 1..Len(g.mandates[r]) : h.mandates[r][n].limit = g.mandates[r][n].limit
        BY <2>4, <2>7
      <3> QED BY <3>1, <3>2, <3>3, AgentsOnly
    <2> QED BY <2>3, <2>5, <2>6, <2>7, <2>8
  <1> QED BY <1>1, <1>2

\* A step of OneTimeApproval, or none.
Moves(f, h) ==
    \/ h = f
    \/ \E a \in Approvals : f[a] = "none" /\ h = [f EXCEPT ![a] = "issued"]
    \/ \E a \in Approvals : f[a] = "issued" /\ h = [f EXCEPT ![a] = "consumed"]
    \/ \E A \in SUBSET Approvals, to \in {"expired", "revoked"} :
        /\ \A a \in A : f[a] = "issued"
        /\ h = [a \in Approvals |-> IF a \in A THEN to ELSE f[a]]

LEMMA Closes ==
    ASSUME NEW g, GuardOK(g), NEW r \in Roles, NEW to \in {"expired", "revoked"}
    PROVE  /\ GuardOK(Closed(g, r, to)) /\ Keeps(g, Closed(g, r, to))
           /\ Moves(StatusOf(g), StatusOf(Closed(g, r, to)))
  <1> DEFINE h == Closed(g, r, to)
             A == {a \in Approvals : g.approvals[a].status = "issued"
                                     /\ RoleOf(g.approvals[a].req) = r}
             approvals == [a \in Approvals |->
                IF a \in A THEN [g.approvals[a] EXCEPT !.status = to] ELSE g.approvals[a]]
  <1>1. g \in GuardRow /\ g.approvals \in [Approvals -> ApprovalRow]
    BY DEF GuardOK, GuardRow
  <1>2. ASSUME NEW a \in Approvals
        PROVE  /\ [g.approvals[a] EXCEPT !.status = to] \in ApprovalRow
               /\ [g.approvals[a] EXCEPT !.status = to].status = to
    BY <1>1 DEF ApprovalRow
  <1>3. approvals \in [Approvals -> ApprovalRow]
    BY <1>1, <1>2
  <1>4. h = [g EXCEPT !.approvals = approvals]
    BY DEF Closed
  <1>5. \A a \in Approvals :
            /\ approvals[a].status = IF a \in A THEN to ELSE g.approvals[a].status
            /\ a \notin A => approvals[a] = g.approvals[a]
    BY <1>2
  <1> HIDE DEF approvals, h
  <1>6. /\ h \in GuardRow /\ h.agents = g.agents /\ h.mandates = g.mandates
        /\ h.receipts = g.receipts /\ h.approvals = approvals
    BY <1>1, <1>3, <1>4 DEF GuardRow
  <1>7. GuardOK(h) /\ Keeps(g, h)
    <2>1. \A a \in Approvals : g.approvals[a].status = "consumed" =>
             h.approvals[a].status = "consumed" /\ h.approvals[a].req = g.approvals[a].req
      BY <1>5, <1>6
    <2> QED BY <1>6, <2>1, ApprovalsOnly
  <1>8. /\ \A a \in A : StatusOf(g)[a] = "issued"
        /\ StatusOf(h) = [a \in Approvals |-> IF a \in A THEN to ELSE StatusOf(g)[a]]
    BY <1>5, <1>6 DEF StatusOf
  <1>9. Moves(StatusOf(g), StatusOf(h))
    <2>1. A \in SUBSET Approvals
      OBVIOUS
    <2> HIDE DEF A
    <2> QED BY <1>8, <2>1 DEF Moves
  <1> QED BY <1>7, <1>9 DEF h

LEMMA Spends ==
    ASSUME NEW g, GuardOK(g), NEW a \in Approvals, g.approvals[a].status = "issued", NEW h,
           h = Consumed(g, a)
    PROVE  /\ GuardOK(h) /\ Keeps(g, h) /\ Moves(StatusOf(g), StatusOf(h))
           /\ h.approvals[a].status = "consumed" /\ h.approvals[a].req = g.approvals[a].req
           /\ h.receipts = g.receipts
  <1> DEFINE row == [g.approvals[a] EXCEPT !.status = "consumed"]
  <1>1. g \in GuardRow /\ g.approvals[a] \in ApprovalRow
    BY DEF GuardOK, GuardRow
  <1>2. row \in ApprovalRow /\ row.status = "consumed" /\ row.req = g.approvals[a].req
    BY <1>1 DEF ApprovalRow
  <1>3. h = SetApproval(g, a, row)
    BY DEF Consumed, SetApproval
  <1> HIDE DEF row
  <1>4. /\ h \in GuardRow /\ h.agents = g.agents /\ h.mandates = g.mandates
        /\ h.receipts = g.receipts
        /\ \A x \in Approvals : h.approvals[x] = IF x = a THEN row ELSE g.approvals[x]
    BY <1>1, <1>2, <1>3, SetApprovalType
  <1>5. \A x \in Approvals : g.approvals[x].status = "consumed" =>
             h.approvals[x].status = "consumed" /\ h.approvals[x].req = g.approvals[x].req
    BY <1>2, <1>4
  <1>6. GuardOK(h) /\ Keeps(g, h)
    BY <1>4, <1>5, ApprovalsOnly
  <1>7. StatusOf(g)[a] = "issued" /\ StatusOf(h) = [StatusOf(g) EXCEPT ![a] = "consumed"]
    BY <1>2, <1>4 DEF StatusOf
  <1>8. Moves(StatusOf(g), StatusOf(h))
    BY <1>7 DEF Moves
  <1> QED BY <1>2, <1>4, <1>6, <1>8

LEMMA IssuesOne ==
    ASSUME NEW g, GuardOK(g), NEW q \in AllRequests, NEW actor \in Actors, NEW bound \in BOOLEAN,
           FreshApprovals(g) # {}, NEW h, h = WithApproval(g, q, actor, bound)
    PROVE  GuardOK(h) /\ Keeps(g, h) /\ Moves(StatusOf(g), StatusOf(h))
  <1> DEFINE a == CHOOSE x \in FreshApprovals(g) : TRUE
             row == [status |-> "issued", req |-> q, mandate |-> Agent(g, RoleOf(q)).mandate,
                     actor |-> actor, bound |-> bound, late |-> FALSE]
  <1>1. a \in Approvals /\ g.approvals[a].status = "none" /\ g \in GuardRow
    BY DEF FreshApprovals, GuardOK
  <1>2. row \in ApprovalRow /\ row.status = "issued"
    <2>1. Agent(g, RoleOf(q)).mandate \in 0..MaxMandates
      BY RolesType DEF GuardOK, GuardRow, AgentRow, Agent
    <2> QED BY <2>1 DEF ApprovalRow
  <1>3. h = SetApproval(g, a, row)
    BY DEF WithApproval, SetApproval
  <1> HIDE DEF row, a
  <1>4. /\ h \in GuardRow /\ h.agents = g.agents /\ h.mandates = g.mandates
        /\ h.receipts = g.receipts
        /\ \A x \in Approvals : h.approvals[x] = IF x = a THEN row ELSE g.approvals[x]
    BY <1>1, <1>2, <1>3, SetApprovalType
  <1>5. \A x \in Approvals : g.approvals[x].status = "consumed" =>
             h.approvals[x].status = "consumed" /\ h.approvals[x].req = g.approvals[x].req
    BY <1>1, <1>4
  <1>6. GuardOK(h) /\ Keeps(g, h)
    BY <1>4, <1>5, ApprovalsOnly
  <1>7. StatusOf(g)[a] = "none" /\ StatusOf(h) = [StatusOf(g) EXCEPT ![a] = "issued"]
    BY <1>1, <1>2, <1>4 DEF StatusOf
  <1>8. Moves(StatusOf(g), StatusOf(h))
    BY <1>1, <1>7 DEF Moves
  <1> QED BY <1>6, <1>8

LEMMA Receipts ==
    ASSUME NEW g, GuardOK(g), NEW outcome \in {"approved", "executed"}, NEW q \in AllRequests,
           NEW by \in By, NEW h, h = WithReceipt(g, Receipt(outcome, q, by))
    PROVE  /\ GuardOK(h) /\ StatusOf(h) = StatusOf(g)
           /\ h.approvals = g.approvals /\ h.mandates = g.mandates
           /\ h.receipts = g.receipts \cup {Receipt(outcome, q, by)}
           /\ outcome = "approved" => Keeps(g, h)
  <1> DEFINE row == Receipt(outcome, q, by)
  <1>1. row \in ReceiptRow /\ row.outcome = outcome
    BY DEF Receipt, ReceiptRow
  <1>2. g \in GuardRow
    BY DEF GuardOK
  <1> HIDE DEF row
  <1>3. h = [g EXCEPT !.receipts = g.receipts \cup {row}]
    BY DEF WithReceipt, row
  <1>4. /\ h \in GuardRow /\ h.agents = g.agents /\ h.mandates = g.mandates
        /\ h.approvals = g.approvals /\ h.receipts = g.receipts \cup {row}
    BY <1>1, <1>2, <1>3 DEF GuardRow
  <1>5. GuardOK(h) /\ StatusOf(h) = StatusOf(g)
    BY <1>4 DEF GuardOK, MandatesOK, StatusOf
  <1>6. outcome = "approved" => Keeps(g, h)
    BY <1>1, <1>4 DEF Keeps
  <1> QED BY <1>4, <1>5, <1>6 DEF row

-----------------------------------------------------------------------------
(* The trail from receipts to what was done, and from there to approvals   *)
(* and limits: AuthorityTrail of a guard file and a store file.            *)

Spent(g, s) ==
    \A m \in s.memory :
        m.by \in Approvals =>
            /\ g.approvals[m.by].status = "consumed"
            /\ m.op = "create" \/ AsAsked(s, m, g.approvals[m.by].req)
Once(s) ==
    \A m, n \in s.memory :
        m.by \in Approvals /\ n.by = m.by /\ n.op # "create" /\ m.op # "create" => n = m
Limited(g, s) ==
    \A m \in s.memory :
        m.op = "refund" /\ m.by = "limit" =>
            \E n \in 1..Len(g.mandates["seller"]) : m.out <= g.mandates["seller"][n].limit
Done(g, s) == \A x \in g.receipts : x.outcome = "executed" => Told(s, x.req)
Trail(g, s) == Spent(g, s) /\ Once(s) /\ Limited(g, s) /\ Done(g, s)

LEMMA TrailIsAuthorityTrail == Trail(guard, store) <=> AuthorityTrail
  BY DEF Trail, Spent, Once, Limited, Done, AuthorityTrail, Told

LEMMA TrailKept ==
    ASSUME NEW g, NEW h, NEW s, Trail(g, s), Keeps(g, h)
    PROVE  Trail(h, s)
  <1>1. Spent(h, s)
    BY DEF Trail, Spent, Keeps
  <1>2. Limited(h, s)
    BY DEF Trail, Limited, Keeps
  <1>3. Done(h, s)
    BY DEF Trail, Done, Keeps
  <1> QED BY <1>1, <1>2, <1>3 DEF Trail

LEMMA TrailSameMemory ==
    ASSUME NEW g, NEW st, NEW s, Trail(g, st), s.memory = st.memory, RowsKept(st, s)
    PROVE  Trail(g, s)
  <1>1. Spent(g, s)
    BY AsAskedStays DEF Trail, Spent
  <1>2. Once(s) /\ Limited(g, s) /\ Done(g, s)
    BY DEF Trail, Once, Limited, Done, Told
  <1> QED BY <1>1, <1>2 DEF Trail

\* What allows q to be done: an approval of it that is spent, and was not before
\* anything remembered was done; or the limit of a mandate.
Backed(g, st, q, by) ==
    \/ /\ by \in Approvals
       /\ g.approvals[by].status = "consumed" /\ g.approvals[by].req = q
       /\ \A m \in st.memory : m.by # by
    \/ /\ by = "limit"
       /\ q.action = "refund" =>
            \E n \in 1..Len(g.mandates["seller"]) : q.amount <= g.mandates["seller"][n].limit

LEMMA TrailAdded ==
    ASSUME NEW g, NEW st, NEW s, NEW q, NEW by,
           Trail(g, st), Backed(g, st, q, by), Adds(st, s, q, by)
    PROVE  Trail(g, s)
  <1>1. Spent(g, s)
    <2> SUFFICES ASSUME NEW m \in s.memory, m.by \in Approvals
                 PROVE  /\ g.approvals[m.by].status = "consumed"
                        /\ m.op = "create" \/ AsAsked(s, m, g.approvals[m.by].req)
      BY DEF Spent
    <2>1. CASE m \in st.memory
      <3>1. /\ g.approvals[m.by].status = "consumed"
            /\ m.op = "create" \/ AsAsked(st, m, g.approvals[m.by].req)
        BY <2>1 DEF Trail, Spent
      <3>2. RowsKept(st, s) /\ st.memory \subseteq s.memory
        BY DEF Adds
      <3> QED BY <3>1, <3>2, AsAskedStays
    <2>2. CASE m \notin st.memory
      <3>1. m.by = by /\ (m.op = "create" \/ AsAsked(s, m, q))
        BY <2>2 DEF Adds
      <3>2. by # "limit"
        BY <3>1, LimitAssumption
      <3> QED BY <3>1, <3>2 DEF Backed
    <2> QED BY <2>1, <2>2
  <1>2. Once(s)
    <2> SUFFICES ASSUME NEW m \in s.memory, NEW n \in s.memory, m.by \in Approvals,
                        n.by = m.by, n.op # "create", m.op # "create"
                 PROVE  n = m
      BY DEF Once
    <2>1. CASE m \in st.memory /\ n \in st.memory
      BY <2>1 DEF Trail, Once
    <2>2. CASE m \notin st.memory /\ n \notin st.memory
      BY <2>2 DEF Adds
    <2>3. CASE (m \in st.memory) # (n \in st.memory)
      <3>1. m.by = by
        BY <2>3 DEF Adds
      <3>2. by # "limit"
        BY <3>1, LimitAssumption
      <3> QED BY <2>3, <3>1, <3>2 DEF Backed
    <2> QED BY <2>1, <2>2, <2>3
  <1>3. Limited(g, s)
    <2> SUFFICES ASSUME NEW m \in s.memory, m.op = "refund", m.by = "limit"
                 PROVE  \E n \in 1..Len(g.mandates["seller"]) :
                            m.out <= g.mandates["seller"][n].limit
      BY DEF Limited
    <2>1. CASE m \in st.memory
      BY <2>1 DEF Trail, Limited
    <2>2. CASE m \notin st.memory
      <3>1. by = "limit" /\ q.action = "refund" /\ m.out = q.amount
        BY <2>2 DEF Adds
      <3> QED BY <3>1, LimitAssumption DEF Backed
    <2> QED BY <2>1, <2>2
  <1>4. Done(g, s)
    BY DEF Trail, Done, Told, Adds
  <1> QED BY <1>1, <1>2, <1>3, <1>4 DEF Trail

LEMMA TrailTold ==
    ASSUME NEW g, NEW h, NEW s, NEW q, NEW by, Trail(g, s), Told(s, q),
           h.approvals = g.approvals, h.mandates = g.mandates,
           h.receipts = g.receipts \cup {Receipt("executed", q, by)}
    PROVE  Trail(h, s)
  <1>1. Spent(h, s) /\ Limited(h, s)
    BY DEF Trail, Spent, Limited
  <1>2. Done(h, s)
    BY DEF Trail, Done, Receipt
  <1> QED BY <1>1, <1>2 DEF Trail

\* A memory forgotten is the same memory otherwise.
Forgets(st, s) ==
    \E lost \in SUBSET st.memory :
        s.memory = {IF m \in lost THEN [m EXCEPT !.kept = FALSE] ELSE m : m \in st.memory}

LEMMA TrailForgotten ==
    ASSUME NEW g, NEW st \in StoreRow, NEW s, Trail(g, st), Forgets(st, s), RowsKept(st, s)
    PROVE  Trail(g, s) /\ s.memory \subseteq Memory
  <1> PICK lost \in SUBSET st.memory :
            s.memory = {IF m \in lost THEN [m EXCEPT !.kept = FALSE] ELSE m : m \in st.memory}
    BY DEF Forgets
  <1> DEFINE Left(m) == IF m \in lost THEN [m EXCEPT !.kept = FALSE] ELSE m
  <1>1. ASSUME NEW m \in st.memory
        PROVE  /\ Left(m) \in Memory /\ Left(m).op = m.op /\ Left(m).on = m.on
               /\ Left(m).out = m.out /\ Left(m).by = m.by /\ Left(m).key = m.key
    <2>1. m \in Memory
      BY DEF StoreRow
    <2> QED BY <2>1 DEF Memory
  <1>2. s.memory = {Left(m) : m \in st.memory}
    OBVIOUS
  <1> HIDE DEF Left
  <1>3. s.memory \subseteq Memory
    BY <1>1, <1>2
  <1>4. Spent(g, s)
    <2> SUFFICES ASSUME NEW m \in st.memory, m.by \in Approvals
                 PROVE  /\ g.approvals[m.by].status = "consumed"
                        /\ m.op = "create" \/ AsAsked(s, Left(m), g.approvals[m.by].req)
      BY <1>1, <1>2 DEF Spent
    <2>1. /\ g.approvals[m.by].status = "consumed"
          /\ m.op = "create" \/ AsAsked(st, m, g.approvals[m.by].req)
      BY DEF Trail, Spent
    <2>2. ASSUME AsAsked(st, m, g.approvals[m.by].req)
          PROVE  AsAsked(s, m, g.approvals[m.by].req)
      BY <1>1, <1>2, <2>2, AsAskedStays
    <2>3. ASSUME NEW q, AsAsked(s, m, q) PROVE AsAsked(s, Left(m), q)
      BY <1>1, <2>3 DEF AsAsked
    <2> QED BY <2>1, <2>2, <2>3
  <1>5. Once(s)
    BY <1>1, <1>2 DEF Trail, Once
  <1>6. Limited(g, s)
    BY <1>1, <1>2 DEF Trail, Limited
  <1>7. Done(g, s)
    BY <1>1, <1>2 DEF Trail, Done, Told
  <1> QED BY <1>3, <1>4, <1>5, <1>6, <1>7 DEF Trail

LEMMA CleansUp ==
    ASSUME NEW st \in StoreRow, NEW o \in Orders, Exists(st.orders[o])
    PROVE  CleanUp(st, o) \in StoreRow /\ Forgets(st, CleanUp(st, o))
           /\ MoneyAlone(st, CleanUp(st, o))
  <1> DEFINE item == st.orders[o].item
             gone == {i \in IssueIds : st.issues[i].order = o}
             row == [st.orders[o] EXCEPT !.status = "removed"]
             stock == IF item \in Items /\ st.items[item] # "none"
                      THEN [st.stock EXCEPT ![item] = st.stock[item] + 1] ELSE st.stock
             issues == [i \in IssueIds |-> IF i \in gone
                                           THEN [NoDemoIssue EXCEPT !.status = "removed"]
                                           ELSE st.issues[i]]
             lost == {m \in st.memory : m.on = o \/ m.out = o \/ m.on \in gone}
             memory == {IF m \in lost THEN [m EXCEPT !.kept = FALSE] ELSE m : m \in st.memory}
             removed == Ordered(st, o, row)
             s == CleanUp(st, o)
  <1>1. st.orders[o] \in OrderRow
    BY DEF StoreRow
  <1>2. /\ row \in OrderRow /\ row.status = "removed"
        /\ row.refunded = st.orders[o].refunded
        /\ row.amount = st.orders[o].amount /\ row.payment = st.orders[o].payment
        /\ row.item = st.orders[o].item
    BY <1>1 DEF OrderRow
  <1>3. stock \in [Items -> Nat]
    <2>1. st.stock \in [Items -> Nat]
      BY DEF StoreRow
    <2> HIDE DEF item
    <2> QED BY <2>1
  <1>4. issues \in [IssueIds -> DemoIssue]
    <2>1. [NoDemoIssue EXCEPT !.status = "removed"] \in DemoIssue
      BY DEF NoDemoIssue, DemoIssue
    <2>2. st.issues \in [IssueIds -> DemoIssue]
      BY DEF StoreRow
    <2> HIDE DEF gone
    <2> QED BY <2>1, <2>2
  <1>5. memory = {IF m.on = o \/ m.out = o \/ m.on \in gone
                  THEN [m EXCEPT !.kept = FALSE] ELSE m : m \in st.memory}
    OBVIOUS
  <1>6. memory \subseteq Memory
    <2> SUFFICES ASSUME NEW m \in st.memory PROVE [m EXCEPT !.kept = FALSE] \in Memory
      BY DEF StoreRow
    <2>1. m \in Memory
      BY DEF StoreRow
    <2> QED BY <2>1 DEF Memory
  <1>7. s = [removed EXCEPT !.stock = stock, !.issues = issues, !.memory = memory]
    BY <1>5 DEF CleanUp, Ordered
  <1> HIDE DEF row, stock, issues, memory, s
  <1>8. /\ removed \in StoreRow
        /\ \A x \in Orders : removed.orders[x] = IF x = o THEN row ELSE st.orders[x]
    BY <1>2, OrderedType
  <1> HIDE DEF removed
  <1>9. s \in StoreRow /\ s.orders = removed.orders /\ s.memory = memory
    BY <1>3, <1>4, <1>6, <1>7, <1>8 DEF StoreRow
  <1>10. MoneyAlone(st, s)
    BY <1>2, <1>8, <1>9 DEF MoneyAlone
  <1>11. Forgets(st, s)
    <2>1. lost \in SUBSET st.memory
      OBVIOUS
    <2> HIDE DEF lost
    <2> QED BY <1>9, <2>1 DEF Forgets, memory
  <1> QED BY <1>9, <1>10, <1>11 DEF s

-----------------------------------------------------------------------------
(* The invariant, and what carries it over the saves of a handler.         *)

Inv(g, s) == GuardOK(g) /\ s \in StoreRow /\ Within(s) /\ Trail(g, s)
IInv ==
    /\ scenario \in Scenarios
    /\ Inv(guard, store)
    /\ adapter \in AdapterRow /\ Money(store, adapter)

States == [guard : GuardRow, store : StoreRow]
\* A state of the files that a handler may leave behind.
Fine(x) == Inv(x.guard, x.store) /\ Moves(StatusOf(guard), StatusOf(x.guard))
Good(steps) == steps \in Seq(States) /\ \A n \in 1..Len(steps) : Fine(steps[n])
\* Where it ends, the adapter too is right.
Ends(steps, ad) == steps # <<>> /\ ad \in AdapterRow /\ Money(steps[Len(steps)].store, ad)

LEMMA MoneyStarts == ASSUME NEW s \in StoreRow PROVE EmptyAdapter \in AdapterRow /\ Money(s, EmptyAdapter)
  <1>1. EmptyAdapter \in AdapterRow /\ EmptyAdapter.refunds = {}
    BY DEF EmptyAdapter, AdapterRow
  <1>2. IsFiniteSet({})
    BY FS_EmptySet
  <1>3. \A p : PaidSum(EmptyAdapter, p) = 0
    <2> SUFFICES ASSUME NEW p PROVE PaidSum(EmptyAdapter, p) = 0
      OBVIOUS
    <2>1. RupeesOf(PaidRows(EmptyAdapter, p), [x \in EmptyAdapter.refunds |-> x.amount]) = {}
      BY <1>1 DEF RupeesOf, PaidRows
    <2> QED BY <2>1, FS_EmptySet DEF PaidSum
  <1>4. \A p : RefundedSum(s, p) \in Nat
    BY <1>1, <1>2, SumsType
  <1> QED BY <1>1, <1>2, <1>3, <1>4 DEF Money

LEMMA Runs ==
    ASSUME IInv, NEW steps, NEW ad, Good(steps), Ends(steps, ad), Run(steps, ad)
    PROVE  IInv' /\ Moves(StatusOf(guard), StatusOf(guard'))
  <1>1. Len(steps) \in Nat /\ Len(steps) # 0
    BY DEF Good, Ends
  <1>2. \A n \in 0..Len(steps) : Inv(After(steps, n).guard, After(steps, n).store)
    BY DEF IInv, Good, Fine, After, Here, State
  <1>3. \A n \in 0..Len(steps) : Moves(StatusOf(guard), StatusOf(After(steps, n).guard))
    <2> SUFFICES ASSUME NEW n \in 0..Len(steps)
                 PROVE  Moves(StatusOf(guard), StatusOf(After(steps, n).guard))
      OBVIOUS
    <2>1. CASE n = 0
      <3>1. After(steps, n).guard = guard
        BY <2>1 DEF After, Here, State
      <3> QED BY <3>1 DEF Moves
    <2>2. CASE n # 0
      <3>1. n \in 1..Len(steps) /\ After(steps, n) = steps[n]
        BY <1>1, <2>2 DEF After
      <3> QED BY <3>1 DEF Good, Fine
    <2> QED BY <2>1, <2>2
  <1>4. CASE Finish(steps, ad)
    <2>1. After(steps, Len(steps)) = steps[Len(steps)]
      BY <1>1 DEF After
    <2>2. Len(steps) \in 0..Len(steps)
      BY <1>1
    <2>3. Inv(guard', store') /\ Moves(StatusOf(guard), StatusOf(guard'))
      BY <1>2, <1>3, <1>4, <2>2 DEF Finish
    <2>4. adapter' \in AdapterRow /\ Money(store', adapter') /\ scenario' = scenario
      BY <1>4, <2>1 DEF Finish, Ends
    <2> QED BY <2>3, <2>4 DEF IInv
  <1>5. CASE Die(steps)
    <2> PICK n \in 0..Len(steps) :
            /\ guard' = After(steps, n).guard /\ store' = After(steps, n).store
            /\ adapter' = EmptyAdapter /\ scenario' = scenario
      BY <1>5 DEF Die
    <2>1. Inv(guard', store') /\ Moves(StatusOf(guard), StatusOf(guard'))
      BY <1>2, <1>3
    <2>2. adapter' \in AdapterRow /\ Money(store', adapter')
      BY <2>1, MoneyStarts DEF Inv
    <2> QED BY <2>1, <2>2 DEF IInv
  <1> QED BY <1>4, <1>5 DEF Run

LEMMA FineState ==
    ASSUME NEW g, NEW s, Inv(g, s), Moves(StatusOf(guard), StatusOf(g))
    PROVE  State(g, s) \in States /\ Fine(State(g, s))
           /\ State(g, s).guard = g /\ State(g, s).store = s
  BY DEF State, States, Fine, Inv, GuardOK

LEMMA GoodOne ==
    ASSUME NEW x \in States, Fine(x)
    PROVE  Good(<<x>>) /\ <<x>> # <<>> /\ <<x>>[Len(<<x>>)] = x
  BY DEF Good

LEMMA GoodBoth ==
    ASSUME NEW first, NEW second, Good(first), Good(second)
    PROVE  /\ Good(first \o second)
           /\ second = <<>> => first \o second = first
           /\ second # <<>> => /\ first \o second # <<>>
                               /\ (first \o second)[Len(first \o second)] = second[Len(second)]
  <1> DEFINE both == first \o second
  <1>1. /\ both \in Seq(States) /\ Len(both) = Len(first) + Len(second)
        /\ first \in Seq(States) /\ second \in Seq(States)
        /\ Len(first) \in Nat /\ Len(second) \in Nat
    BY DEF Good
  <1>2. \A n \in 1..Len(both) :
            both[n] = IF n <= Len(first) THEN first[n] ELSE second[n - Len(first)]
    BY <1>1
  <1>3. ASSUME NEW n \in 1..Len(both) PROVE Fine(both[n])
    <2>1. CASE n <= Len(first)
      BY <1>1, <1>2, <2>1 DEF Good
    <2>2. CASE n > Len(first)
      <3>1. n - Len(first) \in 1..Len(second)
        BY <1>1, <2>2
      <3>2. both[n] = second[n - Len(first)]
        BY <1>1, <1>2, <2>2
      <3> QED BY <3>1, <3>2 DEF Good
    <2> QED BY <1>1, <2>1, <2>2
  <1>4. second = <<>> => both = first
    BY <1>1
  <1>5. second # <<>> => both # <<>> /\ both[Len(both)] = second[Len(second)]
    <2> SUFFICES ASSUME second # <<>> PROVE both # <<>> /\ both[Len(both)] = second[Len(second)]
      OBVIOUS
    <2>1. Len(second) > 0
      BY <1>1
    <2>2. Len(both) \in 1..Len(both) /\ ~(Len(both) <= Len(first))
      BY <1>1, <2>1
    <2>3. both[Len(both)] = second[Len(both) - Len(first)]
      BY <1>2, <2>2
    <2>4. both # <<>>
      BY <1>1, <2>1
    <2> QED BY <1>1, <2>3, <2>4
  <1> QED BY <1>1, <1>3, <1>4, <1>5 DEF Good

LEMMA IInvStoreOK == IInv => StoreOK
  BY DEF IInv, Inv, StoreOK

\* The checkout's authorisation touches no memory and no money.
LEMMA Authorizes ==
    ASSUME NEW st \in StoreRow, NEW o
    PROVE  /\ Authorize(st, o) \in StoreRow /\ Authorize(st, o).memory = st.memory
           /\ MoneyAlone(st, Authorize(st, o))
  <1> DEFINE orders == [st.orders EXCEPT ![o].authorized = TRUE]
  <1>1. st.orders \in [Orders -> OrderRow]
    BY DEF StoreRow
  <1>2. ASSUME NEW row \in OrderRow
        PROVE  LET known == [row EXCEPT !.authorized = TRUE] IN
               /\ known \in OrderRow /\ known.status = row.status
               /\ known.refunded = row.refunded /\ known.amount = row.amount
               /\ known.payment = row.payment /\ known.item = row.item
    BY DEF OrderRow
  <1>3. /\ orders = [x \in Orders |-> IF x = o THEN [st.orders[x] EXCEPT !.authorized = TRUE]
                                      ELSE st.orders[x]]
    BY <1>1
  <1>4. orders \in [Orders -> OrderRow]
    <2>1. \A x \in Orders : st.orders[x] \in OrderRow
      BY <1>1
    <2>2. \A x \in Orders : (IF x = o THEN [st.orders[x] EXCEPT !.authorized = TRUE]
                             ELSE st.orders[x]) \in OrderRow
      BY <1>2, <2>1
    <2> QED BY <1>3, <2>2
  <1>5. \A x \in Orders : /\ orders[x].status = st.orders[x].status
                          /\ orders[x].refunded = st.orders[x].refunded
                          /\ orders[x].amount = st.orders[x].amount
                          /\ orders[x].payment = st.orders[x].payment
                          /\ orders[x].item = st.orders[x].item
    <2> TAKE x \in Orders
    <2>1. st.orders[x] \in OrderRow
      BY <1>1
    <2>2. orders[x] = IF x = o THEN [st.orders[x] EXCEPT !.authorized = TRUE] ELSE st.orders[x]
      BY <1>3
    <2> HIDE DEF orders
    <2> QED BY <1>2, <2>1, <2>2
  <1>6. Authorize(st, o) = [st EXCEPT !.orders = orders]
    BY DEF Authorize
  <1> HIDE DEF orders
  <1>7. /\ Authorize(st, o) \in StoreRow /\ Authorize(st, o).memory = st.memory
        /\ Authorize(st, o).orders = orders
    BY <1>4, <1>6 DEF StoreRow
  <1>8. MoneyAlone(st, Authorize(st, o))
    BY <1>5, <1>7 DEF MoneyAlone
  <1> QED BY <1>7, <1>8

LEMMA PerformedIsGood ==
    ASSUME IInv, NEW g, Inv(g, store), Moves(StatusOf(guard), StatusOf(g)),
           NEW q \in AllRequests, q \in Request, NEW key \in Keys, NEW by \in By,
           Backed(g, store, q, by), NEW steps, steps = Performed(g, q, key, by)
    PROVE  /\ Good(steps)
           /\ steps = <<>> => AdapterAfter(q, key) = adapter
           /\ steps # <<>> => Ends(steps, AdapterAfter(q, key))
  <1> DEFINE saves == EffectSaves(q, key, by)
             done == Saved(store, saves)
             told == WithReceipt(g, Receipt("executed", q, by))
             after == AdapterAfter(q, key)
             effects == [n \in 1..Len(saves) |-> State(g, saves[n])]
             authorized == Authorize(done, Answer(done, "order", "any", key))
             receipt == <<State(told, done)>>
             last == IF q.action = "checkout" THEN <<State(told, authorized)>> ELSE <<>>
  <1>1. steps = effects \o (IF Succeeds(q, key) THEN receipt \o last ELSE <<>>)
    BY DEF Performed
  <1>2. CASE ~Succeeds(q, key)
    <2>1. saves = <<>> /\ after = adapter
      BY <1>2 DEF EffectSaves, AdapterAfter
    <2>2. effects = <<>>
      BY <2>1
    <2>3. steps = <<>>
      BY <1>1, <1>2, <2>2
    <2>4. Good(<<>>)
      BY DEF Good
    <2> QED BY <2>1, <2>3, <2>4
  <1>3. CASE Succeeds(q, key)
    <2>1. EffectOK(saves, q, by, after)
      BY <1>3, IInvStoreOK, EffectSucceeds
    <2> HIDE DEF saves, after
    <2>2. /\ saves \in Seq(StoreRow) /\ Len(saves) \in Nat
          /\ after \in AdapterRow /\ Money(done, after) /\ Told(done, q)
      BY <2>1 DEF EffectOK
    <2>3. ASSUME NEW n \in 1..Len(saves)
          PROVE  Inv(g, saves[n]) /\ State(g, saves[n]) \in States /\ Fine(State(g, saves[n]))
      <3>1. saves[n] \in StoreRow /\ Adds(store, saves[n], q, by) /\ Within(saves[n])
        BY <2>1 DEF EffectOK
      <3>2. Inv(g, saves[n])
        BY <3>1, TrailAdded DEF Inv
      <3> QED BY <3>2, FineState
    <2>4. Good(effects)
      <3>1. effects \in Seq(States) /\ Len(effects) = Len(saves)
        BY <2>2, <2>3
      <3>2. \A n \in 1..Len(effects) : effects[n] = State(g, saves[n])
        BY <3>1
      <3> HIDE DEF effects
      <3> QED BY <2>3, <3>1, <3>2 DEF Good
    <2>5. Inv(g, done)
      <3>1. CASE saves = <<>>
        BY <3>1 DEF Saved
      <3>2. CASE saves # <<>>
        <4>1. Len(saves) \in 1..Len(saves)
          BY <2>2, <3>2
        <4> QED BY <2>3, <3>2, <4>1 DEF Saved
      <3> QED BY <3>1, <3>2
    <2> HIDE DEF done
    <2>6. /\ GuardOK(told) /\ StatusOf(told) = StatusOf(g)
          /\ told.approvals = g.approvals /\ told.mandates = g.mandates
          /\ told.receipts = g.receipts \cup {Receipt("executed", q, by)}
      BY Receipts DEF Inv
    <2> HIDE DEF told
    <2>7. Inv(told, done)
      BY <2>2, <2>5, <2>6, TrailTold DEF Inv
    <2>8. /\ Good(receipt) /\ receipt # <<>> /\ receipt[Len(receipt)].store = done
      <3>1. /\ State(told, done) \in States /\ Fine(State(told, done))
            /\ State(told, done).store = done
        BY <2>6, <2>7, FineState
      <3> QED BY <3>1, GoodOne
    <2>9. CASE q.action = "checkout"
      <3>1. /\ authorized \in StoreRow /\ authorized.memory = done.memory
            /\ MoneyAlone(done, authorized)
        BY <2>7, Authorizes DEF Inv
      <3> HIDE DEF authorized
      <3>2. Inv(told, authorized)
        <4>1. Trail(told, authorized)
          BY <2>7, <3>1, AloneKeepsRows, TrailSameMemory DEF Inv
        <4>2. Within(authorized)
          BY <2>7, <3>1 DEF Inv, Within, MoneyAlone
        <4> QED BY <2>6, <3>1, <4>1, <4>2 DEF Inv
      <3>3. /\ State(told, authorized) \in States /\ Fine(State(told, authorized))
            /\ State(told, authorized).store = authorized
        BY <2>6, <3>2, FineState
      <3>4. last = <<State(told, authorized)>>
        BY <2>9
      <3>5. Good(last) /\ last # <<>> /\ last[Len(last)].store = authorized
        BY <3>3, <3>4, GoodOne
      <3>6. Money(authorized, after)
        BY <2>2, <2>7, <3>1, MoneyKept DEF Inv
      <3> HIDE DEF effects, receipt, last
      <3>7. /\ Good(receipt \o last) /\ receipt \o last # <<>>
            /\ (receipt \o last)[Len(receipt \o last)] = last[Len(last)]
        BY <2>8, <3>5, GoodBoth
      <3>8. steps = effects \o (receipt \o last)
        BY <1>1, <1>3
      <3>9. /\ Good(steps) /\ steps # <<>>
            /\ steps[Len(steps)] = (receipt \o last)[Len(receipt \o last)]
        BY <2>4, <3>7, <3>8, GoodBoth
      <3> QED BY <2>2, <3>5, <3>6, <3>7, <3>9 DEF Ends, after
    <2>10. CASE q.action # "checkout"
      <3>1. last = <<>>
        BY <2>10
      <3>2. Good(last)
        BY <3>1 DEF Good
      <3> HIDE DEF effects, receipt, last
      <3>3. Good(receipt \o last) /\ receipt \o last = receipt
        BY <2>8, <3>1, <3>2, GoodBoth
      <3>4. steps = effects \o receipt
        BY <1>1, <1>3, <3>3
      <3>5. Good(steps) /\ steps # <<>> /\ steps[Len(steps)] = receipt[Len(receipt)]
        BY <2>4, <2>8, <3>4, GoodBoth
      <3> QED BY <2>2, <2>8, <3>5 DEF Ends, after
    <2> QED BY <2>9, <2>10
  <1> QED BY <1>2, <1>3

-----------------------------------------------------------------------------
(* Every action keeps the invariant, and moves approvals as promised.      *)

Preserved == IInv' /\ Moves(StatusOf(guard), StatusOf(guard'))

LEMMA RunsOne ==
    ASSUME IInv, NEW g, NEW s, Inv(g, s), Moves(StatusOf(guard), StatusOf(g)),
           Money(s, adapter), Run(<<State(g, s)>>, adapter)
    PROVE  Preserved
  <1>1. /\ State(g, s) \in States /\ Fine(State(g, s)) /\ State(g, s).store = s
    BY FineState
  <1> DEFINE x == State(g, s)
             steps == <<x>>
  <1> HIDE DEF x
  <1>2. Good(steps) /\ steps # <<>> /\ steps[Len(steps)] = x
    BY <1>1, GoodOne DEF x
  <1>3. Run(steps, adapter) /\ adapter \in AdapterRow /\ x.store = s
    BY <1>1 DEF IInv, x
  <1> HIDE DEF steps
  <1>4. Ends(steps, adapter)
    BY <1>2, <1>3 DEF Ends
  <1> QED BY <1>2, <1>3, <1>4, Runs DEF Preserved

LEMMA RunsTwo ==
    ASSUME IInv, NEW g, NEW s, Inv(g, s), Moves(StatusOf(guard), StatusOf(g)),
           NEW h, NEW t, Inv(h, t), Moves(StatusOf(guard), StatusOf(h)),
           Money(t, adapter), Run(<<State(g, s), State(h, t)>>, adapter)
    PROVE  Preserved
  <1> DEFINE x == State(g, s)
             y == State(h, t)
             steps == <<x, y>>
  <1>1. x \in States /\ Fine(x)
    BY FineState
  <1>2. y \in States /\ Fine(y) /\ y.store = t
    BY FineState
  <1>3. Run(steps, adapter) /\ adapter \in AdapterRow
    BY DEF IInv
  <1> HIDE DEF x, y
  <1>4. Good(steps) /\ steps # <<>> /\ steps[Len(steps)] = y
    BY <1>1, <1>2 DEF Good
  <1> HIDE DEF steps
  <1>5. Ends(steps, adapter)
    BY <1>2, <1>3, <1>4 DEF Ends
  <1> QED BY <1>3, <1>4, <1>5, Runs DEF Preserved

\* The guard file changes, the store does not.
LEMMA GuardChanges ==
    ASSUME IInv, NEW h, GuardOK(h), Keeps(guard, h)
    PROVE  Inv(h, store)
  BY TrailKept DEF IInv, Inv

LEMMA IInvGuard ==
    IInv => /\ GuardOK(guard) /\ Inv(guard, store) /\ Money(store, adapter)
            /\ Moves(StatusOf(guard), StatusOf(guard)) /\ guard \in GuardRow
            /\ store \in StoreRow
  BY DEF IInv, Inv, Moves, GuardOK

LEMMA CompileKeeps ==
    ASSUME IInv, NEW r \in Roles, NEW limit \in Limits, Compile(r, limit)
    PROVE  Preserved
  <1> DEFINE g == EnsureAgent(guard, r)
             list == Append(g.mandates[r], [status |-> "draft", limit |-> limit])
             h == SetMandates(g, r, list)
  <1>1. /\ GuardOK(g) /\ Keeps(guard, g) /\ StatusOf(g) = StatusOf(guard)
        /\ g.agents[r].mandate \in 1..Len(g.mandates[r])
    BY IInvGuard, Ensures
  <1>2. /\ Len(g.mandates[r]) < MaxMandates
        /\ Run(<<State(g, store), State(h, store)>>, adapter)
    BY DEF Compile, SetMandates
  <1> HIDE DEF g
  <1>3. /\ list \in Seq(MandateRow) /\ Len(list) = Len(g.mandates[r]) + 1
        /\ Len(g.mandates[r]) \in Nat
        /\ \A n \in 1..Len(g.mandates[r]) : list[n] = g.mandates[r][n]
    <2>1. g.mandates[r] \in Seq(MandateRow)
      BY <1>1 DEF GuardOK, GuardRow
    <2>2. [status |-> "draft", limit |-> limit] \in MandateRow
      BY LimitAssumption DEF MandateRow
    <2> QED BY <2>1, <2>2
  <1>4. g \in GuardRow
    BY <1>1 DEF GuardOK
  <1> HIDE DEF list
  <1>5. /\ h \in GuardRow /\ h.agents = g.agents /\ h.approvals = g.approvals
        /\ h.receipts = g.receipts
        /\ \A x \in Roles : h.mandates[x] = IF x = r THEN list ELSE g.mandates[x]
    BY <1>3, <1>4, SetMandatesType
  <1> HIDE DEF h
  <1>6. GuardOK(h) /\ Keeps(g, h) /\ StatusOf(h) = StatusOf(g)
    <2>1. \A x \in Roles \ {r} : h.agents[x] = g.agents[x] /\ h.mandates[x] = g.mandates[x]
      BY <1>5
    <2>2. /\ Len(h.mandates[r]) <= MaxMandates /\ Len(g.mandates[r]) <= Len(h.mandates[r])
          /\ h.agents[r].mandate \in 1..Len(h.mandates[r])
          /\ \A n \in 1..Len(g.mandates[r]) : h.mandates[r][n].limit = g.mandates[r][n].limit
      BY <1>1, <1>2, <1>3, <1>5, LimitAssumption
    <2> QED BY <1>1, <1>5, <2>1, <2>2, AgentsOnly
  <1>7. Keeps(guard, h)
    BY <1>1, <1>6, KeepsBoth
  <1>8. Inv(g, store) /\ Inv(h, store)
    BY <1>1, <1>6, <1>7, GuardChanges
  <1> QED BY <1>1, <1>2, <1>6, <1>8, IInvGuard, RunsTwo

\* Closing approvals after another change of the guard.
LEMMA ClosesAfter ==
    ASSUME IInv, NEW g, GuardOK(g), Keeps(guard, g), StatusOf(g) = StatusOf(guard),
           NEW r \in Roles, NEW to \in {"expired", "revoked"},
           Run(<<State(Closed(g, r, to), store)>>, adapter)
    PROVE  Preserved
  <1> DEFINE h == Closed(g, r, to)
  <1>1. GuardOK(h) /\ Keeps(g, h) /\ Moves(StatusOf(g), StatusOf(h))
    BY Closes
  <1> HIDE DEF h
  <1>2. Inv(h, store)
    BY <1>1, KeepsBoth, GuardChanges
  <1>3. Run(<<State(h, store)>>, adapter)
    BY DEF h
  <1> QED BY <1>1, <1>2, <1>3, IInvGuard, RunsOne

LEMMA ConfirmKeeps ==
    ASSUME IInv, NEW r \in Roles, NEW m, Confirm(r, m)
    PROVE  Preserved
  <1> DEFINE mandate == [guard.mandates[r][m] EXCEPT !.status = "active"]
             list == [guard.mandates[r] EXCEPT ![m] = mandate]
             f == SetMandates(guard, r, list)
             agent == [f.agents[r] EXCEPT !.mandate = m]
             g == SetAgent(f, r, agent)
  <1>1. GuardOK(guard) /\ guard \in GuardRow
    BY IInvGuard
  <1>2. m \in 1..Len(guard.mandates[r]) /\ guard.mandates[r] \in Seq(MandateRow)
    BY <1>1 DEF Confirm, GuardRow
  <1>3. Run(<<State(Closed(g, r, "revoked"), store)>>, adapter)
    BY DEF Confirm, SetMandates, SetAgent
  <1>4. mandate \in MandateRow /\ mandate.limit = guard.mandates[r][m].limit
    <2>1. guard.mandates[r][m] \in MandateRow
      BY <1>2
    <2> QED BY <2>1 DEF MandateRow
  <1> HIDE DEF mandate
  <1>5. /\ list \in Seq(MandateRow) /\ Len(list) = Len(guard.mandates[r])
        /\ \A n \in 1..Len(guard.mandates[r]) :
            list[n] = IF n = m THEN mandate ELSE guard.mandates[r][n]
    BY <1>2, <1>4
  <1> HIDE DEF list
  <1>6. /\ f \in GuardRow /\ f.agents = guard.agents /\ f.approvals = guard.approvals
        /\ f.receipts = guard.receipts
        /\ \A x \in Roles : f.mandates[x] = IF x = r THEN list ELSE guard.mandates[x]
    BY <1>1, <1>5, SetMandatesType
  <1> HIDE DEF f
  <1>7. agent \in AgentRow /\ agent.mandate = m
    <2>1. f.agents[r] \in AgentRow
      BY <1>6 DEF GuardRow
    <2>2. m \in 0..MaxMandates
      BY <1>1, <1>2, LimitAssumption DEF GuardOK, MandatesOK
    <2> QED BY <2>1, <2>2 DEF AgentRow
  <1> HIDE DEF agent
  <1>8. /\ g \in GuardRow /\ g.mandates = f.mandates /\ g.approvals = f.approvals
        /\ g.receipts = f.receipts
        /\ \A x \in Roles : g.agents[x] = IF x = r THEN agent ELSE f.agents[x]
    BY <1>6, <1>7, SetAgentType
  <1> HIDE DEF g
  <1>9. GuardOK(g) /\ Keeps(guard, g) /\ StatusOf(g) = StatusOf(guard)
    <2>1. \A x \in Roles \ {r} :
             g.agents[x] = guard.agents[x] /\ g.mandates[x] = guard.mandates[x]
      BY <1>6, <1>8
    <2>2. /\ Len(g.mandates[r]) <= MaxMandates /\ Len(guard.mandates[r]) <= Len(g.mandates[r])
          /\ g.agents[r].mandate \in 1..Len(g.mandates[r])
          /\ \A n \in 1..Len(guard.mandates[r]) :
                g.mandates[r][n].limit = guard.mandates[r][n].limit
      <3>1. Len(guard.mandates[r]) <= MaxMandates /\ Len(guard.mandates[r]) \in Nat
        BY <1>1, <1>2 DEF GuardOK, MandatesOK
      <3> QED BY <1>2, <1>4, <1>5, <1>6, <1>7, <1>8, <3>1
    <2>3. g.approvals = guard.approvals /\ g.receipts = guard.receipts
      BY <1>6, <1>8
    <2> QED BY <1>1, <1>8, <2>1, <2>2, <2>3, AgentsOnly
  <1> QED BY <1>3, <1>9, ClosesAfter

LEMMA StatusChanges ==
    ASSUME NEW f, GuardOK(f), NEW r \in Roles, f.agents[r].mandate # 0,
           NEW status \in {"active", "paused", "revoked"}, NEW g,
           g = SetAgent(f, r, [f.agents[r] EXCEPT !.status = status])
    PROVE  GuardOK(g) /\ Keeps(f, g) /\ StatusOf(g) = StatusOf(f)
  <1> DEFINE agent == [f.agents[r] EXCEPT !.status = status]
  <1>1. f \in GuardRow /\ f.agents[r] \in AgentRow
    BY DEF GuardOK, GuardRow
  <1>2. agent \in AgentRow /\ agent.mandate = f.agents[r].mandate
    BY <1>1 DEF AgentRow
  <1> HIDE DEF agent
  <1>3. /\ g \in GuardRow /\ g.mandates = f.mandates /\ g.approvals = f.approvals
        /\ g.receipts = f.receipts
        /\ \A x \in Roles : g.agents[x] = IF x = r THEN agent ELSE f.agents[x]
    BY <1>1, <1>2, SetAgentType DEF agent
  <1>4. \A x \in Roles \ {r} : g.agents[x] = f.agents[x] /\ g.mandates[x] = f.mandates[x]
    BY <1>3
  <1>5. /\ Len(f.mandates[r]) <= MaxMandates /\ Len(f.mandates[r]) \in Nat
        /\ f.agents[r].mandate \in 1..Len(f.mandates[r])
    BY <1>1 DEF GuardOK, MandatesOK, GuardRow
  <1>6. /\ Len(g.mandates[r]) <= MaxMandates /\ Len(f.mandates[r]) <= Len(g.mandates[r])
        /\ g.agents[r].mandate \in 1..Len(g.mandates[r])
        /\ \A n \in 1..Len(f.mandates[r]) : g.mandates[r][n].limit = f.mandates[r][n].limit
    BY <1>2, <1>3, <1>5
  <1> QED BY <1>3, <1>4, <1>6, AgentsOnly

LEMMA SetStatusKeeps ==
    ASSUME IInv, NEW r \in Roles, NEW status \in {"active", "paused"}, SetStatus(r, status)
    PROVE  Preserved
  <1> DEFINE g == SetAgent(guard, r, [guard.agents[r] EXCEPT !.status = status])
  <1>1. GuardOK(guard) /\ guard.agents[r].mandate # 0
    BY IInvGuard DEF SetStatus, Agent
  <1>2. Run(<<State(IF status = "paused" THEN Closed(g, r, "expired") ELSE g, store)>>, adapter)
    BY DEF SetStatus, SetAgent
  <1>3. GuardOK(g) /\ Keeps(guard, g) /\ StatusOf(g) = StatusOf(guard)
    BY <1>1, StatusChanges
  <1> HIDE DEF g
  <1>4. CASE status = "paused"
    BY <1>2, <1>3, <1>4, ClosesAfter
  <1>5. CASE status # "paused"
    <2>1. Inv(g, store)
      BY <1>3, GuardChanges
    <2>2. Run(<<State(g, store)>>, adapter)
      BY <1>2, <1>5
    <2> QED BY <1>3, <2>1, <2>2, IInvGuard, RunsOne
  <1> QED BY <1>4, <1>5

LEMMA RevokeKeeps ==
    ASSUME IInv, NEW r \in Roles, Revoke(r)
    PROVE  Preserved
  <1> DEFINE f == SetAgent(guard, r, [guard.agents[r] EXCEPT !.status = "revoked"])
             m == guard.agents[r].mandate
             mandate == [f.mandates[r][m] EXCEPT !.status = "revoked"]
             list == [f.mandates[r] EXCEPT ![m] = mandate]
             g == SetMandates(f, r, list)
  <1>1. GuardOK(guard) /\ guard.agents[r].mandate # 0
    BY IInvGuard DEF Revoke, Agent
  <1>2. Run(<<State(Closed(g, r, "revoked"), store)>>, adapter)
    BY DEF Revoke, SetAgent, SetMandates, Agent
  <1>3. GuardOK(f) /\ Keeps(guard, f) /\ StatusOf(f) = StatusOf(guard)
    BY <1>1, StatusChanges
  <1>4. f.agents[r].mandate = m /\ f.mandates = guard.mandates
    <2>1. guard \in GuardRow /\ guard.agents[r] \in AgentRow
      BY <1>1 DEF GuardOK, GuardRow
    <2>2. /\ [guard.agents[r] EXCEPT !.status = "revoked"] \in AgentRow
          /\ [guard.agents[r] EXCEPT !.status = "revoked"].mandate = m
      BY <2>1 DEF AgentRow
    <2> DEFINE agent == [guard.agents[r] EXCEPT !.status = "revoked"]
    <2>3. agent \in AgentRow /\ agent.mandate = m /\ f = SetAgent(guard, r, agent)
      BY <2>2
    <2> HIDE DEF agent, f
    <2> QED BY <2>1, <2>3, SetAgentType
  <1> HIDE DEF f
  <1>5. /\ m \in 1..Len(f.mandates[r]) /\ f.mandates[r] \in Seq(MandateRow)
        /\ f \in GuardRow
    BY <1>1, <1>3, <1>4 DEF GuardOK, MandatesOK, GuardRow
  <1> HIDE DEF m
  <1>6. mandate \in MandateRow /\ mandate.limit = f.mandates[r][m].limit
    <2>1. f.mandates[r][m] \in MandateRow
      BY <1>5
    <2> QED BY <2>1 DEF MandateRow
  <1> HIDE DEF mandate
  <1>7. /\ list \in Seq(MandateRow) /\ Len(list) = Len(f.mandates[r])
        /\ \A n \in 1..Len(f.mandates[r]) :
            list[n] = IF n = m THEN mandate ELSE f.mandates[r][n]
    BY <1>5, <1>6
  <1> HIDE DEF list
  <1>8. /\ g \in GuardRow /\ g.agents = f.agents /\ g.approvals = f.approvals
        /\ g.receipts = f.receipts
        /\ \A x \in Roles : g.mandates[x] = IF x = r THEN list ELSE f.mandates[x]
    BY <1>5, <1>7, SetMandatesType
  <1> HIDE DEF g
  <1>9. GuardOK(g) /\ Keeps(f, g) /\ StatusOf(g) = StatusOf(f)
    <2>1. \A x \in Roles \ {r} : g.agents[x] = f.agents[x] /\ g.mandates[x] = f.mandates[x]
      BY <1>8
    <2>2. /\ Len(g.mandates[r]) <= MaxMandates /\ Len(f.mandates[r]) <= Len(g.mandates[r])
          /\ g.agents[r].mandate \in 1..Len(g.mandates[r])
          /\ \A n \in 1..Len(f.mandates[r]) :
                g.mandates[r][n].limit = f.mandates[r][n].limit
      <3>1. Len(f.mandates[r]) <= MaxMandates /\ Len(f.mandates[r]) \in Nat
        BY <1>3, <1>5 DEF GuardOK, MandatesOK
      <3> QED BY <1>4, <1>5, <1>6, <1>7, <1>8, <3>1
    <2> QED BY <1>3, <1>8, <2>1, <2>2, AgentsOnly
  <1>10. Keeps(guard, g)
    BY <1>3, <1>9, KeepsBoth
  <1> QED BY <1>2, <1>3, <1>9, <1>10, ClosesAfter

LEMMA EvaluateKeeps ==
    ASSUME IInv, NEW q \in AllRequests, NEW actor \in Actors, Evaluate(q, actor)
    PROVE  Preserved
  <1> DEFINE r == RoleOf(q)
             g == EnsureAgent(guard, r)
             needs == Verdict(g, q, actor) = "need_approval"
             h == WithApproval(g, q, actor, FALSE)
  <1>1. /\ GuardOK(g) /\ Keeps(guard, g) /\ StatusOf(g) = StatusOf(guard)
        /\ g.approvals = guard.approvals
    BY IInvGuard, RolesType, Ensures
  <1>2. /\ needs => FreshApprovals(guard) # {}
        /\ Run(<<State(g, store), State(IF needs THEN h ELSE g, store)>>, adapter)
    BY DEF Evaluate
  <1> HIDE DEF g, needs
  <1>3. Inv(g, store)
    BY <1>1, GuardChanges
  <1>4. CASE needs
    <2>1. FreshApprovals(g) # {}
      BY <1>1, <1>2, <1>4 DEF FreshApprovals
    <2>2. GuardOK(h) /\ Keeps(g, h) /\ Moves(StatusOf(g), StatusOf(h))
      BY <1>1, <2>1, IssuesOne
    <2> HIDE DEF h
    <2>3. Inv(h, store)
      BY <1>1, <2>2, KeepsBoth, GuardChanges
    <2>4. Run(<<State(g, store), State(h, store)>>, adapter)
      BY <1>2, <1>4
    <2> QED BY <1>1, <1>3, <2>2, <2>3, <2>4, IInvGuard, RunsTwo
  <1>5. CASE ~needs
    <2>1. Run(<<State(g, store), State(g, store)>>, adapter)
      BY <1>2, <1>5
    <2> QED BY <1>1, <1>3, <2>1, IInvGuard, RunsTwo
  <1> QED BY <1>4, <1>5

LEMMA LapseKeeps ==
    ASSUME IInv, NEW a \in Approvals, Lapse(a)
    PROVE  Preserved
  <1> DEFINE row == [guard.approvals[a] EXCEPT !.late = TRUE]
  <1>1. GuardOK(guard) /\ guard \in GuardRow /\ guard.approvals[a] \in ApprovalRow
    BY IInvGuard DEF GuardRow
  <1>2. /\ row \in ApprovalRow /\ row.status = guard.approvals[a].status
        /\ row.req = guard.approvals[a].req
    BY <1>1 DEF ApprovalRow
  <1>3. guard' = SetApproval(guard, a, row) /\ UNCHANGED <<scenario, store, adapter>>
    BY DEF Lapse, SetApproval
  <1> HIDE DEF row
  <1> DEFINE h == SetApproval(guard, a, row)
  <1>4. /\ h \in GuardRow /\ h.agents = guard.agents /\ h.mandates = guard.mandates
        /\ h.receipts = guard.receipts
        /\ \A x \in Approvals : h.approvals[x] = IF x = a THEN row ELSE guard.approvals[x]
    BY <1>1, <1>2, SetApprovalType
  <1> HIDE DEF h
  <1>5. GuardOK(h) /\ Keeps(guard, h)
    <2>1. \A x \in Approvals : guard.approvals[x].status = "consumed" =>
             h.approvals[x].status = "consumed" /\ h.approvals[x].req = guard.approvals[x].req
      BY <1>2, <1>4
    <2> QED BY <1>1, <1>4, <2>1, ApprovalsOnly
  <1>6. StatusOf(h) = StatusOf(guard)
    BY <1>2, <1>4 DEF StatusOf
  <1>7. Inv(h, store)
    BY <1>5, GuardChanges
  <1>8. guard' = h
    BY <1>3 DEF h
  <1> QED BY <1>3, <1>6, <1>7, <1>8 DEF Preserved, IInv, Moves

LEMMA ExpireLateKeeps ==
    ASSUME IInv, NEW a \in Approvals, ExpireLate(a)
    PROVE  Preserved
  <1> DEFINE row == [guard.approvals[a] EXCEPT !.status = "expired"]
             h == SetApproval(guard, a, row)
  <1>1. GuardOK(guard) /\ guard \in GuardRow /\ guard.approvals[a] \in ApprovalRow
    BY IInvGuard DEF GuardRow
  <1>2. row \in ApprovalRow /\ row.status = "expired"
    BY <1>1 DEF ApprovalRow
  <1>3. guard.approvals[a].status = "issued" /\ Run(<<State(h, store)>>, adapter)
    BY DEF ExpireLate, Pending, SetApproval
  <1> HIDE DEF row
  <1>4. /\ h \in GuardRow /\ h.agents = guard.agents /\ h.mandates = guard.mandates
        /\ h.receipts = guard.receipts
        /\ \A x \in Approvals : h.approvals[x] = IF x = a THEN row ELSE guard.approvals[x]
    BY <1>1, <1>2, SetApprovalType
  <1> HIDE DEF h
  <1>5. GuardOK(h) /\ Keeps(guard, h)
    <2>1. \A x \in Approvals : guard.approvals[x].status = "consumed" =>
             h.approvals[x].status = "consumed" /\ h.approvals[x].req = guard.approvals[x].req
      BY <1>3, <1>4
    <2> QED BY <1>1, <1>4, <2>1, ApprovalsOnly
  <1>6. Moves(StatusOf(guard), StatusOf(h))
    <2>1. StatusOf(guard)[a] = "issued"
      BY <1>3 DEF StatusOf
    <2>2. StatusOf(h) = [x \in Approvals |-> IF x \in {a} THEN "expired" ELSE StatusOf(guard)[x]]
      BY <1>2, <1>4 DEF StatusOf
    <2>3. {a} \in SUBSET Approvals /\ \A x \in {a} : StatusOf(guard)[x] = "issued"
      BY <2>1
    <2> QED BY <2>2, <2>3 DEF Moves
  <1>7. Inv(h, store)
    BY <1>5, GuardChanges
  <1> QED BY <1>3, <1>6, <1>7, IInvGuard, RunsOne

LEMMA ApproveKeeps ==
    ASSUME IInv, NEW a \in Approvals, Approve(a)
    PROVE  Preserved
  <1> DEFINE q == guard.approvals[a].req
             g == Consumed(guard, a)
             h == WithReceipt(g, Receipt("approved", q, a))
  <1>1. GuardOK(guard) /\ guard.approvals[a].status = "issued"
    BY IInvGuard DEF Approve, Pending
  <1>2. Run(<<State(g, store), State(h, store)>>, adapter)
    BY DEF Approve
  <1>3. q \in AllRequests /\ a \in By
    BY <1>1 DEF GuardOK, GuardRow, ApprovalRow, By
  <1>4. GuardOK(g) /\ Keeps(guard, g) /\ Moves(StatusOf(guard), StatusOf(g))
    BY <1>1, Spends
  <1> HIDE DEF g, q
  <1>5. GuardOK(h) /\ StatusOf(h) = StatusOf(g) /\ Keeps(g, h)
    BY <1>3, <1>4, Receipts
  <1> HIDE DEF h
  <1>6. Inv(g, store) /\ Inv(h, store)
    BY <1>4, <1>5, KeepsBoth, GuardChanges
  <1> QED BY <1>2, <1>4, <1>5, <1>6, IInvGuard, RunsTwo

\* What is allowed unasked is within the mandate, when it is a refund.
LEMMA Allows ==
    ASSUME NEW g, GuardOK(g), NEW q, NEW actor, Verdict(g, q, actor) = "allowed",
           g.agents[RoleOf(q)].mandate \in 1..Len(g.mandates[RoleOf(q)])
    PROVE  Backed(g, store, q, "limit")
  <1>1. ASSUME q.action = "refund"
        PROVE  \E n \in 1..Len(g.mandates["seller"]) : q.amount <= g.mandates["seller"][n].limit
    <2>1. RoleOf(q) = "seller"
      BY <1>1 DEF RoleOf
    <2>2. q.amount <= AutoMax(Mandate(g, "seller"), q)
      BY <2>1 DEF Verdict
    <2>3. AutoMax(Mandate(g, "seller"), q) = g.mandates["seller"][g.agents["seller"].mandate].limit
      BY <1>1 DEF AutoMax, Mandate, Agent
    <2> QED BY <2>1, <2>2, <2>3
  <1> QED BY <1>1 DEF Backed

LEMMA RequestType == \A q \in AllRequests : q \in Request
  BY ScenarioAssumption DEF AllRequests

\* The saves of the guard that come first, and then those of the action.
LEMMA PerformedAfter ==
    ASSUME IInv, NEW first, Good(first), first # <<>>, first[Len(first)].store = store,
           NEW g, Inv(g, store), Moves(StatusOf(guard), StatusOf(g)),
           NEW q \in AllRequests, NEW key \in Keys, NEW by \in By, Backed(g, store, q, by),
           Run(first \o Performed(g, q, key, by), AdapterAfter(q, key))
    PROVE  Preserved
  <1> DEFINE second == Performed(g, q, key, by)
             after == AdapterAfter(q, key)
             steps == first \o second
  <1>1. /\ Good(second)
        /\ second = <<>> => after = adapter
        /\ second # <<>> => Ends(second, after)
    BY RequestType, PerformedIsGood
  <1>2. Run(steps, after)
    OBVIOUS
  <1> HIDE DEF second, after
  <1>3. /\ Good(steps)
        /\ second = <<>> => steps = first
        /\ second # <<>> => /\ steps # <<>>
                            /\ steps[Len(steps)] = second[Len(second)]
    BY <1>1, GoodBoth
  <1> HIDE DEF steps
  <1>4. Ends(steps, after)
    <2>1. CASE second = <<>>
      <3>1. steps = first /\ after = adapter
        BY <1>1, <1>3, <2>1
      <3>2. adapter \in AdapterRow /\ Money(store, adapter)
        BY DEF IInv
      <3> QED BY <3>1, <3>2 DEF Ends
    <2>2. CASE second # <<>>
      BY <1>1, <1>3, <2>2 DEF Ends
    <2> QED BY <2>1, <2>2
  <1> QED BY <1>2, <1>3, <1>4, Runs DEF Preserved

LEMMA ExecuteWithinKeeps ==
    ASSUME IInv, NEW q \in AllRequests, NEW actor \in Actors, NEW key \in Keys,
           ExecuteWithin(q, actor, key)
    PROVE  Preserved
  <1> DEFINE r == RoleOf(q)
             g == EnsureAgent(guard, r)
             first == <<State(g, store)>>
             h == WithApproval(g, q, actor, TRUE)
  <1>1. /\ GuardOK(g) /\ Keeps(guard, g) /\ StatusOf(g) = StatusOf(guard)
        /\ g.agents[r].mandate \in 1..Len(g.mandates[r])
    BY IInvGuard, RolesType, Ensures
  <1>2. \/ /\ Verdict(g, q, actor) = "allowed"
           /\ Run(first \o Performed(g, q, key, "limit"), AdapterAfter(q, key))
        \/ /\ FreshApprovals(g) # {}
           /\ Run(<<State(g, store), State(h, store)>>, adapter)
    BY DEF ExecuteWithin
  <1> HIDE DEF g
  <1>3. Inv(g, store) /\ Moves(StatusOf(guard), StatusOf(g))
    BY <1>1, GuardChanges DEF Moves
  <1>4. CASE /\ Verdict(g, q, actor) = "allowed"
             /\ Run(first \o Performed(g, q, key, "limit"), AdapterAfter(q, key))
    <2>1. Backed(g, store, q, "limit")
      BY <1>1, <1>4, Allows
    <2>2. Good(first) /\ first # <<>> /\ first[Len(first)].store = store
      <3>1. /\ State(g, store) \in States /\ Fine(State(g, store))
            /\ State(g, store).store = store
        BY <1>3, FineState
      <3> QED BY <3>1, GoodOne
    <2> HIDE DEF first
    <2>3. "limit" \in By
      BY DEF By
    <2> QED BY <1>3, <1>4, <2>1, <2>2, <2>3, PerformedAfter
  <1>5. CASE /\ FreshApprovals(g) # {}
             /\ Run(<<State(g, store), State(h, store)>>, adapter)
    <2>1. GuardOK(h) /\ Keeps(g, h) /\ Moves(StatusOf(g), StatusOf(h))
      BY <1>1, <1>5, IssuesOne
    <2> HIDE DEF h
    <2>2. Inv(h, store)
      BY <1>1, <2>1, KeepsBoth, GuardChanges
    <2> QED BY <1>1, <1>3, <1>5, <2>1, <2>2, IInvGuard, RunsTwo
  <1> QED BY <1>2, <1>4, <1>5

LEMMA ExecuteApprovedKeeps ==
    ASSUME IInv, NEW q \in AllRequests, NEW actor \in Actors, NEW a \in Approvals,
           NEW key \in Keys, ExecuteApproved(q, actor, a, key)
    PROVE  Preserved
  <1> DEFINE spent == Consumed(guard, a)
             approved == WithReceipt(spent, Receipt("approved", q, a))
             first == <<State(spent, store), State(approved, store)>>
  <1>1. /\ guard.approvals[a].status = "issued" /\ guard.approvals[a].req = q
        /\ Run(first \o Performed(approved, q, key, a), AdapterAfter(q, key))
    BY DEF ExecuteApproved, SameRequest, Pending, SpendFirst
  <1>2. /\ GuardOK(spent) /\ Keeps(guard, spent) /\ Moves(StatusOf(guard), StatusOf(spent))
        /\ spent.approvals[a].status = "consumed" /\ spent.approvals[a].req = q
    BY <1>1, IInvGuard, Spends
  <1> HIDE DEF spent
  <1>3. a \in By
    BY DEF By
  <1>4. /\ GuardOK(approved) /\ StatusOf(approved) = StatusOf(spent)
        /\ approved.approvals = spent.approvals /\ Keeps(spent, approved)
    BY <1>2, <1>3, Receipts
  <1> HIDE DEF approved
  <1>5. /\ Inv(spent, store) /\ Inv(approved, store)
        /\ Moves(StatusOf(guard), StatusOf(approved))
    BY <1>2, <1>4, KeepsBoth, GuardChanges
  <1>6. Backed(approved, store, q, a)
    <2>1. \A m \in store.memory : m.by # a
      BY <1>1 DEF IInv, Inv, Trail, Spent
    <2> QED BY <1>2, <1>4, <2>1 DEF Backed
  <1>7. Good(first) /\ first # <<>> /\ first[Len(first)].store = store
    <2> DEFINE x == State(spent, store)
               y == State(approved, store)
    <2>1. x \in States /\ Fine(x) /\ y \in States /\ Fine(y) /\ y.store = store
      BY <1>2, <1>5, FineState
    <2> HIDE DEF x, y
    <2>2. Good(<<x, y>>) /\ <<x, y>> # <<>> /\ <<x, y>>[Len(<<x, y>>)].store = store
      BY <2>1 DEF Good
    <2> QED BY <2>2 DEF x, y
  <1> HIDE DEF first
  <1> QED BY <1>1, <1>3, <1>5, <1>6, <1>7, PerformedAfter

\* The store changes outside the guard: an issue, or nothing.
LEMMA StoreSaved ==
    ASSUME IInv, NEW st \in StoreRow, MoneyAlone(store, st), Trail(guard, st), SaveStore(st)
    PROVE  Preserved
  <1>1. Within(st)
    BY DEF IInv, Inv, Within, MoneyAlone
  <1>2. Money(st, adapter)
    BY MoneyKept DEF IInv, Inv
  <1>3. Inv(guard, st)
    BY <1>1, IInvGuard DEF Inv
  <1>4. Run(<<State(guard, st)>>, adapter)
    BY DEF SaveStore
  <1> QED BY <1>2, <1>3, <1>4, IInvGuard, RunsOne

LEMMA IssueSaved ==
    ASSUME IInv, NEW i \in IssueIds, NEW row \in DemoIssue, SaveStore(Issued(store, i, row))
    PROVE  Preserved
  <1> DEFINE st == Issued(store, i, row)
  <1>1. st \in StoreRow /\ st.orders = store.orders /\ st.memory = store.memory
    BY IInvGuard, IssuedType
  <1>2. SaveStore(st)
    OBVIOUS
  <1> HIDE DEF st
  <1>3. MoneyAlone(store, st)
    BY <1>1 DEF MoneyAlone
  <1>4. Trail(guard, st)
    BY <1>1, <1>3, AloneKeepsRows, TrailSameMemory DEF IInv, Inv
  <1> QED BY <1>1, <1>2, <1>3, <1>4, StoreSaved

LEMMA IssueRow ==
    ASSUME IInv, NEW i \in IssueIds
    PROVE  store.issues[i] \in DemoIssue
  BY DEF IInv, Inv, StoreRow

LEMMA IssueStepKeeps ==
    ASSUME IInv, IssueStep
    PROVE  Preserved
  <1>1. ASSUME NEW o \in Orders, RaiseIssue(o) PROVE Preserved
    <2> PICK i \in FreshIssues(store) : SaveStore(CreateDemoIssue(store, o, i))
      BY <1>1 DEF RaiseIssue
    <2> DEFINE row == [store.issues[i] EXCEPT !.status = "open", !.order = o]
    <2>1. i \in IssueIds /\ store.issues[i] \in DemoIssue
      BY IssueRow DEF FreshIssues
    <2>2. row \in DemoIssue
      BY <2>1 DEF DemoIssue, IssueStatuses
    <2>3. SaveStore(Issued(store, i, row))
      BY DEF CreateDemoIssue, Issued
    <2> HIDE DEF row
    <2> QED BY <2>1, <2>2, <2>3, IssueSaved
  <1>2. ASSUME NEW o \in Orders, BindProtocolIssue(o) PROVE Preserved
    <2> PICK i \in FreshIssues(store) : SaveStore(BindProtocol(store, o, i))
      BY <1>2 DEF BindProtocolIssue
    <2> DEFINE row == [store.issues[i] EXCEPT !.status = "open", !.order = o,
                                              !.protocol = TRUE]
    <2>1. i \in IssueIds /\ store.issues[i] \in DemoIssue
      BY IssueRow DEF FreshIssues
    <2>2. CASE BoundTo(store, o) # {}
      <3>1. SaveStore(store)
        BY <2>2 DEF BindProtocol
      <3>2. MoneyAlone(store, store)
        BY DEF MoneyAlone
      <3> QED BY <3>1, <3>2, StoreSaved DEF IInv, Inv
    <2>3. CASE BoundTo(store, o) = {}
      <3>1. row \in DemoIssue
        BY <2>1 DEF DemoIssue, IssueStatuses
      <3>2. SaveStore(Issued(store, i, row))
        BY <2>3 DEF BindProtocol, Issued
      <3> HIDE DEF row
      <3> QED BY <2>1, <3>1, <3>2, IssueSaved
    <2> QED BY <2>2, <2>3
  <1>3. ASSUME NEW i \in IssueIds, NEW to \in IssueStatuses, NEW owner \in BOOLEAN,
               AnswerIssue(i, to, owner)
        PROVE  Preserved
    <2> DEFINE row == [store.issues[i] EXCEPT !.status = to, !.owned = TRUE]
    <2>1. store.issues[i] \in DemoIssue
      BY IssueRow
    <2>2. row \in DemoIssue
      BY <2>1 DEF DemoIssue
    <2>3. SaveStore(Issued(store, i, row))
      BY <1>3 DEF AnswerIssue, MoveIssue, Issued
    <2> HIDE DEF row
    <2> QED BY <2>2, <2>3, IssueSaved
  <1>4. ASSUME NEW i \in IssueIds, NEW code \in IgmCodes, NetworkEvent(i, code)
        PROVE  Preserved
    <2> DEFINE status == ApplyIgmLegalPath(store.issues[i].status, code)
               owned == \/ store.issues[i].owned
                        \/ /\ store.issues[i].order \in Orders
                           /\ Exists(store.orders[store.issues[i].order])
               row == [store.issues[i] EXCEPT !.status = status, !.owned = owned]
    <2>1. store.issues[i] \in DemoIssue
      BY IssueRow
    <2>2. status \in IssueStatuses \cup {"none", "removed"}
      BY <2>1 DEF ApplyIgmLegalPath, DemoIssue, IssueStatuses
    <2>3. owned \in BOOLEAN
      BY <2>1 DEF DemoIssue
    <2>4. SaveStore(Issued(store, i, row))
      BY <1>4 DEF NetworkEvent, IgmEvent, Issued
    <2> HIDE DEF status, owned
    <2>5. row \in DemoIssue
      BY <2>1, <2>2, <2>3 DEF DemoIssue
    <2> HIDE DEF row
    <2> QED BY <2>4, <2>5, IssueSaved
  <1> QED BY <1>1, <1>2, <1>3, <1>4 DEF IssueStep

LEMMA CleanUpStepKeeps ==
    ASSUME IInv, CleanUpStep
    PROVE  Preserved
  <1> PICK o \in Orders : CleanUpOrder(o)
    BY DEF CleanUpStep
  <1> DEFINE st == CleanUp(store, o)
  <1>1. st \in StoreRow /\ Forgets(store, st) /\ MoneyAlone(store, st)
    BY IInvGuard, CleansUp DEF CleanUpOrder
  <1>2. SaveStore(st)
    BY DEF CleanUpOrder
  <1> HIDE DEF st
  <1>3. Trail(guard, st)
    BY <1>1, IInvGuard, AloneKeepsRows, TrailForgotten DEF Inv
  <1> QED BY <1>1, <1>2, <1>3, StoreSaved

LEMMA InitInv == Init => IInv
  <1> SUFFICES ASSUME Init PROVE IInv
    OBVIOUS
  <1>1. /\ scenario \in Scenarios /\ guard = InitGuard /\ store = scenario.store
        /\ adapter = EmptyAdapter
    BY ScenarioAssumption DEF Init
  <1>2. store \in StoreRow /\ store.memory = {} /\ Within(store)
    BY <1>1, ScenarioAssumption DEF Within
  <1>3. adapter \in AdapterRow /\ Money(store, adapter)
    BY <1>1, <1>2, MoneyStarts
  <1>4. \E q : q \in AllRequests
    BY <1>1, ScenarioAssumption DEF AllRequests
  <1> DEFINE agents == [r \in Roles |-> [status |-> "none", mandate |-> 0]]
             mandates == [r \in Roles |-> <<>>]
             row == [status |-> "none", req |-> CHOOSE q \in AllRequests : TRUE, mandate |-> 0,
                     actor |-> "agent", bound |-> FALSE, late |-> FALSE]
             approvals == [a \in Approvals |-> row]
  <1>5. 0 \in 0..MaxMandates
    BY LimitAssumption
  <1>6. agents \in [Roles -> AgentRow] /\ mandates \in [Roles -> Seq(MandateRow)]
    BY <1>5 DEF AgentRow
  <1>7. row \in ApprovalRow
    BY <1>4, <1>5 DEF ApprovalRow, Actors
  <1>8. guard = [agents |-> agents, mandates |-> mandates, approvals |-> approvals,
                 receipts |-> {}]
    BY <1>1 DEF InitGuard
  <1>9. \A r \in Roles : agents[r].mandate = 0 /\ Len(mandates[r]) = 0
    OBVIOUS
  <1> HIDE DEF row
  <1>10. approvals \in [Approvals -> ApprovalRow]
    BY <1>7
  <1> HIDE DEF agents, mandates, approvals
  <1>11. guard \in GuardRow
    BY <1>6, <1>8, <1>10 DEF GuardRow
  <1>12. MandatesOK(guard)
    <2>1. guard.agents = agents /\ guard.mandates = mandates
      BY <1>8
    <2> QED BY <1>9, <2>1, LimitAssumption DEF MandatesOK
  <1>13. Trail(guard, store)
    <2>1. guard.receipts = {}
      BY <1>8
    <2> QED BY <1>2, <2>1 DEF Trail, Spent, Once, Limited, Done
  <1> QED BY <1>1, <1>2, <1>3, <1>11, <1>12, <1>13 DEF IInv, Inv, GuardOK

LEMMA NextKeeps == IInv /\ [Next]_fileVars => Preserved
  <1> SUFFICES ASSUME IInv, [Next]_fileVars PROVE Preserved
    OBVIOUS
  <1>1. /\ scenario.owners \subseteq Roles /\ scenario.actors \subseteq Actors
        /\ Requests \subseteq AllRequests
    BY ScenarioAssumption DEF IInv, Roles, Actors, Requests, AllRequests
  <1>2. ASSUME NEW r \in scenario.owners, OwnerStep(r) PROVE Preserved
    <2>1. r \in Roles
      BY <1>1
    <2> QED BY <1>2, <2>1, CompileKeeps, ConfirmKeeps, SetStatusKeeps, RevokeKeeps DEF OwnerStep
  <1>3. ASSUME NEW a \in Approvals, ApprovalStep(a) PROVE Preserved
    BY <1>3, LapseKeeps, ExpireLateKeeps, ApproveKeeps DEF ApprovalStep
  <1>4. ASSUME NEW q \in Requests, RequestStep(q) PROVE Preserved
    <2> PICK actor \in scenario.actors :
            \/ Evaluate(q, actor)
            \/ \E key \in Keys : ExecuteWithin(q, actor, key)
            \/ \E a \in Approvals, key \in Keys : ExecuteApproved(q, actor, a, key)
      BY <1>4 DEF RequestStep
    <2>1. q \in AllRequests /\ actor \in Actors
      BY <1>1
    <2> QED BY <2>1, EvaluateKeeps, ExecuteWithinKeeps, ExecuteApprovedKeeps
  <1>5. CASE UNCHANGED fileVars
    BY <1>5, IInvGuard DEF Preserved, fileVars, IInv
  <1> QED BY <1>2, <1>3, <1>4, <1>5, IssueStepKeeps, CleanUpStepKeeps DEF Next

-----------------------------------------------------------------------------

\* Whatever was asked, and wherever the process died, the guard, the store and the
\* adapter are at rest in a state some prefix of the handlers' saves leaves.
THEOREM FileInvariant == Spec => []IInv
  <1>1. Init => IInv
    BY InitInv
  <1>2. IInv /\ [Next]_fileVars => IInv'
    BY NextKeeps DEF Preserved
  <1> QED BY <1>1, <1>2, PTL DEF Spec

\* The files are well-formed: an agent's mandate is one it was given, and what is
\* in the store is what its rows allow, wherever a handler died.
THEOREM FileTypeCorrect == Spec => []FileTypeOK
  <1>1. IInv => FileTypeOK
    BY DEF IInv, Inv, GuardOK, GuardRow, MandatesOK, AgentRow, FileTypeOK
  <1> QED BY <1>1, FileInvariant, PTL

\* AuthorityTrail: what was done on an approval is what that approval was asked
\* for, down to the order, the item and the amount, and it is spent and backs
\* nothing else; a refund without one is within a limit; and an "executed" receipt
\* tells of something done (execute_action).
THEOREM FileTrail == Spec => []AuthorityTrail
  <1>1. IInv => AuthorityTrail
    BY TrailIsAuthorityTrail DEF IInv, Inv
  <1> QED BY <1>1, FileInvariant, PTL

\* RefundsWithinOrder: of no payment is more paid back than its orders say, and no
\* order is refunded more than it cost (refund_from_payload, PaymentAdapter.refund).
THEOREM FileRefunds == Spec => []RefundsWithinOrder
  <1>1. IInv => RefundsWithinOrder
    BY DEF IInv, Inv, Within, Money, RefundsWithinOrder, PaidBack, PaidOn, Refunded, OrdersOn,
           PaidSum, PaidRows, RefundedSum, RefundedRupees, OrderRows
  <1> QED BY <1>1, FileInvariant, PTL

\* The column of the guard file that OneTimeApproval is about.
approvalStatus == [a \in Approvals |-> guard.approvals[a].status]

\* ImplementsOneTimeApproval: the guard file's approvals are those of
\* OneTimeApproval, also when a handler dies between its saves.
THEOREM FileApprovalsAreOneTime == Spec => ImplementsOneTimeApproval
  <1>1. Init => Guarded!Init
    BY DEF Init, InitGuard, Guarded!Init
  <1>2. Moves(approvalStatus, approvalStatus') => [Guarded!Next]_approvalStatus
    <2> SUFFICES ASSUME Moves(approvalStatus, approvalStatus')
                 PROVE  [Guarded!Next]_approvalStatus
      OBVIOUS
    <2>1. CASE approvalStatus' = approvalStatus
      BY <2>1
    <2>2. ASSUME NEW a \in Approvals, approvalStatus[a] = "none",
                 approvalStatus' = [approvalStatus EXCEPT ![a] = "issued"]
          PROVE  Guarded!Next
      BY <2>2 DEF Guarded!Next, Guarded!Issue, approvalStatus
    <2>3. ASSUME NEW a \in Approvals, approvalStatus[a] = "issued",
                 approvalStatus' = [approvalStatus EXCEPT ![a] = "consumed"]
          PROVE  Guarded!Next
      BY <2>3 DEF Guarded!Next, Guarded!Consume, approvalStatus
    <2>4. ASSUME NEW A \in SUBSET Approvals, NEW to \in {"expired", "revoked"},
                 \A a \in A : approvalStatus[a] = "issued",
                 approvalStatus' = [a \in Approvals |-> IF a \in A THEN to
                                                        ELSE approvalStatus[a]]
          PROVE  Guarded!Next
      BY <2>4 DEF Guarded!Next, Guarded!Close, approvalStatus
    <2> QED BY <2>1, <2>2, <2>3, <2>4 DEF Moves
  <1>3. approvalStatus = StatusOf(guard) /\ approvalStatus' = StatusOf(guard')
    BY DEF approvalStatus, StatusOf
  <1>4. IInv /\ [Next]_fileVars => [Guarded!Next]_approvalStatus
    BY <1>2, <1>3, NextKeeps DEF Preserved
  <1> QED
    BY <1>1, <1>4, FileInvariant, PTL
       DEF Spec, ImplementsOneTimeApproval, Guarded!Spec, approvalStatus

=============================================================================
