------------------------------ MODULE Purchase ------------------------------
(***************************************************************************)
(* What the commerce ledger promises about one purchase (one checkout      *)
(* quote) and about the stock it draws on.  There is no reserved counter   *)
(* here: the units a hold may take are counted from the holds themselves,  *)
(* and a purchase only moves forward: held, then sold or dropped, and a    *)
(* sold one is refunded at most once.                                      *)
(***************************************************************************)
EXTENDS Naturals, FiniteSets

CONSTANTS Skus, Purchases, MaxQuantity, MaxStock

VARIABLES
    available,   \* available[s]: units the seller has, held ones included
    stage,       \* stage[p]: how far purchase p is
    bought       \* bought[p][s]: units of s purchase p is about

Stages == {"none", "held", "sold", "dropped", "refunded"}
Lines == [Skus -> 0..MaxQuantity]
Nothing == [s \in Skus |-> 0]

Units(ps, s) == {u \in ps \X (1..MaxQuantity) : u[2] <= bought[u[1]][s]}
HeldUnits(s) == Cardinality(Units({p \in Purchases : stage[p] = "held"}, s))

Init ==
    /\ available = [s \in Skus |-> 0]
    /\ stage = [p \in Purchases |-> "none"]
    /\ bought = [p \in Purchases |-> Nothing]

\* The seller restates its stock, never below what is held.
Restock(s, n) ==
    /\ HeldUnits(s) <= n
    /\ available' = [available EXCEPT ![s] = n]
    /\ UNCHANGED <<stage, bought>>

\* Some holds end without a sale and, in the same step, a new one may start.
Hold(p, lines, ended) ==
    /\ stage[p] = "none"
    /\ \A e \in ended : stage[e] = "held"
    /\ lines # Nothing
    /\ \A s \in Skus :
        HeldUnits(s) - Cardinality(Units(ended, s)) + lines[s] <= available[s]
    /\ stage' = [x \in Purchases |->
            IF x = p THEN "held" ELSE IF x \in ended THEN "dropped" ELSE stage[x]]
    /\ bought' = [bought EXCEPT ![p] = lines]
    /\ UNCHANGED available

Drop(p) ==
    /\ stage[p] = "held"
    /\ stage' = [stage EXCEPT ![p] = "dropped"]
    /\ UNCHANGED <<available, bought>>

\* A sale takes exactly the held units out of the stock.
Sell(p) ==
    /\ stage[p] = "held"
    /\ stage' = [stage EXCEPT ![p] = "sold"]
    /\ available' = [s \in Skus |-> available[s] - bought[p][s]]
    /\ UNCHANGED bought

Refund(p) ==
    /\ stage[p] = "sold"
    /\ stage' = [stage EXCEPT ![p] = "refunded"]
    /\ UNCHANGED <<available, bought>>

Next ==
    \/ \E s \in Skus, n \in 0..MaxStock : Restock(s, n)
    \/ \E p \in Purchases, lines \in Lines, ended \in SUBSET Purchases : Hold(p, lines, ended)
    \/ \E p \in Purchases : Drop(p) \/ Sell(p) \/ Refund(p)

Spec == Init /\ [][Next]_<<available, stage, bought>>
=============================================================================
