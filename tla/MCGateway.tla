------------------------------ MODULE MCGateway ------------------------------
(***************************************************************************)
(* Small instances of the parts of the gateway process that share nothing  *)
(* but the process: its sessions, the file-mode AgentGuard with its demo   *)
(* store, and the verification of documents.  An initial state says which  *)
(* part runs; the others keep still.                                       *)
(***************************************************************************)
EXTENDS FileGuard, Sessions, Verification, TLC

CONSTANTS item1, item2, order1, order2, issue1, principal

VARIABLE part   \* the part that runs

vars == <<part, sessionVars, fileVars, verificationVars>>

MCPrincipalOf == [s \in Sids |-> principal]
MCLimits == {0}

-----------------------------------------------------------------------------
(* What is asked of the file-mode gateway, and what it finds in the store. *)

Ask(action) ==
    [action |-> action, item |-> "cart", order |-> order1, issue |-> issue1, to |-> "",
     amount |-> 0, charge |-> 0, mode |-> "success", addressed |-> TRUE, stock |-> 0]
Move(action, to) == [Ask(action) EXCEPT !.to = to]
Checkout(item, amount, outcome) ==
    [Ask("checkout") EXCEPT !.item = item, !.amount = amount, !.charge = amount,
                            !.mode = outcome]
RefundOf(order, amount, outcome) ==
    [Ask("refund") EXCEPT !.order = order, !.amount = amount, !.mode = outcome]

Placed(status, amount) ==
    [NoOrder EXCEPT !.status = status, !.amount = amount, !.payment = "before",
                      !.addressed = TRUE, !.item = item1]
Stored(orders) ==
    [EmptyStore EXCEPT
        !.orders = [o \in Orders |-> IF o \in DOMAIN orders THEN orders[o] ELSE NoOrder],
        !.items = [i \in Items |-> IF i = item1 THEN "published" ELSE "none"],
        !.stock = [i \in Items |-> IF i = item1 THEN 1 ELSE 0]]

Asked(requests, stored) ==
    [requests |-> requests, actors |-> {"agent"}, owners |-> {}, store |-> stored,
     adapter |-> EmptyAdapter, issues |-> FALSE, cleanup |-> FALSE]

Refunds == Stored(order1 :> Placed("paid", 3)
                  @@ order2 :> [Placed("delivered", 2) EXCEPT !.payment = "other"])
MCScenarios ==
    {Asked({Checkout(item1, 2, "success"), Checkout("cart", 1, "timeout"),
            Move("cancel", "cancelled")}, Stored(<<>>)),
     Asked({RefundOf(order1, 1, "success"), RefundOf(order1, 2, "decline"),
            RefundOf(order2, 2, "success")}, Refunds),
     Asked({[Ask("publish") EXCEPT !.item = "new"],
            [Ask("publish") EXCEPT !.item = item1, !.stock = 2],
            [Ask("archive") EXCEPT !.item = item1], Ask("price")}, Stored(<<>>)),
     [Asked({Ask("promise"), Ask("accept_remedy")}, Stored(order1 :> Placed("delivered", 2)))
        EXCEPT !.issues = TRUE, !.cleanup = TRUE],
     Asked({Move("accept", "confirmed"), Move("fulfil", "preparing"),
            Move("cancel", "cancelled")}, Stored(order1 :> Placed("paid", 2))),
     Asked({Ask("return"), Move("fulfil", "delivered")}, Stored(order1 :> Placed("shipped", 2))),
     [Asked({RefundOf(order1, 2, "success")}, Refunds) EXCEPT !.owners = {"seller"}],
     [Asked({Checkout("cart", 1, "success"), RefundOf(order1, 1, "success"),
             RefundOf(order2, 1, "success")}, Stored(<<>>)) EXCEPT !.cleanup = TRUE],
     [Asked({Checkout(item1, 2, "success")}, Stored(<<>>))
        EXCEPT !.owners = {"buyer"}, !.actors = {"user"}]}

-----------------------------------------------------------------------------

GatewayInit ==
    /\ part \in {"sessions", "files", "verification"}
    /\ SessionInit /\ Init /\ VerificationInit
    /\ part # "files" => scenario = CHOOSE s \in Scenarios : TRUE
    /\ part # "verification" => mode = [production |-> FALSE, onChain |-> FALSE]

GatewayNext ==
    /\ UNCHANGED part
    /\ \/ /\ part = "sessions" /\ SessionNext
          /\ UNCHANGED <<fileVars, verificationVars>>
       \/ /\ part = "files" /\ Next
          /\ UNCHANGED <<sessionVars, verificationVars>>
       \/ /\ part = "verification" /\ VerificationNext
          /\ UNCHANGED <<sessionVars, fileVars>>

GatewaySpec == GatewayInit /\ [][GatewayNext]_vars
=============================================================================
