------------------------------ MODULE OrderPromise -----------------------------
(***************************************************************************)
(* What the order ledger promises to the rest of the system, without       *)
(* saying how decisions, auctions or broker snapshots keep it: an order id *)
(* names one instruction for ever, shares trade only while it works, a     *)
(* closed order never moves again, and a symbol has at most one working    *)
(* instruction on each side.                                               *)
(***************************************************************************)
EXTENDS Naturals

VARIABLE orders   \* order id -> [symbol, side, working, done]

Promised(old, new) ==
    /\ new.symbol = old.symbol
    /\ new.side = old.side
    /\ new.done >= old.done
    /\ ~old.working => new = old

Fresh(new) == new.working /\ new.done = 0

OneInstructionPerSide(book) ==
    \A o, p \in DOMAIN book :
        /\ o # p
        /\ book[o].working
        /\ book[p].working
        /\ book[o].side = book[p].side
        => book[o].symbol # book[p].symbol

Init == orders = [o \in {} |-> 0]

Advance ==
    /\ DOMAIN orders \subseteq DOMAIN orders'
    /\ \A o \in DOMAIN orders : Promised(orders[o], orders'[o])
    /\ \A o \in DOMAIN orders' \ DOMAIN orders : Fresh(orders'[o])
    /\ OneInstructionPerSide(orders')

Spec == Init /\ [][Advance]_orders

================================================================================
