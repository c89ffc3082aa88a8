------------------------------ MODULE OrderLedger ------------------------------
(***************************************************************************)
(* The durable order ledger of one account and its executable pending      *)
(* intents (uquant/execution/reconciliation.py, models/trading.py), with   *)
(* the evening decision that replaces, cancels and registers orders.       *)
(* OpenExecution adds the simulated opening auction, BrokerSync the real   *)
(* broker; both import this module's decision step unchanged.              *)
(*                                                                         *)
(* An order id O%09d is its sequence number; prices, weights, texts and    *)
(* the attempts counter are left out; shares are counted in lots.          *)
(***************************************************************************)
EXTENDS Naturals, FiniteSets, FiniteSetsExt

CONSTANTS
    Symbols,    \* securities the account may trade
    Grants,     \* strategic grant identities
    NoGrant,    \* the empty grant_id of an ordinary order
    MaxShares,  \* bound: most lots one order asks for
    MaxOrders,  \* bound: most orders ever registered
    MaxDay      \* bound: last session

ASSUME GrantsAssumption == NoGrant \notin Grants
ASSUME BoundsAssumption == MaxShares \in Nat /\ MaxOrders \in Nat /\ MaxDay \in Nat \ {0}

VARIABLES
    day,      \* current session
    ledger,   \* AccountState.order_ledger: order id -> AccountOrder
    pending,  \* AccountState.pending_orders: order id -> remaining_shares
    nextSeq,  \* AccountState.next_order_sequence
    fills     \* AccountState.fills

ledgerVars == <<ledger, pending, nextSeq, fills>>

Sides == {"BUY", "SELL"}
Terminal == {"FILLED", "CANCELLED", "REPLACED"}
Statuses == Terminal \cup {"SUBMITTED", "OPEN", "PARTIALLY_FILLED"}
Freeze == "sentinel_freeze_new_risk"
Reasons == {"none", Freeze, "daily target changed", "daily target removed",
            "target already satisfied", "late fill satisfied strategic grant"}
Events == {"SUBMITTED", "CANCEL_REQUESTED", "CANCELLED", "REPLACED", "HELD", "RESIZED",
           "ZERO_REQUEST", "FILL", "BROKER_FILL", "BROKER_CANCELLED", "LATE_FILL_SUPPRESSED_RETRY"}

Orders == 1..MaxOrders
Days == 1..MaxDay
Intent == [symbol: Symbols, side: Sides, grant: Grants \cup {NoGrant}]
AccountOrder ==
    [symbol: Symbols, side: Sides, grant: Grants \cup {NoGrant},
     submitted: Days, status: Statuses, requested: Nat, filled: Nat, remaining: Nat,
     reason: Reasons, event: Events, updated: Days, replacedBy: 0..MaxOrders]
Fill == [order: Orders, day: Days, shares: Nat \ {0}, id: Nat]

Live(e) == e.status \notin Terminal

\* A BUY whose cancellation Sentinel asked for and no broker has confirmed yet.
AwaitingCancel(e) == e.side = "BUY" /\ e.reason = Freeze /\ Live(e)

ActiveStatus(e) == IF e.filled > 0 THEN "PARTIALLY_FILLED" ELSE "OPEN"

--------------------------------------------------------------------------------
(* Reconciliation of one decision *)

\* A fresh intent is registered unsized: the shares are settled at the next open.
NewEntry(i) ==
    [symbol |-> i.symbol, side |-> i.side, grant |-> i.grant,
     submitted |-> day, status |-> "SUBMITTED", requested |-> 0, filled |-> 0,
     remaining |-> 0, reason |-> "none", event |-> "SUBMITTED", updated |-> day, replacedBy |-> 0]

\* Mutant of BlockedBuys: outstanding cancellations no longer block their symbol.
BlockedByFreezeOnly(freeze) ==
    {ledger[o].symbol : o \in {x \in DOMAIN pending : freeze /\ ledger[x].side = "BUY"}}

\* The symbols no BUY may be registered for.
BlockedBuys(freeze) ==
    {ledger[o].symbol : o \in {x \in DOMAIN ledger : AwaitingCancel(ledger[x])}}
    \cup {ledger[o].symbol : o \in {x \in DOMAIN pending : freeze /\ ledger[x].side = "BUY"}}

CancelRequested(e) == [e EXCEPT !.reason = Freeze, !.event = "CANCEL_REQUESTED", !.updated = day]

Superseded(e, heirs) ==
    IF heirs = {}
    THEN [e EXCEPT !.status = "CANCELLED", !.reason = "daily target removed",
                   !.event = "CANCELLED", !.updated = day]
    ELSE [e EXCEPT !.status = "REPLACED", !.reason = "daily target changed",
                   !.event = "REPLACED", !.updated = day,
                   !.replacedBy = CHOOSE h \in heirs : TRUE]

\* Mutant of Withdrawn: an order that nothing replaces is left as it was.
WithdrawnIfReplaced(e, heirs, book, freeze) ==
    IF ~Live(e) \/ heirs = {} THEN e ELSE Superseded(e, heirs)

\* What becomes of an order the decision dropped; heirs are today's orders of its symbol. A
\* BUY dropped by a freeze stays live until the broker confirms, unless a BUY replaces it.
Withdrawn(e, heirs, book, freeze) ==
    LET cancelAsked == freeze /\ e.side = "BUY" /\ \A h \in heirs : book[h].side = "SELL"
    IN IF ~Live(e) THEN e
       ELSE IF cancelAsked \/ e.reason = Freeze THEN CancelRequested(e)
       ELSE Superseded(e, heirs)

\* Mutant of Admissible: a symbol with a retained order may get a fresh one.
AdmissibleBesideKept(kept, fresh, freeze) ==
    LET Allowed(i) == i.side = "BUY" => i.symbol \notin BlockedBuys(freeze)
    IN /\ \A o \in kept : Allowed(ledger[o])
       /\ \A o \in DOMAIN fresh : Allowed(fresh[o])

\* One instruction per symbol, and no BUY of a blocked symbol.
Admissible(kept, fresh, freeze) ==
    LET Allowed(i) == i.side = "BUY" => i.symbol \notin BlockedBuys(freeze)
    IN /\ \A o \in kept : Allowed(ledger[o])
       /\ \A o \in DOMAIN fresh :
            /\ Allowed(fresh[o])
            /\ \A k \in kept : ledger[k].symbol # fresh[o].symbol
            /\ \A p \in DOMAIN fresh : p # o => fresh[p].symbol # fresh[o].symbol

\* The decision keeps some pending orders, registers fresh intents (an id for each, from
\* nextSeq on) and closes, replaces or asks to cancel every other pending order.
Reconcile(kept, fresh, freeze) ==
    LET last == nextSeq + Cardinality(DOMAIN fresh) - 1
        book == [o \in 1..last |-> IF o < nextSeq THEN ledger[o] ELSE NewEntry(fresh[o])]
        current == kept \cup (nextSeq..last)
        Heirs(o) == {c \in current : book[c].symbol = book[o].symbol}
    IN /\ Admissible(kept, fresh, freeze)
       /\ ledger' = [o \in 1..last |->
                        IF o \in DOMAIN pending \ kept
                        THEN Withdrawn(book[o], Heirs(o), book, freeze) ELSE book[o]]
       /\ pending' = [o \in current |-> IF o \in kept THEN pending[o] ELSE 0]
       /\ nextSeq' = last + 1
       /\ UNCHANGED fills

\* The batches of fresh intents a decision may register, sells first.
FreshBatches ==
    UNION {{f \in [nextSeq..last -> Intent] :
              \A o, p \in nextSeq..last : (o < p /\ f[p].side = "SELL") => f[o].side = "SELL"} :
           last \in {n \in (nextSeq - 1)..MaxOrders : n < nextSeq + Cardinality(Symbols)}}

LedgerInit ==
    /\ day = 1
    /\ ledger = [o \in {} |-> 0]
    /\ pending = [o \in {} |-> 0]
    /\ nextSeq = 1
    /\ fills = {}

--------------------------------------------------------------------------------
(* What a saved account must satisfy to be loaded again *)

LedgerTypeOK ==
    /\ day \in Days
    /\ nextSeq \in 1..(MaxOrders + 1)
    /\ ledger \in [1..(nextSeq - 1) -> AccountOrder]
    /\ DOMAIN pending \subseteq DOMAIN ledger
    /\ pending \in [DOMAIN pending -> Nat]
    /\ fills \subseteq Fill

FilledShares(o, deals) == MapThenSumSet(LAMBDA f : f.shares, {f \in deals : f.order = o})

\* The quantities, the status and the dates of one ledger row agree.
RowAgrees(e) ==
    /\ e.filled + e.remaining = e.requested
    /\ e.status = "PARTIALLY_FILLED" => e.filled > 0 /\ e.remaining > 0
    /\ e.status = "FILLED" => e.remaining = 0 /\ e.filled > 0
    /\ e.status \in {"SUBMITTED", "OPEN"} => e.filled = 0
    /\ e.updated >= e.submitted

\* Every pending intent names a live row with the same remaining shares.
PendingAgrees(book, intents) ==
    \A o \in DOMAIN intents : Live(book[o]) /\ book[o].remaining = intents[o]

\* The fills of an order are its filled shares, and no fill is later than its last update.
FillsAgree(book, deals) ==
    /\ \A o \in DOMAIN book : FilledShares(o, deals) = book[o].filled
    /\ \A f \in deals : /\ f.order \in DOMAIN book
                        /\ f.day > book[f.order].submitted
                        /\ f.day <= book[f.order].updated

\* validate_order_state, which save_account, load_account and every broker sync run.
Loads(book, intents, deals) ==
    /\ \A o \in DOMAIN book : RowAgrees(book[o]) /\ book[o].replacedBy \in DOMAIN book \cup {0}
    /\ PendingAgrees(book, intents)
    /\ FillsAgree(book, deals)

\* An account the program writes can always be read back: whatever sequence of decisions
\* and executions led to it, it passes the validator of validation_orders.py.
SavedAccountLoads == Loads(ledger, pending, fills)

\* No live order is forgotten: it is either still executed locally or its cancellation is
\* awaited, and never both (reconciliation drops a BUY it asked to cancel).
LiveOrdersTracked ==
    \A o \in DOMAIN ledger :
        Live(ledger[o]) => ((o \in DOMAIN pending) # AwaitingCancel(ledger[o]))

\* A symbol never has two live instructions on one side, so that a BUY whose cancellation
\* is outstanding cannot be doubled, and never two executable intents.
NoOverlap ==
    /\ \A o, p \in DOMAIN ledger :
          (/\ o # p
           /\ Live(ledger[o]) /\ Live(ledger[p])
           /\ ledger[o].side = ledger[p].side) => ledger[o].symbol # ledger[p].symbol
    /\ \A o, p \in DOMAIN pending : o # p => ledger[o].symbol # ledger[p].symbol

================================================================================
