----------------------------- MODULE OpenExecution -----------------------------
(***************************************************************************)
(* The replay of sessions: every session executes the pending intents at   *)
(* the open (uquant/execution/open_execution.py) and decides at the close  *)
(* (uquant/application/backtest.py calling decision.py). Sells run before  *)
(* buys; each order is held, resized, found satisfied or filled, and the   *)
(* fill moves the tranches of the position. A sale that the tranches do    *)
(* not cover raises after they and the cash have moved: the replay ends.   *)
(*                                                                         *)
(* Prices, cash, volume and lot rules are abstracted to the number of      *)
(* shares they allow: any number up to what was asked for.                 *)
(***************************************************************************)
EXTENDS OrderLedger, Sequences

VARIABLES
    phase,      \* "open": the auction runs; "closed": the decision is made; "raised": an error
    queue,      \* orders the running execute_open has not reached yet
    positions,  \* Position.shares of each symbol, 0 for one that is not in account.positions
    lots,       \* Position.tranches: symbol -> entry session -> shares
    handoff     \* candidate_tenure["recovery_owner_handoff"] = 1

holding == <<positions, lots>>
vars == <<day, ledger, pending, nextSeq, fills, phase, queue, holding, handoff>>

Total(tranches, entered) == MapThenSumSet(LAMBDA d : tranches[d], entered)

\* Position.sellable_shares. The sellable_date of a tranche is the day after its entry.
Sellable(s) == Total(lots[s], {d \in Days : d + 1 <= day})

--------------------------------------------------------------------------------
(* One order at the open *)

\* Mutant of Turn: the auction takes the orders as they come.
TurnUnsorted(o) == phase = "open" /\ o \in queue

\* Sells are executed before buys.
Turn(o) ==
    /\ phase = "open"
    /\ o \in queue
    /\ ledger[o].side = "BUY" => \A p \in queue : ledger[p].side = "BUY"

\* A recovery hand-off is funded by its sale: a sell retained at this open holds every buy.
HandoffHeld(o) ==
    /\ handoff
    /\ ledger[o].side = "BUY"
    /\ \E p \in DOMAIN pending \ queue : ledger[p].side = "SELL"

Executable(o) ==
    /\ Turn(o)
    /\ ~AwaitingCancel(ledger[o])
    /\ ~HandoffHeld(o)
    /\ ledger[o].submitted < day

Served(o) == queue' = queue \ {o}

\* The order waits for the next open: suspended, limit up or down, short history, position
\* cap, hand-off, cancellation awaited, or a risk target one odd lot away.
Hold(o) ==
    /\ Turn(o)
    /\ ledger' = [ledger EXCEPT ![o] =
           IF AwaitingCancel(@) THEN [@ EXCEPT !.updated = day, !.event = "CANCEL_REQUESTED"]
           ELSE [@ EXCEPT !.status = ActiveStatus(ledger[o]), !.updated = day, !.event = "HELD"]]
    /\ Served(o)
    /\ UNCHANGED <<day, pending, nextSeq, fills, phase, holding, handoff>>

\* A strategic order that has partly filled keeps the quantity it registered, unless it
\* took the place of another order.
KeepsRemainder(o) ==
    /\ ledger[o].grant # NoGrant
    /\ ledger[o].filled > 0
    /\ \A p \in DOMAIN ledger : ledger[p].replacedBy # o

\* The shares the target asks for now, given what is held.
EconomicTargets(o) ==
    LET held == positions[ledger[o].symbol]
    IN {t \in 0..MaxShares : IF ledger[o].side = "SELL" THEN t <= held ELSE t + held <= MaxShares}

TargetRequested(o, economic) ==
    IF KeepsRemainder(o) THEN ledger[o].requested - ledger[o].filled ELSE economic

\* The numbers of shares that can trade at this open.
Tradable(o, economic) ==
    {n \in 1..MaxShares : /\ n <= economic
                          /\ n <= TargetRequested(o, economic)
                          /\ ledger[o].side = "SELL" => n <= Sellable(ledger[o].symbol)}

\* Nothing trades although shares are wanted (T+1, liquidity, cash): the order is resized.
Resize(o, economic) ==
    LET target == TargetRequested(o, economic)
    IN /\ Executable(o)
       /\ economic > 0
       /\ ledger' = [ledger EXCEPT ![o] =
              [@ EXCEPT !.requested = ledger[o].filled + target, !.remaining = target,
                        !.status = ActiveStatus(ledger[o]), !.updated = day, !.event = "RESIZED"]]
       /\ pending' = [pending EXCEPT ![o] = target]
       /\ Served(o)
       /\ UNCHANGED <<day, nextSeq, fills, phase, holding, handoff>>

\* Mutant of Dropped: a closed order stays in pending.
DroppedLate(o) == pending' = pending

Dropped(o) == pending' = [p \in DOMAIN pending \ {o} |-> pending[p]]

\* Nothing is wanted any more.
Satisfied(o) ==
    /\ Executable(o)
    /\ 0 \in EconomicTargets(o)
    /\ ledger' = [ledger EXCEPT ![o] =
           [@ EXCEPT !.status = "CANCELLED", !.reason = "target already satisfied",
                     !.updated = day, !.event = "ZERO_REQUEST"]]
    /\ Dropped(o)
    /\ Served(o)
    /\ UNCHANGED <<day, nextSeq, fills, phase, holding, handoff>>

\* The orders in which a sale may visit the tranches that _sell_tranches lets it sell: the policy
\* (FIFO or fragile first) decides by data the model leaves out.
Turns ==
    LET eligible == {d \in Days : d + 1 <= day}
    IN {t \in [1..Cardinality(eligible) -> eligible] : \A d \in eligible : \E i \in DOMAIN t : t[i] = d}

\* One turn of the loop: what is left of a sale after tranche d has given what it can.
SoldFrom(sale, d) ==
    LET sold == Min({sale.tranches[d], sale.left})
    IN [tranches |-> [sale.tranches EXCEPT ![d] = @ - sold], left |-> sale.left - sold]

\* Mutant of Consumed: a sale ends with the first tranche that has shares.
ConsumedOnce(tranches, n, turn) ==
    LET sale[i \in 0..Len(turn)] ==
            IF i = 0 THEN [tranches |-> tranches, left |-> n]
            ELSE IF sale[i - 1].left < n THEN sale[i - 1]
            ELSE SoldFrom(sale[i - 1], turn[i])
    IN sale[Len(turn)]

\* _consume_sell_tranches: the tranches after a sale of n shares, and what it could not find.
Consumed(tranches, n, turn) ==
    LET sale[i \in 0..Len(turn)] ==
            IF i = 0 THEN [tranches |-> tranches, left |-> n]
            ELSE SoldFrom(sale[i - 1], turn[i])
    IN sale[Len(turn)]

\* Mutant of FilledRow: the registered quantity is not set.
FilledRowUnregistered(e, n, target, economic) ==
    [e EXCEPT !.filled = @ + n, !.remaining = target - n,
              !.status = IF n = target THEN "FILLED" ELSE "PARTIALLY_FILLED",
              !.updated = day, !.event = "FILL"]

\* The ledger row after n shares traded; a strategic remainder that the target no longer
\* asks for is closed.
FilledRow(e, n, target, economic) ==
    LET satisfied == n < target /\ e.grant # NoGrant /\ n >= economic
    IN [e EXCEPT !.requested = e.filled + target, !.filled = @ + n, !.remaining = target - n,
                 !.status = IF n = target THEN "FILLED"
                            ELSE IF satisfied THEN "CANCELLED" ELSE "PARTIALLY_FILLED",
                 !.reason = IF satisfied THEN "target already satisfied" ELSE @,
                 !.updated = day, !.event = "FILL"]

\* The tranche of a purchase.
Bought(tranches, n) == [tranches EXCEPT ![day] = @ + n]

\* A fill moves the position and its tranches, then the ledger. A sale that finds too few tranches
\* raises with the tranches consumed and nothing recorded.
ExecuteFill(o, economic, n, turn) ==
    LET e == ledger[o]
        s == e.symbol
        target == TargetRequested(o, economic)
        row == FilledRow(e, n, target, economic)
        sale == Consumed(lots[s], n, turn)
        left == IF e.side = "BUY" THEN 0 ELSE sale.left
    IN /\ Executable(o)
       /\ n \in Tradable(o, economic)
       /\ lots' = [lots EXCEPT ![s] = IF e.side = "BUY" THEN Bought(@, n) ELSE sale.tranches]
       /\ IF left # 0
          THEN phase' = "raised" /\ UNCHANGED <<ledger, pending, fills, queue, positions>>
          ELSE /\ positions' = [positions EXCEPT ![s] = IF e.side = "BUY" THEN @ + n
                                                       ELSE Total(sale.tranches, Days)]
               /\ ledger' = [ledger EXCEPT ![o] = row]
               /\ IF Live(row) THEN pending' = [pending EXCEPT ![o] = target - n] ELSE Dropped(o)
               /\ fills' = fills \cup {[order |-> o, day |-> day, shares |-> n, id |-> 0]}
               /\ Served(o)
               /\ UNCHANGED phase
       /\ UNCHANGED <<day, nextSeq, handoff>>

--------------------------------------------------------------------------------
(* The session *)

\* A sell needs a holding; anything may be bought.
Plannable(i) == i.side = "SELL" => positions[i.symbol] > 0

Decide ==
    /\ phase = "open"
    /\ queue = {}
    /\ day < MaxDay
    /\ \E kept \in SUBSET DOMAIN pending, fresh \in FreshBatches, freeze \in BOOLEAN :
           /\ \A o \in DOMAIN fresh : Plannable(fresh[o])
           /\ Reconcile(kept, fresh, freeze)
    /\ phase' = "closed"
    /\ handoff' \in BOOLEAN
    /\ UNCHANGED <<day, queue, holding>>

NextSession ==
    /\ phase = "closed"
    /\ day < MaxDay
    /\ day' = day + 1
    /\ phase' = "open"
    /\ queue' = DOMAIN pending
    /\ UNCHANGED <<ledger, pending, nextSeq, fills, holding, handoff>>

\* The loop over the sessions, cut at the auction of session MaxDay. (A replay ends with a decision;
\* any Decide may be that one.)
Finished ==
    /\ phase = "open"
    /\ queue = {}
    /\ day = MaxDay
    /\ UNCHANGED vars

Init ==
    /\ LedgerInit
    /\ phase = "open"
    /\ queue = {}
    /\ positions = [s \in Symbols |-> 0]
    /\ lots = [s \in Symbols |-> [d \in Days |-> 0]]
    /\ handoff = FALSE

Next ==
    \/ \E o \in queue :
          \/ Hold(o)
          \/ \E t \in EconomicTargets(o) : Resize(o, t)
          \/ Satisfied(o)
          \/ \E t \in EconomicTargets(o), n \in 1..MaxShares, turn \in Turns :
                ExecuteFill(o, t, n, turn)
    \/ Decide
    \/ NextSession
    \/ Finished

Spec == Init /\ [][Next]_vars

--------------------------------------------------------------------------------
(* Properties *)

TypeOK ==
    /\ LedgerTypeOK
    /\ phase \in {"open", "closed", "raised"}
    /\ queue \subseteq DOMAIN pending
    /\ positions \in [Symbols -> Nat]
    /\ lots \in [Symbols -> [Days -> Nat]]
    /\ handoff \in BOOLEAN

FilledLots(s, side) ==
    MapThenSumSet(LAMBDA f : f.shares,
                  {f \in fills : ledger[f.order].symbol = s /\ ledger[f.order].side = side})

\* A sale always finds the tranches that its size was computed from, however it visits them, so
\* that none raises after the cash has moved; and the position, the tranches and the purchases
\* less the sales remain the same number of shares.
LotsReconcile ==
    /\ phase # "raised"
    /\ \A s \in Symbols :
          /\ positions[s] = Total(lots[s], Days)
          /\ positions[s] + FilledLots(s, "SELL") = FilledLots(s, "BUY")

\* A strategic partial that must resume keeps a positive remainder that agrees with its
\* registration: _registered_remainder_request never raises.
RemainderResumable ==
    \A o \in DOMAIN pending :
        KeepsRemainder(o) => /\ ledger[o].requested > ledger[o].filled
                             /\ ledger[o].remaining = ledger[o].requested - ledger[o].filled

\* No symbol is both bought and sold in one session, so that nothing bought today is sold
\* today: plan_orders gives each symbol one direction, and no order joins a running auction.
OneDirectionPerSession ==
    \A f, g \in fills :
        (f.day = g.day /\ ledger[f.order].symbol = ledger[g.order].symbol)
            => ledger[f.order].side = ledger[g.order].side

\* While a hand-off's sale is still unfilled at this open, no purchase is executed.
HandoffSellFunded ==
    [][(handoff /\ \E p \in DOMAIN pending : ledger[p].side = "SELL" /\ p \in DOMAIN pending')
          => \A f \in fills' \ fills : ledger[f.order].side = "SELL"]_vars

\* While the cancellation of a BUY is outstanding its symbol is not bought at any open, by
\* that order or by any other.
FrozenSymbolNotBought ==
    [][\A f \in fills' \ fills : \A o \in DOMAIN ledger :
          (ledger[f.order].side = "BUY" /\ AwaitingCancel(ledger[o]))
              => ledger[o].symbol # ledger[f.order].symbol]_vars

Promise ==
    INSTANCE OrderPromise WITH
        orders <- [o \in DOMAIN ledger |->
                     [symbol |-> ledger[o].symbol, side |-> ledger[o].side,
                      working |-> Live(ledger[o]), done |-> ledger[o].filled]]

\* The replay implements the promise of the order ledger: no overlapping instructions, no
\* trade after an order is closed, no id used twice.
ImplementsPromise == Promise!Spec

================================================================================
