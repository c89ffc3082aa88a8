------------------------------- MODULE BrokerSync ------------------------------
(***************************************************************************)
(* Production: a person places the decision's orders at the broker, the    *)
(* broker trades or cancels them on its own, and a snapshot file of what   *)
(* it did is applied to the account, whole or not at all                   *)
(* (uquant/broker.py, uquant/broker_contract.py), before or without the    *)
(* day's decision.                                                         *)
(*                                                                         *)
(* A snapshot is truthful: it lists every execution up to its day with its *)
(* execution_sequence, every confirmed cancellation and the true holdings. *)
(* What the account may not know is anything later than its last snapshot. *)
(***************************************************************************)
EXTENDS OrderLedger, Sequences

VARIABLES
    closedLoop,  \* the operator gives every daily run the day's complete snapshot (never changes)
    asOf,     \* AccountState.broker_as_of, 0 before the first snapshot
    ran,      \* AccountState.last_successful_run, 0 before the first decision
    held,     \* shares of each position
    owner,    \* grant_id of each position
    truth,    \* at the broker: executions in order
    working,  \* at the broker: order -> shares still working
    dead,     \* at the broker: orders it cancelled -> the day it did
    snap,     \* the snapshot file of the last export
    refused   \* why the last sync was refused: offending orders, 0 for the positions

account == <<ledger, pending, nextSeq, fills, asOf, ran, held, owner>>
broker == <<truth, working, dead>>
productionVars == <<day, ledger, pending, nextSeq, fills, closedLoop, asOf, ran, held, owner,
          truth, working, dead, snap, refused>>

--------------------------------------------------------------------------------
(* The broker *)

Shares(ks) == MapThenSumSet(LAMBDA k : truth[k].shares, ks)

Executions(s, side, n) ==
    {k \in 1..n : ledger[truth[k].order].symbol = s /\ ledger[truth[k].order].side = side}

\* True holding after the first n executions, and what T+1 lets the broker sell today.
TrueHeld(s, n) == Shares(Executions(s, "BUY", n)) - Shares(Executions(s, "SELL", n))
TrueSellable(s) ==
    TrueHeld(s, Len(truth))
        - Shares({k \in Executions(s, "BUY", Len(truth)) : truth[k].day = day})

\* The market of the day is over once the day's decision is made.
BrokerFills(o, n) ==
    /\ ran < day
    /\ ledger[o].submitted < day
    /\ n <= working[o]
    /\ ledger[o].side = "SELL" => n <= TrueSellable(ledger[o].symbol)
    /\ truth' = Append(truth, [order |-> o, day |-> day, shares |-> n, remaining |-> working[o] - n])
    /\ working' = [working EXCEPT ![o] = @ - n]
    /\ UNCHANGED <<account, closedLoop, day, dead, snap, refused>>

BrokerCancels(o) ==
    /\ working[o] > 0
    /\ working' = [working EXCEPT ![o] = 0]
    /\ dead' = [p \in DOMAIN dead \cup {o} |-> IF p = o THEN day ELSE dead[p]]
    /\ UNCHANGED <<account, closedLoop, day, truth, snap, refused>>

\* The complete snapshot of day d, as far as the broker knows today.
Statement(d) ==
    [asOf |-> d,
     n    |-> Cardinality({k \in DOMAIN truth : truth[k].day <= d}),
     dead |-> {o \in DOMAIN dead : dead[o] <= d}]

\* The files the operator may apply: the last export and the complete ones of the days
\* before it (a newer file of the same day replaces the older one).
SnapshotFiles == {snap} \cup {Statement(d) : d \in 1..(snap.asOf - 1)}

Export ==
    /\ snap' = Statement(day)
    /\ UNCHANGED <<account, broker, closedLoop, day, refused>>

--------------------------------------------------------------------------------
(* Applying a snapshot *)

Novel(n) == {k \in 1..n : \A f \in fills : f.id # k}

\* Mutant of Continues: a second fill on the day of the last update is refused.
ContinuesLater(o, n) ==
    LET first == Min({k \in Novel(n) : truth[k].order = o})
    IN Live(ledger[o]) /\ (ledger[o].filled > 0 => truth[first].day > ledger[o].updated)

\* New executions of an order must continue the ones already imported: later than its last
\* update, or on that very day after an imported fill of that day.
Continues(o, n) ==
    LET first == Min({k \in Novel(n) : truth[k].order = o})
    IN /\ Live(ledger[o])
       /\ ledger[o].filled > 0 =>
            \/ truth[first].day > ledger[o].updated
            \/ /\ truth[first].day = ledger[o].updated
               /\ \E f \in fills : f.order = o /\ f.day = ledger[o].updated

Discontinued(n) == {o \in {truth[k].order : k \in Novel(n)} : ~Continues(o, n)}

\* One execution may be appended to its order.
Importable(e, x) ==
    /\ Live(e)
    /\ x.day > e.submitted
    /\ e.requested > 0 => e.filled + x.shares + x.remaining = e.requested

ImportedRow(e, x) ==
    [e EXCEPT !.filled = @ + x.shares,
              !.requested = IF @ = 0 THEN e.filled + x.shares + x.remaining ELSE @,
              !.remaining = x.remaining,
              !.status = IF x.remaining = 0 THEN "FILLED" ELSE "PARTIALLY_FILLED",
              !.updated = x.day, !.event = "BROKER_FILL"]

\* The final fill of a strategic BUY ends every other pending order of its grant.
Suppressed(o, x) ==
    IF ledger[o].side = "BUY" /\ ledger[o].grant # NoGrant /\ x.remaining = 0
    THEN {p \in DOMAIN pending \ {o} : ledger[p].grant = ledger[o].grant} ELSE {}

SuppressedRow(e, x) ==
    IF Live(e) THEN [e EXCEPT !.status = "CANCELLED", !.reason = "late fill satisfied strategic grant",
                              !.updated = x.day, !.event = "LATE_FILL_SUPPRESSED_RETRY"]
    ELSE e

\* A sale takes the lots that are known; a shortage is only recorded as an event.
ImportedShares(shares, e, n) ==
    IF e.side = "BUY" THEN shares + n ELSE IF n <= shares THEN shares - n ELSE 0

ImportedHeld(st, e, n) == [st.held EXCEPT ![e.symbol] = ImportedShares(@, e, n)]

\* A strategic BUY makes the position one of its grant.
ImportedOwner(st, e) ==
    IF e.side = "BUY" /\ e.grant # NoGrant THEN [st.owner EXCEPT ![e.symbol] = e.grant]
    ELSE st.owner

\* Import of execution k on top of the working copy st.
ImportFill(st, k) ==
    LET x == truth[k]
        o == x.order
        e == st.ledger[o]
        others == Suppressed(o, x)
    IN IF ~Importable(e, x) THEN [st EXCEPT !.bad = @ \cup {o}]
       ELSE [st EXCEPT
              !.ledger = [p \in DOMAIN st.ledger |->
                  CASE p = o -> ImportedRow(e, x)
                    [] p \in others -> SuppressedRow(st.ledger[p], x)
                    [] OTHER -> st.ledger[p]],
              !.done = @ \cup others \cup (IF x.remaining = 0 THEN {o} ELSE {}),
              !.fills = @ \cup {[order |-> o, day |-> x.day, shares |-> x.shares, id |-> k]},
              !.held = ImportedHeld(st, e, x.shares),
              !.owner = ImportedOwner(st, e)]

\* Import of the executions among the first n that the account does not know, in order.
Imported(start, n) ==
    LET import[k \in 0..n] ==
          IF k = 0 THEN start
          ELSE IF k \in Novel(n) THEN ImportFill(import[k - 1], k) ELSE import[k - 1]
    IN import[n]

\* Mutant of ConfirmCancels: any later snapshot confirms an outstanding cancellation.
ConfirmCancelsBySilence(st, orders, date) ==
    [st EXCEPT
        !.ledger = [o \in DOMAIN @ |->
            IF o \in orders \/ AwaitingCancel(@[o])
            THEN [@[o] EXCEPT !.status = "CANCELLED", !.updated = date, !.event = "BROKER_CANCELLED"]
            ELSE @[o]],
        !.done = @ \cup orders]

\* Mutant of ConfirmCancels: confirmations are recorded as events only.
ConfirmCancelsEvents(st, orders, date) ==
    [st EXCEPT !.ledger = [o \in DOMAIN @ |->
        IF o \in orders THEN [@[o] EXCEPT !.updated = date, !.event = "BROKER_CANCELLED"] ELSE @[o]]]

\* Cancellation confirmations, after the fills.
ConfirmCancels(st, orders, date) ==
    [st EXCEPT
        !.bad = @ \cup {o \in orders : st.ledger[o].status \in {"FILLED", "REPLACED"}},
        !.ledger = [o \in DOMAIN @ |->
            IF o \in orders
            THEN [@[o] EXCEPT !.status = "CANCELLED", !.updated = date, !.event = "BROKER_CANCELLED"]
            ELSE @[o]],
        !.done = @ \cup orders]

\* The broker's positions replace the account's: surplus lots are dropped, missing lots
\* refuse the snapshot.
ReconcilePositions(st, n) ==
    [st EXCEPT
        !.bad = @ \cup (IF \E s \in Symbols : TrueHeld(s, n) > st.held[s] THEN {0} ELSE {}),
        !.held = [s \in Symbols |-> TrueHeld(s, n)],
        !.owner = [s \in Symbols |-> IF TrueHeld(s, n) = 0 THEN NoGrant ELSE st.owner[s]]]

Applied(file) ==
    LET start == [bad |-> Discontinued(file.n), ledger |-> ledger, done |-> {}, fills |-> fills,
                  held |-> held, owner |-> owner]
        imported == IF start.bad # {} THEN start ELSE Imported(start, file.n)
    IN IF imported.bad # {} THEN imported
       ELSE ReconcilePositions(ConfirmCancels(imported, file.dead, file.asOf), file.n)

Remaining(st) == [o \in DOMAIN pending \ st.done |-> st.ledger[o].remaining]

\* Mutant of Current: an older snapshot is accepted after a newer one.
CurrentAnyFile(file) == file.asOf > 0 /\ file.asOf >= ran

\* The file is neither older than the last one nor than the last decision.
Current(file) == file.asOf > 0 /\ file.asOf >= asOf /\ file.asOf >= ran

Acceptable(st) == st.bad = {} /\ Loads(st.ledger, Remaining(st), st.fills)

Sync(file) ==
    /\ Current(file)
    /\ \E st \in {Applied(file)} :
          /\ Acceptable(st)
          /\ ledger' = st.ledger
          /\ pending' = Remaining(st)
          /\ fills' = st.fills
          /\ held' = st.held
          /\ owner' = st.owner
    /\ asOf' = file.asOf
    /\ refused' = {}
    /\ UNCHANGED <<broker, closedLoop, day, nextSeq, ran, snap>>

\* A snapshot that fails anywhere leaves the account as it was.
RefuseSync(file) ==
    /\ Current(file)
    /\ \E st \in {Applied(file)} :
          /\ ~Acceptable(st)
          /\ refused' = IF st.bad = {} THEN {0} ELSE st.bad
    /\ UNCHANGED <<account, broker, closedLoop, day, snap>>

--------------------------------------------------------------------------------
(* The decision *)

UpToDate ==
    /\ asOf = day
    /\ Cardinality(fills) = Len(truth)
    /\ \A o \in DOMAIN dead : ~Live(ledger[o])

\* A sell needs a holding; the orders of a held symbol carry the grant of the position.
ProductionPlannable(i) ==
    /\ i.side = "SELL" => held[i.symbol] > 0
    /\ held[i.symbol] > 0 => i.grant = owner[i.symbol]

\* The sizes the operator gives the fresh orders at the broker.
Placements(fresh) ==
    {q \in [DOMAIN fresh -> 1..MaxShares] :
        \A o \in DOMAIN fresh : fresh[o].side = "SELL" => q[o] <= held[fresh[o].symbol]}

\* The operator places the fresh orders and withdraws those the ledger closed; an order
\* whose cancellation is awaited keeps working until the broker answers.
ProductionDecide ==
    /\ ran < day
    /\ closedLoop => UpToDate
    /\ \E kept \in SUBSET DOMAIN pending, fresh \in FreshBatches, freeze \in BOOLEAN :
           /\ \A o \in DOMAIN fresh : ProductionPlannable(fresh[o])
           /\ Reconcile(kept, fresh, freeze)
           /\ \E q \in Placements(fresh) :
                  working' = [o \in DOMAIN ledger' |->
                      CASE o \in DOMAIN fresh -> q[o]
                        [] o \in DOMAIN ledger /\ Live(ledger'[o]) -> working[o]
                        [] OTHER -> 0]
    /\ ran' = day
    /\ UNCHANGED <<closedLoop, day, asOf, held, owner, truth, dead, snap, refused>>

NextDay ==
    /\ day < MaxDay
    /\ day' = day + 1
    /\ UNCHANGED <<account, broker, closedLoop, snap, refused>>

ProductionInit ==
    /\ LedgerInit
    /\ closedLoop \in BOOLEAN
    /\ asOf = 0
    /\ ran = 0
    /\ held = [s \in Symbols |-> 0]
    /\ owner = [s \in Symbols |-> NoGrant]
    /\ truth = <<>>
    /\ working = [o \in {} |-> 0]
    /\ dead = [o \in {} |-> 0]
    /\ snap = [asOf |-> 0, n |-> 0, dead |-> {}]
    /\ refused = {}

ProductionNext ==
    \/ \E o \in DOMAIN working :
          \/ \E n \in 1..MaxShares : BrokerFills(o, n)
          \/ BrokerCancels(o)
    \/ Export
    \/ \E file \in SnapshotFiles : Sync(file) \/ RefuseSync(file)
    \/ ProductionDecide
    \/ NextDay

\* The broker answers a cancel request, and the operator goes on exporting its answers and
\* applying the last export, whether the sync accepts it or not.
Fairness ==
    /\ \A o \in Orders : WF_productionVars(/\ o \in DOMAIN working
                                 /\ AwaitingCancel(ledger[o])
                                 /\ BrokerCancels(o))
    /\ WF_productionVars(Export)
    /\ WF_productionVars(Sync(snap) \/ RefuseSync(snap))

ProductionSpec == ProductionInit /\ [][ProductionNext]_productionVars

FairSpec == ProductionSpec /\ Fairness

--------------------------------------------------------------------------------
(* Properties *)

\* The position the account believes in is what the executions it imported left at the
\* broker: an older or repeated snapshot loses no lot and doubles none.
PositionsMatchFills == \A s \in Symbols : held[s] = TrueHeld(s, Cardinality(fills))

\* An order that still works at the broker is never closed in the account, so that its fill
\* can be imported; only the suppression by a late strategic fill closes one.
BrokerLiabilityKnown ==
    \A o \in DOMAIN working :
        working[o] > 0 =>
            (Live(ledger[o]) \/ ledger[o].event = "LATE_FILL_SUPPRESSED_RETRY")

\* When every daily run starts from the day's snapshot, a truthful snapshot is accepted,
\* again and again, as far as ordinary orders and the positions are concerned; a strategic
\* sale can be refused, see IndependentSellKept.
TruthAccepted == closedLoop => \A o \in refused : o # 0 /\ ledger[o].grant # NoGrant

\* A cancellation requested from the broker is answered in the account in the end, when
\* every daily run starts from the day's snapshot; only a snapshot refused for a strategic
\* sale (see TruthAccepted) can keep the answer out.
FrozenResolved ==
    \A o \in Orders : (closedLoop /\ o \in DOMAIN ledger /\ AwaitingCancel(ledger[o]))
                          ~> (refused # {} \/ (o \in DOMAIN ledger /\ ~Live(ledger[o])))

\* A late fill of a BUY whose cancellation is awaited is accepted by the account
\* (docs/OPERATIONS.md: the non-terminal ledger row keeps accepting late broker fills).
FrozenAcceptsLateFill == \A o \in refused \ {0} : ~AwaitingCancel(ledger[o])

\* A sync ends an independent SELL only by its own last fill or its own cancellation
\* (docs/OPERATIONS.md: an independent SELL of the symbol remains executable).
IndependentSellKept ==
    [][\A o \in DOMAIN pending :
          (ledger[o].side = "SELL" /\ ran' = ran /\ ~Live(ledger'[o])) =>
              ledger'[o].status = "FILLED" \/ o \in DOMAIN dead]_productionVars

ProductionPromise ==
    INSTANCE OrderPromise WITH
        orders <- [o \in DOMAIN ledger |->
                     [symbol |-> ledger[o].symbol, side |-> ledger[o].side,
                      working |-> Live(ledger[o]), done |-> ledger[o].filled]]

\* Decisions and snapshots together implement the promise of the order ledger.
ProductionKeepsPromise == ProductionPromise!Spec

================================================================================
