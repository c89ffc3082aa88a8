---------------------------- MODULE StrategicGrant ----------------------------
(***************************************************************************)
(* Strategic grants and their capital epochs (uquant/models/strategic_*,   *)
(* uquant/portfolio/strategic). A grant authorises one symbol; its epoch   *)
(* owns the shares the grant buys. Grants are numbered as they are formed  *)
(* and grant g has epoch g. A session ends with Decide, which revalidates  *)
(* the grant, settles what has ended, runs the cohort, forms a new grant   *)
(* and reconciles the orders; the opening auction or the broker fills and  *)
(* ends orders between decisions.                                          *)
(*                                                                         *)
(* Evidence, prices and risk are seen as the outcome the code draws from   *)
(* them. Weights are left out, and with them the promotion of a filled     *)
(* epoch, which only raises its target weight; companions of the owner in  *)
(* a full cohort, restore weights and protected rights are left out too.   *)
(* A grant is never ACTIVE or CANCELLED when an account is saved: a fill   *)
(* overwrites the first at once and nothing assigns the second.            *)
(***************************************************************************)
EXTENDS Naturals, FiniteSets

CONSTANTS
    MaxGrants,      \* bound: grants formed
    MaxShares,      \* bound: shares of one grant, in lots
    MaxRetries      \* MAX_STRATEGIC_GRANT_HEALTHY_RETRY_SESSIONS

ASSUME GrantAssumption ==
    /\ MaxGrants \in Nat \ {0}
    /\ MaxShares \in Nat \ {0}
    /\ MaxRetries \in Nat \ {0}

VARIABLES
    account,        \* what AccountState keeps of grants, epochs, positions and orders
    refused         \* a decision raised: the prior epoch of a new grant is not terminal

vars == <<account, refused>>

Grants == 1 .. MaxGrants
\* PAIR stands with ABSOLUTE_SINGLE.
Quorums == {"FULL_COHORT", "PAIR"}
Statuses == {"NONE", "QUALIFIED", "PENDING_EXECUTION", "PARTIALLY_FILLED",
             "COMPLETED", "EXPIRED"}
EpochStatuses == {"NONE", "PROBE", "ACTIVE", "CLOSED", "EXPIRED"}

\* A BUY is executable locally, or frozen: dropped from pending_orders, its cancellation
\* asked and its ledger row live. left is what it may still buy, filled what it bought.
BuyStates == {"none", "pending", "frozen"}
NoBuy == [state |-> "none", filled |-> 0, left |-> 0]

Account == [
    grant      : 0 .. MaxGrants,               \* the current grant, 0 before the first
    status     : Statuses,                     \* strategic_grant.status
    quorum     : Quorums,                      \* qualification_quorum of the current epoch
    retries    : 0 .. MaxRetries,              \* healthy_retry_sessions
    epoch      : [Grants -> EpochStatuses],    \* realized_status of each epoch
    entered    : [Grants -> BOOLEAN],          \* active_session is set: a BUY was filled
    active     : 0 .. MaxGrants,               \* active_strategic_epoch_id
    cohort     : BOOLEAN,                      \* strategic_cohort_active
    target     : BOOLEAN,                      \* strategic_cohort_targets is not empty
    started    : BOOLEAN,                      \* strategic_cohort_started, or an exit band
    shares     : [Grants -> 0 .. MaxShares],
    buy        : [Grants -> [state : BuyStates, filled : 0 .. MaxShares, left : 0 .. MaxShares]],
    sell       : [Grants -> BOOLEAN],          \* a SELL is pending
    short      : [Grants -> BOOLEAN],          \* a BUY ended below what it was sized for
    generation : 0 .. MaxGrants ]              \* account.strategic_epoch, the risk generation

Init ==
    /\ account = [grant |-> 0, status |-> "NONE", quorum |-> "PAIR", retries |-> 0,
                  epoch |-> [g \in Grants |-> "NONE"],
                  entered |-> [g \in Grants |-> FALSE],
                  active |-> 0, cohort |-> FALSE, target |-> FALSE, started |-> FALSE,
                  shares |-> [g \in Grants |-> 0], buy |-> [g \in Grants |-> NoBuy],
                  sell |-> [g \in Grants |-> FALSE], short |-> [g \in Grants |-> FALSE],
                  generation |-> 0]
    /\ refused = FALSE

GrantTerminal(status) == status \in {"COMPLETED", "EXPIRED"}
EpochTerminal(status) == status \in {"CLOSED", "EXPIRED"}
EpochOpen(status) == status \in {"PROBE", "ACTIVE"}

--------------------------------------------------------------------------------
(* Settlement of an epoch *)

\* Mutant of Blocked: a cancellation the broker has not confirmed does not block.
BlockedLocally(a, g) ==
    a.shares[g] > 0 \/ a.buy[g].state = "pending" \/ a.sell[g]

\* Mutant of Blocked: only what the orders may still do blocks.
BlockedByOrders(a, g) == a.buy[g].state # "none" \/ a.sell[g]

\* An epoch is settled only when it holds nothing and no order of it can still fill.
Blocked(a, g) ==
    \/ a.shares[g] > 0
    \/ a.buy[g].state # "none"
    \/ a.sell[g]

\* Mutant of EndOfEpoch: an expiry is recorded although the epoch owned shares.
EndOfEpochByReason(a, g, expired) == IF expired THEN "EXPIRED" ELSE "CLOSED"

EndOfEpoch(a, g, expired) ==
    IF expired /\ ~a.entered[g] THEN "EXPIRED" ELSE "CLOSED"

\* settle_account_strategic_epoch; a terminal epoch keeps its status.
Settle(a, g, expired) ==
    IF Blocked(a, g) THEN a
    ELSE [a EXCEPT !.epoch[g] = IF EpochTerminal(@) THEN @ ELSE EndOfEpoch(a, g, expired),
                   !.active = IF @ = g THEN 0 ELSE @,
                   !.status = IF a.grant # g THEN @
                              ELSE IF expired THEN "EXPIRED" ELSE "COMPLETED"]

Released(a) == [a EXCEPT !.cohort = FALSE, !.target = FALSE, !.started = FALSE]

SettleExpired(a, g) == IF Blocked(a, g) THEN a ELSE Released(Settle(a, g, TRUE))

--------------------------------------------------------------------------------
(* Revalidation of the grant at a close *)

\* What the candidate's evidence says: it left the universe, has no row today, lost its
\* route or its observation window, or qualifies, with or without an obstacle to deploy.
Evidence == {"removed", "absent", "unqualified", "blocked", "healthy"}

\* A BUY that ended short was made up for, or not, by a later order of its event.
MadeUp(a) == IF \E g \in Grants : a.short[g] THEN BOOLEAN ELSE {TRUE}

\* Every BUY of the grant is done with nothing left.
CompletedEntry(a, g, madeUp) ==
    /\ a.epoch[g] = "ACTIVE" /\ a.quorum # "FULL_COHORT"
    /\ a.shares[g] > 0 /\ a.buy[g].state = "none"
    /\ a.short[g] => madeUp

\* _expire_strategic_grant; the withdrawn BUY is dropped from pending_orders only, its
\* ledger row is reconciled at the end of the decision.
Expire(a, g) ==
    LET hadOrder == a.buy[g].state = "pending" \/ a.sell[g]
        held == a.shares[g] > 0
        ended == [a EXCEPT !.status = "EXPIRED", !.cohort = held, !.target = held]
    IN IF held \/ hadOrder THEN ended ELSE SettleExpired(ended, g)

\* Mutant of Retried: a healthy session is not counted.
RetriedUncounted(a, evidence, completed) == a

\* A session in which nothing but the market kept the grant from deploying.
Retried(a, evidence, completed) ==
    IF evidence = "healthy" /\ ~completed THEN [a EXCEPT !.retries = @ + 1] ELSE a

RetriesSpent(a) == a.retries >= MaxRetries

\* revalidate_strategic_grant: a deployment still under way is confirmed at every close.
Revalidate(a, evidence, madeUp) ==
    LET g == a.grant
        completed == CompletedEntry(a, g, madeUp)
        lost == \/ evidence = "removed"
                \/ evidence = "unqualified" /\ ~completed
                \/ evidence \in {"blocked", "healthy"} /\ ~completed /\ RetriesSpent(a)
    IN IF g = 0 \/ GrantTerminal(a.status) THEN a
       ELSE IF lost THEN Expire(a, g)
       ELSE Retried(a, evidence, completed)

--------------------------------------------------------------------------------
(* The cohort *)

\* A grant that ended before this decision, or in it with shares held, is settled first.
SettleTerminal(a) ==
    IF a.grant # 0 /\ a.status = "EXPIRED" THEN SettleExpired(a, a.grant) ELSE a

\* Mutant of CanForm: a running cohort does not stop the discovery.
CanFormBeside(a) ==
    /\ a.grant < MaxGrants
    /\ a.grant # 0 => a.shares[a.grant] = 0 /\ a.buy[a.grant].state # "pending"

\* No capital owner, no cohort, and the candidate is neither held nor ordered.
CanForm(a) ==
    /\ a.active = 0 /\ ~a.cohort /\ a.grant < MaxGrants
    /\ a.grant # 0 => a.shares[a.grant] = 0 /\ a.buy[a.grant].state # "pending"

\* The quorum of the route that qualifies today, if one does.
Offers(a) == {"none"} \cup (IF CanForm(a) THEN Quorums ELSE {})

\* activate_strategic_cohort: the grant, its unfilled epoch and its cohort together.
Form(a, quorum) ==
    LET g == a.grant + 1
    IN IF quorum = "none" THEN a
       ELSE [a EXCEPT !.grant = g, !.status = "QUALIFIED", !.quorum = quorum, !.retries = 0,
                    !.epoch[g] = "PROBE", !.cohort = TRUE, !.target = TRUE, !.started = FALSE]

\* A cohort without targets ends when its owner holds nothing and owes nothing.
CompleteEmpty(a) ==
    LET g == IF a.active # 0 THEN a.active ELSE a.grant
    IN IF Blocked(a, g) THEN a
       ELSE Released(Settle(a, g, FALSE))

\* The member's entry or an exit band is noticed while it is held; once it was, the member
\* retires when it is found sold.
Member(a, noticed) ==
    LET held == a.shares[a.grant] > 0
    IN [a EXCEPT !.started = @ \/ (held /\ noticed),
                 !.target = held \/ ~a.started]

\* The rest of _strategic_cohort_targets after a revalidation that left targets.
RunCohort(a, noticed) ==
    IF ~a.cohort THEN a
    ELSE IF ~a.target THEN CompleteEmpty(a)
    ELSE Member(a, noticed)

--------------------------------------------------------------------------------
(* Orders at the end of a decision *)

\* New shares may be bought for a deployed target of a grant that has not been revoked.
MayBuy(a) == a.cohort /\ a.target /\ a.status # "EXPIRED"

\* previous_orders was read before the grant was revoked and the revoked BUY is not marked
\* rejected: it is merged again when the held part outgrew the order's target weight.
RevivesRevoked(a, g) ==
    /\ a.status = "EXPIRED" /\ a.cohort /\ a.target
    /\ a.shares[g] > 0 /\ a.buy[g].state = "pending" /\ a.buy[g].filled > 0

\* The BUYs a decision may leave the grant with. A freeze turns a pending BUY into an
\* outstanding cancellation, which admits no further BUY of the symbol.
Fresh(a, g) ==
    {[state |-> "pending", filled |-> 0, left |-> n] : n \in 1 .. (MaxShares - a.shares[g])}

BuysAfter(a, g, freeze) ==
    LET b == a.buy[g]
    IN IF b.state = "frozen" THEN {b}
       ELSE IF freeze THEN {IF b.state = "pending" THEN [b EXCEPT !.state = "frozen"] ELSE b}
       ELSE {NoBuy}
            \cup (IF MayBuy(a) THEN Fresh(a, g) ELSE {})
            \cup (IF (MayBuy(a) /\ b.state = "pending") \/ RevivesRevoked(a, g) THEN {b} ELSE {})

\* A partly filled BUY that is neither kept nor frozen ended short.
EndsShort(old, new) ==
    old.state = "pending" /\ old.filled > 0 /\ new # old /\ new.state # "frozen"

\* One instruction per symbol; a registered BUY marks the grant as submitted.
Ordered(a, g, buy, sell) ==
    [a EXCEPT !.buy[g] = buy,
              !.sell[g] = sell,
              !.short[g] = @ \/ EndsShort(a.buy[g], buy),
              !.status = IF @ = "QUALIFIED" /\ buy.state = "pending"
                         THEN "PENDING_EXECUTION" ELSE @]

--------------------------------------------------------------------------------
(* Actions *)

\* The prior epoch is not settled: _create_strategic_owner_epoch raises.
Unsettled(a) == a.grant # 0 /\ ~EpochTerminal(a.epoch[a.grant])

\* The orders are reconciled at the end of the decision.
Concluded(a, freeze) ==
    LET g == a.grant
    IN IF g = 0 THEN account' = a
       ELSE \E buy \in BuysAfter(a, g, freeze), sell \in BOOLEAN :
               /\ sell => a.shares[g] > 0 /\ buy.state # "pending"
               /\ account' = Ordered(a, g, buy, sell)

\* A decision at a close. The session in which a grant ends with nothing held has no
\* strategic targets; a decision that raises leaves the account as it was.
DecideOn(evidence) ==
    \E freeze \in BOOLEAN, madeUp \in MadeUp(account) :
        LET checked == Revalidate(account, evidence, madeUp)
            ended == checked.status # account.status /\ ~checked.target
            settled == SettleTerminal(checked)
        IN IF ended THEN UNCHANGED refused /\ Concluded(checked, freeze)
           ELSE \E quorum \in Offers(settled), noticed \in BOOLEAN :
                   IF quorum # "none" /\ Unsettled(settled)
                   THEN refused' = TRUE /\ UNCHANGED account
                   ELSE /\ UNCHANGED refused
                        /\ Concluded(RunCohort(Form(settled, quorum), noticed), freeze)

Decide == \E evidence \in Evidence : DecideOn(evidence)

\* What the fill of a BUY requires; anything else raises and rejects the auction or sync.
FillAccepted(a, g) == ~EpochTerminal(a.epoch[g]) /\ a.active \in {0, g}

\* Mutant of FillStatus: a grant that has ended counts its fills too.
FillStatusAgain(a, g, later) ==
    IF g # a.grant THEN a
    ELSE IF a.quorum = "FULL_COHORT" \/ later
         THEN [a EXCEPT !.status = "COMPLETED", !.generation = (@ + 1) % (MaxGrants + 1)]
         ELSE [a EXCEPT !.status = "PARTIALLY_FILLED"]

\* The first fill of a full cohort, or a fill of a later session than the first, completes
\* the deployment and starts a risk generation.
FillStatus(a, g, later) ==
    IF g # a.grant \/ GrantTerminal(a.status) THEN a
    ELSE IF a.quorum = "FULL_COHORT" \/ later
         THEN [a EXCEPT !.status = "COMPLETED", !.generation = @ + 1]
         ELSE [a EXCEPT !.status = "PARTIALLY_FILLED"]

\* What a fill of s shares leaves of the BUY, and of the account.
Remaining(buy, s) ==
    IF s = buy.left THEN NoBuy
    ELSE [buy EXCEPT !.filled = @ + s, !.left = @ - s]

Filled(a, g, s) ==
    [a EXCEPT !.shares[g] = @ + s, !.buy[g] = Remaining(@, s),
              !.epoch[g] = "ACTIVE", !.entered[g] = TRUE, !.active = g, !.cohort = TRUE]

\* The auction fills an executable BUY, the broker also one whose cancellation is asked.
FillBuy(g) ==
    /\ account.buy[g].state # "none" /\ FillAccepted(account, g)
    /\ \E s \in 1 .. account.buy[g].left, later \in BOOLEAN :
          /\ later => account.entered[g]
          /\ account' = FillStatus(Filled(account, g, s), g, later)
    /\ UNCHANGED refused

\* A frozen BUY and a SELL of the same symbol may both be at the broker.
FillSell(g) ==
    /\ account.sell[g]
    /\ \E s \in 1 .. account.shares[g], done \in BOOLEAN :
          /\ s = account.shares[g] => done
          /\ account' = [account EXCEPT !.shares[g] = @ - s, !.sell[g] = ~done]
    /\ UNCHANGED refused

\* The broker confirms that an order will not fill, or the auction cancels a satisfied one.
EndBuy(g) ==
    /\ account.buy[g].state # "none"
    /\ account' = [account EXCEPT !.buy[g] = NoBuy,
                                  !.short[g] = @ \/ account.buy[g].filled > 0]
    /\ UNCHANGED refused

EndSell(g) ==
    /\ account.sell[g]
    /\ account' = [account EXCEPT !.sell[g] = FALSE]
    /\ UNCHANGED refused

\* The broker reports fewer shares than the account, without a sale that explains it.
Deficit(g) ==
    /\ \E s \in 1 .. account.shares[g] : account' = [account EXCEPT !.shares[g] = @ - s]
    /\ UNCHANGED refused

Next ==
    \/ Decide
    \/ \E g \in Grants : FillBuy(g) \/ FillSell(g) \/ EndBuy(g) \/ EndSell(g) \/ Deficit(g)

Spec == Init /\ [][Next]_vars

\* Sessions go on in which the candidate qualifies and nothing obstructs the deployment,
\* and a cancellation that was asked is answered.
FairSpec ==
    /\ Spec
    /\ WF_vars(DecideOn("healthy"))
    /\ \A g \in Grants : WF_vars(account.buy[g].state = "frozen" /\ EndBuy(g))

--------------------------------------------------------------------------------
(* Properties *)

\* The account keeps its shape, the retries their window and the positions their size.
TypeOK == account \in Account /\ refused \in BOOLEAN

\* Every right has one owner (validation_strategy.py refuses any other account): only the
\* current grant's epoch is open, the active pointer names the epoch that owns shares, and
\* positions and pending orders belong to an open epoch, whatever late fills did between
\* an expiry and the formation of the next grant.
OwnerBound ==
    /\ \A g \in Grants :
          /\ EpochOpen(account.epoch[g]) => g = account.grant
          /\ (account.active = g) <=> (account.epoch[g] = "ACTIVE")
          /\ (account.shares[g] > 0 \/ account.buy[g].state = "pending" \/ account.sell[g])
                => EpochOpen(account.epoch[g])
    /\ account.status \notin {"NONE", "COMPLETED", "EXPIRED"}
          => EpochOpen(account.epoch[account.grant])

\* No fill the broker may still report is refused: as long as a BUY can be filled, its
\* epoch is open and no other epoch owns capital, even after its grant was revoked and its
\* cancellation asked. A refused fill raises and aborts the whole auction or broker sync.
FillsAdmitted ==
    \A g \in Grants : account.buy[g].state # "none" => FillAccepted(account, g)

\* STRATEGY.md: an epoch that ever owned shares ends CLOSED, also when its grant expired
\* before the deployment was complete, and only one that never did ends EXPIRED; a risk
\* generation is earned once by a completed deployment, and neither the close of an epoch
\* nor a late fill of a grant that has ended starts another one.
EntriesCounted ==
    /\ \A g \in Grants : EpochTerminal(account.epoch[g]) =>
          (account.epoch[g] = "CLOSED" <=> account.entered[g])
    /\ account.generation <= Cardinality({g \in Grants : account.entered[g]})

\* STRATEGY.md: closing the epoch of an expired grant does not complete the grant, nor do
\* the fills it still gets: it stays EXPIRED until a new grant takes its place.
ExpiryFinal ==
    [][account.status = "EXPIRED" /\ account'.grant = account.grant
         => account'.status = "EXPIRED"]_vars

\* A grant does not wait for ever: with healthy sessions going on and the cancellations
\* answered, it is filled or its window closes and its epoch is settled.
GrantSpent ==
    \A g \in Grants :
        (account.grant = g /\ ~account.entered[g])
            ~> (account.entered[g] \/ EpochTerminal(account.epoch[g]))

\* ARCHITECTURE.md: a new grant waits for the prior identity to be settled. The code forms
\* it without looking and raises; this aborts a decision only while the broker owes the
\* answer to a cancellation of the prior grant, never for shares or orders of the account.
RefusedUnanswered ==
    [][refused' # refused => account.buy[account.grant].state = "frozen"]_vars

================================================================================
