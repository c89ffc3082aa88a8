------------------------------ MODULE CashRearm ------------------------------
(***************************************************************************)
(* Reauthorisation of a damaged account that is all cash                   *)
(* (uquant/portfolio/strategic/rearm.py, models/strategic_rearm.py,        *)
(* account/validation_strategy.py). A flat account repairs its capital by  *)
(* waiting: an episode counts the healthy sessions its damage level asks   *)
(* for and becomes READY. Then one candidate is authorised, and consumes   *)
(* the episode with a strategic grant or with one ordinary order.          *)
(*                                                                         *)
(* A session is a decision at the close, which saves the account only if   *)
(* it validates, and what the auction or the broker does until the next.   *)
(* Market, risk and candidates are seen as the outcome drawn from them.    *)
(* The ordinary book is one position and one BUY; weights and protected    *)
(* rights are left out; an episode and the references it was counted under *)
(* are the identities they have. A formation beside an unsettled epoch,    *)
(* which raises, is StrategicGrant's.                                      *)
(***************************************************************************)
EXTENDS Naturals, FiniteSetsExt

CONSTANTS
    MaxLevel,   \* worst capital_budget_level
    Required,   \* CASH_REARM_HEALTHY_SESSION_LIMITS: sessions to wait at a level
    References, \* identities of the risk references and the configuration
    Episodes,   \* identities of episodes, reused once nothing names them
    NoReference,
    NoEpisode   \* the empty identities

Levels == 1 .. MaxLevel

ASSUME RearmAssumption ==
    /\ MaxLevel \in Nat \ {0}
    /\ Required \in [Levels -> Nat \ {0}]
    /\ IsFiniteSet(Episodes) /\ Cardinality(Episodes) >= 3
    /\ References # {} /\ NoReference \notin References /\ NoEpisode \notin Episodes

VARIABLES
    account,    \* what AccountState keeps of the repair, the rearm, the grant and the book
    served,     \* history: healthy flat sessions at each level since the capital was at work
    refused     \* history: the last decision computed an account that save_account refuses

vars == <<account, served, refused>>

\* flat_book_capital_repair; counted says that the session under way is in count already.
NoRepair == [episode |-> NoEpisode, level |-> 0, reference |-> NoReference,
             count |-> 0, counted |-> FALSE, status |-> "BLOCKED"]

\* strategic_cash_rearm; OBSERVING and INVALIDATED authorise nothing and are one.
NoRearm == [status |-> "OBSERVING", episode |-> NoEpisode, consumer |-> "none"]

\* strategic_grant with its epoch; a BUY that is frozen has its cancellation asked for.
NoGrant == [status |-> "none", authorized |-> FALSE, entered |-> FALSE,
            buy |-> "none", shares |-> "none", settled |-> TRUE]

BuyStates == {"none", "pending", "frozen"}

\* Shares bought since the last decision have no SELL yet.
ShareStates == {"none", "bought", "held"}

Account == [
    level  : 0 .. MaxLevel,                     \* capital_budget_level
    repair : [episode : Episodes \cup {NoEpisode}, level : 0 .. MaxLevel,
              reference : References \cup {NoReference}, count : Nat, counted : {FALSE},
              status : {"BLOCKED", "ACCUMULATING", "READY", "CONSUMED", "RESET"}],
    rearm  : [status : {"OBSERVING", "AUTHORIZED", "CONSUMED"},
              episode : Episodes \cup {NoEpisode}, consumer : {"none", "grant", "order"}],
    grant  : [status : {"none", "open", "COMPLETED", "EXPIRED"}, authorized : BOOLEAN,
              entered : BOOLEAN, buy : BuyStates, shares : ShareStates, settled : BOOLEAN],
    order  : BuyStates,                         \* the ordinary BUY
    shares : ShareStates ]                      \* ordinary shares

Init ==
    /\ account = [level |-> 0, repair |-> NoRepair, rearm |-> NoRearm, grant |-> NoGrant,
                  order |-> "none", shares |-> "none"]
    /\ served = [l \in Levels |-> 0]
    /\ refused = FALSE

--------------------------------------------------------------------------------
(* What the account says of its capital *)

\* A position, an order that may still fill, an open grant or an unsettled epoch.
Live(a) ==
    \/ a.shares # "none" \/ a.grant.shares # "none"
    \/ a.order # "none" \/ a.grant.buy # "none"
    \/ a.grant.status = "open" \/ ~a.grant.settled

\* The consumed ordinary order waits for its fill.
OrdinaryPending(a) ==
    a.rearm.status = "CONSUMED" /\ a.rearm.consumer = "order" /\ a.order = "pending"

\* The consumption is that of the current grant.
OfGrant(a) ==
    a.rearm.status = "CONSUMED" /\ a.rearm.consumer = "grant" /\ a.grant.authorized

\* Nothing but the consumed grant and its unfilled order is live.
Unfilled(a) == OfGrant(a) /\ ~a.grant.entered /\ a.shares = "none" /\ a.order = "none"

\* A new grant or authorisation waits for the end of the attempt.
AttemptOpen(a) == OrdinaryPending(a) \/ (OfGrant(a) /\ a.grant.status = "open")

--------------------------------------------------------------------------------
(* The repair episode *)

Reset(repair) == [repair EXCEPT !.count = 0, !.counted = FALSE, !.status = "RESET"]

\* Mutant of Advance: a session that is not healthy starts the wait again.
AdvanceConsecutive(repair, healthy) ==
    IF ~healthy THEN [repair EXCEPT !.status = "BLOCKED", !.count = 0]
    ELSE LET required == Required[repair.level]
             count == IF repair.counted \/ repair.count = required
                      THEN repair.count ELSE repair.count + 1
         IN [repair EXCEPT !.count = count, !.counted = TRUE,
                           !.status = IF count = required THEN "READY" ELSE "ACCUMULATING"]

\* Mutant of Advance: each observation of a session counts.
AdvanceEach(repair, healthy) ==
    IF ~healthy THEN [repair EXCEPT !.status = "BLOCKED"]
    ELSE LET required == Required[repair.level]
             count == IF repair.count = required THEN repair.count ELSE repair.count + 1
         IN [repair EXCEPT !.count = count, !.counted = TRUE,
                           !.status = IF count = required THEN "READY" ELSE "ACCUMULATING"]

\* A healthy session counts once; one that is not keeps the count and blocks.
Advance(repair, healthy) ==
    IF ~healthy THEN [repair EXCEPT !.status = "BLOCKED"]
    ELSE LET required == Required[repair.level]
             count == IF repair.counted \/ repair.count = required
                      THEN repair.count ELSE repair.count + 1
         IN [repair EXCEPT !.count = count, !.counted = TRUE,
                           !.status = IF count = required THEN "READY" ELSE "ACCUMULATING"]

\* The identity of an episode that begins at this level and session is not in use.
NewRepair(a, reference) ==
    LET unused == CHOOSE e \in Episodes : e \notin {a.repair.episode, a.rearm.episode}
    IN [NoRepair EXCEPT !.episode = unused, !.level = a.level, !.reference = reference]

\* Other damage or other identities, or an episode that was reset, need a new episode.
StartsAnew(a, reference) ==
    \/ a.repair.episode = NoEpisode
    \/ a.level # a.repair.level \/ reference # a.repair.reference
    \/ a.repair.status = "RESET"

Continued(a, reference) ==
    IF StartsAnew(a, reference) THEN NewRepair(a, reference) ELSE a.repair

\* An ordinary attempt that is over has spent its episode and its authorisation.
AttemptReleased(a) ==
    IF a.rearm.consumer = "order" /\ ~OrdinaryPending(a)
    THEN [a EXCEPT !.repair = Reset(@), !.rearm = NoRearm]
    ELSE a

\* Mutant of Cleared: a pending attempt does not keep its episode.
ClearedAlways(a) ==
    IF a.repair.episode = NoEpisode THEN NoRepair
    ELSE [a.repair EXCEPT !.count = 0, !.status = "RESET"]

\* The episode of an account that is no longer damaged.
Cleared(a) ==
    IF OrdinaryPending(a) THEN a.repair
    ELSE IF a.repair.episode = NoEpisode THEN NoRepair
    ELSE [a.repair EXCEPT !.count = 0, !.status = "RESET"]

\* Mutant of UnderAuthority: any attempt resets the episode.
UnderAnyAuthority(a, reference) ==
    IF OrdinaryPending(a) THEN [a.repair EXCEPT !.status = "CONSUMED"]
    ELSE IF a.repair.episode = NoEpisode THEN Reset(NewRepair(a, reference))
    ELSE Reset(a.repair)

\* The episode while capital is at work: held for its own unfilled attempt, reset otherwise.
UnderAuthority(a, reference) ==
    IF OrdinaryPending(a) \/ Unfilled(a) THEN [a.repair EXCEPT !.status = "CONSUMED"]
    ELSE IF a.repair.episode = NoEpisode THEN Reset(NewRepair(a, reference))
    ELSE Reset(a.repair)

\* observe_flat_book_capital_repair_state
Observe(before, healthy, reference) ==
    LET a == AttemptReleased(before)
    IN [a EXCEPT !.repair =
            IF a.level = 0 THEN Cleared(a)
            ELSE IF Live(a) THEN UnderAuthority(a, reference)
            ELSE Advance(Continued(a, reference), healthy)]

--------------------------------------------------------------------------------
(* What a saved account must satisfy *)

RepairValid(repair) ==
    /\ repair.level \in Levels => repair.count <= Required[repair.level]
    /\ repair.status \in {"READY", "CONSUMED"} => repair.count = Required[repair.level]
    /\ repair.status = "RESET" => repair.count = 0

\* A consumption whose grant was filled, completed and closed is history.
CompletedHistory(a) ==
    /\ OfGrant(a) /\ a.grant.status = "COMPLETED"
    /\ a.grant.settled /\ a.grant.entered /\ a.grant.buy = "none"

RearmValid(a) ==
    /\ a.rearm.status # "OBSERVING" =>
          a.rearm.episode = a.repair.episode \/ CompletedHistory(a)
    /\ a.rearm.status = "AUTHORIZED" => a.repair.status = "READY"
    /\ a.rearm.consumer = "order" => a.repair.status = "CONSUMED"

GrantValid(a) == a.grant.status = "open" /\ a.grant.authorized => OfGrant(a)

Loads(a) == RepairValid(a.repair) /\ RearmValid(a) /\ GrantValid(a)

--------------------------------------------------------------------------------
(* The strategic part of a decision *)

\* _expire_strategic_grant: settled at once when nothing is held and no order waits.
Expired(a) ==
    [a EXCEPT !.grant.status = "EXPIRED",
              !.grant.settled = (a.grant.shares = "none" /\ a.grant.buy = "none")]

\* An open grant is revalidated first, and may expire.
Revalidated(a) == {a} \cup (IF a.grant.status = "open" THEN {Expired(a)} ELSE {})

\* _settle_terminal_strategic_grant
SettleExpired(a) ==
    IF a.grant.status = "EXPIRED" /\ a.grant.shares = "none" /\ a.grant.buy = "none"
    THEN [a EXCEPT !.grant.settled = TRUE]
    ELSE a

\* No cohort and no capital owner.
DiscoveryOpen(a) == a.grant.status # "open" /\ (a.grant.settled \/ ~a.grant.entered)

\* Only a candidate that qualifies today, of a READY episode, is authorised.
Authorised(a, candidate) ==
    [a EXCEPT !.rearm = IF candidate = "qualified" /\ a.repair.status = "READY"
                        THEN [status |-> "AUTHORIZED", episode |-> a.repair.episode,
                              consumer |-> "none"]
                        ELSE NoRearm]

\* observe_strategic_cash_rearm_state
ObserveRearm(a, candidate, healthy, reference) ==
    IF AttemptOpen(a) THEN a
    ELSE Authorised(Observe(a, healthy, reference), candidate)

\* activate_strategic_cohort; an authorisation is consumed with its episode.
Granted(a) ==
    LET authorized == a.rearm.status = "AUTHORIZED"
        formed == [a EXCEPT !.grant = [NoGrant EXCEPT !.status = "open", !.settled = FALSE,
                                                      !.authorized = authorized]]
    IN IF authorized
       THEN [formed EXCEPT !.rearm.status = "CONSUMED", !.rearm.consumer = "grant",
                           !.repair.status = "CONSUMED"]
       ELSE formed

\* Damaged capital deploys by authorisation only; the entry, the cash or the positions may
\* still stand in the way, and the authorisation is kept.
Formed(a) ==
    {a} \cup (IF a.grant.settled /\ (a.rearm.status = "AUTHORIZED" \/ a.level = 0)
              THEN {Granted(a)} ELSE {})

\* _initialize_strategic_cohort; without a snapshot of any candidate nothing is observed.
Discovered(a, candidate, healthy, reference) ==
    IF ~DiscoveryOpen(a) \/ candidate = "absent" THEN {a}
    ELSE Formed(ObserveRearm(a, candidate, healthy, reference))

\* The cohort of a grant that was filled ends when its owner is sold and owes nothing.
Closed(a) ==
    {a} \cup (IF /\ a.grant.entered /\ ~a.grant.settled
                 /\ a.grant.shares = "none" /\ a.grant.buy = "none"
              THEN {[a EXCEPT !.grant.status = "COMPLETED", !.grant.settled = TRUE]}
              ELSE {})

\* A grant that expires with nothing held ends the strategic part of the session.
Strategic(a, candidate, healthy, reference) ==
    LET After(r) ==
            IF r.grant.status # a.grant.status /\ r.grant.shares = "none" THEN {r}
            ELSE UNION {Closed(d) :
                        d \in Discovered(SettleExpired(r), candidate, healthy, reference)}
    IN UNION {After(r) : r \in Revalidated(a)}

--------------------------------------------------------------------------------
(* The orders of a decision *)

GrantBuys(a) ==
    IF a.grant.buy = "frozen" THEN {"frozen"}
    ELSE IF a.grant.status # "EXPIRED" /\ ~a.grant.settled THEN {"none", "pending"}
    ELSE {"none"} \cup (IF a.grant.shares # "none" THEN {a.grant.buy} ELSE {})

\* A BUY that took the episode keeps the place of the others until it is over.
OrderBuys(a) ==
    IF a.order = "frozen" THEN {"frozen"}
    ELSE {"none"} \cup (IF a.rearm.consumer = "order" THEN {a.order} ELSE {"pending"})

Ordered(a) ==
    UNION {{[a EXCEPT !.grant.buy = b, !.order = o] : o \in OrderBuys(a)} : b \in GrantBuys(a)}

\* authorize_ordinary_cash_rearm, and consume_ordinary_cash_rearm_authorization after the
\* reconciliation: the order placed takes the episode, no order takes the authorisation.
Repaired(a, healthy, reference) ==
    {a} \cup
    (IF /\ healthy /\ a.repair.status = "READY" /\ ~Live(a)
        /\ a.level \in Levels /\ a.repair.level = a.level /\ a.repair.reference = reference
     THEN {[a EXCEPT !.rearm = NoRearm],
           [a EXCEPT !.rearm = [status |-> "CONSUMED", episode |-> a.repair.episode,
                                consumer |-> "order"],
                     !.repair.status = "CONSUMED", !.order = "pending"]}
     ELSE {})

\* A freeze that is the sentinel's alone: the account is observed and its BUYs are withdrawn,
\* what the planning copy decides is not committed.
Frozen(a) ==
    LET Withdrawn(buy) == IF buy = "pending" THEN "frozen" ELSE buy
    IN [a EXCEPT !.grant.buy = Withdrawn(@), !.order = Withdrawn(@)]

--------------------------------------------------------------------------------
(* Actions *)

Candidates == {"absent", "unqualified", "qualified"}

\* The account as the decision of a new session finds it.
NewSession(level) == [account EXCEPT !.level = level]

\* A session is counted by its date, and what it bought may be sold after it.
EndSession(a) ==
    LET Kept(shares) == IF shares = "bought" THEN "held" ELSE shares
    IN [a EXCEPT !.repair.counted = FALSE, !.grant.shares = Kept(@), !.shares = Kept(@)]

\* Capital is at work unless all that is live is an authorised grant that never filled.
AtWork(a) ==
    /\ Live(a)
    /\ ~(a.grant.authorized /\ ~a.grant.entered /\ a.shares = "none" /\ a.order = "none")

\* The history after a decision that found the account at start: a session counts when it is
\* healthy and nothing is live, once the expired grant it finds is settled.
ServedBy(start, a, candidate, healthy) ==
    LET spent == a.rearm.consumer = "order" /\ account.rearm.consumer # "order"
        kept == IF a.level = 0 \/ spent \/ AtWork(start) THEN [l \in Levels |-> 0] ELSE served
        seen == IF candidate = "absent" THEN start ELSE SettleExpired(start)
    IN IF a.level # 0 /\ ~spent /\ healthy /\ ~Live(seen)
       THEN [kept EXCEPT ![a.level] = IF @ = Required[a.level] THEN @ ELSE @ + 1]
       ELSE kept

\* save_account validates: a decision it refuses changes nothing.
Save(start, a, candidate, healthy) ==
    IF Loads(a)
    THEN /\ account' = EndSession(a)
         /\ served' = ServedBy(start, a, candidate, healthy)
         /\ refused' = FALSE
    ELSE /\ refused' = TRUE
         /\ UNCHANGED <<account, served>>

\* A decision of a session that the sentinel alone does not freeze.
Session(level, candidate, healthy, reference) ==
    LET start == NewSession(level)
        observed == Observe(start, healthy, reference)
    IN \E s \in Strategic(observed, candidate, healthy, reference) :
           \E o \in Ordered(s) :
               \E a \in Repaired(o, healthy, reference) : Save(start, a, candidate, healthy)

\* The ladder worsens at once and improves by one level; damage is not healthy.
Decide ==
    \E level \in 0 .. MaxLevel, candidate \in Candidates, healthy \in BOOLEAN,
       reference \in References :
        /\ level + 1 >= account.level
        /\ healthy => level <= account.level
        /\ Session(level, candidate, healthy, reference)

\* A damaged level freezes by itself, so the sentinel freezes alone only without one.
DecideFrozen ==
    /\ account.level <= 1
    /\ \E reference \in References :
           Save(NewSession(0), Frozen(Observe(NewSession(0), FALSE, reference)), "absent", FALSE)

\* A fill of the grant's BUY, all of it or a part, which may complete the deployment.
FillGrant ==
    /\ account.grant.buy # "none"
    /\ \E buy \in {"none", account.grant.buy}, status \in {account.grant.status, "COMPLETED"} :
           /\ account.grant.status # "open" => status = account.grant.status
           /\ account' = [account EXCEPT !.grant.buy = buy, !.grant.status = status,
                                         !.grant.entered = TRUE, !.grant.shares = "bought"]
    /\ served' = [l \in Levels |-> 0]
    /\ UNCHANGED refused

\* The BUY of the grant ends with nothing more, cancelled or refused.
EndGrantBuy ==
    /\ account.grant.buy # "none"
    /\ account' = [account EXCEPT !.grant.buy = "none"]
    /\ UNCHANGED <<served, refused>>

FillOrder ==
    /\ account.order # "none"
    /\ \E order \in {"none", account.order} :
           account' = [account EXCEPT !.order = order, !.shares = "bought"]
    /\ served' = [l \in Levels |-> 0]
    /\ UNCHANGED refused

EndOrder ==
    /\ account.order # "none"
    /\ account' = [account EXCEPT !.order = "none"]
    /\ UNCHANGED <<served, refused>>

\* The last shares of the grant, or the last ordinary ones, are sold as a decision planned.
SellGrant ==
    /\ account.grant.shares = "held"
    /\ account' = [account EXCEPT !.grant.shares = "none"]
    /\ UNCHANGED <<served, refused>>

SellOrdinary ==
    /\ account.shares = "held"
    /\ account' = [account EXCEPT !.shares = "none"]
    /\ UNCHANGED <<served, refused>>

Next ==
    \/ Decide \/ DecideFrozen
    \/ FillGrant \/ EndGrantBuy \/ SellGrant
    \/ FillOrder \/ EndOrder \/ SellOrdinary

\* A healthy session at the same level and references, with candidates to look at.
HealthySession ==
    \E reference \in References :
        /\ account.repair.reference \in {reference, NoReference}
        /\ Session(account.level, "unqualified", TRUE, reference)

Spec == Init /\ [][Next]_vars
FairSpec == Spec /\ WF_vars(HealthySession)

--------------------------------------------------------------------------------
(* Properties *)

\* What the account keeps has the shape the model gives it; a session that was counted is over
\* when the next one is observed.
TypeOK ==
    /\ account \in Account
    /\ served \in [Levels -> Nat] /\ refused \in BOOLEAN

\* Damaged capital is put to work only after the wait its level asks for, all of it in healthy
\* sessions with nothing at work: neither two observations of a session, nor a wait served at
\* another level, nor the wait of an earlier attempt that traded shortens it
\* (rearm.py, observe_flat_book_capital_repair_state and both consumptions).
WaitServed ==
    [][ account'.rearm.status = "CONSUMED" /\ account'.rearm # account.rearm
           => served[account'.level] + 1 >= Required[account'.level] ]_vars

\* A wait that was served is forgotten only when capital went to work or the damage was over:
\* a grant attempt that ends unfilled, whatever happened to its order, gives the episode back
\* (rearm_predicates.py, unfilled_authorized_grant_attempt).
WaitKept ==
    /\ TypeOK
    /\ account.repair.status = "RESET" /\ account.level \in Levels
        => served[account.level] < Required[account.level]

\* A flat damaged account becomes ready although sessions that are not healthy come between
\* the healthy ones, unless its damage or its references change or capital goes to work.
RepairCompletes ==
    \A l \in Levels, r \in References :
        account.level = l /\ ~Live(account) /\ account.repair.reference = r
            ~> \/ account.repair.status = "READY"
               \/ account.level # l \/ account.repair.reference # r \/ Live(account)

\* A decision computes an account that cannot be saved only where an authorisation, or the
\* consumption by the current grant, was left behind that the repair then moves away from
\* (discovery.py returns before it withdraws them; account/validation_strategy.py, "strategic rearm
\* requires a ready repair episode"): an ordinary order, its fills and sales, and capital that
\* never was damaged cannot lead to one.
RefusedStranded == refused => account.rearm.status = "AUTHORIZED" \/ OfGrant(account)

================================================================================
