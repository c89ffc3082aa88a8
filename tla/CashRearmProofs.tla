---------------------------- MODULE CashRearmProofs ----------------------------
(***************************************************************************)
(* Proofs about CashRearm, for any levels of damage, any waits, and any    *)
(* references and episodes: capital is put to work only after the whole    *)
(* wait, a wait that was served is not lost, and which decisions cannot be *)
(* saved.                                                                  *)
(*                                                                         *)
(* The argument: the count of an episode is never more than the sessions   *)
(* that were served at its level since capital was at work (Backed), with  *)
(* one more while the session under way is in the count already. An        *)
(* episode is reset only where nothing served is left (Spent), because an  *)
(* unfilled authorised grant keeps its consumption (Owned).                *)
(***************************************************************************)
EXTENDS CashRearm, FiniteSetTheorems, TLAPS

--------------------------------------------------------------------------------
(* The inductive invariant *)

Nothing == [l \in Levels |-> 0]

\* What a grant is at any time.
GrantShape(g) ==
    /\ g.status = "none" => g = NoGrant
    /\ g.settled => g.status # "open" /\ g.buy = "none" /\ g.shares = "none"
    /\ ~g.entered => g.shares = "none" /\ g.status # "COMPLETED"

RearmShape(a) ==
    /\ a.rearm.consumer # "none" <=> a.rearm.status = "CONSUMED"
    /\ a.rearm.consumer = "grant" => a.grant.authorized

\* An authorised grant that has not filled and is not settled.
Attempting(g) == g.authorized /\ ~g.entered /\ ~g.settled

\* It has the consumption, or nothing served is left to lose.
Owned == Attempting(account.grant) => OfGrant(account) \/ served = Nothing

\* A withdrawn BUY, and the reset of an episode, leave nothing that was served.
Spent ==
    /\ account.grant.buy = "frozen" \/ account.order = "frozen" => served = Nothing
    /\ account.repair.status = "RESET" /\ account.level \in Levels => served = Nothing

\* The next decision withdraws the BUY of a grant that expired.
NoLateBuy ==
    account.grant.status = "EXPIRED" /\ ~account.grant.entered => account.grant.buy # "pending"

\* The count of an episode was served at its level, unless it is spent already or the next
\* decision finds the shares it bought.
Backed ==
    \/ account.repair.level \notin Levels
    \/ account.repair.count <= served[account.repair.level]
    \/ account.rearm.consumer = "order"
    \/ account.shares = "bought" \/ account.grant.shares = "bought"

IInv ==
    /\ TypeOK /\ Loads(account)
    /\ GrantShape(account.grant) /\ RearmShape(account)
    /\ Owned /\ Spent /\ NoLateBuy /\ Backed
    /\ \A l \in Levels : served[l] <= Required[l]
    /\ RefusedStranded

--------------------------------------------------------------------------------
(* Accounts within a decision *)

RepairStatus == {"BLOCKED", "ACCUMULATING", "READY", "CONSUMED", "RESET"}
Repair == [episode : Episodes \cup {NoEpisode}, level : 0 .. MaxLevel,
           reference : References \cup {NoReference}, count : Nat, counted : BOOLEAN,
           status : RepairStatus]
Rearm == [status : {"OBSERVING", "AUTHORIZED", "CONSUMED"},
          episode : Episodes \cup {NoEpisode}, consumer : {"none", "grant", "order"}]
Grant == [status : {"none", "open", "COMPLETED", "EXPIRED"}, authorized : BOOLEAN,
          entered : BOOLEAN, buy : BuyStates, shares : ShareStates, settled : BOOLEAN]

\* An account of a session that may have been counted already.
Working == [level : 0 .. MaxLevel, repair : Repair, rearm : Rearm, grant : Grant,
            order : BuyStates, shares : ShareStates]

Sessions == [Levels -> Nat]

LEMMA SavedWorking ==
    ASSUME NEW a
    PROVE  a \in Account <=> a \in Working /\ a.repair.counted = FALSE
BY DEF Account, Working, Repair, Rearm, Grant, RepairStatus

LEMMA Constants ==
    /\ MaxLevel \in Nat \ {0} /\ Levels \subseteq 0 .. MaxLevel /\ Levels \subseteq Nat \ {0}
    /\ 0 \notin Levels /\ (0 .. MaxLevel) \ {0} \subseteq Levels
    /\ \A l \in Levels : Required[l] \in Nat \ {0}
    /\ Nothing \in Sessions /\ \A l \in Levels : Nothing[l] = 0
BY RearmAssumption DEF Levels, Nothing, Sessions

\* There is an identity that neither of two others is.
LEMMA UnusedEpisode ==
    ASSUME NEW x, NEW y
    PROVE  \E e \in Episodes : e \notin {x, y}
<1> SUFFICES ASSUME Episodes \subseteq {x, y} PROVE FALSE
    OBVIOUS
<1>1. IsFiniteSet({x, y}) /\ Cardinality({x, y}) <= 2
    <2>1. IsFiniteSet({y}) /\ Cardinality({y}) = 1
        BY FS_Singleton
    <2>2. {x, y} = {y} \cup {x}
        OBVIOUS
    <2>3. /\ IsFiniteSet({y} \cup {x})
          /\ Cardinality({y} \cup {x}) =
                IF x \in {y} THEN Cardinality({y}) ELSE Cardinality({y}) + 1
        BY <2>1, FS_AddElement
    <2>4. QED  BY <2>1, <2>2, <2>3
<1>2. IsFiniteSet(Episodes) /\ Cardinality(Episodes) <= Cardinality({x, y})
    BY <1>1, FS_Subset
<1>3. Cardinality(Episodes) \in Nat /\ Cardinality({x, y}) \in Nat
    BY <1>1, <1>2, FS_CardinalityType
<1>4. QED  BY <1>1, <1>2, <1>3, RearmAssumption

LEMMA NewRepairShape ==
    ASSUME NEW a \in Working, NEW reference \in References
    PROVE  /\ NewRepair(a, reference) \in Repair
           /\ NewRepair(a, reference).episode \in Episodes
           /\ NewRepair(a, reference).level = a.level
           /\ NewRepair(a, reference).reference = reference
           /\ NewRepair(a, reference).count = 0
           /\ NewRepair(a, reference).counted = FALSE
           /\ NewRepair(a, reference).status = "BLOCKED"
<1> DEFINE unused == CHOOSE e \in Episodes : e \notin {a.repair.episode, a.rearm.episode}
<1>1. unused \in Episodes
    BY UnusedEpisode
<1> HIDE DEF unused
<1>2. NewRepair(a, reference) =
          [NoRepair EXCEPT !.episode = unused, !.level = a.level, !.reference = reference]
    BY DEF NewRepair, unused
<1>3. NoRepair \in Repair
    BY Constants DEF NoRepair, Repair, RepairStatus
<1>4. a.level \in 0 .. MaxLevel
    BY DEF Working
<1>5. NewRepair(a, reference) \in Repair
    BY <1>1, <1>2, <1>3, <1>4 DEF Repair
<1>6. QED  BY <1>1, <1>2, <1>5 DEF NoRepair

LEMMA ResetShape ==
    ASSUME NEW repair \in Repair
    PROVE  /\ Reset(repair) \in Repair /\ Reset(repair).count = 0
           /\ Reset(repair).counted = FALSE /\ Reset(repair).status = "RESET"
           /\ Reset(repair).level = repair.level
BY DEF Reset, Repair, RepairStatus

\* A healthy session adds at most one, and once.
LEMMA AdvanceShape ==
    ASSUME NEW repair \in Repair, repair.level \in Levels, NEW healthy \in BOOLEAN
    PROVE  /\ Advance(repair, healthy) \in Repair
           /\ Advance(repair, healthy).level = repair.level
           /\ Advance(repair, healthy).reference = repair.reference
           /\ Advance(repair, healthy).episode = repair.episode
           /\ Advance(repair, healthy).status \in {"BLOCKED", "ACCUMULATING", "READY"}
           /\ Advance(repair, healthy).counted = (healthy \/ repair.counted)
           /\ Advance(repair, healthy).count =
                 IF ~healthy \/ repair.counted \/ repair.count = Required[repair.level]
                 THEN repair.count ELSE repair.count + 1
           /\ Advance(repair, healthy).status = "READY" =>
                 healthy /\ Advance(repair, healthy).count = Required[repair.level]
<1>1. CASE ~healthy
    <2>1. Advance(repair, healthy) = [repair EXCEPT !.status = "BLOCKED"]
        BY <1>1 DEF Advance
    <2>2. repair.counted \in BOOLEAN
        BY DEF Repair
    <2>3. QED  BY <1>1, <2>1, <2>2 DEF Repair, RepairStatus
<1>2. CASE healthy
    <2> DEFINE count == IF repair.counted \/ repair.count = Required[repair.level]
                        THEN repair.count ELSE repair.count + 1
               status == IF count = Required[repair.level] THEN "READY" ELSE "ACCUMULATING"
    <2>1. Advance(repair, healthy) =
              [repair EXCEPT !.count = count, !.counted = TRUE, !.status = status]
        BY <1>2 DEF Advance
    <2>2. count \in Nat /\ repair.counted \in BOOLEAN
        BY DEF Repair
    <2>3. status \in {"ACCUMULATING", "READY"} /\ (status = "READY" => count = Required[repair.level])
        OBVIOUS
    <2>4. count = IF ~healthy \/ repair.counted \/ repair.count = Required[repair.level]
                  THEN repair.count ELSE repair.count + 1
        BY <1>2
    <2> HIDE DEF count, status
    <2>5. QED  BY <1>2, <2>1, <2>2, <2>3, <2>4 DEF Repair, RepairStatus
<1>3. QED  BY <1>1, <1>2

--------------------------------------------------------------------------------
(* Observing the repair *)

\* What a decision keeps true of the account it works on: base are the sessions that were
\* served before today and are not spent, today says that this one will count.
Counting(a, base, today) ==
    /\ a.repair.counted => today /\ a.repair.level = a.level
    /\ a.repair.level \in Levels /\ a.rearm.consumer # "order" =>
          a.repair.count <= base[a.repair.level] + (IF a.repair.counted THEN 1 ELSE 0)

\* READY is what a flat account of the level of today has earned.
Earned(a, base) ==
    a.repair.status = "READY" =>
        /\ a.level \in Levels /\ a.repair.level = a.level
        /\ a.rearm.consumer # "order"
        /\ Required[a.level] <= base[a.level] + 1

Stage(a, base, today) ==
    /\ RearmShape(a) /\ GrantShape(a.grant)
    /\ a.repair.counted => today /\ a.repair.level = a.level
    /\ a.rearm.consumer = "order" => a.repair.status = "CONSUMED"
    /\ AtWork(a) /\ a.level \in Levels => base = Nothing
    /\ Attempting(a.grant) => OfGrant(a) \/ base = Nothing
    /\ a.grant.buy = "frozen" \/ a.order = "frozen" => base = Nothing /\ ~today

\* Nothing but the repair, and an attempt that is over, changes.
LEMMA ReleasedShape ==
    ASSUME NEW a \in Working, NEW base, NEW today, Stage(a, base, today)
    PROVE  /\ AttemptReleased(a) \in Working /\ Stage(AttemptReleased(a), base, today)
           /\ AttemptReleased(a).grant = a.grant /\ AttemptReleased(a).order = a.order
           /\ AttemptReleased(a).shares = a.shares /\ AttemptReleased(a).level = a.level
           /\ AttemptReleased(a).rearm.consumer = "order" => OrdinaryPending(AttemptReleased(a))
           /\ \/ AttemptReleased(a) = a
              \/ /\ a.rearm.consumer = "order" /\ ~OrdinaryPending(a)
                 /\ AttemptReleased(a).rearm = NoRearm
                 /\ AttemptReleased(a).repair = Reset(a.repair)
<1> DEFINE b == AttemptReleased(a)
<1>1. CASE a.rearm.consumer = "order" /\ ~OrdinaryPending(a)
    <2>1. b = [a EXCEPT !.repair = Reset(a.repair), !.rearm = NoRearm]
        BY <1>1 DEF AttemptReleased
    <2>2. Reset(a.repair) \in Repair /\ NoRearm \in Rearm
        BY ResetShape DEF Working, NoRearm, Rearm
    <2>3. /\ b \in Working /\ b.repair = Reset(a.repair) /\ b.rearm = NoRearm
          /\ b.grant = a.grant /\ b.order = a.order /\ b.shares = a.shares /\ b.level = a.level
        BY <2>1, <2>2 DEF Working
    <2> HIDE DEF b
    <2>4. b.repair.counted = FALSE /\ b.rearm.consumer = "none" /\ b.rearm.status = "OBSERVING"
        <3>1. a.repair \in Repair
            BY DEF Working
        <3>2. Reset(a.repair).counted = FALSE
            BY <3>1, ResetShape
        <3>3. NoRearm.consumer = "none" /\ NoRearm.status = "OBSERVING"
            BY DEF NoRearm
        <3>4. QED  BY <2>3, <3>2, <3>3
    <2>5. AtWork(b) => AtWork(a)
        BY <2>3 DEF AtWork, Live
    <2>6. ~OfGrant(a)
        BY <1>1 DEF OfGrant
    <2>7. Stage(b, base, today)
        BY <2>3, <2>4, <2>5, <2>6 DEF Stage, RearmShape
    <2>8. QED  BY <1>1, <2>3, <2>4, <2>7 DEF b
<1>2. CASE ~(a.rearm.consumer = "order" /\ ~OrdinaryPending(a))
    BY <1>2 DEF AttemptReleased
<1>3. QED  BY <1>1, <1>2

\* A live account that is not held by its own attempt has nothing served left.
LEMMA AtWorkOrLost ==
    ASSUME NEW a \in Working, NEW base, NEW today, Stage(a, base, today), a.level \in Levels,
           Live(a), ~OrdinaryPending(a), ~Unfilled(a)
    PROVE  base = Nothing
<1>1. CASE AtWork(a)
    BY <1>1 DEF Stage
<1>2. CASE ~AtWork(a)
    <2>1. a.grant.authorized /\ ~a.grant.entered /\ a.shares = "none" /\ a.order = "none"
        BY <1>2 DEF AtWork
    <2>2. ~a.grant.settled
        BY <2>1 DEF Live, Stage, GrantShape, BuyStates, Working, Grant
    <2>3. ~OfGrant(a)
        BY <2>1 DEF Unfilled
    <2>4. QED  BY <2>1, <2>2, <2>3 DEF Stage, Attempting
<1>3. QED  BY <1>1, <1>2

\* What an observation does to the repair of an account whose attempt is not over.
Observed(a, healthy, reference) ==
    IF a.level = 0 THEN Cleared(a)
    ELSE IF Live(a) THEN UnderAuthority(a, reference)
    ELSE Advance(Continued(a, reference), healthy)

ObservedAccount(a, healthy, reference) ==
    [a EXCEPT !.repair = Observed(a, healthy, reference)]

\* An observation counts today at most once, and resets only what nothing served is lost with.
CountedIn(o, a, base, today) ==
    /\ o \in Working /\ Stage(o, base, today) /\ Counting(o, base, today) /\ Earned(o, base)
    /\ o.repair.status = "RESET" /\ a.level \in Levels => Live(a) /\ base = Nothing
    /\ o.grant = a.grant /\ o.order = a.order /\ o.shares = a.shares /\ o.level = a.level

LEMMA ObservedCounts ==
    ASSUME NEW a \in Working, NEW base \in Sessions, NEW today \in BOOLEAN,
           NEW healthy \in BOOLEAN, NEW reference \in References,
           Stage(a, base, today), ~Live(a) /\ healthy => today,
           a.rearm.consumer = "order" => OrdinaryPending(a),
           a.level = 0 \/ AtWork(a) \/ Counting(a, base, today)
    PROVE  /\ CountedIn(ObservedAccount(a, healthy, reference), a, base, today)
           /\ ObservedAccount(a, healthy, reference).rearm = a.rearm
<1> SUFFICES ASSUME NEW repair, repair = Observed(a, healthy, reference),
                    NEW o, o = [a EXCEPT !.repair = repair]
             PROVE  CountedIn(o, a, base, today) /\ o.rearm = a.rearm
    BY DEF ObservedAccount
<1>1. /\ a.repair \in Repair /\ a.level \in 0 .. MaxLevel /\ a.repair.counted \in BOOLEAN
      /\ a.repair.count \in Nat
    BY DEF Working, Repair
<1>2. ASSUME repair \in Repair
      PROVE  /\ o \in Working /\ o.repair = repair
             /\ o.grant = a.grant /\ o.order = a.order /\ o.shares = a.shares
             /\ o.level = a.level /\ o.rearm = a.rearm
             /\ (AtWork(o) => AtWork(a)) /\ (OfGrant(a) => OfGrant(o))
    <2>1. /\ o \in Working /\ o.repair = repair
          /\ o.grant = a.grant /\ o.order = a.order /\ o.shares = a.shares
          /\ o.level = a.level /\ o.rearm = a.rearm
        BY <1>2 DEF Working
    <2>2. QED  BY <2>1 DEF AtWork, Live, OfGrant
\* The rest of Stage depends on the repair only where it is counted or consumed.
<1>3. ASSUME repair \in Repair, repair.counted => today /\ repair.level = a.level,
             a.rearm.consumer = "order" => repair.status = "CONSUMED"
      PROVE  Stage(o, base, today)
    BY <1>2, <1>3 DEF Stage, RearmShape
<1>4. CASE OrdinaryPending(a) /\ (a.level = 0 \/ Live(a))
    <2>1. a.rearm.consumer = "order" /\ a.repair.status = "CONSUMED"
        BY <1>4 DEF OrdinaryPending, Stage
    <2>2. repair = a.repair \/ repair = [a.repair EXCEPT !.status = "CONSUMED"]
        BY <1>4 DEF Observed, Cleared, UnderAuthority
    <2>3. /\ repair \in Repair /\ repair.status = "CONSUMED"
          /\ repair.counted = a.repair.counted /\ repair.level = a.repair.level
        BY <1>1, <2>1, <2>2 DEF Repair, RepairStatus
    <2>4. Stage(o, base, today)
        BY <1>3, <2>3 DEF Stage
    <2>5. o.rearm.consumer = "order" /\ o.repair = repair /\ o.level = a.level
        BY <1>2, <2>1, <2>3
    <2>6. Counting(o, base, today) /\ Earned(o, base)
        BY <2>3, <2>4, <2>5 DEF Counting, Earned, Stage
    <2>7. QED  BY <1>2, <2>3, <2>4, <2>5, <2>6 DEF CountedIn
<1>5. CASE a.level = 0 /\ ~OrdinaryPending(a)
    <2>1. repair = NoRepair \/ repair = [a.repair EXCEPT !.count = 0, !.status = "RESET"]
        BY <1>5 DEF Observed, Cleared
    <2>2. /\ repair \in Repair /\ repair.count = 0 /\ repair.status \in {"BLOCKED", "RESET"}
          /\ repair.counted => a.repair.counted /\ repair.level = a.repair.level
        <3>1. CASE repair = NoRepair
            <4>1. NoRepair \in Repair /\ NoRepair.count = 0 /\ NoRepair.status = "BLOCKED"
                BY Constants DEF NoRepair, Repair, RepairStatus
            <4>2. NoRepair.counted = FALSE
                BY DEF NoRepair
            <4>3. QED  BY <3>1, <4>1, <4>2
        <3>2. CASE repair = [a.repair EXCEPT !.count = 0, !.status = "RESET"]
            <4> DEFINE r == [a.repair EXCEPT !.count = 0, !.status = "RESET"]
            <4>0. r \in Repair /\ r.count = 0 /\ r.status = "RESET"
                BY <1>1 DEF Repair, RepairStatus
            <4>1. repair \in Repair /\ repair.count = 0 /\ repair.status = "RESET"
                BY <3>2, <4>0
            <4>2. repair.level = a.repair.level
                BY <1>1, <3>2 DEF Repair
            <4>3. repair.counted = a.repair.counted
                BY <1>1, <3>2 DEF Repair
            <4>4. QED  BY <4>1, <4>2, <4>3
        <3>3. QED  BY <2>1, <3>1, <3>2
    <2>3. a.rearm.consumer # "order" /\ a.level \notin Levels
        BY <1>5, Constants
    <2>4. Stage(o, base, today)
        BY <1>3, <2>2, <2>3 DEF Stage
    <2>5. o.repair = repair
        BY <1>2, <2>2
    <2>6. Counting(o, base, today) /\ Earned(o, base)
        BY <2>2, <2>4, <2>5 DEF Counting, Earned, Stage, Sessions
    <2>7. QED  BY <1>2, <2>2, <2>3, <2>4, <2>6 DEF CountedIn
<1>6. CASE a.level # 0 /\ Live(a) /\ ~OrdinaryPending(a) /\ Unfilled(a)
    <2>1. repair = [a.repair EXCEPT !.status = "CONSUMED"]
        BY <1>6 DEF Observed, UnderAuthority
    <2>2. /\ repair \in Repair /\ repair.status = "CONSUMED" /\ repair.count = a.repair.count
          /\ repair.counted = a.repair.counted /\ repair.level = a.repair.level
        BY <1>1, <2>1 DEF Repair, RepairStatus
    <2>3. Stage(o, base, today)
        BY <1>3, <2>2 DEF Stage
    <2>4. o.repair = repair /\ o.level = a.level /\ o.rearm = a.rearm
        BY <1>2, <2>2
    <2>5. Counting(a, base, today)
        BY <1>6 DEF AtWork, Unfilled, OfGrant
    <2>6. Counting(o, base, today) /\ Earned(o, base)
        BY <2>2, <2>4, <2>5 DEF Counting, Earned
    <2>7. QED  BY <1>2, <2>2, <2>3, <2>4, <2>6 DEF CountedIn
<1>7. CASE a.level # 0 /\ Live(a) /\ ~OrdinaryPending(a) /\ ~Unfilled(a)
    <2>1. repair = Reset(NewRepair(a, reference)) \/ repair = Reset(a.repair)
        BY <1>7 DEF Observed, UnderAuthority
    <2>2. /\ repair \in Repair /\ repair.count = 0 /\ repair.counted = FALSE
          /\ repair.status = "RESET"
        <3>1. CASE repair = Reset(a.repair)
            <4>1. /\ Reset(a.repair) \in Repair /\ Reset(a.repair).count = 0
                  /\ Reset(a.repair).counted = FALSE /\ Reset(a.repair).status = "RESET"
                BY <1>1, ResetShape
            <4>2. QED  BY <3>1, <4>1
        <3>2. CASE repair = Reset(NewRepair(a, reference))
            <4>1. NewRepair(a, reference) \in Repair
                BY NewRepairShape
            <4>2. QED  BY <3>2, <4>1, ResetShape
        <3>3. QED  BY <2>1, <3>1, <3>2
    <2>3. a.level \in Levels /\ a.rearm.consumer # "order"
        BY <1>1, <1>7, Constants
    <2>4. Stage(o, base, today) /\ base = Nothing
        BY <1>3, <1>7, <2>2, <2>3, AtWorkOrLost
    <2>5. o.repair = repair
        BY <1>2, <2>2
    <2>6. Counting(o, base, today) /\ Earned(o, base)
        BY <2>2, <2>5 DEF Counting, Earned, Sessions
    <2>7. QED  BY <1>2, <1>7, <2>2, <2>4, <2>6 DEF CountedIn
<1>8. CASE a.level # 0 /\ ~Live(a)
    <2> DEFINE c == Continued(a, reference)
    <2>1. a.level \in Levels /\ ~OrdinaryPending(a) /\ a.rearm.consumer # "order"
        BY <1>1, <1>8, Constants DEF Live, OrdinaryPending
    <2>2. /\ c \in Repair /\ c.level = a.level
          /\ \/ c.count = 0 /\ c.counted = FALSE
             \/ c = a.repair /\ c.status # "RESET"
        <3>1. CASE StartsAnew(a, reference)
            BY <3>1, NewRepairShape DEF Continued
        <3>2. CASE ~StartsAnew(a, reference)
            BY <1>1, <3>2 DEF Continued, StartsAnew
        <3>3. QED  BY <3>1, <3>2
    <2>3. repair = Advance(c, healthy)
        BY <1>8 DEF Observed
    <2>4. c.count \in Nat /\ c.counted \in BOOLEAN
        BY <2>2 DEF Repair
    <2>5. /\ c.count <= base[a.level] + (IF c.counted THEN 1 ELSE 0)
          /\ c.counted => today
        <3>1. CASE c.count = 0 /\ c.counted = FALSE
            BY <2>1, <3>1 DEF Sessions
        <3>2. CASE c = a.repair /\ c.status # "RESET"
            <4>1. Counting(a, base, today)
                BY <1>8, <2>1, Constants DEF AtWork
            <4>2. QED  BY <2>1, <2>2, <3>2, <4>1 DEF Counting
        <3>3. QED  BY <2>2, <3>1, <3>2
    <2> HIDE DEF c
    <2>6. /\ repair \in Repair /\ repair.level = a.level
          /\ repair.status \in {"BLOCKED", "ACCUMULATING", "READY"}
          /\ repair.counted = (healthy \/ c.counted)
          /\ repair.count = IF ~healthy \/ c.counted \/ c.count = Required[c.level]
                            THEN c.count ELSE c.count + 1
          /\ repair.status = "READY" => healthy /\ repair.count = Required[a.level]
        BY <2>1, <2>2, <2>3, AdvanceShape
    <2>7. base[a.level] \in Nat
        BY <2>1 DEF Sessions
    <2>8. /\ repair.counted => today
          /\ repair.count <= base[a.level] + (IF repair.counted THEN 1 ELSE 0)
          /\ repair.status = "READY" => Required[a.level] <= base[a.level] + 1
        BY <1>8, <2>4, <2>5, <2>6, <2>7
    <2>9. Stage(o, base, today)
        BY <1>3, <2>1, <2>6, <2>8
    <2>10. o.repair = repair /\ o.level = a.level /\ o.rearm = a.rearm
        BY <1>2, <2>6
    <2>11. Counting(o, base, today) /\ Earned(o, base)
        BY <2>1, <2>6, <2>8, <2>10 DEF Counting, Earned
    <2>12. QED  BY <1>2, <2>6, <2>9, <2>10, <2>11 DEF CountedIn
<1>9. QED  BY <1>4, <1>5, <1>6, <1>7, <1>8


\* The same for the observation with the release of an attempt that is over before it: the
\* second observation of a session finds what the first one left.
LEMMA ObserveStage ==
    ASSUME NEW a \in Working, NEW base \in Sessions, NEW today \in BOOLEAN,
           NEW healthy \in BOOLEAN, NEW reference \in References,
           Stage(a, base, today), ~Live(a) /\ healthy => today,
           a.level = 0 \/ AtWork(a) \/ Counting(a, base, today)
    PROVE  /\ CountedIn(Observe(a, healthy, reference), a, base, today)
           /\ \/ Observe(a, healthy, reference).rearm = a.rearm
              \/ /\ a.rearm.consumer = "order"
                 /\ Observe(a, healthy, reference).rearm = NoRearm
           /\ Observe(a, healthy, reference).rearm.consumer = "order" =>
                 OrdinaryPending(Observe(a, healthy, reference))
<1> DEFINE b == AttemptReleased(a)
           o == ObservedAccount(b, healthy, reference)
<1>1. Observe(a, healthy, reference) = o
    BY DEF Observe, Observed, ObservedAccount
<1>2. /\ b \in Working /\ Stage(b, base, today)
      /\ b.grant = a.grant /\ b.order = a.order /\ b.shares = a.shares /\ b.level = a.level
      /\ b.rearm.consumer = "order" => OrdinaryPending(b)
      /\ \/ b = a
         \/ /\ a.rearm.consumer = "order" /\ b.rearm = NoRearm /\ b.repair = Reset(a.repair)
    BY ReleasedShape
<1> HIDE DEF b
<1>3. (Live(b) <=> Live(a)) /\ (AtWork(b) <=> AtWork(a))
    BY <1>2 DEF Live, AtWork
<1>4. b.level = 0 \/ AtWork(b) \/ Counting(b, base, today)
    <2>1. CASE b = a
        BY <1>2, <2>1
    <2>2. CASE b.repair = Reset(a.repair)
        <3>1. a.repair \in Repair
            BY DEF Working
        <3>2. Reset(a.repair).counted = FALSE /\ Reset(a.repair).count = 0
            BY <3>1, ResetShape
        <3>3. b.repair.counted = FALSE /\ b.repair.count = 0
            BY <2>2, <3>2
        <3>4. b.repair.level \in Levels => base[b.repair.level] \in Nat
            BY DEF Sessions
        <3>5. Counting(b, base, today)
            BY <3>3, <3>4 DEF Counting
        <3>6. QED  BY <3>5
    <2>3. QED  BY <1>2, <2>1, <2>2
<1>5. ~Live(b) /\ healthy => today
    BY <1>3
<1>6. CountedIn(o, b, base, today) /\ o.rearm = b.rearm
    BY <1>2, <1>4, <1>5, ObservedCounts
<1> HIDE DEF o
<1>7. CountedIn(o, a, base, today) /\ (o.rearm.consumer = "order" => OrdinaryPending(o))
    BY <1>2, <1>3, <1>6 DEF CountedIn, OrdinaryPending
<1>8. QED  BY <1>1, <1>2, <1>6, <1>7

--------------------------------------------------------------------------------
(* The session that a decision is about *)

\* What was served before today and is not spent, and whether today counts.
Base(start) == IF start.level = 0 \/ AtWork(start) THEN Nothing ELSE served
Seen(start, candidate) == IF candidate = "absent" THEN start ELSE SettleExpired(start)
Today(start, candidate, healthy) == healthy /\ ~Live(Seen(start, candidate))

\* Settling an expired grant changes nothing else, and leaves no more live than there was.
LEMMA SettledShape ==
    ASSUME NEW a \in Working, GrantShape(a.grant)
    PROVE  /\ SettleExpired(a) \in Working /\ GrantShape(SettleExpired(a).grant)
           /\ SettleExpired(a).level = a.level /\ SettleExpired(a).repair = a.repair
           /\ SettleExpired(a).rearm = a.rearm /\ SettleExpired(a).order = a.order
           /\ SettleExpired(a).shares = a.shares
           /\ SettleExpired(a).grant.status = a.grant.status
           /\ SettleExpired(a).grant.authorized = a.grant.authorized
           /\ SettleExpired(a).grant.entered = a.grant.entered
           /\ SettleExpired(a).grant.buy = a.grant.buy
           /\ SettleExpired(a).grant.shares = a.grant.shares
           /\ \/ SettleExpired(a) = a
              \/ SettleExpired(a).grant = [a.grant EXCEPT !.settled = TRUE]
           /\ a.grant.settled => SettleExpired(a).grant.settled
           /\ Live(SettleExpired(a)) => Live(a)
           /\ SettleExpired(a).grant.status = "EXPIRED" /\ ~SettleExpired(a).grant.settled =>
                 SettleExpired(a).grant.shares # "none" \/ SettleExpired(a).grant.buy # "none"
<1>1. CASE a.grant.status = "EXPIRED" /\ a.grant.shares = "none" /\ a.grant.buy = "none"
    <2> DEFINE g == [a.grant EXCEPT !.settled = TRUE]
               b == [a EXCEPT !.grant = g]
    <2>1. SettleExpired(a) = b
        BY <1>1 DEF SettleExpired
    <2>2. a.grant \in Grant
        BY DEF Working
    <2>3. /\ g \in Grant /\ g.settled /\ g.status = a.grant.status
          /\ g.buy = a.grant.buy /\ g.shares = a.grant.shares
        BY <2>2 DEF Grant
    <2>4. (g.authorized = a.grant.authorized) /\ (g.entered = a.grant.entered)
        BY <2>2 DEF Grant
    <2>5. GrantShape(g)
        BY <1>1, <2>3, <2>4 DEF GrantShape
    <2> HIDE DEF g
    <2>6. /\ b \in Working /\ b.grant = g /\ b.level = a.level /\ b.repair = a.repair
          /\ b.rearm = a.rearm /\ b.order = a.order /\ b.shares = a.shares
        BY <2>3 DEF Working
    <2>7. Live(b) => Live(a)
        BY <2>3, <2>6 DEF Live
    <2> HIDE DEF b
    <2>8. QED  BY <2>1, <2>3, <2>4, <2>5, <2>6, <2>7 DEF g
<1>2. CASE ~(a.grant.status = "EXPIRED" /\ a.grant.shares = "none" /\ a.grant.buy = "none")
    BY <1>2 DEF SettleExpired
<1>3. QED  BY <1>1, <1>2

\* The account as a decision finds it.
Found(start, base, today) ==
    /\ start \in Working /\ Stage(start, base, today) /\ base \in Sessions
    /\ start.level = 0 \/ AtWork(start) \/ Counting(start, base, today)
    /\ start.grant.status = "EXPIRED" /\ ~start.grant.entered => start.grant.buy # "pending"

LEMMA StartStage ==
    ASSUME IInv, NEW level \in 0 .. MaxLevel, NEW candidate \in Candidates,
           NEW healthy \in BOOLEAN
    PROVE  LET start == NewSession(level)
               base == Base(start)
           IN /\ Found(start, base, Today(start, candidate, healthy))
              /\ \A l \in Levels : base[l] <= served[l] /\ base[l] <= Required[l]
              /\ ~Live(start) /\ healthy => Today(start, candidate, healthy)
              /\ start.level = level /\ start.rearm = account.rearm
<1> DEFINE start == NewSession(level)
           base == Base(start)
           today == Today(start, candidate, healthy)
<1>1. account \in Account /\ served \in Sessions
    BY DEF IInv, TypeOK, Sessions
<1>2. account \in Working /\ account.repair.counted = FALSE
    BY <1>1, SavedWorking
<1>3. /\ start \in Working /\ start.level = level /\ start.repair = account.repair
      /\ start.rearm = account.rearm /\ start.grant = account.grant
      /\ start.order = account.order /\ start.shares = account.shares
    BY <1>2 DEF NewSession, Working
<1> HIDE DEF start
<1>4. GrantShape(start.grant) /\ RearmShape(start)
    BY <1>3 DEF IInv, RearmShape
<1>5. Live(Seen(start, candidate)) => Live(start)
    BY <1>3, <1>4, SettledShape DEF Seen
<1>6. ~Live(start) /\ healthy => today
    BY <1>5 DEF Today
<1>7. base \in Sessions /\ \A l \in Levels : base[l] <= served[l] /\ base[l] <= Required[l]
    <2>1. \A l \in Levels : served[l] \in Nat /\ served[l] <= Required[l] /\ Required[l] \in Nat
        BY <1>1, Constants DEF Sessions, IInv
    <2>2. base = Nothing \/ base = served
        BY DEF Base
    <2>3. QED  BY <1>1, <2>1, <2>2, Constants
<1>8. today => ~(start.grant.buy = "frozen" \/ start.order = "frozen")
    <2>1. ASSUME start.grant.buy = "frozen" \/ start.order = "frozen"
          PROVE  Live(Seen(start, candidate))
        BY <1>3, <1>4, <2>1, SettledShape DEF Seen, Live
    <2>2. QED  BY <2>1 DEF Today
<1>9. Stage(start, base, today)
    <2>1. AtWork(start) => base = Nothing
        BY DEF Base
    <2>2. Attempting(start.grant) => OfGrant(start) \/ base = Nothing
        BY <1>3 DEF IInv, Owned, OfGrant, Base
    <2>3. start.grant.buy = "frozen" \/ start.order = "frozen" => base = Nothing
        BY <1>3 DEF IInv, Spent, Base
    <2>4. start.rearm.consumer = "order" => start.repair.status = "CONSUMED"
        BY <1>3 DEF IInv, Loads, RearmValid
    <2>5. ~start.repair.counted
        BY <1>2, <1>3
    <2> HIDE DEF base, today
    <2>6. QED  BY <1>4, <1>8, <2>1, <2>2, <2>3, <2>4, <2>5 DEF Stage
<1>10. ASSUME start.level # 0, ~AtWork(start)
       PROVE  Counting(start, base, today)
    <2>1. base = served
        BY <1>10 DEF Base
    <2>2. start.shares # "bought" /\ start.grant.shares # "bought"
        BY <1>4, <1>10 DEF AtWork, Live, GrantShape
    <2>3. start.repair.level \in Levels /\ start.rearm.consumer # "order" =>
              start.repair.count <= served[start.repair.level]
        BY <1>3, <2>2 DEF IInv, Backed
    <2>4. ~start.repair.counted
        BY <1>2, <1>3
    <2>5. start.repair.count \in Nat /\ \A l \in Levels : served[l] \in Nat
        BY <1>1, <1>3 DEF Sessions, Working, Repair
    <2> HIDE DEF base, today
    <2>6. QED  BY <2>1, <2>3, <2>4, <2>5 DEF Counting
<1>11. start.grant.status = "EXPIRED" /\ ~start.grant.entered => start.grant.buy # "pending"
    BY <1>3 DEF IInv, NoLateBuy
<1> HIDE DEF base, today
<1>12. Found(start, base, today)
    BY <1>3, <1>7, <1>9, <1>10, <1>11 DEF Found
<1>13. QED  BY <1>3, <1>6, <1>7, <1>12 DEF start, base, today

--------------------------------------------------------------------------------
(* The grant is revalidated *)

\* The account once its grant is revalidated.
Reviewed(r, start, base, today) ==
    /\ r \in Working /\ Stage(r, base, today) /\ Counting(r, base, today) /\ Earned(r, base)
    /\ r.repair.status = "RESET" /\ start.level \in Levels => Live(start) /\ base = Nothing
    /\ r.order = start.order /\ r.shares = start.shares /\ r.level = start.level
    /\ r.grant.buy = start.grant.buy /\ r.grant.shares = start.grant.shares
    /\ \/ r.grant = start.grant
       \/ start.grant.status = "open" /\ r.grant.status = "EXPIRED"
    /\ r.rearm = start.rearm \/ r.rearm = NoRearm
    /\ r.rearm.consumer = "order" => OrdinaryPending(r)

\* The expiry of an open grant changes its status, and settles it when nothing is owed.
LEMMA ExpiredShape ==
    ASSUME NEW a \in Working, GrantShape(a.grant), a.grant.status = "open"
    PROVE  /\ Expired(a) \in Working /\ GrantShape(Expired(a).grant)
           /\ Expired(a).level = a.level /\ Expired(a).repair = a.repair
           /\ Expired(a).rearm = a.rearm /\ Expired(a).order = a.order
           /\ Expired(a).shares = a.shares
           /\ Expired(a).grant.status = "EXPIRED"
           /\ Expired(a).grant.authorized = a.grant.authorized
           /\ Expired(a).grant.entered = a.grant.entered
           /\ Expired(a).grant.buy = a.grant.buy
           /\ Expired(a).grant.shares = a.grant.shares
<1> DEFINE settled == a.grant.shares = "none" /\ a.grant.buy = "none"
           g == [a.grant EXCEPT !.status = "EXPIRED", !.settled = settled]
           b == [a EXCEPT !.grant = g]
<1>1. Expired(a) = b
    BY DEF Expired
<1>2. a.grant \in Grant
    BY DEF Working
<1>3. settled \in BOOLEAN
    OBVIOUS
<1>4. settled => a.grant.shares = "none" /\ a.grant.buy = "none"
    OBVIOUS
<1> HIDE DEF settled
<1>5. /\ g \in Grant /\ g.status = "EXPIRED"
      /\ g.buy = a.grant.buy /\ g.shares = a.grant.shares
    BY <1>2, <1>3 DEF Grant
<1>6. (g.authorized = a.grant.authorized) /\ (g.entered = a.grant.entered)
    BY <1>2 DEF Grant
<1>7. g.settled = settled
    BY <1>2 DEF Grant
<1>8. GrantShape(g)
    BY <1>4, <1>5, <1>6, <1>7 DEF GrantShape
<1> HIDE DEF g
<1>9. /\ b \in Working /\ b.grant = g /\ b.level = a.level /\ b.repair = a.repair
      /\ b.rearm = a.rearm /\ b.order = a.order /\ b.shares = a.shares
    BY <1>5 DEF Working
<1> HIDE DEF b
<1>10. QED  BY <1>1, <1>5, <1>6, <1>8, <1>9

\* What the account says of its repair and its attempt does not depend on the rest of the
\* grant, and a grant that ends has no more at work.
LEMMA GrantMoves ==
    ASSUME NEW a \in Working, NEW b \in Working, NEW base, NEW today, Stage(a, base, today),
           GrantShape(b.grant), b.level = a.level, b.repair = a.repair, b.rearm = a.rearm,
           b.order = a.order, b.shares = a.shares,
           b.grant.authorized = a.grant.authorized, b.grant.entered = a.grant.entered,
           b.grant.buy = a.grant.buy, Live(b) => Live(a),
           a.grant.settled => b.grant.settled
    PROVE  /\ Stage(b, base, today)
           /\ Counting(a, base, today) => Counting(b, base, today)
           /\ Earned(a, base) => Earned(b, base)
<1>1. AtWork(b) => AtWork(a)
    BY DEF AtWork
<1>2. Attempting(b.grant) => Attempting(a.grant)
    BY DEF Attempting
<1>3. OfGrant(a) <=> OfGrant(b)
    BY DEF OfGrant
<1>4. RearmShape(b)
    BY DEF RearmShape, Stage
<1>5. Stage(b, base, today)
    BY <1>1, <1>2, <1>3, <1>4 DEF Stage
<1>6. Counting(a, base, today) => Counting(b, base, today)
    BY DEF Counting
<1>7. Earned(a, base) => Earned(b, base)
    BY DEF Earned
<1>8. QED  BY <1>5, <1>6, <1>7

LEMMA RevalidatedStage ==
    ASSUME NEW start, NEW base, NEW today, Found(start, base, today),
           NEW o, CountedIn(o, start, base, today),
           o.rearm = start.rearm \/ o.rearm = NoRearm,
           o.rearm.consumer = "order" => OrdinaryPending(o),
           NEW r \in Revalidated(o)
    PROVE  Reviewed(r, start, base, today)
<1>1. o \in Working /\ GrantShape(o.grant) /\ Stage(o, base, today)
    BY DEF CountedIn, Stage
<1>2. CASE r = o
    BY <1>2 DEF Reviewed, CountedIn
<1>3. CASE r # o
    <2>1. o.grant.status = "open" /\ r = Expired(o)
        BY <1>3 DEF Revalidated
    <2>2. /\ r \in Working /\ GrantShape(r.grant)
          /\ r.level = o.level /\ r.repair = o.repair /\ r.rearm = o.rearm
          /\ r.order = o.order /\ r.shares = o.shares /\ r.grant.status = "EXPIRED"
          /\ r.grant.buy = o.grant.buy /\ r.grant.shares = o.grant.shares
        BY <1>1, <2>1, ExpiredShape
    <2>3. /\ r.grant.authorized = o.grant.authorized /\ r.grant.entered = o.grant.entered
        BY <1>1, <2>1, ExpiredShape
    <2>4. Live(o) /\ ~o.grant.settled
        BY <1>1, <2>1 DEF Live, GrantShape
    <2>5. Stage(r, base, today) /\ Counting(r, base, today) /\ Earned(r, base)
        BY <1>1, <2>2, <2>3, <2>4, GrantMoves DEF CountedIn
    <2>6. r.rearm.consumer = "order" => OrdinaryPending(r)
        BY <2>2 DEF OrdinaryPending
    <2>7. QED  BY <2>1, <2>2, <2>5, <2>6 DEF Reviewed, CountedIn
<1>4. QED  BY <1>2, <1>3

\* The account as the discovery finds it.
Offered(a, base, today, candidate, healthy) ==
    /\ a \in Working /\ Stage(a, base, today) /\ Counting(a, base, today) /\ Earned(a, base)
    /\ a.repair.status = "RESET" /\ a.level \in Levels =>
          base = Nothing /\ (candidate = "absent" => ~today)
    /\ Live(a) => ~today
    /\ candidate # "absent" /\ ~Live(a) /\ healthy => today
    /\ Attempting(a.grant) /\ a.grant.status = "EXPIRED" => base = Nothing
    /\ a.rearm.consumer = "order" => OrdinaryPending(a)

LEMMA OfferedStage ==
    ASSUME NEW start, NEW base, NEW candidate \in Candidates, NEW healthy \in BOOLEAN,
           NEW today, today = Today(start, candidate, healthy),
           Found(start, base, today),
           NEW r, Reviewed(r, start, base, today),
           r.grant.status # start.grant.status => r.grant.shares # "none"
    PROVE  /\ Offered(SettleExpired(r), base, today, candidate, healthy)
           /\ SettleExpired(r).level = start.level /\ SettleExpired(r).rearm = r.rearm
<1> DEFINE a == SettleExpired(r)
<1>1. r \in Working /\ GrantShape(r.grant) /\ start \in Working /\ GrantShape(start.grant)
    BY DEF Reviewed, Found, Stage
<1>2. /\ a \in Working /\ GrantShape(a.grant)
      /\ a.level = r.level /\ a.repair = r.repair /\ a.rearm = r.rearm
      /\ a.order = r.order /\ a.shares = r.shares
      /\ a.grant.status = r.grant.status
      /\ a.grant.buy = r.grant.buy /\ a.grant.shares = r.grant.shares
    BY <1>1, SettledShape
<1>3. /\ a.grant.authorized = r.grant.authorized /\ a.grant.entered = r.grant.entered
    BY <1>1, SettledShape
<1>4. /\ r.grant.settled => a.grant.settled
      /\ Live(a) => Live(r)
      /\ a.grant.status = "EXPIRED" /\ ~a.grant.settled =>
            a.grant.shares # "none" \/ a.grant.buy # "none"
    BY <1>1, SettledShape
<1>5. r.grant = start.grant => a.grant = SettleExpired(start).grant
    BY <1>1 DEF SettleExpired, Working
<1> HIDE DEF a
<1>6. Stage(a, base, today) /\ Counting(a, base, today) /\ Earned(a, base)
    BY <1>1, <1>2, <1>3, <1>4, GrantMoves DEF Reviewed
<1> DEFINE settled == SettleExpired(start)
<1>7. /\ settled.order = start.order /\ settled.shares = start.shares
      /\ settled.grant.status = start.grant.status
      /\ Live(settled) => Live(start)
    BY <1>1, SettledShape
<1> HIDE DEF settled
\* An open grant is live, whatever was settled; without one nothing but that has changed.
<1>8. CASE r.grant = start.grant
    <2>1. Live(a) <=> Live(settled)
        BY <1>2, <1>5, <1>7, <1>8 DEF Live, Reviewed, settled
    <2>2. (Live(a) => ~today) /\ (candidate # "absent" /\ ~Live(a) /\ healthy => today)
        BY <1>7, <2>1 DEF Today, Seen, settled
    <2>3. a.repair.status = "RESET" /\ a.level \in Levels =>
              base = Nothing /\ (candidate = "absent" => ~today)
        BY <1>2 DEF Reviewed, Today, Seen
    <2>4. Attempting(a.grant) /\ a.grant.status = "EXPIRED" => base = Nothing
        <3> SUFFICES ASSUME Attempting(a.grant), a.grant.status = "EXPIRED"
                     PROVE  base = Nothing
            OBVIOUS
        <3>1. a.grant.shares = "none" /\ a.grant.buy # "none"
            BY <1>2, <1>4 DEF Attempting, GrantShape
        <3>2. start.grant.status = "EXPIRED" /\ ~start.grant.entered
            BY <1>2, <1>3, <1>8 DEF Attempting
        <3>3. a.grant.buy \in BuyStates
            BY <1>2 DEF Working, Grant
        <3>4. a.grant.buy = "frozen"
            BY <1>2, <1>8, <3>1, <3>2, <3>3 DEF Found, BuyStates
        <3>5. QED  BY <1>6, <3>4 DEF Stage
    <2>5. a.rearm.consumer = "order" => OrdinaryPending(a)
        BY <1>2 DEF OrdinaryPending, Reviewed
    <2>6. a.level = start.level
        BY <1>2 DEF Reviewed
    <2>7. QED  BY <1>2, <1>6, <2>2, <2>3, <2>4, <2>5, <2>6 DEF Offered, a
<1>9. CASE r.grant # start.grant
    <2>1. start.grant.status = "open" /\ r.grant.status = "EXPIRED"
        BY <1>9 DEF Reviewed
    <2>2. Live(settled) /\ Live(start)
        BY <1>7, <2>1 DEF Live
    <2>3. ~today
        BY <2>2 DEF Today, Seen, settled
    <2>4. r.grant.shares # "none"
        BY <2>1
    <2>5. Live(a) /\ a.grant.entered
        BY <1>2, <2>4 DEF Live, GrantShape
    <2>6. ~Attempting(a.grant)
        BY <2>5 DEF Attempting
    <2>7. a.repair.status = "RESET" /\ a.level \in Levels => base = Nothing
        BY <1>2 DEF Reviewed
    <2>8. a.rearm.consumer = "order" => OrdinaryPending(a)
        BY <1>2 DEF OrdinaryPending, Reviewed
    <2>9. a.level = start.level
        BY <1>2 DEF Reviewed
    <2>10. QED  BY <1>2, <1>6, <2>3, <2>5, <2>6, <2>7, <2>8, <2>9 DEF Offered, a
<1>10. QED  BY <1>8, <1>9

--------------------------------------------------------------------------------
(* The discovery *)

\* Capital that is put to work has served its wait.
Deployed(a, base) ==
    a.rearm.status = "CONSUMED" /\ a.rearm # account.rearm =>
        a.level \in Levels /\ Required[a.level] <= base[a.level] + 1

\* The account from the discovery on: what is reset or withdrawn today was spent already.
Done(a, base, today) ==
    /\ a \in Working /\ RearmShape(a) /\ GrantShape(a.grant)
    /\ Counting(a, base, today) /\ Earned(a, base)
    /\ a.repair.status = "RESET" /\ a.level \in Levels => base = Nothing /\ ~today
    /\ Attempting(a.grant) => OfGrant(a) \/ (base = Nothing /\ ~today)
    /\ a.grant.buy = "frozen" \/ a.order = "frozen" => base = Nothing /\ ~today
    /\ Deployed(a, base)

LEMMA AuthorisedShape ==
    ASSUME NEW a \in Working, NEW candidate
    PROVE  /\ Authorised(a, candidate) \in Working
           /\ Authorised(a, candidate).level = a.level
           /\ Authorised(a, candidate).repair = a.repair
           /\ Authorised(a, candidate).grant = a.grant
           /\ Authorised(a, candidate).order = a.order
           /\ Authorised(a, candidate).shares = a.shares
           /\ Authorised(a, candidate).rearm.consumer = "none"
           /\ \/ Authorised(a, candidate).rearm = NoRearm
              \/ /\ Authorised(a, candidate).rearm.status = "AUTHORIZED"
                 /\ Authorised(a, candidate).rearm.episode = a.repair.episode
                 /\ a.repair.status = "READY"
<1> DEFINE ready == candidate = "qualified" /\ a.repair.status = "READY"
           right == [status |-> "AUTHORIZED", episode |-> a.repair.episode, consumer |-> "none"]
<1>1. a.repair.episode \in Episodes \cup {NoEpisode}
    BY DEF Working, Repair
<1>2. right \in Rearm /\ NoRearm \in Rearm /\ NoRearm.consumer = "none"
    BY <1>1 DEF NoRearm, Rearm
<1>3. CASE ready
    <2>1. Authorised(a, candidate) = [a EXCEPT !.rearm = right]
        BY <1>3 DEF Authorised
    <2>2. QED  BY <1>2, <1>3, <2>1 DEF Working
<1>4. CASE ~ready
    <2>1. Authorised(a, candidate) = [a EXCEPT !.rearm = NoRearm]
        BY <1>4 DEF Authorised
    <2>2. QED  BY <1>2, <2>1 DEF Working
<1>5. QED  BY <1>3, <1>4

LEMMA GrantedShape ==
    ASSUME NEW a \in Working
    PROVE  /\ Granted(a) \in Working /\ GrantShape(Granted(a).grant)
           /\ Granted(a).level = a.level /\ Granted(a).order = a.order
           /\ Granted(a).shares = a.shares
           /\ Granted(a).grant.status = "open" /\ Granted(a).grant.buy = "none"
           /\ Granted(a).repair.count = a.repair.count
           /\ Granted(a).repair.counted = a.repair.counted
           /\ Granted(a).repair.level = a.repair.level
           /\ Granted(a).repair.episode = a.repair.episode
           /\ \/ /\ a.rearm.status = "AUTHORIZED" /\ OfGrant(Granted(a))
                 /\ Granted(a).rearm.status = "CONSUMED" /\ Granted(a).rearm.consumer = "grant"
                 /\ Granted(a).rearm.episode = a.rearm.episode
                 /\ Granted(a).repair.status = "CONSUMED"
              \/ /\ a.rearm.status # "AUTHORIZED" /\ ~Granted(a).grant.authorized
                 /\ Granted(a).rearm = a.rearm /\ Granted(a).repair = a.repair
<1> DEFINE g(x) == [NoGrant EXCEPT !.status = "open", !.settled = FALSE, !.authorized = x]
<1>1. ASSUME NEW x \in BOOLEAN
      PROVE  /\ g(x) \in Grant /\ g(x).status = "open" /\ g(x).buy = "none"
             /\ g(x).shares = "none" /\ ~g(x).settled /\ ~g(x).entered /\ GrantShape(g(x))
             /\ (x <=> g(x).authorized)
    BY DEF NoGrant, Grant, GrantShape, BuyStates, ShareStates
<1>2. a.repair \in Repair /\ a.rearm \in Rearm
    BY DEF Working
<1> HIDE DEF g
<1>3. CASE a.rearm.status = "AUTHORIZED"
    <2> DEFINE repair == [a.repair EXCEPT !.status = "CONSUMED"]
               rearm == [a.rearm EXCEPT !.status = "CONSUMED", !.consumer = "grant"]
               d == [a EXCEPT !.grant = g(TRUE), !.rearm = rearm, !.repair = repair]
    <2>1. Granted(a) = d
        <3>1. (a.rearm.status = "AUTHORIZED") = TRUE
            BY <1>3
        <3>2. Granted(a) =
                  [[a EXCEPT !.grant = g(TRUE)]
                       EXCEPT !.rearm.status = "CONSUMED", !.rearm.consumer = "grant",
                              !.repair.status = "CONSUMED"]
            BY <1>3, <3>1 DEF Granted, g
        <3>3. QED  BY <3>2 DEF Working
    <2>2. /\ repair \in Repair /\ repair.status = "CONSUMED" /\ repair.count = a.repair.count
          /\ repair.level = a.repair.level /\ repair.episode = a.repair.episode
        BY <1>2 DEF Repair, RepairStatus
    <2>3. repair.counted = a.repair.counted
        BY <1>2 DEF Repair
    <2>4. /\ rearm \in Rearm /\ rearm.status = "CONSUMED" /\ rearm.consumer = "grant"
          /\ rearm.episode = a.rearm.episode
        BY <1>2 DEF Rearm
    <2> HIDE DEF repair, rearm
    <2>5. /\ d \in Working /\ d.grant = g(TRUE) /\ d.rearm = rearm /\ d.repair = repair
          /\ d.level = a.level /\ d.order = a.order /\ d.shares = a.shares
        BY <1>1, <2>2, <2>4 DEF Working
    <2> HIDE DEF d
    <2>6. OfGrant(d)
        BY <1>1, <2>4, <2>5 DEF OfGrant
    <2>7. QED  BY <1>1, <1>3, <2>1, <2>2, <2>3, <2>4, <2>5, <2>6
<1>4. CASE a.rearm.status # "AUTHORIZED"
    <2> DEFINE d == [a EXCEPT !.grant = g(FALSE)]
    <2>1. Granted(a) = d
        <3>1. (a.rearm.status = "AUTHORIZED") = FALSE
            BY <1>4
        <3>2. QED  BY <1>4, <3>1 DEF Granted, g
    <2>2. /\ d \in Working /\ d.grant = g(FALSE) /\ d.rearm = a.rearm /\ d.repair = a.repair
          /\ d.level = a.level /\ d.order = a.order /\ d.shares = a.shares
        BY <1>1 DEF Working
    <2> HIDE DEF d
    <2>3. QED  BY <1>1, <1>4, <2>1, <2>2
<1>5. QED  BY <1>3, <1>4

LEMMA GrantedDone ==
    ASSUME NEW a, NEW base, NEW today, Done(a, base, today),
           a.rearm.status = "AUTHORIZED" => a.repair.status = "READY",
           a.rearm.status = "AUTHORIZED" \/ a.level = 0, a.rearm.consumer # "grant"
    PROVE  Done(Granted(a), base, today) /\ Granted(a).level = a.level
<1> DEFINE d == Granted(a)
<1>1. a \in Working /\ RearmShape(a)
    BY DEF Done
<1>2. /\ d \in Working /\ GrantShape(d.grant)
      /\ d.level = a.level /\ d.order = a.order /\ d.grant.buy = "none"
      /\ d.repair.count = a.repair.count /\ d.repair.level = a.repair.level
    BY <1>1, GrantedShape
<1>3. d.repair.counted = a.repair.counted
    BY <1>1, GrantedShape
<1>4. \/ /\ a.rearm.status = "AUTHORIZED" /\ OfGrant(d)
         /\ d.rearm.status = "CONSUMED" /\ d.rearm.consumer = "grant"
         /\ d.repair.status = "CONSUMED"
      \/ /\ a.rearm.status # "AUTHORIZED" /\ ~d.grant.authorized
         /\ d.rearm = a.rearm /\ d.repair = a.repair
    BY <1>1, GrantedShape
<1> HIDE DEF d
<1>5. d.grant.buy = "frozen" \/ d.order = "frozen" => base = Nothing /\ ~today
    BY <1>2 DEF Done
<1>6. CASE a.rearm.status = "AUTHORIZED"
    <2>1. /\ OfGrant(d) /\ d.rearm.status = "CONSUMED" /\ d.rearm.consumer = "grant"
          /\ d.repair.status = "CONSUMED"
        BY <1>4, <1>6
    <2>2. a.rearm.consumer # "order"
        BY <1>1, <1>6 DEF RearmShape
    <2>3. RearmShape(d)
        BY <2>1 DEF RearmShape, OfGrant
    <2>4. Counting(d, base, today)
        BY <1>2, <1>3, <2>2 DEF Done, Counting
    <2>5. a.level \in Levels /\ Required[a.level] <= base[a.level] + 1
        BY <1>6 DEF Done, Earned
    <2>6. Earned(d, base) /\ Deployed(d, base)
        BY <1>2, <2>1, <2>5 DEF Earned, Deployed
    <2>7. QED  BY <1>2, <1>5, <2>1, <2>3, <2>4, <2>6 DEF Done, d
<1>7. CASE a.rearm.status # "AUTHORIZED"
    <2>1. ~d.grant.authorized /\ d.rearm = a.rearm /\ d.repair = a.repair /\ a.level \notin Levels
        BY <1>4, <1>7, Constants
    <2>2. RearmShape(d)
        BY <1>1, <2>1 DEF RearmShape
    <2>3. Counting(d, base, today) /\ Earned(d, base) /\ Deployed(d, base)
        BY <1>2, <2>1 DEF Done, Counting, Earned, Deployed
    <2>4. QED  BY <1>2, <1>5, <2>1, <2>2, <2>3 DEF Done, Attempting, d
<1>8. QED  BY <1>6, <1>7

\* An account in which nothing is observed again: it lives or there is nothing to look at.
LEMMA UnobservedDone ==
    ASSUME NEW a, NEW base, NEW today, NEW candidate, NEW healthy,
           Offered(a, base, today, candidate, healthy),
           a.rearm = account.rearm \/ a.rearm = NoRearm,
           candidate = "absent" \/ Live(a)
    PROVE  Done(a, base, today)
<1>1. Attempting(a.grant) => Live(a)
    BY DEF Attempting, Live
<1>2. Live(a) => ~today
    BY DEF Offered
<1>3. Deployed(a, base)
    BY DEF Deployed, NoRearm
<1>4. a.repair.status = "RESET" /\ a.level \in Levels => base = Nothing /\ ~today
    BY <1>2 DEF Offered
<1>5. QED  BY <1>1, <1>2, <1>3, <1>4 DEF Done, Offered, Stage

\* The second observation, and the authorisation that it may give.
LEMMA AuthorisedDone ==
    ASSUME NEW a, NEW base \in Sessions, NEW today \in BOOLEAN, NEW candidate,
           NEW healthy \in BOOLEAN, NEW reference \in References,
           Offered(a, base, today, candidate, healthy), candidate # "absent",
           DiscoveryOpen(a), ~AttemptOpen(a)
    PROVE  LET x == Authorised(Observe(a, healthy, reference), candidate)
           IN /\ Done(x, base, today) /\ x.level = a.level /\ x.rearm.consumer = "none"
              /\ x.rearm.status = "AUTHORIZED" => x.repair.status = "READY"
<1> DEFINE o == Observe(a, healthy, reference)
           x == Authorised(o, candidate)
<1>1. a \in Working /\ Stage(a, base, today) /\ Counting(a, base, today)
    BY DEF Offered
<1>2. ~Live(a) /\ healthy => today
    BY DEF Offered
<1>3. /\ CountedIn(o, a, base, today) /\ (o.rearm = a.rearm \/ o.rearm = NoRearm)
      /\ o.rearm.consumer = "order" => OrdinaryPending(o)
    BY <1>1, <1>2, ObserveStage
<1> HIDE DEF o
<1>4. o.rearm.consumer # "order"
    <2>1. ASSUME o.rearm.consumer = "order" PROVE FALSE
        <3>1. OrdinaryPending(o) /\ o.rearm = a.rearm
            BY <1>3, <2>1 DEF NoRearm
        <3>2. OrdinaryPending(a)
            BY <1>3, <3>1 DEF OrdinaryPending, CountedIn
        <3>3. QED  BY <3>2 DEF AttemptOpen
    <2>2. QED  BY <2>1
<1>5. o \in Working
    BY <1>3 DEF CountedIn
<1>6. /\ x \in Working /\ x.level = o.level /\ x.repair = o.repair /\ x.grant = o.grant
      /\ x.order = o.order /\ x.shares = o.shares /\ x.rearm.consumer = "none"
      /\ \/ x.rearm = NoRearm
         \/ x.rearm.status = "AUTHORIZED" /\ x.repair.status = "READY"
    BY <1>5, AuthorisedShape
<1> HIDE DEF x
<1>7. x.level = a.level /\ x.grant = a.grant /\ x.order = a.order
    BY <1>3, <1>6 DEF CountedIn
<1>8. x.rearm.status # "CONSUMED"
    BY <1>6 DEF NoRearm
<1>9. RearmShape(x) /\ Deployed(x, base)
    BY <1>6, <1>8 DEF RearmShape, Deployed
<1>10. Counting(x, base, today) /\ Earned(x, base)
    BY <1>3, <1>4, <1>6 DEF CountedIn, Counting, Earned
<1>11. Live(a) => ~today
    BY DEF Offered
<1>12. x.repair.status = "RESET" /\ x.level \in Levels => base = Nothing /\ ~today
    BY <1>3, <1>6, <1>7, <1>11 DEF CountedIn
<1>13. ASSUME Attempting(a.grant) PROVE base = Nothing /\ ~today
    <2>1. a.grant.status # "none" /\ a.grant.status # "open" /\ a.grant.status # "COMPLETED"
        BY <1>1, <1>13 DEF Attempting, DiscoveryOpen, Stage, GrantShape, NoGrant
    <2>2. a.grant.status = "EXPIRED"
        BY <1>1, <2>1 DEF Working, Grant
    <2>3. Live(a)
        BY <1>13 DEF Live, Attempting
    <2>4. QED  BY <1>11, <1>13, <2>2, <2>3 DEF Offered
<1>14. GrantShape(a.grant) /\ (a.grant.buy = "frozen" \/ a.order = "frozen" => base = Nothing /\ ~today)
    BY <1>1 DEF Stage
<1>15. Done(x, base, today)
    BY <1>6, <1>7, <1>9, <1>10, <1>12, <1>13, <1>14 DEF Done
<1>16. x.rearm.status = "AUTHORIZED" => x.repair.status = "READY"
    BY <1>6 DEF NoRearm
<1>17. QED  BY <1>6, <1>7, <1>15, <1>16 DEF x, o

LEMMA DiscoveredDone ==
    ASSUME NEW a, NEW base \in Sessions, NEW today \in BOOLEAN, NEW candidate,
           NEW healthy \in BOOLEAN, NEW reference \in References,
           Offered(a, base, today, candidate, healthy),
           a.rearm = account.rearm \/ a.rearm = NoRearm,
           NEW d \in Discovered(a, candidate, healthy, reference)
    PROVE  Done(d, base, today) /\ d.level = a.level
<1>1. a \in Working /\ GrantShape(a.grant)
    BY DEF Offered, Stage
<1>2. CASE candidate = "absent"
    BY <1>2, UnobservedDone DEF Discovered
<1>3. CASE candidate # "absent" /\ ~DiscoveryOpen(a)
    <2>1. Live(a)
        BY <1>3 DEF DiscoveryOpen, Live
    <2>2. d = a
        BY <1>3 DEF Discovered
    <2>3. QED  BY <2>1, <2>2, UnobservedDone
<1>4. CASE candidate # "absent" /\ DiscoveryOpen(a) /\ AttemptOpen(a)
    <2>1. a.grant.status # "open" /\ OrdinaryPending(a)
        BY <1>4 DEF DiscoveryOpen, AttemptOpen
    <2>2. Live(a) /\ a.rearm.status = "CONSUMED" /\ a.rearm.consumer = "order"
        BY <2>1 DEF OrdinaryPending, Live
    <2>3. Done(a, base, today)
        BY <2>2, UnobservedDone
    <2>4. d \in Formed(a)
        BY <1>4 DEF Discovered, ObserveRearm
    <2>5. d = a \/ (a.level = 0 /\ d = Granted(a))
        BY <2>2, <2>4 DEF Formed
    <2>6. QED  BY <2>2, <2>3, <2>5, GrantedDone
<1>5. CASE candidate # "absent" /\ DiscoveryOpen(a) /\ ~AttemptOpen(a)
    <2> DEFINE x == Authorised(Observe(a, healthy, reference), candidate)
    <2>1. /\ Done(x, base, today) /\ x.level = a.level /\ x.rearm.consumer = "none"
          /\ x.rearm.status = "AUTHORIZED" => x.repair.status = "READY"
        BY <1>5, AuthorisedDone
    <2>2. d \in Formed(x)
        BY <1>5 DEF Discovered, ObserveRearm
    <2> HIDE DEF x
    <2>3. d = x \/ ((x.rearm.status = "AUTHORIZED" \/ x.level = 0) /\ d = Granted(x))
        BY <2>2 DEF Formed
    <2>4. QED  BY <2>1, <2>3, GrantedDone
<1>6. QED  BY <1>2, <1>3, <1>4, <1>5

\* A cohort that ends was filled, so that it is no attempt.
LEMMA ClosedDone ==
    ASSUME NEW a, NEW base, NEW today, Done(a, base, today), NEW d \in Closed(a)
    PROVE  Done(d, base, today) /\ d.level = a.level
<1>1. CASE d = a
    BY <1>1
<1>2. CASE d # a
    <2> DEFINE g == [a.grant EXCEPT !.status = "COMPLETED", !.settled = TRUE]
    <2>1. /\ a.grant.entered /\ a.grant.shares = "none" /\ a.grant.buy = "none"
          /\ d = [a EXCEPT !.grant = g]
        BY <1>2 DEF Closed
    <2>2. a \in Working /\ a.grant \in Grant
        BY DEF Done, Working
    <2>3. /\ g \in Grant /\ g.settled /\ g.status = "COMPLETED"
          /\ g.buy = "none" /\ g.shares = "none"
        BY <2>1, <2>2 DEF Grant
    <2>4. g.entered /\ (g.authorized = a.grant.authorized)
        BY <2>1, <2>2 DEF Grant
    <2> HIDE DEF g
    <2>5. /\ d \in Working /\ d.grant = g /\ d.rearm = a.rearm /\ d.repair = a.repair
          /\ d.level = a.level /\ d.order = a.order
        BY <2>1, <2>2, <2>3 DEF Working
    <2>6. GrantShape(g) /\ ~Attempting(g)
        BY <2>3, <2>4 DEF GrantShape, Attempting
    <2>7. RearmShape(d)
        BY <2>4, <2>5 DEF RearmShape, Done
    <2>8. Counting(d, base, today) /\ Earned(d, base) /\ Deployed(d, base)
        BY <2>5 DEF Done, Counting, Earned, Deployed
    <2>9. QED  BY <2>3, <2>5, <2>6, <2>7, <2>8 DEF Done
<1>3. QED  BY <1>1, <1>2

--------------------------------------------------------------------------------
(* The orders *)

\* NoLateBuy of an account that a decision computes.
WithdrawnLate(a) ==
    a.grant.status = "EXPIRED" /\ ~a.grant.entered => a.grant.buy # "pending"

\* Other BUYs change nothing that is counted.
Placed(a, b, o) == [a EXCEPT !.grant.buy = b, !.order = o]

LEMMA BuysShape ==
    ASSUME NEW a \in Working, NEW b \in BuyStates, NEW o \in BuyStates
    PROVE  LET d == Placed(a, b, o) IN
           /\ d \in Working /\ d.level = a.level /\ d.repair = a.repair /\ d.rearm = a.rearm
           /\ d.shares = a.shares /\ d.order = o
           /\ d.grant = [a.grant EXCEPT !.buy = b]
           /\ d.grant.buy = b /\ d.grant.status = a.grant.status
           /\ d.grant.shares = a.grant.shares
           /\ d.grant.authorized = a.grant.authorized
           /\ d.grant.entered = a.grant.entered
           /\ d.grant.settled = a.grant.settled
<1> DEFINE g == [a.grant EXCEPT !.buy = b]
           d == Placed(a, b, o)
<1>1. a.grant \in Grant
    BY DEF Working
<1>2. /\ g \in Grant /\ g.buy = b /\ g.status = a.grant.status
      /\ g.shares = a.grant.shares
    BY <1>1 DEF Grant
<1>3. (g.authorized = a.grant.authorized) /\ (g.entered = a.grant.entered)
      /\ (g.settled = a.grant.settled)
    BY <1>1 DEF Grant
<1>4. d = [[a EXCEPT !.grant = g] EXCEPT !.order = o]
    BY DEF Working, Placed
<1> HIDE DEF g, d
<1>5. /\ d \in Working /\ d.grant = g /\ d.level = a.level /\ d.repair = a.repair
      /\ d.rearm = a.rearm /\ d.shares = a.shares /\ d.order = o
    BY <1>2, <1>4 DEF Working
<1>6. QED  BY <1>2, <1>3, <1>5 DEF g, d

\* No BUY is withdrawn anew where one was not, and none remains of an expired attempt.
LEMMA OrderedDone ==
    ASSUME NEW a, NEW base, NEW today, Done(a, base, today), NEW d \in Ordered(a)
    PROVE  Done(d, base, today) /\ WithdrawnLate(d) /\ d.level = a.level
<1>1. PICK b \in GrantBuys(a), o \in OrderBuys(a) : d = Placed(a, b, o)
    BY DEF Ordered, Placed
<1>2. a \in Working /\ RearmShape(a) /\ GrantShape(a.grant)
    BY DEF Done
<1>3. a.grant.buy \in BuyStates /\ a.order \in BuyStates
    BY <1>2 DEF Working, Grant
<1>4. /\ b \in BuyStates
      /\ b = "frozen" => a.grant.buy = "frozen"
      /\ a.grant.settled => b = "none"
      /\ a.grant.status = "EXPIRED" /\ ~a.grant.entered => b # "pending"
    <2>1. CASE a.grant.buy = "frozen"
        <3>1. b = "frozen"
            BY <2>1 DEF GrantBuys
        <3>2. QED  BY <1>2, <2>1, <3>1 DEF GrantShape, BuyStates
    <2>2. CASE a.grant.buy # "frozen" /\ a.grant.status # "EXPIRED" /\ ~a.grant.settled
        <3>1. b \in {"none", "pending"}
            BY <2>2 DEF GrantBuys
        <3>2. QED  BY <2>2, <3>1 DEF BuyStates
    <2>3. CASE a.grant.buy # "frozen" /\ ~(a.grant.status # "EXPIRED" /\ ~a.grant.settled)
        <3>1. b = "none" \/ (b = a.grant.buy /\ a.grant.shares # "none")
            BY <2>3 DEF GrantBuys
        <3>2. QED  BY <1>2, <1>3, <2>3, <3>1 DEF GrantShape, BuyStates
    <2>4. QED  BY <2>1, <2>2, <2>3
<1>5. o \in BuyStates /\ (o = "frozen" => a.order = "frozen")
    BY <1>3 DEF OrderBuys, BuyStates
<1>6. /\ d \in Working /\ d.level = a.level /\ d.repair = a.repair /\ d.rearm = a.rearm
      /\ d.order = o /\ d.grant = [a.grant EXCEPT !.buy = b]
      /\ d.grant.buy = b /\ d.grant.status = a.grant.status
      /\ d.grant.shares = a.grant.shares
    BY <1>1, <1>2, <1>4, <1>5, BuysShape
<1>7. /\ d.grant.authorized = a.grant.authorized
      /\ d.grant.entered = a.grant.entered
      /\ d.grant.settled = a.grant.settled
    BY <1>2, <1>6 DEF Working, Grant
<1>8. GrantShape(d.grant)
    <2>1. a.grant.status = "none" => d.grant = NoGrant
        <3>1. ASSUME a.grant = NoGrant, b = "none"
              PROVE  [a.grant EXCEPT !.buy = b] = NoGrant
            BY <3>1 DEF NoGrant
        <3>2. a.grant.status = "none" => a.grant = NoGrant /\ b = "none"
            BY <1>2, <1>4 DEF GrantShape, NoGrant
        <3>3. QED  BY <1>6, <3>1, <3>2
    <2>2. QED  BY <1>2, <1>4, <1>6, <1>7, <2>1 DEF GrantShape
<1>9. RearmShape(d)
    BY <1>2, <1>6, <1>7 DEF RearmShape
<1>10. Counting(d, base, today) /\ Earned(d, base) /\ Deployed(d, base)
    BY <1>6 DEF Done, Counting, Earned, Deployed
<1>11. Attempting(d.grant) => OfGrant(d) \/ (base = Nothing /\ ~today)
    BY <1>6, <1>7 DEF Done, Attempting, OfGrant
<1>12. d.grant.buy = "frozen" \/ d.order = "frozen" => base = Nothing /\ ~today
    BY <1>4, <1>5, <1>6 DEF Done
<1>13. Done(d, base, today)
    BY <1>6, <1>8, <1>9, <1>10, <1>11, <1>12 DEF Done
<1>14. QED  BY <1>4, <1>6, <1>7, <1>13 DEF WithdrawnLate

\* The ordinary order takes a repair that is READY, and its account had nothing live.
LEMMA RepairedDone ==
    ASSUME NEW a, NEW base, NEW today, Done(a, base, today), WithdrawnLate(a),
           NEW healthy, NEW reference, NEW d \in Repaired(a, healthy, reference)
    PROVE  Done(d, base, today) /\ WithdrawnLate(d) /\ d.level = a.level
<1>1. CASE d = a
    BY <1>1
<1>2. CASE d # a
    <2> DEFINE taken == [status |-> "CONSUMED", episode |-> a.repair.episode, consumer |-> "order"]
               repair == [a.repair EXCEPT !.status = "CONSUMED"]
               withdrawn == [a EXCEPT !.rearm = NoRearm]
               placed == [a EXCEPT !.rearm = taken, !.repair = repair, !.order = "pending"]
    <2>1. /\ a.repair.status = "READY" /\ ~Live(a)
          /\ \/ d = withdrawn
             \/ d = [a EXCEPT !.rearm = taken, !.repair.status = "CONSUMED", !.order = "pending"]
        BY <1>2 DEF Repaired
    <2>2. a \in Working /\ a.repair \in Repair /\ GrantShape(a.grant)
        BY DEF Done, Working
    <2>3. a.grant.settled /\ ~Attempting(a.grant)
        BY <2>1 DEF Live, Attempting
    <2>4. /\ a.level \in Levels /\ a.repair.level = a.level /\ a.rearm.consumer # "order"
          /\ Required[a.level] <= base[a.level] + 1
        BY <2>1 DEF Done, Earned
    <2>5. a.repair.episode \in Episodes \cup {NoEpisode}
        BY <2>2 DEF Repair
    <2>6. /\ taken \in Rearm /\ taken.status = "CONSUMED" /\ taken.consumer = "order"
          /\ NoRearm \in Rearm /\ NoRearm.status = "OBSERVING" /\ NoRearm.consumer = "none"
        BY <2>5 DEF NoRearm, Rearm
    <2>7. /\ repair \in Repair /\ repair.status = "CONSUMED"
          /\ repair.level = a.repair.level
        BY <2>2 DEF Repair, RepairStatus
    <2>8. repair.counted = a.repair.counted
        BY <2>2 DEF Repair
    <2>9. CASE d = withdrawn
        <3>1. /\ d \in Working /\ d.rearm = NoRearm /\ d.repair = a.repair /\ d.grant = a.grant
              /\ d.level = a.level /\ d.order = a.order
            BY <2>2, <2>6, <2>9 DEF Working
        <3>2. RearmShape(d)
            BY <2>6, <3>1 DEF RearmShape
        <3>3. Counting(d, base, today) /\ Earned(d, base) /\ Deployed(d, base)
            BY <2>4, <2>6, <3>1 DEF Done, Counting, Earned, Deployed
        <3>4. Done(d, base, today)
            BY <2>3, <3>1, <3>2, <3>3 DEF Done
        <3>5. QED  BY <3>1, <3>4 DEF WithdrawnLate
    <2>10. CASE d = [a EXCEPT !.rearm = taken, !.repair.status = "CONSUMED", !.order = "pending"]
        <3>1. d = placed
            BY <2>2, <2>10 DEF Working
        <3> HIDE DEF taken, repair
        <3>2. /\ d \in Working /\ d.rearm = taken /\ d.repair = repair /\ d.grant = a.grant
              /\ d.level = a.level /\ d.order = "pending"
            BY <2>2, <2>6, <2>7, <3>1 DEF Working, BuyStates
        <3>3. RearmShape(d)
            BY <2>6, <3>2 DEF RearmShape
        <3>4. Counting(d, base, today)
            BY <2>6, <2>7, <2>8, <3>2 DEF Done, Counting
        <3>5. Earned(d, base) /\ Deployed(d, base)
            BY <2>4, <2>7, <3>2 DEF Earned, Deployed
        <3>6. d.grant.buy = "frozen" \/ d.order = "frozen" => base = Nothing /\ ~today
            BY <3>2 DEF Done
        <3>7. Done(d, base, today)
            BY <2>2, <2>3, <2>7, <3>2, <3>3, <3>4, <3>5, <3>6 DEF Done
        <3>8. QED  BY <3>2, <3>7 DEF WithdrawnLate
    <2>11. QED  BY <2>1, <2>9, <2>10
<1>3. QED  BY <1>1, <1>2

--------------------------------------------------------------------------------
(* The account is saved *)

LEMMA EndShape ==
    ASSUME NEW a \in Working
    PROVE  LET b == EndSession(a) IN
           /\ b \in Account /\ b.level = a.level /\ b.rearm = a.rearm /\ b.order = a.order
           /\ b.repair.count = a.repair.count /\ b.repair.level = a.repair.level
           /\ b.repair.status = a.repair.status /\ b.repair.episode = a.repair.episode
           /\ b.grant.status = a.grant.status /\ b.grant.buy = a.grant.buy
           /\ b.grant.authorized = a.grant.authorized
           /\ b.grant.entered = a.grant.entered
           /\ b.grant.settled = a.grant.settled
           /\ b.grant.shares = "none" <=> a.grant.shares = "none"
           /\ a.grant = NoGrant => b.grant = NoGrant
<1> DEFINE kept(shares) == IF shares = "bought" THEN "held" ELSE shares
           repair == [a.repair EXCEPT !.counted = FALSE]
           g == [a.grant EXCEPT !.shares = kept(a.grant.shares)]
           b == [[[a EXCEPT !.repair = repair] EXCEPT !.grant = g] EXCEPT !.shares = kept(a.shares)]
<1>1. a.repair \in Repair /\ a.grant \in Grant
    BY DEF Working
<1>2. EndSession(a) = b
    BY DEF EndSession, Working
<1>3. /\ repair \in Repair /\ repair.count = a.repair.count /\ repair.level = a.repair.level
      /\ repair.status = a.repair.status /\ repair.episode = a.repair.episode
    BY <1>1 DEF Repair
<1>4. repair.counted = FALSE
    BY <1>1 DEF Repair
<1>5. kept(a.grant.shares) \in ShareStates /\ kept(a.shares) \in ShareStates
    BY DEF Working, Grant, ShareStates
<1>6. kept(a.grant.shares) = "none" <=> a.grant.shares = "none"
    OBVIOUS
<1>7. a.grant = NoGrant => g = NoGrant
    BY DEF NoGrant
<1> HIDE DEF kept
<1>8. /\ g \in Grant /\ g.status = a.grant.status /\ g.buy = a.grant.buy
      /\ g.shares = kept(a.grant.shares)
    BY <1>1, <1>5 DEF Grant
<1>9. /\ g.authorized = a.grant.authorized
      /\ g.entered = a.grant.entered
      /\ g.settled = a.grant.settled
    BY <1>1 DEF Grant
<1> HIDE DEF repair, g
<1>10. /\ b \in Working /\ b.repair = repair /\ b.grant = g /\ b.level = a.level
       /\ b.rearm = a.rearm /\ b.order = a.order
    BY <1>3, <1>5, <1>8 DEF Working
<1> HIDE DEF b
<1>11. b \in Account
    BY <1>4, <1>10, SavedWorking
<1>12. QED  BY <1>2, <1>3, <1>6, <1>7, <1>8, <1>9, <1>10, <1>11

\* What the history keeps of a decision.
LEMMA ServedShape ==
    ASSUME NEW start \in Working, NEW a, a.level = start.level,
           NEW candidate, NEW healthy \in BOOLEAN,
           Base(start) \in Sessions, \A l \in Levels : Base(start)[l] <= Required[l],
           a.level \in 0 .. MaxLevel,
           NEW s, s = ServedBy(start, a, candidate, healthy),
           NEW base, base = Base(start), NEW today, today = Today(start, candidate, healthy)
    PROVE  /\ s \in Sessions /\ \A l \in Levels : s[l] <= Required[l]
           /\ base = Nothing /\ ~today => s = Nothing
           /\ a.rearm.consumer # "order" =>
                 /\ \A l \in Levels : base[l] <= s[l]
                 /\ today /\ a.level \in Levels =>
                       s[a.level] = base[a.level] + 1 \/ s[a.level] = Required[a.level]
<1> DEFINE spent == a.rearm.consumer = "order" /\ account.rearm.consumer # "order"
           kept == IF spent THEN Nothing ELSE base
           more == [kept EXCEPT ![a.level] = IF @ = Required[a.level] THEN @ ELSE @ + 1]
<1>1. s = IF a.level # 0 /\ ~spent /\ today THEN more ELSE kept
    <2>1. kept = IF a.level = 0 \/ spent \/ AtWork(start) THEN Nothing ELSE served
        BY DEF Base
    <2>2. s = LET x == IF a.level = 0 \/ spent \/ AtWork(start) THEN Nothing ELSE served
              IN IF a.level # 0 /\ ~spent /\ healthy /\ ~Live(Seen(start, candidate))
                 THEN [x EXCEPT ![a.level] = IF @ = Required[a.level] THEN @ ELSE @ + 1]
                 ELSE x
        BY DEF ServedBy, Nothing, Seen
    <2> HIDE DEF spent
    <2>3. QED  BY <2>1, <2>2 DEF Today
<1>2. /\ base \in Sessions /\ \A l \in Levels : base[l] \in Nat /\ base[l] <= Required[l]
      /\ \A l \in Levels : Required[l] \in Nat \ {0} /\ Nothing[l] = 0
      /\ Nothing \in Sessions
    BY Constants DEF Sessions
<1>3. /\ kept \in Sessions /\ \A l \in Levels : kept[l] \in Nat /\ kept[l] <= Required[l]
    BY <1>2 DEF Sessions
<1>4. ~spent => kept = base
    OBVIOUS
<1>5. base = Nothing => kept = Nothing
    OBVIOUS
<1>6. a.rearm.consumer # "order" => ~spent
    OBVIOUS
<1>7. a.level # 0 => a.level \in Levels
    BY Constants
<1> HIDE DEF spent, kept
<1>8. CASE a.level # 0 /\ ~spent /\ today
    <2>1. s = more /\ a.level \in Levels
        BY <1>1, <1>7, <1>8
    <2>2. /\ more \in Sessions
          /\ more[a.level] = IF kept[a.level] = Required[a.level]
                             THEN kept[a.level] ELSE kept[a.level] + 1
          /\ \A l \in Levels : l # a.level => more[l] = kept[l]
        BY <1>2, <1>3, <2>1 DEF Sessions
    <2> HIDE DEF more
    <2>3. more[a.level] <= Required[a.level] /\ kept[a.level] <= more[a.level]
        BY <1>2, <1>3, <2>1, <2>2
    <2>4. \A l \in Levels : more[l] <= Required[l] /\ kept[l] <= more[l]
        BY <1>2, <1>3, <2>2, <2>3
    <2>5. QED  BY <1>4, <1>8, <2>1, <2>2, <2>4
<1>9. CASE ~(a.level # 0 /\ ~spent /\ today)
    <2>1. s = kept
        BY <1>1, <1>9
    <2>2. today /\ a.rearm.consumer # "order" => a.level \notin Levels
        BY <1>6, <1>9, Constants
    <2>3. QED  BY <1>2, <1>3, <1>4, <1>5, <1>6, <2>1, <2>2
<1>10. QED  BY <1>8, <1>9

\* A decision that is saved keeps the invariant.
LEMMA SavedKeeps ==
    ASSUME NEW start \in Working, NEW a, a.level = start.level,
           NEW candidate, NEW healthy \in BOOLEAN,
           Base(start) \in Sessions, \A l \in Levels : Base(start)[l] <= Required[l],
           Done(a, Base(start), Today(start, candidate, healthy)), WithdrawnLate(a), Loads(a),
           account' = EndSession(a), served' = ServedBy(start, a, candidate, healthy),
           refused' = FALSE
    PROVE  IInv'
<1> DEFINE base == Base(start)
           today == Today(start, candidate, healthy)
<1>1. a \in Working /\ a.level \in 0 .. MaxLevel /\ a.repair \in Repair
    BY DEF Done, Working
<1>2. /\ served' \in Sessions /\ \A l \in Levels : served'[l] <= Required[l]
      /\ base = Nothing /\ ~today => served' = Nothing
      /\ a.rearm.consumer # "order" =>
            /\ \A l \in Levels : base[l] <= served'[l]
            /\ today /\ a.level \in Levels =>
                  served'[a.level] = base[a.level] + 1 \/ served'[a.level] = Required[a.level]
    BY <1>1, ServedShape
<1>3. /\ account' \in Account /\ account'.level = a.level /\ account'.rearm = a.rearm
      /\ account'.order = a.order
      /\ account'.repair.count = a.repair.count /\ account'.repair.level = a.repair.level
      /\ account'.repair.status = a.repair.status /\ account'.repair.episode = a.repair.episode
      /\ account'.grant.status = a.grant.status /\ account'.grant.buy = a.grant.buy
      /\ account'.grant.shares = "none" <=> a.grant.shares = "none"
      /\ a.grant = NoGrant => account'.grant = NoGrant
    BY <1>1, EndShape
<1>4. /\ account'.grant.authorized = a.grant.authorized
      /\ account'.grant.entered = a.grant.entered
      /\ account'.grant.settled = a.grant.settled
    BY <1>1, EndShape
<1>5. Done(a, base, today) /\ base \in Sessions
    OBVIOUS
<1> HIDE DEF base, today
<1>6. TypeOK'
    BY <1>2, <1>3 DEF TypeOK, Sessions
<1>7. OfGrant(account)' <=> OfGrant(a)
    BY <1>3, <1>4 DEF OfGrant
<1>8. Loads(account)'
    <2>1. RepairValid(account.repair)'
        BY <1>3 DEF Loads, RepairValid
    <2>2. CompletedHistory(a) => CompletedHistory(account)'
        BY <1>3, <1>4, <1>7 DEF CompletedHistory
    <2>3. RearmValid(account)'
        BY <1>3, <2>2 DEF Loads, RearmValid
    <2>4. GrantValid(account)'
        BY <1>3, <1>4, <1>7 DEF Loads, GrantValid
    <2>5. QED  BY <2>1, <2>3, <2>4 DEF Loads
<1>9. GrantShape(account.grant)'
    BY <1>3, <1>4, <1>5 DEF Done, GrantShape
<1>10. RearmShape(account)'
    BY <1>3, <1>4, <1>5 DEF Done, RearmShape
<1>11. Owned'
    <2>1. Attempting(account.grant)' <=> Attempting(a.grant)
        BY <1>4 DEF Attempting
    <2>2. QED  BY <1>2, <1>5, <1>7, <2>1 DEF Owned, Done
<1>12. Spent'
    BY <1>2, <1>3, <1>5 DEF Spent, Done
<1>13. NoLateBuy'
    BY <1>3, <1>4 DEF NoLateBuy, WithdrawnLate
<1>14. Backed'
    <2> SUFFICES ASSUME a.repair.level \in Levels, a.rearm.consumer # "order"
                 PROVE  a.repair.count <= served'[a.repair.level]
        BY <1>3 DEF Backed
    <2>1. /\ a.repair.count \in Nat /\ a.repair.count <= Required[a.repair.level]
          /\ Required[a.repair.level] \in Nat
          /\ base[a.repair.level] \in Nat /\ served'[a.repair.level] \in Nat
          /\ base[a.repair.level] <= served'[a.repair.level]
        BY <1>1, <1>2, <1>5, Constants DEF Repair, Loads, RepairValid, Sessions
    <2>2. CASE a.repair.counted
        <3>1. today /\ a.repair.level = a.level /\ a.repair.count <= base[a.level] + 1
            BY <1>5, <2>2 DEF Done, Counting
        <3>2. QED  BY <1>2, <2>1, <3>1
    <2>3. CASE ~a.repair.counted
        <3>1. a.repair.count <= base[a.repair.level] + 0
            BY <1>5, <2>3 DEF Done, Counting
        <3>2. QED  BY <2>1, <3>1
    <2>4. QED  BY <2>2, <2>3
<1>15. RefusedStranded'
    BY DEF RefusedStranded
<1>16. QED  BY <1>2, <1>6, <1>8, <1>9, <1>10, <1>11, <1>12, <1>13, <1>14, <1>15 DEF IInv

--------------------------------------------------------------------------------
(* What a decision that is refused found in the account *)

\* The repair, the rearm and the grant agree, for another reason than a history that is over.
Consistent(a) ==
    /\ RepairValid(a.repair) /\ GrantValid(a)
    /\ a.rearm.status # "OBSERVING" => a.rearm.episode = a.repair.episode
    /\ a.rearm.status = "AUTHORIZED" => a.repair.status = "READY"
    /\ a.rearm.consumer = "order" => a.repair.status = "CONSUMED"

\* No authorisation, and no attempt of a grant, stands.
Unclaimed(a) ==
    /\ Consistent(a)
    /\ \/ a.rearm.status = "OBSERVING" /\ a.rearm.consumer = "none"
       \/ a.rearm.status = "CONSUMED" /\ a.rearm.consumer = "order"
    /\ ~(a.grant.status = "open" /\ a.grant.authorized)

LEMMA ConsistentLoads ==
    ASSUME NEW a, Consistent(a)
    PROVE  Loads(a)
BY DEF Consistent, Loads, RearmValid

LEMMA UnclaimedStart ==
    ASSUME IInv, account.rearm.status # "AUTHORIZED", ~OfGrant(account),
           NEW level \in 0 .. MaxLevel
    PROVE  Unclaimed(NewSession(level))
<1> DEFINE start == NewSession(level)
<1>1. account \in Working
    BY SavedWorking DEF IInv, TypeOK
<1>2. /\ start.repair = account.repair /\ start.rearm = account.rearm
      /\ start.grant = account.grant
    BY <1>1 DEF NewSession, Working
<1> HIDE DEF start
<1>3. \/ account.rearm.status = "OBSERVING" /\ account.rearm.consumer = "none"
      \/ account.rearm.status = "CONSUMED" /\ account.rearm.consumer = "order"
    <2>1. account.rearm \in Rearm /\ RearmShape(account)
        BY <1>1 DEF Working, IInv
    <2>2. account.rearm.status # "CONSUMED" => account.rearm.status = "OBSERVING"
        BY <2>1 DEF Rearm
    <2>3. account.rearm.status = "CONSUMED" => account.rearm.consumer # "grant"
        BY <2>1 DEF RearmShape, OfGrant
    <2>4. QED  BY <2>1, <2>2, <2>3 DEF RearmShape, Rearm
<1>4. ~CompletedHistory(account)
    BY DEF CompletedHistory
<1>5. RepairValid(account.repair) /\ RearmValid(account) /\ GrantValid(account)
    BY DEF IInv, Loads
<1>6. ~(start.grant.status = "open" /\ start.grant.authorized)
    BY <1>2, <1>5 DEF GrantValid
<1>7. Consistent(start)
    BY <1>2, <1>4, <1>5, <1>6 DEF Consistent, RearmValid, GrantValid
<1>8. QED  BY <1>2, <1>3, <1>6, <1>7 DEF Unclaimed, start

\* A repair that counted nothing can always be saved.
LEMMA EmptyValid ==
    ASSUME NEW repair, repair.count = 0, repair.status \in {"BLOCKED", "RESET"}
    PROVE  RepairValid(repair)
<1>1. ASSUME repair.level \in Levels PROVE repair.count <= Required[repair.level]
    <2>1. Required[repair.level] \in Nat
        BY <1>1, Constants
    <2>2. QED  BY <2>1
<1>2. QED  BY <1>1 DEF RepairValid

LEMMA ResetValid ==
    ASSUME NEW repair \in Repair
    PROVE  RepairValid(Reset(repair))
<1>1. Reset(repair).count = 0 /\ Reset(repair).status = "RESET"
    BY ResetShape
<1>2. QED  BY <1>1, EmptyValid

\* An observation leaves a repair that can be saved; a pending order keeps its own.
LEMMA ObservedValid ==
    ASSUME NEW a \in Working, Unclaimed(a), a.rearm.consumer = "order" => OrdinaryPending(a),
           NEW healthy \in BOOLEAN, NEW reference \in References
    PROVE  /\ RepairValid(Observed(a, healthy, reference))
           /\ a.rearm.consumer = "order" =>
                 /\ Observed(a, healthy, reference).status = "CONSUMED"
                 /\ Observed(a, healthy, reference).episode = a.repair.episode
<1> DEFINE repair == Observed(a, healthy, reference)
<1>1. a.repair \in Repair /\ a.level \in 0 .. MaxLevel /\ RepairValid(a.repair)
    BY DEF Working, Unclaimed, Consistent
<1>2. ~OfGrant(a) /\ ~Unfilled(a)
    BY DEF Unclaimed, OfGrant, Unfilled
<1>3. a.rearm.consumer = "order" => a.repair.status = "CONSUMED" /\ Live(a)
    BY DEF Unclaimed, Consistent, OrdinaryPending, Live
<1>4. CASE OrdinaryPending(a)
    <2>1. Live(a) /\ a.repair.status = "CONSUMED"
        BY <1>3, <1>4 DEF OrdinaryPending
    <2>2. repair = a.repair \/ repair = [a.repair EXCEPT !.status = "CONSUMED"]
        BY <1>4, <2>1 DEF Observed, Cleared, UnderAuthority
    <2>3. [a.repair EXCEPT !.status = "CONSUMED"] = a.repair
        BY <1>1, <2>1 DEF Repair
    <2>4. repair = a.repair
        BY <2>2, <2>3
    <2> HIDE DEF repair
    <2>5. RepairValid(repair) /\ repair.status = "CONSUMED" /\ repair.episode = a.repair.episode
        BY <1>1, <2>1, <2>4
    <2>6. QED  BY <2>5 DEF repair
<1>5. CASE ~OrdinaryPending(a) /\ a.level = 0
    <2>1. repair = NoRepair \/ repair = [a.repair EXCEPT !.count = 0, !.status = "RESET"]
        BY <1>5 DEF Observed, Cleared
    <2>2. repair.count = 0 /\ repair.status \in {"BLOCKED", "RESET"}
        <3>1. CASE repair = NoRepair
            BY <3>1 DEF NoRepair
        <3>2. CASE repair = [a.repair EXCEPT !.count = 0, !.status = "RESET"]
            <4> DEFINE r == [a.repair EXCEPT !.count = 0, !.status = "RESET"]
            <4>1. r.count = 0 /\ r.status = "RESET"
                BY <1>1 DEF Repair
            <4>2. QED  BY <3>2, <4>1
        <3>3. QED  BY <2>1, <3>1, <3>2
    <2> HIDE DEF repair
    <2>3. RepairValid(repair)
        BY <2>2, EmptyValid
    <2>4. QED  BY <1>5, <2>3 DEF repair
<1>6. CASE ~OrdinaryPending(a) /\ a.level # 0 /\ Live(a)
    <2>1. repair = Reset(NewRepair(a, reference)) \/ repair = Reset(a.repair)
        BY <1>2, <1>6 DEF Observed, UnderAuthority
    <2>2. NewRepair(a, reference) \in Repair
        BY NewRepairShape
    <2> HIDE DEF repair
    <2>3. RepairValid(repair)
        BY <1>1, <2>1, <2>2, ResetValid
    <2>4. QED  BY <1>6, <2>3 DEF repair
<1>7. CASE ~OrdinaryPending(a) /\ a.level # 0 /\ ~Live(a)
    <2> DEFINE c == Continued(a, reference)
    <2>1. /\ c \in Repair /\ c.level = a.level
          /\ c.count = 0 \/ c = a.repair
        <3>1. CASE StartsAnew(a, reference)
            BY <3>1, NewRepairShape DEF Continued
        <3>2. CASE ~StartsAnew(a, reference)
            BY <1>1, <3>2 DEF Continued, StartsAnew
        <3>3. QED  BY <3>1, <3>2
    <2>2. repair = Advance(c, healthy) /\ a.level \in Levels
        BY <1>1, <1>7, Constants DEF Observed
    <2>3. c.count \in Nat /\ Required[a.level] \in Nat /\ c.count <= Required[a.level]
        BY <1>1, <2>1, <2>2, Constants DEF Repair, RepairValid
    <2> HIDE DEF c, repair
    <2>4. /\ repair.level = a.level
          /\ repair.status \in {"BLOCKED", "ACCUMULATING", "READY"}
          /\ repair.count = c.count \/ (repair.count = c.count + 1 /\ c.count # Required[a.level])
          /\ repair.status = "READY" => repair.count = Required[a.level]
        BY <2>1, <2>2, AdvanceShape
    <2>5. RepairValid(repair)
        BY <2>3, <2>4 DEF RepairValid
    <2>6. QED  BY <1>7, <2>5 DEF repair
<1>8. QED  BY <1>4, <1>5, <1>6, <1>7

LEMMA UnclaimedObserve ==
    ASSUME NEW a \in Working, Unclaimed(a), NEW healthy \in BOOLEAN, NEW reference \in References
    PROVE  Unclaimed(Observe(a, healthy, reference))
<1> DEFINE b == AttemptReleased(a)
           o == ObservedAccount(b, healthy, reference)
<1>1. Observe(a, healthy, reference) = o
    BY DEF Observe, Observed, ObservedAccount
<1>2. /\ b \in Working /\ Unclaimed(b)
      /\ b.rearm.consumer = "order" => OrdinaryPending(b)
    <2>1. CASE a.rearm.consumer = "order" /\ ~OrdinaryPending(a)
        <3>1. b = [a EXCEPT !.repair = Reset(a.repair), !.rearm = NoRearm]
            BY <2>1 DEF AttemptReleased
        <3>2. Reset(a.repair) \in Repair /\ RepairValid(Reset(a.repair)) /\ NoRearm \in Rearm
            BY ResetShape, ResetValid DEF Working, NoRearm, Rearm
        <3>3. /\ b \in Working /\ b.repair = Reset(a.repair) /\ b.rearm = NoRearm
              /\ b.grant = a.grant
            BY <3>1, <3>2 DEF Working
        <3> HIDE DEF b
        <3>4. b.rearm.status = "OBSERVING" /\ b.rearm.consumer = "none"
            BY <3>3 DEF NoRearm
        <3>5. QED  BY <3>2, <3>3, <3>4 DEF Unclaimed, Consistent, GrantValid
    <2>2. CASE ~(a.rearm.consumer = "order" /\ ~OrdinaryPending(a))
        BY <2>2 DEF AttemptReleased
    <2>3. QED  BY <2>1, <2>2
<1> HIDE DEF b
<1> DEFINE repair == Observed(b, healthy, reference)
<1>3. /\ RepairValid(repair)
      /\ b.rearm.consumer = "order" =>
            repair.status = "CONSUMED" /\ repair.episode = b.repair.episode
    BY <1>2, ObservedValid
<1> HIDE DEF repair
<1>4. o.repair = repair /\ o.rearm = b.rearm /\ o.grant = b.grant
    BY <1>2 DEF ObservedAccount, repair, Working
<1> HIDE DEF o
<1>5. QED  BY <1>1, <1>2, <1>3, <1>4 DEF Unclaimed, Consistent, GrantValid

\* Neither an expiry nor a settlement touches what has to agree.
LEMMA UnclaimedGrant ==
    ASSUME NEW a, NEW b, Unclaimed(a), b.repair = a.repair, b.rearm = a.rearm,
           b.grant.status = a.grant.status \/ b.grant.status = "EXPIRED",
           b.grant.authorized = a.grant.authorized
    PROVE  Unclaimed(b)
BY DEF Unclaimed, Consistent, GrantValid

LEMMA RevalidatedUnclaimed ==
    ASSUME NEW a \in Working, GrantShape(a.grant), Unclaimed(a), NEW r \in Revalidated(a)
    PROVE  Unclaimed(r)
<1>1. CASE r = a
    BY <1>1
<1>2. CASE r # a
    <2>1. a.grant.status = "open" /\ r = Expired(a)
        BY <1>2 DEF Revalidated
    <2>2. /\ Expired(a).repair = a.repair /\ Expired(a).rearm = a.rearm
          /\ Expired(a).grant.status = "EXPIRED"
        BY <2>1, ExpiredShape
    <2>3. Expired(a).grant.authorized = a.grant.authorized
        BY <2>1, ExpiredShape
    <2>4. QED  BY <2>1, <2>2, <2>3, UnclaimedGrant
<1>3. QED  BY <1>1, <1>2

LEMMA SettledUnclaimed ==
    ASSUME NEW a \in Working, GrantShape(a.grant), Unclaimed(a)
    PROVE  Unclaimed(SettleExpired(a))
<1>1. /\ SettleExpired(a).repair = a.repair /\ SettleExpired(a).rearm = a.rearm
      /\ SettleExpired(a).grant.status = a.grant.status
    BY SettledShape
<1>2. SettleExpired(a).grant.authorized = a.grant.authorized
    BY SettledShape
<1>3. QED  BY <1>1, <1>2, UnclaimedGrant

\* A new grant has a new authorisation, or none.
LEMMA GrantedConsistent ==
    ASSUME NEW a \in Working, Consistent(a), RearmShape(a)
    PROVE  Consistent(Granted(a))
<1> DEFINE d == Granted(a)
<1>1. /\ d.repair.count = a.repair.count /\ d.repair.level = a.repair.level
      /\ d.repair.episode = a.repair.episode
      /\ \/ /\ a.rearm.status = "AUTHORIZED" /\ OfGrant(d)
            /\ d.rearm.status = "CONSUMED" /\ d.rearm.consumer = "grant"
            /\ d.rearm.episode = a.rearm.episode
            /\ d.repair.status = "CONSUMED"
         \/ /\ a.rearm.status # "AUTHORIZED" /\ ~d.grant.authorized
            /\ d.rearm = a.rearm /\ d.repair = a.repair
    BY GrantedShape
<1> HIDE DEF d
<1>2. GrantValid(d)
    BY <1>1 DEF GrantValid
<1>3. CASE a.rearm.status = "AUTHORIZED"
    <2>1. a.repair.status = "READY" /\ a.rearm.episode = a.repair.episode
        BY <1>3 DEF Consistent
    <2>2. RepairValid(d.repair)
        BY <1>1, <1>3, <2>1 DEF Consistent, RepairValid
    <2>3. QED  BY <1>1, <1>2, <1>3, <2>1, <2>2 DEF Consistent, d
<1>4. CASE a.rearm.status # "AUTHORIZED"
    BY <1>1, <1>2, <1>4 DEF Consistent, d
<1>5. QED  BY <1>3, <1>4

LEMMA DiscoveredConsistent ==
    ASSUME NEW a, NEW base \in Sessions, NEW today \in BOOLEAN, NEW candidate,
           NEW healthy \in BOOLEAN, NEW reference \in References,
           Offered(a, base, today, candidate, healthy), Unclaimed(a),
           NEW d \in Discovered(a, candidate, healthy, reference)
    PROVE  Consistent(d)
<1>1. a \in Working /\ RearmShape(a) /\ Consistent(a)
    BY DEF Offered, Stage, Unclaimed
<1>2. CASE candidate = "absent" \/ ~DiscoveryOpen(a)
    BY <1>1, <1>2 DEF Discovered
<1>3. CASE candidate # "absent" /\ DiscoveryOpen(a) /\ AttemptOpen(a)
    <2>1. d \in Formed(a)
        BY <1>3 DEF Discovered, ObserveRearm
    <2>2. d = a \/ d = Granted(a)
        BY <2>1 DEF Formed
    <2>3. QED  BY <1>1, <2>2, GrantedConsistent
<1>4. CASE candidate # "absent" /\ DiscoveryOpen(a) /\ ~AttemptOpen(a)
    <2> DEFINE o == Observe(a, healthy, reference)
               x == Authorised(o, candidate)
    <2>1. Unclaimed(o)
        BY <1>1, UnclaimedObserve
    <2>2. Done(x, base, today) /\ x.rearm.consumer = "none"
        BY <1>4, AuthorisedDone
    <2>3. d \in Formed(x)
        BY <1>4 DEF Discovered, ObserveRearm
    <2>4. ~Live(a) /\ healthy => today
        BY <1>4 DEF Offered
    <2>5. o \in Working
        BY <1>1, <2>4, ObserveStage DEF Offered, CountedIn
    <2> HIDE DEF o
    <2>6. /\ x.repair = o.repair /\ x.grant = o.grant
          /\ \/ x.rearm = NoRearm
             \/ /\ x.rearm.status = "AUTHORIZED" /\ x.rearm.episode = o.repair.episode
                /\ o.repair.status = "READY"
        BY <2>5, AuthorisedShape
    <2> HIDE DEF x
    <2>7. ~(x.grant.status = "open" /\ x.grant.authorized)
        BY <2>1, <2>6 DEF Unclaimed
    <2>8. Consistent(x)
        BY <2>1, <2>2, <2>6, <2>7 DEF Unclaimed, Consistent, GrantValid, NoRearm
    <2>9. d = x \/ d = Granted(x)
        BY <2>3 DEF Formed
    <2>10. x \in Working /\ RearmShape(x)
        BY <2>2 DEF Done
    <2>11. QED  BY <2>8, <2>9, <2>10, GrantedConsistent
<1>5. QED  BY <1>2, <1>3, <1>4

LEMMA ClosedConsistent ==
    ASSUME NEW a \in Working, Consistent(a), NEW d \in Closed(a)
    PROVE  Consistent(d)
<1>1. CASE d = a
    BY <1>1
<1>2. CASE d # a
    <2>1. d = [a EXCEPT !.grant = [a.grant EXCEPT !.status = "COMPLETED", !.settled = TRUE]]
        BY <1>2 DEF Closed
    <2>2. d.repair = a.repair /\ d.rearm = a.rearm /\ d.grant.status = "COMPLETED"
        BY <2>1 DEF Working, Grant
    <2>3. QED  BY <2>2 DEF Consistent, GrantValid
<1>3. QED  BY <1>1, <1>2

\* Other BUYs are nothing that has to agree.
LEMMA PlacedConsistent ==
    ASSUME NEW a \in Working, Consistent(a), NEW b, NEW o
    PROVE  Consistent(Placed(a, b, o))
<1> DEFINE d == Placed(a, b, o)
<1>1. d.repair = a.repair /\ d.rearm = a.rearm /\ d.grant = [a.grant EXCEPT !.buy = b]
    BY DEF Placed, Working
<1> HIDE DEF d
<1>2. d.grant.status = a.grant.status
    BY <1>1 DEF Working, Grant
<1>3. d.grant.authorized = a.grant.authorized
    BY <1>1 DEF Working, Grant
<1>4. OfGrant(a) => OfGrant(d)
    BY <1>1, <1>3 DEF OfGrant
<1>5. GrantValid(d)
    BY <1>2, <1>3, <1>4 DEF Consistent, GrantValid
<1>6. QED  BY <1>1, <1>5 DEF Consistent, d

LEMMA RepairedConsistent ==
    ASSUME NEW a \in Working, Consistent(a), NEW healthy, NEW reference,
           NEW d \in Repaired(a, healthy, reference)
    PROVE  Consistent(d)
<1>1. CASE d = a
    BY <1>1
<1>2. CASE d # a
    <2> DEFINE taken == [status |-> "CONSUMED", episode |-> a.repair.episode, consumer |-> "order"]
               repair == [a.repair EXCEPT !.status = "CONSUMED"]
    <2>1. /\ a.repair.status = "READY" /\ ~Live(a)
          /\ \/ d = [a EXCEPT !.rearm = NoRearm]
             \/ d = [a EXCEPT !.rearm = taken, !.repair.status = "CONSUMED", !.order = "pending"]
        BY <1>2 DEF Repaired
    <2>2. a.grant.status # "open"
        BY <2>1 DEF Live
    <2>3. CASE d = [a EXCEPT !.rearm = NoRearm]
        <3>1. d.repair = a.repair /\ d.rearm = NoRearm /\ d.grant = a.grant
            BY <2>3 DEF Working
        <3>2. QED  BY <2>2, <3>1 DEF Consistent, GrantValid, NoRearm
    <2>4. CASE d = [a EXCEPT !.rearm = taken, !.repair.status = "CONSUMED", !.order = "pending"]
        <3>1. d.repair = repair /\ d.rearm = taken /\ d.grant = a.grant
            BY <2>4 DEF Working
        <3>2. /\ repair.status = "CONSUMED" /\ repair.count = a.repair.count
              /\ repair.level = a.repair.level /\ repair.episode = a.repair.episode
            BY DEF Working, Repair
        <3>3. RepairValid(repair)
            BY <2>1, <3>2 DEF Consistent, RepairValid
        <3> HIDE DEF repair
        <3>4. QED  BY <2>2, <3>1, <3>2, <3>3 DEF Consistent, GrantValid
    <2>5. QED  BY <2>1, <2>3, <2>4
<1>3. QED  BY <1>1, <1>2

--------------------------------------------------------------------------------
(* A decision as a whole *)

LEMMA StrategicDone ==
    ASSUME IInv, NEW level \in 0 .. MaxLevel, NEW candidate \in Candidates,
           NEW healthy \in BOOLEAN, NEW reference \in References,
           NEW start, start = NewSession(level),
           NEW s \in Strategic(Observe(start, healthy, reference), candidate, healthy, reference)
    PROVE  /\ Done(s, Base(start), Today(start, candidate, healthy)) /\ s.level = level
           /\ Unclaimed(start) => Consistent(s)
<1> DEFINE base == Base(start)
           today == Today(start, candidate, healthy)
           o == Observe(start, healthy, reference)
<1>1. /\ Found(start, base, today) /\ (~Live(start) /\ healthy => today)
      /\ start.level = level /\ start.rearm = account.rearm
    BY StartStage
<1>2. today \in BOOLEAN
    BY DEF Today, Live
<1>3. /\ CountedIn(o, start, base, today)
      /\ o.rearm = start.rearm \/ o.rearm = NoRearm
      /\ o.rearm.consumer = "order" => OrdinaryPending(o)
    <2> HIDE DEF base, today
    <2>1. QED  BY <1>1, <1>2, ObserveStage DEF Found
<1>4. PICK r \in Revalidated(o) :
          s \in (IF r.grant.status # o.grant.status /\ r.grant.shares = "none" THEN {r}
                 ELSE UNION {Closed(d) :
                             d \in Discovered(SettleExpired(r), candidate, healthy, reference)})
    BY DEF Strategic
<1>5. Unclaimed(start) => Unclaimed(o)
    BY <1>1, UnclaimedObserve DEF Found
<1>6. today = Today(start, candidate, healthy) /\ o.grant = start.grant
    BY <1>3 DEF CountedIn
<1> HIDE DEF base, today, o
<1>7. Reviewed(r, start, base, today)
    BY <1>1, <1>3, RevalidatedStage
<1>8. Unclaimed(start) => Unclaimed(r)
    BY <1>3, <1>5, RevalidatedUnclaimed DEF CountedIn, Stage
<1>9. CASE r.grant.status # o.grant.status /\ r.grant.shares = "none"
    <2>1. s = r /\ start.grant.status = "open"
        BY <1>4, <1>6, <1>7, <1>9 DEF Reviewed
    <2>2. start \in Working /\ GrantShape(start.grant)
        BY <1>1 DEF Found, Stage
    <2>3. Live(Seen(start, candidate))
        <3>1. SettleExpired(start).grant.status = "open"
            BY <2>1, <2>2, SettledShape
        <3>2. Seen(start, candidate).grant.status = "open"
            BY <2>1, <3>1 DEF Seen
        <3>3. QED  BY <3>2 DEF Live
    <2>4. ~today
        BY <1>6, <2>3 DEF Today
    <2>5. Deployed(r, base)
        BY <1>1, <1>7 DEF Deployed, Reviewed, NoRearm
    <2>6. Done(r, base, today)
        BY <1>7, <2>4, <2>5 DEF Done, Reviewed, Stage
    <2>7. r.level = level
        BY <1>1, <1>7 DEF Reviewed
    <2>8. Unclaimed(start) => Consistent(r)
        BY <1>8 DEF Unclaimed
    <2>9. QED  BY <2>1, <2>6, <2>7, <2>8 DEF base, today
<1>10. CASE ~(r.grant.status # o.grant.status /\ r.grant.shares = "none")
    <2>1. PICK d \in Discovered(SettleExpired(r), candidate, healthy, reference) : s \in Closed(d)
        BY <1>4, <1>10
    <2>2. /\ Offered(SettleExpired(r), base, today, candidate, healthy)
          /\ SettleExpired(r).level = start.level /\ SettleExpired(r).rearm = r.rearm
        BY <1>1, <1>6, <1>7, <1>10, OfferedStage
    <2>3. SettleExpired(r).rearm = account.rearm \/ SettleExpired(r).rearm = NoRearm
        BY <1>1, <1>7, <2>2 DEF Reviewed
    <2>4. base \in Sessions
        BY <1>1 DEF Found
    <2>5. Done(d, base, today) /\ d.level = level
        BY <1>1, <1>2, <2>1, <2>2, <2>3, <2>4, DiscoveredDone
    <2>6. Done(s, base, today) /\ s.level = level
        BY <2>1, <2>5, ClosedDone
    <2>7. Unclaimed(start) => Unclaimed(SettleExpired(r))
        BY <1>7, <1>8, SettledUnclaimed DEF Reviewed, Stage
    <2>8. Unclaimed(start) => Consistent(d)
        BY <1>2, <2>1, <2>2, <2>4, <2>7, DiscoveredConsistent
    <2>9. Unclaimed(start) => Consistent(s)
        BY <2>1, <2>5, <2>8, ClosedConsistent DEF Done
    <2>10. QED  BY <2>6, <2>9 DEF base, today
<1>11. QED  BY <1>9, <1>10

\* What the next session finds of a decision: saved, or refused and forgotten.
LEMMA SaveCases ==
    ASSUME NEW start, NEW a, NEW candidate, NEW healthy, Save(start, a, candidate, healthy)
    PROVE  \/ /\ Loads(a) /\ account' = EndSession(a) /\ refused' = FALSE
              /\ served' = ServedBy(start, a, candidate, healthy)
           \/ ~Loads(a) /\ refused' = TRUE /\ account' = account /\ served' = served
BY DEF Save

\* A decision that is not frozen.
LEMMA SessionCases ==
    ASSUME IInv, NEW level \in 0 .. MaxLevel, NEW candidate \in Candidates,
           NEW healthy \in BOOLEAN, NEW reference \in References,
           Session(level, candidate, healthy, reference)
    PROVE  \E a :
               /\ Done(a, Base(NewSession(level)), Today(NewSession(level), candidate, healthy))
               /\ WithdrawnLate(a) /\ a.level = level
               /\ Unclaimed(NewSession(level)) => Loads(a)
               /\ Save(NewSession(level), a, candidate, healthy)
<1> DEFINE start == NewSession(level)
           observed == Observe(start, healthy, reference)
           base == Base(start)
           today == Today(start, candidate, healthy)
<1>1. PICK s \in Strategic(observed, candidate, healthy, reference) :
          \E o \in Ordered(s) : \E a \in Repaired(o, healthy, reference) :
              Save(start, a, candidate, healthy)
    BY DEF Session
<1>2. PICK o \in Ordered(s) : \E a \in Repaired(o, healthy, reference) :
          Save(start, a, candidate, healthy)
    BY <1>1
<1>3. PICK a \in Repaired(o, healthy, reference) : Save(start, a, candidate, healthy)
    BY <1>2
<1>4. Done(s, base, today) /\ s.level = level /\ (Unclaimed(start) => Consistent(s))
    BY <1>1, StrategicDone
<1> HIDE DEF base, today
<1>5. Done(o, base, today) /\ WithdrawnLate(o) /\ o.level = level
    BY <1>2, <1>4, OrderedDone
<1>6. Done(a, base, today) /\ WithdrawnLate(a) /\ a.level = level
    BY <1>3, <1>5, RepairedDone
<1>7. Unclaimed(start) => Consistent(o)
    <2>1. PICK b \in GrantBuys(s), y \in OrderBuys(s) : o = Placed(s, b, y)
        BY <1>2 DEF Ordered, Placed
    <2>2. QED  BY <1>4, <2>1, PlacedConsistent DEF Done
<1>8. Unclaimed(start) => Loads(a)
    BY <1>3, <1>5, <1>7, RepairedConsistent, ConsistentLoads DEF Done
<1>9. QED  BY <1>3, <1>6, <1>8 DEF base, today

\* The session that the sentinel alone freezes: nothing damaged is left to repair.
LEMMA FrozenDone ==
    ASSUME IInv, NEW reference \in References
    PROVE  LET start == NewSession(0)
               a == Frozen(Observe(start, FALSE, reference))
           IN Done(a, Base(start), Today(start, "absent", FALSE)) /\ WithdrawnLate(a)
              /\ a.level = 0 /\ (Unclaimed(start) => Loads(a))
<1> DEFINE start == NewSession(0)
           base == Base(start)
           today == Today(start, "absent", FALSE)
           o == Observe(start, FALSE, reference)
           withdrawn(buy) == IF buy = "pending" THEN "frozen" ELSE buy
           a == Frozen(o)
<1>1. Found(start, base, today) /\ start.level = 0 /\ start.rearm = account.rearm
    <2>1. 0 \in 0 .. MaxLevel /\ "absent" \in Candidates
        BY Constants DEF Candidates
    <2>2. QED  BY <2>1, StartStage
<1>2. base = Nothing /\ today = FALSE
    <2>1. base = Nothing
        BY <1>1 DEF Base
    <2>2. today = FALSE
        BY DEF Today
    <2>3. QED  BY <2>1, <2>2
<1>3. /\ CountedIn(o, start, base, today)
      /\ o.rearm = start.rearm \/ o.rearm = NoRearm
    <2> HIDE DEF base, today
    <2>1. today \in BOOLEAN /\ (~Live(start) /\ FALSE => today)
        BY <1>2
    <2>2. QED  BY <1>1, <2>1, ObserveStage DEF Found
<1>4. o \in Working /\ o.level = 0 /\ GrantShape(o.grant) /\ RearmShape(o)
    BY <1>1, <1>3 DEF CountedIn, Stage
<1>5. /\ withdrawn(o.grant.buy) \in BuyStates \ {"pending"} /\ withdrawn(o.order) \in BuyStates
      /\ withdrawn(o.grant.buy) = "none" <=> o.grant.buy = "none"
    BY <1>4 DEF Working, Grant, BuyStates
<1>6. a = Placed(o, withdrawn(o.grant.buy), withdrawn(o.order))
    BY <1>4 DEF Frozen, Placed, Working, Grant
<1>7. base \in Sessions /\ (Unclaimed(start) => Loads(a))
    <2>1. Unclaimed(start) => Unclaimed(o)
        BY <1>1, UnclaimedObserve DEF Found
    <2>2. Unclaimed(start) => Consistent(a)
        BY <1>4, <1>6, <2>1, PlacedConsistent DEF Unclaimed
    <2>3. QED  BY <1>1, <2>2, ConsistentLoads DEF Found
<1> DEFINE b == withdrawn(o.grant.buy)
<1> HIDE DEF base, today, o, withdrawn
<1>8. /\ a \in Working /\ a.level = o.level /\ a.repair = o.repair /\ a.rearm = o.rearm
      /\ a.grant = [o.grant EXCEPT !.buy = b]
      /\ a.grant.buy = b /\ a.grant.status = o.grant.status
      /\ a.grant.shares = o.grant.shares
    BY <1>4, <1>5, <1>6, BuysShape
<1>9. /\ a.grant.authorized = o.grant.authorized
      /\ a.grant.entered = o.grant.entered
      /\ a.grant.settled = o.grant.settled
    BY <1>4, <1>8 DEF Working, Grant
<1> HIDE DEF a
<1>10. GrantShape(a.grant)
    <2>1. o.grant.status = "none" => a.grant = NoGrant
        <3>1. ASSUME o.grant = NoGrant, b = "none"
              PROVE  [o.grant EXCEPT !.buy = b] = NoGrant
            BY <3>1 DEF NoGrant
        <3>2. o.grant.status = "none" => o.grant = NoGrant /\ b = "none"
            BY <1>4, <1>5 DEF GrantShape, NoGrant
        <3>3. QED  BY <1>8, <3>1, <3>2
    <2>2. QED  BY <1>4, <1>5, <1>8, <1>9, <2>1 DEF GrantShape
<1>11. RearmShape(a)
    BY <1>4, <1>8, <1>9 DEF RearmShape
<1>12. Counting(a, base, today) /\ Earned(a, base)
    BY <1>3, <1>8 DEF CountedIn, Counting, Earned
<1>13. Deployed(a, base)
    BY <1>1, <1>3, <1>8 DEF Deployed, NoRearm
<1>14. Done(a, base, today)
    BY <1>2, <1>8, <1>10, <1>11, <1>12, <1>13 DEF Done
<1>15. WithdrawnLate(a)
    BY <1>5, <1>8 DEF WithdrawnLate
<1>16. QED  BY <1>4, <1>7, <1>8, <1>14, <1>15 DEF a, o, base, today

--------------------------------------------------------------------------------
(* The actions *)

\* A decision that is refused changes nothing, and found something that was left behind.
LEMMA RefusedKeeps ==
    ASSUME IInv, NEW level \in 0 .. MaxLevel, ~Unclaimed(NewSession(level)),
           account' = account, served' = served, refused' = TRUE
    PROVE  IInv'
<1>1. account.rearm.status = "AUTHORIZED" \/ OfGrant(account)
    BY UnclaimedStart
<1>2. RefusedStranded'
    BY <1>1 DEF RefusedStranded
<1>3. TypeOK' /\ Loads(account)' /\ GrantShape(account.grant)' /\ RearmShape(account)'
    BY DEF IInv, TypeOK
<1>4. Owned' /\ Spent' /\ NoLateBuy' /\ Backed'
    BY DEF IInv, Owned, Spent, NoLateBuy, Backed
<1>5. QED  BY <1>2, <1>3, <1>4 DEF IInv

LEMMA SessionKeeps ==
    ASSUME IInv, NEW level \in 0 .. MaxLevel, NEW candidate \in Candidates,
           NEW healthy \in BOOLEAN, NEW reference \in References,
           Session(level, candidate, healthy, reference)
    PROVE  IInv'
<1> DEFINE start == NewSession(level)
<1>1. PICK a : /\ Done(a, Base(start), Today(start, candidate, healthy))
               /\ WithdrawnLate(a) /\ a.level = level
               /\ Unclaimed(start) => Loads(a)
               /\ Save(start, a, candidate, healthy)
    BY SessionCases
<1>2. /\ start \in Working /\ Base(start) \in Sessions
      /\ \A l \in Levels : Base(start)[l] <= Required[l]
      /\ start.level = level
    BY StartStage DEF Found
<1> HIDE DEF start
<1>3. CASE Loads(a)
    <2>1. /\ account' = EndSession(a) /\ refused' = FALSE
          /\ served' = ServedBy(start, a, candidate, healthy)
        BY <1>1, <1>3, SaveCases
    <2>2. QED  BY <1>1, <1>2, <1>3, <2>1, SavedKeeps
<1>4. CASE ~Loads(a)
    <2>1. account' = account /\ served' = served /\ refused' = TRUE
        BY <1>1, <1>4, SaveCases
    <2>2. ~Unclaimed(NewSession(level))
        BY <1>1, <1>4 DEF start
    <2>3. QED  BY <2>1, <2>2, RefusedKeeps
<1>5. QED  BY <1>3, <1>4

LEMMA DecideKeeps ==
    ASSUME IInv, Decide
    PROVE  IInv'
<1>1. PICK level \in 0 .. MaxLevel, candidate \in Candidates, healthy \in BOOLEAN,
           reference \in References : Session(level, candidate, healthy, reference)
    BY DEF Decide
<1>2. QED  BY <1>1, SessionKeeps

LEMMA DecideFrozenKeeps ==
    ASSUME IInv, DecideFrozen
    PROVE  IInv'
<1> DEFINE start == NewSession(0)
<1>1. PICK reference \in References :
          Save(start, Frozen(Observe(start, FALSE, reference)), "absent", FALSE)
    BY DEF DecideFrozen
<1> DEFINE a == Frozen(Observe(start, FALSE, reference))
<1>2. /\ Done(a, Base(start), Today(start, "absent", FALSE)) /\ WithdrawnLate(a)
      /\ a.level = 0 /\ (Unclaimed(start) => Loads(a))
    BY FrozenDone
<1>3. /\ start \in Working /\ Base(start) \in Sessions
      /\ \A l \in Levels : Base(start)[l] <= Required[l]
      /\ start.level = 0 /\ 0 \in 0 .. MaxLevel
    <2>1. 0 \in 0 .. MaxLevel /\ "absent" \in Candidates
        BY Constants DEF Candidates
    <2>2. QED  BY <2>1, StartStage DEF Found
<1>4. Save(start, a, "absent", FALSE)
    BY <1>1
<1> HIDE DEF start, a
<1>5. CASE Loads(a)
    <2>1. /\ account' = EndSession(a) /\ refused' = FALSE
          /\ served' = ServedBy(start, a, "absent", FALSE)
        BY <1>4, <1>5, SaveCases
    <2>2. QED  BY <1>2, <1>3, <1>5, <2>1, SavedKeeps
<1>6. CASE ~Loads(a)
    <2>1. account' = account /\ served' = served /\ refused' = TRUE
        BY <1>4, <1>6, SaveCases
    <2>2. ~Unclaimed(NewSession(0))
        BY <1>2, <1>6 DEF start
    <2>3. QED  BY <1>3, <2>1, <2>2, RefusedKeeps
<1>7. QED  BY <1>5, <1>6

\* What a step of the auction or of the broker leaves alone.
Untouched ==
    /\ account'.level = account.level /\ account'.repair = account.repair
    /\ account'.rearm = account.rearm
    /\ account'.grant.authorized = account.grant.authorized
    /\ account'.grant.settled = account.grant.settled
    /\ refused' = refused

\* No step between two decisions disturbs what a load checks, nor a reason for a refusal.
LEMMA UntouchedKeeps ==
    ASSUME IInv, Untouched, account' \in Account,
           account'.grant.status = account.grant.status
               \/ (account.grant.status = "open" /\ account'.grant.status = "COMPLETED"),
           account.grant.settled => account'.grant = account.grant
    PROVE  Loads(account)' /\ RearmShape(account)' /\ RefusedStranded'
<1>1. OfGrant(account)' <=> OfGrant(account)
    BY DEF Untouched, OfGrant
<1>2. CompletedHistory(account) => CompletedHistory(account)'
    BY <1>1 DEF CompletedHistory, Untouched
<1>3. RepairValid(account.repair)' /\ RearmValid(account)'
    BY <1>2 DEF IInv, Loads, RepairValid, RearmValid, Untouched
<1>4. GrantValid(account)'
    BY <1>1 DEF IInv, Loads, GrantValid, Untouched
<1>5. RearmShape(account)'
    BY DEF IInv, RearmShape, Untouched
<1>6. RefusedStranded'
    BY <1>1 DEF IInv, RefusedStranded, Untouched
<1>7. QED  BY <1>3, <1>4, <1>5, <1>6 DEF Loads

LEMMA NothingServed ==
    /\ [l \in Levels |-> 0] = Nothing /\ Nothing \in [Levels -> Nat]
    /\ \A l \in Levels : Nothing[l] <= Required[l]
<1>1. \A l \in Levels : Nothing[l] = 0 /\ Required[l] \in Nat
    BY Constants
<1>2. \A l \in Levels : Nothing[l] <= Required[l]
    BY <1>1
<1>3. QED  BY <1>2, Constants DEF Nothing, Sessions

\* Shares are bought: nothing served is left, whatever else.
LEMMA FillGrantKeeps ==
    ASSUME IInv, FillGrant
    PROVE  IInv'
<1>1. PICK buy \in {"none", account.grant.buy}, status \in {account.grant.status, "COMPLETED"} :
          /\ account.grant.status # "open" => status = account.grant.status
          /\ account' = [account EXCEPT !.grant.buy = buy, !.grant.status = status,
                                        !.grant.entered = TRUE, !.grant.shares = "bought"]
    BY DEF FillGrant
<1> DEFINE g == [account.grant EXCEPT !.buy = buy, !.status = status, !.entered = TRUE,
                                      !.shares = "bought"]
<1>2. account \in Account /\ GrantShape(account.grant) /\ account.grant.buy # "none"
    BY DEF IInv, TypeOK, FillGrant
<1>3. account.grant \in Grant
    BY <1>2 DEF Account, Grant
<1>4. /\ ~account.grant.settled /\ account.grant.status # "none"
    BY <1>2 DEF GrantShape, NoGrant
<1>5. buy \in BuyStates /\ status \in {"open", "COMPLETED", "EXPIRED"}
    BY <1>3, <1>4 DEF Grant, BuyStates
<1>6. account' = [account EXCEPT !.grant = g]
    BY <1>1, <1>2 DEF Account
<1>7. /\ g \in Grant /\ g.buy = buy /\ g.status = status /\ g.shares = "bought"
    BY <1>3, <1>5 DEF Grant, ShareStates
<1>8. /\ g.entered /\ (g.settled = account.grant.settled)
      /\ g.authorized = account.grant.authorized
    BY <1>3 DEF Grant
<1> HIDE DEF g
<1>9. /\ account' \in Account /\ account'.grant = g /\ account'.level = account.level
      /\ account'.repair = account.repair /\ account'.rearm = account.rearm
    BY <1>2, <1>6, <1>7 DEF Account, Grant
<1>10. Untouched
    <2>1. /\ account'.grant.authorized = account.grant.authorized
          /\ account'.grant.settled = account.grant.settled
        BY <1>8, <1>9
    <2>2. QED  BY <1>9, <2>1 DEF Untouched, FillGrant
<1>11. served' = Nothing
    BY NothingServed DEF FillGrant
<1>12. refused' \in BOOLEAN
    BY DEF FillGrant, IInv, TypeOK
<1>13. TypeOK' /\ \A l \in Levels : served'[l] <= Required[l]
    BY <1>9, <1>11, <1>12, NothingServed DEF TypeOK
<1>14. Loads(account)' /\ RearmShape(account)' /\ RefusedStranded'
    BY <1>1, <1>4, <1>7, <1>9, <1>10, UntouchedKeeps
<1>15. GrantShape(account.grant)'
    BY <1>4, <1>5, <1>7, <1>8, <1>9 DEF GrantShape
<1>16. Owned' /\ Spent'
    BY <1>11 DEF Owned, Spent
<1>17. NoLateBuy' /\ Backed'
    BY <1>7, <1>8, <1>9 DEF NoLateBuy, Backed
<1>18. QED  BY <1>13, <1>14, <1>15, <1>16, <1>17 DEF IInv

LEMMA EndGrantBuyKeeps ==
    ASSUME IInv, EndGrantBuy
    PROVE  IInv'
<1> DEFINE g == [account.grant EXCEPT !.buy = "none"]
<1>1. account \in Account /\ GrantShape(account.grant) /\ account.grant.buy # "none"
    BY DEF IInv, TypeOK, EndGrantBuy
<1>2. account.grant \in Grant
    BY <1>1 DEF Account, Grant
<1>3. ~account.grant.settled /\ account.grant.status # "none"
    BY <1>1 DEF GrantShape, NoGrant
<1>4. account' = [account EXCEPT !.grant = g]
    BY DEF EndGrantBuy
<1>5. /\ g \in Grant /\ g.buy = "none" /\ g.status = account.grant.status
      /\ g.shares = account.grant.shares
    BY <1>2 DEF Grant, BuyStates
<1>6. /\ g.entered = account.grant.entered
      /\ g.settled = account.grant.settled
      /\ g.authorized = account.grant.authorized
    BY <1>2 DEF Grant
<1> HIDE DEF g
<1>7. /\ account' \in Account /\ account'.grant = g /\ account'.level = account.level
      /\ account'.repair = account.repair /\ account'.rearm = account.rearm
      /\ account'.order = account.order /\ account'.shares = account.shares
    BY <1>1, <1>4, <1>5 DEF Account, Grant
<1>8. Untouched /\ served' = served
    BY <1>6, <1>7 DEF Untouched, EndGrantBuy
<1>9. TypeOK' /\ \A l \in Levels : served'[l] <= Required[l]
    BY <1>7, <1>8 DEF TypeOK, IInv, Untouched
<1>10. Loads(account)' /\ RearmShape(account)' /\ RefusedStranded'
    BY <1>3, <1>5, <1>7, <1>8, UntouchedKeeps
<1>11. GrantShape(account.grant)'
    BY <1>1, <1>3, <1>5, <1>6, <1>7 DEF GrantShape
<1>12. Owned'
    BY <1>6, <1>7, <1>8 DEF IInv, Owned, Attempting, OfGrant
<1>13. Spent' /\ NoLateBuy' /\ Backed'
    BY <1>5, <1>7, <1>8 DEF IInv, Spent, NoLateBuy, Backed
<1>14. QED  BY <1>9, <1>10, <1>11, <1>12, <1>13 DEF IInv

LEMMA SellGrantKeeps ==
    ASSUME IInv, SellGrant
    PROVE  IInv'
<1> DEFINE g == [account.grant EXCEPT !.shares = "none"]
<1>1. account \in Account /\ GrantShape(account.grant) /\ account.grant.shares = "held"
    BY DEF IInv, TypeOK, SellGrant
<1>2. account.grant \in Grant
    BY <1>1 DEF Account, Grant
<1>3. ~account.grant.settled /\ account.grant.status # "none"
    BY <1>1 DEF GrantShape, NoGrant
<1>4. account' = [account EXCEPT !.grant = g]
    BY DEF SellGrant
<1>5. /\ g \in Grant /\ g.buy = account.grant.buy /\ g.status = account.grant.status
      /\ g.shares = "none"
    BY <1>2 DEF Grant, ShareStates
<1>6. /\ g.entered = account.grant.entered
      /\ g.settled = account.grant.settled
      /\ g.authorized = account.grant.authorized
    BY <1>2 DEF Grant
<1> HIDE DEF g
<1>7. /\ account' \in Account /\ account'.grant = g /\ account'.level = account.level
      /\ account'.repair = account.repair /\ account'.rearm = account.rearm
      /\ account'.order = account.order /\ account'.shares = account.shares
    BY <1>1, <1>4, <1>5 DEF Account, Grant
<1>8. Untouched /\ served' = served
    BY <1>6, <1>7 DEF Untouched, SellGrant
<1>9. TypeOK' /\ \A l \in Levels : served'[l] <= Required[l]
    BY <1>7, <1>8 DEF TypeOK, IInv, Untouched
<1>10. Loads(account)' /\ RearmShape(account)' /\ RefusedStranded'
    BY <1>3, <1>5, <1>7, <1>8, UntouchedKeeps
<1>11. GrantShape(account.grant)'
    BY <1>1, <1>3, <1>5, <1>6, <1>7 DEF GrantShape
<1>12. Owned'
    BY <1>6, <1>7, <1>8 DEF IInv, Owned, Attempting, OfGrant
<1>13. Spent' /\ Backed'
    BY <1>1, <1>5, <1>7, <1>8 DEF IInv, Spent, Backed
<1>14. NoLateBuy'
    BY <1>5, <1>6, <1>7 DEF IInv, NoLateBuy
<1>15. QED  BY <1>9, <1>10, <1>11, <1>12, <1>13, <1>14 DEF IInv

\* The ordinary side of the book is in the invariant only where it is withdrawn or bought.
LEMMA OrdinaryKeeps ==
    ASSUME IInv, account' \in Account, account'.grant = account.grant,
           account'.level = account.level, account'.repair = account.repair,
           account'.rearm = account.rearm,
           \/ account'.shares = "bought" /\ served' = Nothing
           \/ /\ account.shares = "bought" => account'.shares = "bought"
              /\ account'.order = "frozen" => account.order = "frozen"
              /\ served' = served,
           refused' = refused
    PROVE  IInv'
<1>1. served \in [Levels -> Nat] /\ refused \in BOOLEAN
    BY DEF IInv, TypeOK
<1>2. Untouched
    BY DEF Untouched
<1>3. TypeOK' /\ \A l \in Levels : served'[l] <= Required[l]
    BY <1>1, NothingServed DEF TypeOK, IInv
<1>4. Loads(account)' /\ RearmShape(account)' /\ RefusedStranded'
    BY <1>2, UntouchedKeeps
<1>5. GrantShape(account.grant)'
    BY DEF IInv
<1>6. Owned' /\ NoLateBuy'
    BY DEF IInv, Owned, OfGrant, NoLateBuy
<1>7. Spent'
    BY DEF IInv, Spent
<1>8. Backed'
    BY DEF IInv, Backed
<1>9. QED  BY <1>3, <1>4, <1>5, <1>6, <1>7, <1>8 DEF IInv

LEMMA FillOrderKeeps ==
    ASSUME IInv, FillOrder
    PROVE  IInv'
<1>1. PICK order \in {"none", account.order} :
          account' = [account EXCEPT !.order = order, !.shares = "bought"]
    BY DEF FillOrder
<1>2. account \in Account /\ order \in BuyStates
    BY DEF IInv, TypeOK, Account, BuyStates
<1>3. /\ account' \in Account /\ account'.grant = account.grant
      /\ account'.level = account.level /\ account'.repair = account.repair
      /\ account'.rearm = account.rearm /\ account'.shares = "bought"
    BY <1>1, <1>2 DEF Account, ShareStates
<1>4. served' = Nothing /\ refused' = refused
    BY NothingServed DEF FillOrder
<1>5. QED  BY <1>3, <1>4, OrdinaryKeeps

LEMMA EndOrderKeeps ==
    ASSUME IInv, EndOrder
    PROVE  IInv'
<1>1. account \in Account
    BY DEF IInv, TypeOK
<1>2. /\ account' \in Account /\ account'.grant = account.grant
      /\ account'.level = account.level /\ account'.repair = account.repair
      /\ account'.rearm = account.rearm /\ account'.shares = account.shares
      /\ account'.order = "none"
    BY <1>1 DEF EndOrder, Account, BuyStates
<1>3. served' = served /\ refused' = refused
    BY DEF EndOrder
<1>4. QED  BY <1>2, <1>3, OrdinaryKeeps

LEMMA SellOrdinaryKeeps ==
    ASSUME IInv, SellOrdinary
    PROVE  IInv'
<1>1. account \in Account /\ account.shares = "held"
    BY DEF IInv, TypeOK, SellOrdinary
<1>2. /\ account' \in Account /\ account'.grant = account.grant
      /\ account'.level = account.level /\ account'.repair = account.repair
      /\ account'.rearm = account.rearm /\ account'.order = account.order
    BY <1>1 DEF SellOrdinary, Account, ShareStates
<1>3. served' = served /\ refused' = refused
    BY DEF SellOrdinary
<1>4. QED  BY <1>1, <1>2, <1>3, OrdinaryKeeps

--------------------------------------------------------------------------------
(* Theorems *)

LEMMA InitInv == Init => IInv
<1> SUFFICES ASSUME Init PROVE IInv
    OBVIOUS
<1>1. /\ account.level = 0 /\ account.repair = NoRepair /\ account.rearm = NoRearm
      /\ account.grant = NoGrant /\ account.order = "none" /\ account.shares = "none"
      /\ served = Nothing /\ refused = FALSE
    BY NothingServed DEF Init
<1>2. /\ NoRepair \in Repair /\ NoRearm \in Rearm /\ NoGrant \in Grant
    BY Constants DEF NoRepair, Repair, RepairStatus, NoRearm, Rearm, NoGrant, Grant,
                     BuyStates, ShareStates
<1>3. account \in Account
    <2>1. account \in Working
        BY <1>2, Constants DEF Init, Working, BuyStates, ShareStates
    <2>2. account.repair.counted = FALSE
        BY <1>1 DEF NoRepair
    <2>3. QED  BY <2>1, <2>2, SavedWorking
<1>4. TypeOK /\ \A l \in Levels : served[l] <= Required[l]
    BY <1>1, <1>3, NothingServed DEF TypeOK
<1>5. RepairValid(account.repair)
    <2>1. account.repair.count = 0 /\ account.repair.status = "BLOCKED"
        BY <1>1 DEF NoRepair
    <2>2. QED  BY <2>1, EmptyValid
<1>6. RearmValid(account) /\ RearmShape(account)
    BY <1>1 DEF NoRearm, RearmValid, RearmShape
<1>7. GrantValid(account) /\ GrantShape(account.grant) /\ ~Attempting(account.grant)
      /\ account.grant.buy = "none"
    BY <1>1 DEF NoGrant, GrantValid, GrantShape, Attempting
<1>8. Owned /\ Spent /\ NoLateBuy
    BY <1>1, <1>7 DEF Owned, Spent, NoLateBuy
<1>9. Backed
    BY <1>1, Constants DEF Backed, NoRepair
<1>10. RefusedStranded
    BY <1>1 DEF RefusedStranded
<1>11. QED  BY <1>4, <1>5, <1>6, <1>7, <1>8, <1>9, <1>10 DEF IInv, Loads

LEMMA NextInv == IInv /\ [Next]_vars => IInv'
<1> SUFFICES ASSUME IInv, [Next]_vars PROVE IInv'
    OBVIOUS
<1>1. CASE Decide
    BY <1>1, DecideKeeps
<1>2. CASE DecideFrozen
    BY <1>2, DecideFrozenKeeps
<1>3. CASE FillGrant
    BY <1>3, FillGrantKeeps
<1>4. CASE EndGrantBuy
    BY <1>4, EndGrantBuyKeeps
<1>5. CASE SellGrant
    BY <1>5, SellGrantKeeps
<1>6. CASE FillOrder
    BY <1>6, FillOrderKeeps
<1>7. CASE EndOrder
    BY <1>7, EndOrderKeeps
<1>8. CASE SellOrdinary
    BY <1>8, SellOrdinaryKeeps
<1>9. CASE UNCHANGED vars
    <2>1. account' = account /\ served' = served /\ refused' = refused
        BY <1>9 DEF vars
    <2>2. TypeOK' /\ Loads(account)' /\ GrantShape(account.grant)' /\ RearmShape(account)'
        BY <2>1 DEF IInv, TypeOK
    <2>3. Owned' /\ Spent' /\ NoLateBuy' /\ Backed' /\ RefusedStranded'
        BY <2>1 DEF IInv, Owned, Spent, NoLateBuy, Backed, RefusedStranded
    <2>4. QED  BY <2>1, <2>2, <2>3 DEF IInv
<1>10. QED
    BY <1>1, <1>2, <1>3, <1>4, <1>5, <1>6, <1>7, <1>8, <1>9 DEF Next

\* In every behaviour of the decisions and of the book the state satisfies the invariant.
THEOREM Inductive == Spec => []IInv
<1>1. QED  BY InitInv, NextInv, PTL DEF Spec

\* An episode is reset only where the wait of its level was not served: the wait of an attempt
\* that never filled is kept (rearm_predicates.py, unfilled_authorized_grant_attempt).
THEOREM WaitIsKept == Spec => []WaitKept
<1>1. IInv => WaitKept
    <2> SUFFICES ASSUME IInv, account.repair.status = "RESET", account.level \in Levels
                 PROVE  served[account.level] < Required[account.level]
        BY DEF WaitKept, IInv
    <2>1. served = Nothing
        BY DEF IInv, Spent
    <2>2. Nothing[account.level] = 0 /\ Required[account.level] \in Nat \ {0}
        BY Constants
    <2>3. QED  BY <2>1, <2>2
<1>2. QED  BY <1>1, Inductive, PTL

\* A decision that computes an account that cannot be saved found an authorisation, or the
\* consumption by the current grant, that was left behind.
THEOREM RefusalsAreStranded == Spec => []RefusedStranded
<1>1. IInv => RefusedStranded
    BY DEF IInv
<1>2. QED  BY <1>1, Inductive, PTL

\* The consumption that a saved decision adds was earned.
LEMMA SavedServed ==
    ASSUME IInv, NEW level \in 0 .. MaxLevel, NEW candidate \in Candidates,
           NEW healthy \in BOOLEAN, NEW a,
           Done(a, Base(NewSession(level)), Today(NewSession(level), candidate, healthy)),
           Save(NewSession(level), a, candidate, healthy),
           account'.rearm.status = "CONSUMED", account'.rearm # account.rearm
    PROVE  served[account'.level] + 1 >= Required[account'.level]
<1> DEFINE start == NewSession(level)
           base == Base(start)
<1>1. account' = EndSession(a)
    BY SaveCases
<1>2. a \in Working
    BY DEF Done
<1>3. account'.rearm = a.rearm /\ account'.level = a.level
    BY <1>1, <1>2, EndShape
<1>4. a.level \in Levels /\ Required[a.level] <= base[a.level] + 1
    BY <1>3 DEF Done, Deployed
<1>5. base \in Sessions /\ \A l \in Levels : base[l] <= served[l]
    BY StartStage DEF Found
<1> HIDE DEF base
<1>6. base[a.level] \in Nat /\ served[a.level] \in Nat /\ Required[a.level] \in Nat
    BY <1>4, <1>5, Constants DEF Sessions, IInv, TypeOK
<1>7. QED  BY <1>3, <1>4, <1>5, <1>6

\* Damaged capital is put to work only after the whole wait of its level, in sessions with
\* nothing at work (observe_flat_book_capital_repair_state and both consumptions).
THEOREM WaitIsServed == Spec => WaitServed
<1> DEFINE Earns == account'.rearm.status = "CONSUMED" /\ account'.rearm # account.rearm
                       => served[account'.level] + 1 >= Required[account'.level]
<1>1. ASSUME IInv, Next PROVE Earns
    <2>1. CASE Decide
        <3>1. PICK level \in 0 .. MaxLevel, candidate \in Candidates, healthy \in BOOLEAN,
                   reference \in References : Session(level, candidate, healthy, reference)
            BY <2>1 DEF Decide
        <3>2. PICK a :
                  /\ Done(a, Base(NewSession(level)), Today(NewSession(level), candidate, healthy))
                  /\ Save(NewSession(level), a, candidate, healthy)
            BY <1>1, <3>1, SessionCases
        <3>3. QED  BY <1>1, <3>2, SavedServed
    <2>2. CASE DecideFrozen
        <3> DEFINE start == NewSession(0)
        <3>1. PICK reference \in References :
                  Save(start, Frozen(Observe(start, FALSE, reference)), "absent", FALSE)
            BY <2>2 DEF DecideFrozen
        <3>2. Done(Frozen(Observe(start, FALSE, reference)), Base(start),
                   Today(start, "absent", FALSE))
            BY <1>1, FrozenDone
        <3>3. 0 \in 0 .. MaxLevel /\ "absent" \in Candidates
            BY Constants DEF Candidates
        <3>4. QED  BY <1>1, <3>1, <3>2, <3>3, SavedServed
    <2>3. CASE FillGrant
        <3>1. account'.rearm = account.rearm
            BY <1>1, <2>3 DEF FillGrant, IInv, TypeOK, Account
        <3>2. QED  BY <3>1
    <2>4. CASE EndGrantBuy \/ SellGrant \/ FillOrder \/ EndOrder \/ SellOrdinary
        <3>1. account'.rearm = account.rearm
            BY <1>1, <2>4 DEF EndGrantBuy, SellGrant, FillOrder, EndOrder, SellOrdinary,
                              IInv, TypeOK, Account
        <3>2. QED  BY <3>1
    <2>5. QED  BY <1>1, <2>1, <2>2, <2>3, <2>4 DEF Next
<1>2. IInv /\ [Next]_vars => [Earns]_vars
    BY <1>1
<1>3. QED  BY <1>2, Inductive, PTL DEF Spec, WaitServed
================================================================================
