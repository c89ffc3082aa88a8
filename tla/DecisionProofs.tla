----------------------------- MODULE DecisionProofs -----------------------------
(***************************************************************************)
(* The two state machines of an evening decision. The owner of strategic   *)
(* capital is unique and no fill is refused, for any number of grants, any *)
(* sizes and any retry window (StrategicGrant). And for any confirmations, *)
(* windows and waits, the type of the risk state, that the guard holds,    *)
(* that a cooldown is served whole and that the book is not cut twice for  *)
(* the same damage (RiskState).                                            *)
(***************************************************************************)
EXTENDS StrategicGrant, RiskState, FiniteSetTheorems, TLAPS

--------------------------------------------------------------------------------
(* Strategic grants (StrategicGrant) *)

Deploying(status) == status \notin {"NONE", "COMPLETED", "EXPIRED"}

\* What the account keeps between any two steps of a decision.
Sized(a) == \A g \in Grants : /\ a.shares[g] + a.buy[g].left <= MaxShares
                              /\ a.buy[g].filled + a.buy[g].left <= MaxShares
Numbered(a) ==
    /\ a.status = "NONE" <=> a.grant = 0
    /\ \A g \in Grants : /\ (a.epoch[g] = "NONE") <=> (g > a.grant)
                         /\ g < a.grant => EpochTerminal(a.epoch[g])
Pointed(a) == \A g \in Grants : (a.active = g) <=> (a.epoch[g] = "ACTIVE")
Owning(a) ==
    /\ \A g \in Grants : /\ a.shares[g] > 0 => a.epoch[g] = "ACTIVE"
                         /\ a.sell[g] => a.epoch[g] = "ACTIVE"
                         /\ a.buy[g].state # "none" => EpochOpen(a.epoch[g])
                         /\ a.entered[g] <=> a.epoch[g] \in {"ACTIVE", "CLOSED"}
    /\ Deploying(a.status) => EpochOpen(a.epoch[a.grant])
    /\ a.cohort => a.grant # 0 /\ EpochOpen(a.epoch[a.grant])
\* An owner that was never filled runs its cohort, which has its targets and was never
\* started, until its grant expires.
Untouched(a) == \A g \in Grants :
    a.epoch[g] = "PROBE" =>
        ~a.started /\ (a.cohort => a.target) /\ (a.cohort \/ a.status = "EXPIRED")
Earned(a) == a.generation + (IF Deploying(a.status) THEN 1 ELSE 0) <= a.grant
\* The grants that may have earned a generation: filled, and not still deploying.
Earners(a) == {g \in Grants : a.entered[g] /\ ~(Deploying(a.status) /\ g = a.grant)}
Counted(a) == a.generation <= Cardinality(Earners(a))

Sound(a) == /\ a \in Account
            /\ Sized(a) /\ Numbered(a) /\ Pointed(a) /\ Owning(a) /\ Untouched(a)
            /\ Earned(a) /\ Counted(a)

IInv == Sound(account) /\ refused \in BOOLEAN

--------------------------------------------------------------------------------

\* The fields of an account, one by one.
LEMMA Fields ==
    ASSUME NEW a, a \in Account
    PROVE  /\ a.grant \in 0 .. MaxGrants /\ a.status \in Statuses /\ a.quorum \in Quorums
           /\ a.retries \in 0 .. MaxRetries /\ a.active \in 0 .. MaxGrants
           /\ a.generation \in 0 .. MaxGrants
           /\ a.cohort \in BOOLEAN /\ a.target \in BOOLEAN /\ a.started \in BOOLEAN
           /\ a.epoch \in [Grants -> EpochStatuses] /\ a.entered \in [Grants -> BOOLEAN]
           /\ a.shares \in [Grants -> 0 .. MaxShares] /\ a.sell \in [Grants -> BOOLEAN]
           /\ a.short \in [Grants -> BOOLEAN]
           /\ a.buy \in [Grants -> [state : BuyStates, filled : 0 .. MaxShares,
                                    left : 0 .. MaxShares]]
BY DEF Account

\* The same for one grant.
LEMMA Entries ==
    ASSUME NEW a, a \in Account, NEW g \in Grants
    PROVE  /\ g \in Nat /\ g > 0 /\ g <= MaxGrants
           /\ a.epoch[g] \in {"NONE", "PROBE", "ACTIVE", "CLOSED", "EXPIRED"}
           /\ a.entered[g] \in BOOLEAN /\ a.sell[g] \in BOOLEAN /\ a.short[g] \in BOOLEAN
           /\ a.shares[g] \in Nat /\ a.shares[g] <= MaxShares
           /\ a.buy[g].state \in {"none", "pending", "frozen"}
           /\ a.buy[g].filled \in Nat /\ a.buy[g].left \in Nat
           /\ a.buy[g].filled <= MaxShares /\ a.buy[g].left <= MaxShares
<1> USE GrantAssumption, Fields
<1>1. a.buy[g] \in [state : BuyStates, filled : 0 .. MaxShares, left : 0 .. MaxShares]
  OBVIOUS
<1> QED
  BY <1>1 DEF Grants, EpochStatuses, BuyStates

\* Only the epoch of the current grant is open.
LEMMA Current ==
    ASSUME NEW a, Sound(a), NEW g \in Grants, EpochOpen(a.epoch[g])
    PROVE  g = a.grant
<1>1. a.grant \in Nat /\ g \in Nat
  BY GrantAssumption, Fields DEF Sound, Grants
<1>2. ~(g < a.grant) /\ ~(g > a.grant)
  BY DEF Sound, Numbered, EpochOpen, EpochTerminal
<1> QED
  BY <1>1, <1>2

\* Sets of grants are finite, and a larger one does not have fewer members.
LEMMA CountedSets ==
    ASSUME NEW T \in SUBSET Grants, NEW S \in SUBSET T
    PROVE  /\ IsFiniteSet(T) /\ Cardinality(S) \in Nat /\ Cardinality(T) \in Nat
           /\ Cardinality(S) <= Cardinality(T)
<1>1. IsFiniteSet(Grants)
  BY GrantAssumption, FS_Interval DEF Grants
<1>2. IsFiniteSet(T)
  BY <1>1, FS_Subset
<1> QED
  BY <1>2, FS_Subset, FS_CardinalityType

\* A step without a fill earns nothing and loses no earner.
LEMMA CountedKept ==
    ASSUME NEW a, Sound(a), NEW b, b.entered = a.entered, b.generation = a.generation,
           Deploying(b.status) =>
               \/ Deploying(a.status) /\ b.grant = a.grant
               \/ ~a.entered[b.grant]
    PROVE  Counted(b)
<1>1. Earners(a) \in SUBSET Earners(b) /\ Earners(b) \in SUBSET Grants
  BY DEF Earners
<1>2. /\ Cardinality(Earners(a)) \in Nat /\ Cardinality(Earners(b)) \in Nat
      /\ Cardinality(Earners(a)) <= Cardinality(Earners(b))
  BY <1>1, CountedSets
<1>3. a.generation \in Nat /\ a.generation <= Cardinality(Earners(a))
  BY Fields, GrantAssumption DEF Sound, Counted
<1> QED
  BY <1>2, <1>3 DEF Counted

\* The invariants that are stated of the account follow from the invariant.
LEMMA Consequences == IInv => TypeOK /\ OwnerBound /\ FillsAdmitted /\ EntriesCounted
<1> SUFFICES ASSUME IInv PROVE TypeOK /\ OwnerBound /\ FillsAdmitted /\ EntriesCounted
  OBVIOUS
<1> USE GrantAssumption DEF IInv, Sound
<1>1. TypeOK
  BY DEF TypeOK
<1>2. account.grant \in 0 .. MaxGrants /\ account.status \in Statuses
  BY Fields
<1>3. ASSUME NEW g \in Grants
      PROVE  /\ EpochOpen(account.epoch[g]) => g = account.grant
             /\ (account.active = g) <=> (account.epoch[g] = "ACTIVE")
             /\ account.shares[g] > 0 => EpochOpen(account.epoch[g])
             /\ account.buy[g].state # "none" \/ account.sell[g] => EpochOpen(account.epoch[g])
  BY <1>2, Entries DEF Numbered, Pointed, Owning, EpochOpen, EpochTerminal
<1>4. OwnerBound
  BY <1>3 DEF OwnerBound, Owning, Deploying
<1>5. FillsAdmitted
  <2> SUFFICES ASSUME NEW g \in Grants, account.buy[g].state # "none"
               PROVE  FillAccepted(account, g)
    BY DEF FillsAdmitted
  <2>1. EpochOpen(account.epoch[g]) /\ g = account.grant
    BY <1>3
  <2>2. account.active \in {0, g}
    <3>1. account.active \in 0 .. MaxGrants
      BY Fields
    <3>2. CASE account.active # 0
      <4>1. account.active \in Grants
        BY <3>1, <3>2 DEF Grants
      <4>2. account.epoch[account.active] = "ACTIVE"
        BY <4>1 DEF Pointed
      <4> QED
        BY <1>3, <2>1, <4>1, <4>2 DEF EpochOpen
    <3> QED
      BY <3>2
  <2> QED
    BY <2>1, <2>2 DEF FillAccepted, EpochOpen, EpochTerminal
<1>6. EntriesCounted
  <2> DEFINE Entered == {g \in Grants : account.entered[g]}
  <2>1. ASSUME NEW g \in Grants, EpochTerminal(account.epoch[g])
        PROVE  account.epoch[g] = "CLOSED" <=> account.entered[g]
    BY <2>1, Entries DEF Owning, EpochTerminal
  <2>2. account.generation <= Cardinality(Entered)
    <3>1. /\ Cardinality(Earners(account)) \in Nat /\ Cardinality(Entered) \in Nat
          /\ Cardinality(Earners(account)) <= Cardinality(Entered)
      <4>1. Earners(account) \in SUBSET Grants /\ Earners(account) \in SUBSET Entered
        BY DEF Earners
      <4> QED
        BY <4>1, CountedSets
    <3>2. account.generation \in Nat
      BY Fields
    <3> QED
      BY <3>1, <3>2 DEF Counted
  <2> QED
    BY <2>1, <2>2 DEF EntriesCounted
<1> QED
  BY <1>1, <1>4, <1>5, <1>6

\* An account without a grant.
LEMMA InitInv == Init => IInv
<1> SUFFICES ASSUME Init PROVE IInv
  OBVIOUS
<1> USE GrantAssumption
<1>1. account \in Account
  BY DEF Init, Account, NoBuy, BuyStates, Statuses, EpochStatuses, Quorums
<1>2. /\ account.grant = 0 /\ account.status = "NONE" /\ account.active = 0
      /\ account.cohort = FALSE /\ account.started = FALSE /\ account.generation = 0
      /\ \A g \in Grants : /\ account.epoch[g] = "NONE" /\ account.entered[g] = FALSE
                           /\ account.shares[g] = 0 /\ account.sell[g] = FALSE
                           /\ account.buy[g] = [state |-> "none", filled |-> 0, left |-> 0]
  BY DEF Init, NoBuy
<1>3. \A g \in Grants : g \in Nat /\ g > 0
  BY DEF Grants
<1>4. Sized(account) /\ Numbered(account) /\ Pointed(account)
  BY <1>2, <1>3 DEF Sized, Numbered, Pointed
<1>5. Owning(account)
  BY <1>2 DEF Owning, Deploying
<1>6. Untouched(account) /\ Earned(account)
  BY <1>2 DEF Untouched, Earned, Deploying
<1>7. Counted(account)
  <2>1. Earners(account) \in SUBSET Grants
    BY DEF Earners
  <2> QED
    BY <1>2, <2>1, CountedSets DEF Counted
<1> QED
  BY <1>1, <1>4, <1>5, <1>6, <1>7 DEF Init, IInv, Sound

\* What settling the current grant's flat epoch leaves.
LEMMA SettleSound ==
    ASSUME NEW a, Sound(a), a.grant # 0, NEW expired \in BOOLEAN,
           ~Blocked(a, a.grant),
           expired => a.status = "EXPIRED",
           ~expired => a.epoch[a.grant] # "PROBE"
    PROVE  LET b == Released(Settle(a, a.grant, expired))
           IN /\ Sound(b) /\ b.grant = a.grant /\ b.buy = a.buy
              /\ b.status = IF expired THEN "EXPIRED" ELSE "COMPLETED"
              /\ EpochTerminal(b.epoch[a.grant]) /\ ~b.cohort
<1> DEFINE g == a.grant
           final == IF EpochTerminal(a.epoch[g]) THEN a.epoch[g] ELSE EndOfEpoch(a, g, expired)
           e == [a.epoch EXCEPT ![g] = final]
           k == IF a.active = g THEN 0 ELSE a.active
           st == IF expired THEN "EXPIRED" ELSE "COMPLETED"
           b == [a EXCEPT !.epoch = e, !.active = k, !.status = st,
                          !.cohort = FALSE, !.target = FALSE, !.started = FALSE]
<1> USE GrantAssumption
<1>1. /\ a \in Account /\ g \in Grants /\ g \in Nat
      /\ a.shares[g] = 0 /\ a.buy[g].state = "none" /\ ~a.sell[g]
  <2>1. a \in Account /\ g \in Grants
    BY Fields DEF Sound, Grants
  <2> QED
    BY <2>1, Entries DEF Blocked
<1>2. Released(Settle(a, g, expired)) = b
  BY <1>1 DEF Released, Settle
<1>3. /\ EpochTerminal(final) /\ final \in EpochStatuses
      /\ final = "CLOSED" <=> a.entered[g]
  <2>1. /\ a.entered[g] <=> a.epoch[g] \in {"ACTIVE", "CLOSED"}
        /\ a.epoch[g] # "NONE"
    BY <1>1 DEF Sound, Owning, Numbered
  <2>2. a.entered[g] \in BOOLEAN /\ a.epoch[g] \in EpochStatuses
    BY <1>1, Entries DEF EpochStatuses
  <2> QED
    BY <2>1, <2>2 DEF EndOfEpoch, EpochTerminal, EpochStatuses
<1>4. e \in [Grants -> EpochStatuses] /\ k \in 0 .. MaxGrants /\ st \in Statuses
  BY <1>1, <1>3, Fields DEF Statuses
<1>5. /\ b \in Account
      /\ b.epoch = e /\ b.active = k /\ b.status = st /\ ~b.cohort /\ ~b.started
      /\ b.grant = g /\ b.shares = a.shares /\ b.buy = a.buy /\ b.sell = a.sell
      /\ b.entered = a.entered /\ b.generation = a.generation
  <2> HIDE DEF e, k, st
  <2> QED
    BY <1>1, <1>4 DEF Account
<1>6. e[g] = final /\ \A h \in Grants : h # g => e[h] = a.epoch[h]
  BY <1>1, Fields
<1> HIDE DEF e, final, b
<1>7. Sized(b)
  BY <1>5 DEF Sound, Sized
<1>8. Earned(b) /\ Counted(b)
  BY <1>5, <1>1, Fields, CountedKept DEF Sound, Earned, Deploying
<1>9. Numbered(b)
  BY <1>1, <1>3, <1>5, <1>6 DEF Sound, Numbered, EpochTerminal
<1>10. Pointed(b)
  BY <1>1, <1>3, <1>5, <1>6, Fields DEF Sound, Pointed, EpochTerminal, Grants
<1>11. Owning(b)
  BY <1>1, <1>3, <1>5, <1>6 DEF Sound, Owning, Deploying, EpochTerminal
<1>12. Untouched(b)
  <2> SUFFICES ASSUME NEW h \in Grants, b.epoch[h] = "PROBE" PROVE FALSE
    BY DEF Untouched
  <2>1. h # g /\ a.epoch[h] = "PROBE"
    BY <1>3, <1>5, <1>6 DEF EpochTerminal
  <2> QED
    BY <2>1, Current DEF EpochOpen
<1> QED
  BY <1>2, <1>3, <1>5, <1>6, <1>7, <1>8, <1>9, <1>10, <1>11, <1>12 DEF Sound

\* The account after the settlement that precedes the cohort of a session.
LEMMA SettleTerminalSound ==
    ASSUME NEW a, Sound(a)
    PROVE  LET b == SettleTerminal(a)
           IN /\ Sound(b) /\ b.grant = a.grant /\ b.status = a.status /\ b.buy = a.buy
              /\ b.status = "EXPIRED" =>
                    Blocked(b, b.grant) \/ (~b.cohort /\ EpochTerminal(b.epoch[b.grant]))
<1> USE GrantAssumption
<1>1. CASE a.grant # 0 /\ a.status = "EXPIRED" /\ ~Blocked(a, a.grant)
  <2>1. SettleTerminal(a) = Released(Settle(a, a.grant, TRUE))
    BY <1>1 DEF SettleTerminal, SettleExpired
  <2> QED
    BY <1>1, <2>1, SettleSound
<1>2. CASE ~(a.grant # 0 /\ a.status = "EXPIRED" /\ ~Blocked(a, a.grant))
  <2>1. SettleTerminal(a) = a
    BY <1>2 DEF SettleTerminal, SettleExpired
  <2>2. a.grant = 0 => a.status # "EXPIRED"
    BY DEF Sound, Numbered
  <2> QED
    BY <1>2, <2>1, <2>2
<1> QED
  BY <1>1, <1>2

\* A deployment that is given up keeps its shares' cohort and is settled when it has none.
LEMMA ExpireSound ==
    ASSUME NEW a, Sound(a), a.grant # 0, Deploying(a.status)
    PROVE  LET b == Expire(a, a.grant)
           IN /\ Sound(b) /\ b.grant = a.grant /\ b.status = "EXPIRED" /\ b.buy = a.buy
              /\ b.target => b.cohort
<1> DEFINE g == a.grant
           held == a.shares[g] > 0
           b == [a EXCEPT !.status = "EXPIRED", !.cohort = held, !.target = held]
<1> USE GrantAssumption
<1>1. /\ a \in Account /\ g \in Grants /\ g \in Nat /\ held \in BOOLEAN /\ "EXPIRED" \in Statuses
      /\ EpochOpen(a.epoch[g])
  BY Fields DEF Sound, Grants, Owning, Statuses
<1>2. /\ b \in Account /\ b.status = "EXPIRED" /\ b.cohort = held /\ b.target = held
      /\ b.started = a.started /\ b.active = a.active /\ b.epoch = a.epoch
      /\ b.grant = g /\ b.shares = a.shares /\ b.buy = a.buy /\ b.sell = a.sell
      /\ b.entered = a.entered /\ b.generation = a.generation
  <2> HIDE DEF held
  <2> QED
    BY <1>1 DEF Account
<1> HIDE DEF b
<1>3. Sized(b) /\ Numbered(b) /\ Pointed(b)
  BY <1>1, <1>2 DEF Sound, Sized, Numbered, Pointed, Deploying
<1>4. Owning(b)
  BY <1>1, <1>2 DEF Sound, Owning, Deploying
<1>5. Untouched(b)
  BY <1>1, <1>2 DEF Sound, Untouched
<1>6. Earned(b) /\ Counted(b)
  BY <1>1, <1>2, Fields, CountedKept DEF Sound, Earned, Deploying
<1>7. Sound(b)
  BY <1>2, <1>3, <1>4, <1>5, <1>6 DEF Sound
<1>8. Expire(a, g) = IF Blocked(b, g) \/ held \/ a.buy[g].state = "pending" \/ a.sell[g]
                     THEN b ELSE Released(Settle(b, g, TRUE))
  BY DEF Expire, SettleExpired, b
<1>9. CASE Blocked(b, g) \/ held \/ a.buy[g].state = "pending" \/ a.sell[g]
  BY <1>2, <1>7, <1>8, <1>9
<1>10. CASE ~(Blocked(b, g) \/ held \/ a.buy[g].state = "pending" \/ a.sell[g])
  <2>1. Expire(a, g) = Released(Settle(b, g, TRUE))
    BY <1>8, <1>10
  <2>2. /\ Sound(Released(Settle(b, b.grant, TRUE)))
        /\ Released(Settle(b, b.grant, TRUE)).grant = b.grant
        /\ Released(Settle(b, b.grant, TRUE)).status = "EXPIRED"
        /\ Released(Settle(b, b.grant, TRUE)).buy = b.buy
    BY <1>1, <1>2, <1>7, <1>10, SettleSound
  <2>3. ~Released(Settle(b, b.grant, TRUE)).target
    BY <1>2 DEF Released, Settle, Account
  <2> QED
    BY <1>2, <2>1, <2>2, <2>3
<1> QED
  BY <1>9, <1>10

\* A close leaves the grant as it is, counts a retry or ends it.
LEMMA RevalidateSound ==
    ASSUME NEW a, Sound(a), NEW evidence \in Evidence, NEW madeUp \in BOOLEAN
    PROVE  LET b == Revalidate(a, evidence, madeUp)
           IN /\ Sound(b) /\ b.grant = a.grant /\ b.buy = a.buy
              /\ b.status \in {a.status, "EXPIRED"}
<1> DEFINE c == CompletedEntry(a, a.grant, madeUp)
           lost == \/ evidence = "removed"
                   \/ evidence = "unqualified" /\ ~c
                   \/ evidence \in {"blocked", "healthy"} /\ ~c /\ RetriesSpent(a)
<1> USE GrantAssumption
<1>1. CASE a.grant = 0 \/ GrantTerminal(a.status)
  BY <1>1 DEF Revalidate
<1>2. CASE a.grant # 0 /\ ~GrantTerminal(a.status) /\ lost
  <2>1. Revalidate(a, evidence, madeUp) = Expire(a, a.grant)
    BY <1>2 DEF Revalidate
  <2>2. Deploying(a.status)
    BY <1>2 DEF Sound, Numbered, Deploying, GrantTerminal
  <2> QED
    BY <1>2, <2>1, <2>2, ExpireSound
<1>3. CASE a.grant # 0 /\ ~GrantTerminal(a.status) /\ ~lost /\ evidence = "healthy" /\ ~c
  <2> DEFINE b == [a EXCEPT !.retries = @ + 1]
  <2>1. Revalidate(a, evidence, madeUp) = b
    BY <1>3 DEF Revalidate, Retried
  <2>2. a.retries + 1 \in 0 .. MaxRetries /\ a \in Account
    BY <1>3, Fields DEF Sound, RetriesSpent
  <2>3. /\ b \in Account /\ b.status = a.status /\ b.cohort = a.cohort /\ b.target = a.target
        /\ b.started = a.started /\ b.active = a.active /\ b.epoch = a.epoch
        /\ b.grant = a.grant /\ b.shares = a.shares /\ b.buy = a.buy /\ b.sell = a.sell
        /\ b.entered = a.entered /\ b.generation = a.generation
    BY <2>2 DEF Account
  <2> HIDE DEF b
  <2>4. Counted(b)
    BY <2>3, CountedKept
  <2> QED
    BY <2>1, <2>3, <2>4 DEF Sound, Sized, Numbered, Pointed, Owning, Untouched, Earned
<1>4. CASE a.grant # 0 /\ ~GrantTerminal(a.status) /\ ~lost /\ ~(evidence = "healthy" /\ ~c)
  BY <1>4 DEF Revalidate, Retried
<1> QED
  BY <1>1, <1>2, <1>3, <1>4

\* A new grant takes the place of one whose epoch is terminal.
LEMMA FormSound ==
    ASSUME NEW a, Sound(a), CanForm(a), ~Unsettled(a), NEW quorum \in Quorums
    PROVE  Sound(Form(a, quorum)) /\ Form(a, quorum).grant = a.grant + 1
<1> DEFINE g == a.grant + 1
           e == [a.epoch EXCEPT ![g] = "PROBE"]
           b == [a EXCEPT !.grant = g, !.status = "QUALIFIED", !.quorum = quorum,
                          !.retries = 0, !.epoch = e,
                          !.cohort = TRUE, !.target = TRUE, !.started = FALSE]
<1> USE GrantAssumption
<1>1. /\ a \in Account /\ a.grant \in Nat /\ g \in Grants /\ g \in Nat /\ a.active = 0
      /\ g \in 0 .. MaxGrants /\ "QUALIFIED" \in Statuses /\ 0 \in 0 .. MaxRetries
      /\ quorum # "none"
  BY Fields DEF Sound, CanForm, Grants, Statuses, Quorums
<1>2. Form(a, quorum) = b
  BY <1>1 DEF Form
<1>3. e \in [Grants -> EpochStatuses]
  BY <1>1, Fields DEF EpochStatuses
<1>4. /\ b \in Account /\ b.status = "QUALIFIED" /\ b.cohort = TRUE /\ b.target = TRUE
      /\ b.started = FALSE /\ b.active = a.active /\ b.epoch = e
      /\ b.grant = g /\ b.shares = a.shares /\ b.buy = a.buy /\ b.sell = a.sell
      /\ b.entered = a.entered /\ b.generation = a.generation
  <2> HIDE DEF e, g
  <2> QED
    BY <1>1, <1>3 DEF Account
<1>5. e[g] = "PROBE" /\ \A h \in Grants : h # g => e[h] = a.epoch[h]
  BY <1>1, Fields
<1>6. a.epoch[g] = "NONE"
  BY <1>1 DEF Sound, Numbered
<1>7. \A h \in Grants : h \in Nat /\ (h <= a.grant => EpochTerminal(a.epoch[h]))
  BY <1>1 DEF Sound, Numbered, Unsettled, Grants
<1> HIDE DEF e, b
<1>8. Sized(b)
  BY <1>4 DEF Sound, Sized
<1>9. Numbered(b)
  BY <1>1, <1>4, <1>5, <1>6, <1>7 DEF Sound, Numbered
<1>10. Pointed(b)
  BY <1>1, <1>4, <1>5, <1>6 DEF Sound, Pointed
<1>11. Owning(b)
  BY <1>1, <1>4, <1>5, <1>6 DEF Sound, Owning, EpochOpen
<1>12. Untouched(b)
  BY <1>4 DEF Untouched
<1>13. Earned(b)
  BY <1>1, <1>4, Fields DEF Sound, Earned, Deploying
<1>14. Counted(b)
  <2>1. ~a.entered[g]
    BY <1>1, <1>6 DEF Sound, Owning
  <2> QED
    BY <1>4, <2>1, CountedKept
<1> QED
  BY <1>2, <1>4, <1>8, <1>9, <1>10, <1>11, <1>12, <1>13, <1>14 DEF Sound

\* The capital owner is the epoch of the current grant.
LEMMA Owner ==
    ASSUME NEW a, Sound(a), a.active # 0
    PROVE  a.active = a.grant /\ a.grant \in Grants /\ a.epoch[a.grant] = "ACTIVE"
<1> USE GrantAssumption
<1>1. a.active \in Grants /\ a.active \in Nat /\ a.grant \in Nat /\ a.grant <= MaxGrants
  BY Fields DEF Sound, Grants
<1>2. a.epoch[a.active] = "ACTIVE"
  BY <1>1 DEF Sound, Pointed
<1> QED
  BY <1>1, <1>2 DEF Sound, Numbered, EpochTerminal, Grants

\* The cohort of the session goes on, or ends when its owner has left nothing.
LEMMA RunCohortSound ==
    ASSUME NEW a, Sound(a), NEW noticed \in BOOLEAN
    PROVE  LET b == RunCohort(a, noticed)
           IN Sound(b) /\ b.grant = a.grant /\ b.buy = a.buy
<1> DEFINE g == IF a.active # 0 THEN a.active ELSE a.grant
<1> USE GrantAssumption
<1>1. CASE ~a.cohort
  BY <1>1 DEF RunCohort
<1>2. CASE a.cohort /\ ~a.target
  <2>1. g = a.grant /\ a.grant # 0 /\ a.grant \in Grants
    BY <1>2, Owner, Fields DEF Sound, Owning, Grants
  <2>2. a.epoch[a.grant] # "PROBE"
    BY <1>2, <2>1 DEF Sound, Untouched
  <2>3. RunCohort(a, noticed) =
            IF Blocked(a, a.grant) THEN a ELSE Released(Settle(a, a.grant, FALSE))
    BY <1>2, <2>1 DEF RunCohort, CompleteEmpty
  <2> QED
    BY <2>1, <2>2, <2>3, SettleSound
<1>3. CASE a.cohort /\ a.target
  <2> DEFINE held == a.shares[a.grant] > 0
             s == a.started \/ (held /\ noticed)
             t == held \/ ~a.started
             b == [a EXCEPT !.started = s, !.target = t]
  <2>1. RunCohort(a, noticed) = b
    BY <1>3 DEF RunCohort, Member
  <2>2. /\ a \in Account /\ s \in BOOLEAN /\ t \in BOOLEAN
        /\ a.grant \in Grants /\ a.shares[a.grant] \in Nat
    BY <1>3, Fields, Entries DEF Sound, Owning, Grants
  <2>3. /\ b \in Account /\ b.status = a.status /\ b.cohort = a.cohort /\ b.target = t
        /\ b.started = s /\ b.active = a.active /\ b.epoch = a.epoch
        /\ b.grant = a.grant /\ b.shares = a.shares /\ b.buy = a.buy /\ b.sell = a.sell
        /\ b.entered = a.entered /\ b.generation = a.generation
    <3> HIDE DEF s, t
    <3> QED
      BY <2>2 DEF Account
  <2>4. \A h \in Grants : a.epoch[h] = "PROBE" => h = a.grant
    BY Current DEF EpochOpen
  <2>5. a.epoch[a.grant] = "PROBE" => ~held /\ ~a.started
    BY <2>2 DEF Sound, Owning, Untouched
  <2> HIDE DEF b
  <2>6. Untouched(b)
    BY <1>3, <2>3, <2>4, <2>5 DEF Sound, Untouched
  <2>7. Counted(b)
    BY <2>3, CountedKept
  <2> QED
    BY <2>1, <2>3, <2>6, <2>7 DEF Sound, Sized, Numbered, Pointed, Owning, Earned
<1> QED
  BY <1>1, <1>2, <1>3, Fields DEF Sound

\* What a decision leaves the grant with: a BUY only for an epoch that is open.
LEMMA BuysAfterSound ==
    ASSUME NEW a, Sound(a), a.grant # 0, NEW freeze \in BOOLEAN,
           NEW buy \in BuysAfter(a, a.grant, freeze)
    PROVE  /\ buy \in [state : BuyStates, filled : 0 .. MaxShares, left : 0 .. MaxShares]
           /\ a.shares[a.grant] + buy.left <= MaxShares
           /\ buy.filled + buy.left <= MaxShares
           /\ buy.state # "none" => EpochOpen(a.epoch[a.grant])
<1> DEFINE g == a.grant
           b == a.buy[g]
<1> USE GrantAssumption
<1>1. /\ a \in Account /\ g \in Grants
      /\ b \in [state : BuyStates, filled : 0 .. MaxShares, left : 0 .. MaxShares]
      /\ a.shares[g] \in Nat /\ a.shares[g] <= MaxShares
  <2>1. a \in Account /\ g \in Grants
    BY Fields DEF Sound, Grants
  <2> QED
    BY <2>1, Fields, Entries
<1>2. CASE buy = b
  BY <1>1, <1>2 DEF Sound, Sized, Owning
<1>3. CASE b.state = "pending" /\ buy = [b EXCEPT !.state = "frozen"]
  BY <1>1, <1>3 DEF Sound, Sized, Owning, BuyStates
<1>4. CASE buy = NoBuy
  BY <1>1, <1>4 DEF NoBuy, BuyStates
<1>5. CASE MayBuy(a) /\ buy \in Fresh(a, g)
  <2>1. EpochOpen(a.epoch[g])
    BY <1>5 DEF Sound, Owning, MayBuy
  <2>2. PICK n \in 1 .. (MaxShares - a.shares[g]) :
           buy = [state |-> "pending", filled |-> 0, left |-> n]
    BY <1>5 DEF Fresh
  <2> QED
    BY <1>1, <2>1, <2>2 DEF BuyStates
<1> QED
  BY <1>2, <1>3, <1>4, <1>5 DEF BuysAfter

\* The orders of the decision keep the account sound.
LEMMA OrderedSound ==
    ASSUME NEW a, Sound(a), a.grant # 0, NEW freeze \in BOOLEAN,
           NEW buy \in BuysAfter(a, a.grant, freeze), NEW sell \in BOOLEAN,
           sell => a.shares[a.grant] > 0
    PROVE  LET b == Ordered(a, a.grant, buy, sell)
           IN Sound(b) /\ b.grant = a.grant /\ (a.status = "EXPIRED" => b.status = "EXPIRED")
<1> DEFINE g == a.grant
           buys == [a.buy EXCEPT ![g] = buy]
           sells == [a.sell EXCEPT ![g] = sell]
           shorts == [a.short EXCEPT ![g] = @ \/ EndsShort(a.buy[g], buy)]
           st == IF a.status = "QUALIFIED" /\ buy.state = "pending"
                 THEN "PENDING_EXECUTION" ELSE a.status
           b == [a EXCEPT !.buy = buys, !.sell = sells, !.short = shorts, !.status = st]
<1> USE GrantAssumption
<1>1. a \in Account /\ g \in Grants
  BY Fields DEF Sound, Grants
<1>2. /\ buy \in [state : BuyStates, filled : 0 .. MaxShares, left : 0 .. MaxShares]
      /\ a.shares[g] + buy.left <= MaxShares
      /\ buy.filled + buy.left <= MaxShares
      /\ buy.state # "none" => EpochOpen(a.epoch[g])
  BY BuysAfterSound
<1>3. Ordered(a, g, buy, sell) = b
  BY DEF Ordered
<1>4. /\ buys \in [Grants -> [state : BuyStates, filled : 0 .. MaxShares,
                              left : 0 .. MaxShares]]
      /\ sells \in [Grants -> BOOLEAN] /\ st \in Statuses
  BY <1>1, <1>2, Fields DEF Statuses
<1>5. shorts \in [Grants -> BOOLEAN]
  BY <1>1, Fields DEF EndsShort
<1>6. /\ b \in Account /\ b.status = st /\ b.cohort = a.cohort /\ b.target = a.target
      /\ b.started = a.started /\ b.active = a.active /\ b.epoch = a.epoch
      /\ b.grant = g /\ b.shares = a.shares /\ b.buy = buys /\ b.sell = sells
      /\ b.entered = a.entered /\ b.generation = a.generation
  <2> HIDE DEF buys, sells, shorts, st
  <2> QED
    BY <1>1, <1>4, <1>5 DEF Account
<1>7. /\ buys[g] = buy /\ \A h \in Grants : h # g => buys[h] = a.buy[h]
      /\ sells[g] = sell /\ \A h \in Grants : h # g => sells[h] = a.sell[h]
  BY <1>1, Fields
<1>8. /\ (st = "NONE") <=> (a.status = "NONE")
      /\ (st = "EXPIRED") <=> (a.status = "EXPIRED")
      /\ Deploying(st) <=> Deploying(a.status)
  BY DEF Deploying
<1> HIDE DEF b, buys, sells, st
<1>9. Sized(b)
  BY <1>2, <1>6, <1>7 DEF Sound, Sized
<1>10. Owning(b)
  BY <1>2, <1>6, <1>7, <1>8 DEF Sound, Owning
<1>11. Numbered(b) /\ Pointed(b)
  BY <1>6, <1>8 DEF Sound, Numbered, Pointed
<1>12. Untouched(b) /\ Earned(b) /\ Counted(b)
  BY <1>6, <1>8, CountedKept DEF Sound, Untouched, Earned
<1> QED
  BY <1>3, <1>6, <1>8, <1>9, <1>10, <1>11, <1>12 DEF Sound

--------------------------------------------------------------------------------

\* A fill opens the epoch of the current grant, which is the only one that has a BUY.
LEMMA FillBuySound == ASSUME IInv, NEW g \in Grants, FillBuy(g)
                      PROVE  IInv' /\ (account.status = "EXPIRED" => account'.status = "EXPIRED")
<1> USE GrantAssumption
<1> DEFINE a == account
           n == a.buy[g].left
<1>1. /\ Sound(a) /\ a \in Account /\ a.buy[g].state # "none" /\ refused' \in BOOLEAN
  BY DEF IInv, Sound, FillBuy
<1>2. PICK s \in 1 .. n, later \in BOOLEAN :
         account' = FillStatus(Filled(a, g, s), g, later)
  BY DEF FillBuy
<1> DEFINE buy == Remaining(a.buy[g], s)
           shares == [a.shares EXCEPT ![g] = @ + s]
           buys == [a.buy EXCEPT ![g] = buy]
           e == [a.epoch EXCEPT ![g] = "ACTIVE"]
           d == [a.entered EXCEPT ![g] = TRUE]
           ends == ~GrantTerminal(a.status) /\ (a.quorum = "FULL_COHORT" \/ later)
           st == IF GrantTerminal(a.status) THEN a.status
                 ELSE IF ends THEN "COMPLETED" ELSE "PARTIALLY_FILLED"
           gen == IF ends THEN a.generation + 1 ELSE a.generation
           b == [a EXCEPT !.shares = shares, !.buy = buys, !.epoch = e, !.entered = d,
                          !.active = g, !.cohort = TRUE, !.status = st, !.generation = gen]
<1>3. EpochOpen(a.epoch[g]) /\ g = a.grant
  BY <1>1, Current DEF Sound, Owning
<1>4. account' = b
  <2> DEFINE c == [a EXCEPT !.shares = shares, !.buy = buys, !.epoch = e, !.entered = d,
                            !.active = g, !.cohort = TRUE]
  <2>1. account' = FillStatus(c, g, later)
    BY <1>2 DEF Filled
  <2>2. /\ c.grant = g /\ c.status = a.status /\ c.quorum = a.quorum
        /\ c.generation = a.generation
    <3> HIDE DEF shares, buys, e, d
    <3> QED
      BY <1>1, <1>3 DEF Account
  <2>3. b = [c EXCEPT !.status = st, !.generation = gen]
    OBVIOUS
  <2> HIDE DEF c, b
  <2>4. CASE GrantTerminal(a.status)
    BY <1>1, <2>1, <2>2, <2>3, <2>4 DEF FillStatus, c, b, Account
  <2>5. CASE ~GrantTerminal(a.status) /\ ends
    BY <2>1, <2>2, <2>3, <2>5 DEF FillStatus, c
  <2>6. CASE ~GrantTerminal(a.status) /\ ~ends
    BY <2>1, <2>2, <2>3, <2>6 DEF FillStatus, c
  <2> QED
    BY <2>4, <2>5, <2>6
<1>5. /\ buy \in [state : BuyStates, filled : 0 .. MaxShares, left : 0 .. MaxShares]
      /\ a.shares[g] + s \in 0 .. MaxShares
      /\ a.shares[g] + s + buy.left <= MaxShares
      /\ buy.filled + buy.left <= MaxShares
  <2>1. /\ a.buy[g] \in [state : BuyStates, filled : 0 .. MaxShares, left : 0 .. MaxShares]
        /\ a.shares[g] \in Nat /\ n \in Nat /\ s \in Nat /\ s > 0 /\ s <= n
        /\ a.shares[g] + n <= MaxShares /\ a.buy[g].filled + n <= MaxShares
    BY <1>1, Fields, Entries DEF Sound, Sized
  <2>2. CASE s = n
    BY <2>1, <2>2 DEF Remaining, NoBuy, BuyStates
  <2>3. CASE s # n
    <3> DEFINE f == a.buy[g].filled + s
               l == n - s
    <3>1. f \in 0 .. MaxShares /\ l \in 0 .. MaxShares /\ f + l = a.buy[g].filled + n
      BY <2>1
    <3>2. buy = [a.buy[g] EXCEPT !.filled = f, !.left = l]
      BY <2>3 DEF Remaining
    <3>3. buy.filled = f /\ buy.left = l /\ buy.state = a.buy[g].state
      BY <2>1, <3>2
    <3>4. buy \in [state : BuyStates, filled : 0 .. MaxShares, left : 0 .. MaxShares]
      <4> HIDE DEF f, l
      <4> QED
        BY <2>1, <3>1, <3>2
    <3> QED
      BY <2>1, <3>1, <3>3, <3>4
  <2> QED
    BY <2>2, <2>3
<1>6. Deploying(a.status) \/ GrantTerminal(a.status)
  BY <1>1, <1>3 DEF Sound, Numbered, Deploying, GrantTerminal, Grants
<1>7. /\ st \in Statuses /\ st # "NONE"
      /\ GrantTerminal(a.status) => st = a.status
      /\ ends => st = "COMPLETED"
  BY <1>1, <1>6, Fields DEF Statuses, GrantTerminal, Deploying
<1>8. gen \in 0 .. MaxGrants /\ gen + (IF Deploying(st) THEN 1 ELSE 0) <= a.grant
  <2>1. /\ a.generation \in Nat /\ a.grant \in Nat /\ a.grant <= MaxGrants
        /\ a.generation + (IF Deploying(a.status) THEN 1 ELSE 0) <= a.grant
    BY <1>1, Fields DEF Sound, Earned
  <2> QED
    BY <2>1, <1>6 DEF Deploying, GrantTerminal
<1>9. /\ shares \in [Grants -> 0 .. MaxShares] /\ d \in [Grants -> BOOLEAN]
      /\ buys \in [Grants -> [state : BuyStates, filled : 0 .. MaxShares, left : 0 .. MaxShares]]
      /\ e \in [Grants -> EpochStatuses] /\ g \in 0 .. MaxGrants
  BY <1>1, <1>3, <1>5, Fields DEF EpochStatuses
<1>10. /\ b \in Account /\ b.status = st /\ b.cohort = TRUE /\ b.target = a.target
       /\ b.started = a.started /\ b.active = g /\ b.epoch = e
       /\ b.grant = g /\ b.shares = shares /\ b.buy = buys /\ b.sell = a.sell
       /\ b.entered = d /\ b.generation = gen
  <2> HIDE DEF shares, buys, e, d, st, gen
  <2> QED
    BY <1>1, <1>3, <1>7, <1>8, <1>9 DEF Account
<1>11. /\ shares[g] = a.shares[g] + s /\ buys[g] = buy /\ e[g] = "ACTIVE" /\ d[g] = TRUE
       /\ \A h \in Grants : h # g => /\ shares[h] = a.shares[h] /\ buys[h] = a.buy[h]
                                     /\ e[h] = a.epoch[h] /\ d[h] = a.entered[h]
  BY <1>1, Fields
<1>12. \A h \in Grants : h # g => a.epoch[h] \notin {"PROBE", "ACTIVE"}
  BY <1>1, <1>3, Current DEF EpochOpen
<1> HIDE DEF b, shares, buys, buy, e, d, st, gen, a
<1>13. Sized(b)
  BY <1>1, <1>5, <1>10, <1>11 DEF Sound, Sized
<1>14. Numbered(b)
  <2>1. a.epoch[g] # "NONE" /\ g # 0
    BY <1>3 DEF EpochOpen, Grants
  <2> QED
    BY <1>1, <1>3, <1>7, <1>10, <1>11, <2>1 DEF Sound, Numbered
<1>15. Pointed(b)
  BY <1>10, <1>11, <1>12 DEF Pointed
<1>16. Owning(b)
  <2>1. g # 0
    BY DEF Grants
  <2> QED
    BY <1>1, <1>10, <1>11, <2>1 DEF Sound, Owning, EpochOpen
<1>17. Untouched(b) /\ Earned(b)
  BY <1>3, <1>8, <1>10, <1>11, <1>12 DEF Untouched, Earned
<1>18. Counted(b)
  <2>1. CASE ends
    <3> DEFINE S == Earners(a)
    <3>1. Deploying(a.status) /\ ~Deploying(b.status) /\ b.generation = a.generation + 1
      BY <1>6, <1>7, <1>10, <2>1 DEF gen, Deploying
    <3>2. g \notin S /\ S \cup {g} \in SUBSET Earners(b) /\ Earners(b) \in SUBSET Grants
      BY <1>3, <1>10, <1>11, <3>1 DEF Earners
    <3>3. S \in SUBSET Grants
      BY DEF Earners
    <3>4. IsFiniteSet(S) /\ Cardinality(S) \in Nat
      BY <3>3, CountedSets
    <3>5. Cardinality(S \cup {g}) = Cardinality(S) + 1
      BY <3>2, <3>4, FS_AddElement
    <3>6. /\ Cardinality(S \cup {g}) <= Cardinality(Earners(b))
          /\ Cardinality(Earners(b)) \in Nat
      BY <3>2, CountedSets
    <3>7. a.generation \in Nat /\ a.generation <= Cardinality(S)
      BY <1>1, Fields DEF Sound, Counted
    <3> QED
      BY <3>1, <3>4, <3>5, <3>6, <3>7 DEF Counted
  <2>2. CASE ~ends
    <3> DEFINE S == Earners(a)
    <3>1. b.generation = a.generation /\ (Deploying(b.status) <=> Deploying(a.status))
      BY <1>6, <1>7, <1>10, <2>2 DEF gen, st, Deploying, GrantTerminal
    <3>2. S \in SUBSET Earners(b) /\ Earners(b) \in SUBSET Grants
      BY <1>3, <1>10, <1>11, <3>1 DEF Earners
    <3>3. /\ Cardinality(S) <= Cardinality(Earners(b)) /\ Cardinality(S) \in Nat
          /\ Cardinality(Earners(b)) \in Nat
      BY <3>2, CountedSets
    <3>4. a.generation \in Nat /\ a.generation <= Cardinality(S)
      BY <1>1, Fields DEF Sound, Counted
    <3> QED
      BY <3>1, <3>3, <3>4 DEF Counted
  <2> QED
    BY <2>1, <2>2
<1>19. Sound(b)
  BY <1>10, <1>13, <1>14, <1>15, <1>16, <1>17, <1>18 DEF Sound
<1> QED
  BY <1>1, <1>4, <1>7, <1>10, <1>19 DEF IInv, GrantTerminal, a

\* Orders that end and shares that leave disturb only the sizes.
LEMMA LeaveSound ==
    ASSUME NEW a, Sound(a), NEW g \in Grants,
           NEW shares \in 0 .. a.shares[g], NEW sell \in BOOLEAN, sell => a.sell[g],
           NEW buy \in {a.buy[g], NoBuy}, NEW short \in BOOLEAN
    PROVE  Sound([a EXCEPT !.shares[g] = shares, !.sell[g] = sell, !.buy[g] = buy,
                           !.short[g] = short])
<1> DEFINE n == [a.shares EXCEPT ![g] = shares]
           l == [a.sell EXCEPT ![g] = sell]
           y == [a.buy EXCEPT ![g] = buy]
           t == [a.short EXCEPT ![g] = short]
           b == [a EXCEPT !.shares = n, !.sell = l, !.buy = y, !.short = t]
<1> USE GrantAssumption
<1>1. /\ a \in Account /\ shares \in Nat /\ a.shares[g] \in Nat /\ shares <= a.shares[g]
      /\ shares <= MaxShares
      /\ a.buy[g] \in [state : BuyStates, filled : 0 .. MaxShares, left : 0 .. MaxShares]
  BY Fields, Entries DEF Sound
<1>2. /\ n \in [Grants -> 0 .. MaxShares] /\ l \in [Grants -> BOOLEAN]
      /\ t \in [Grants -> BOOLEAN]
  BY <1>1, Fields
<1>3. y \in [Grants -> [state : BuyStates, filled : 0 .. MaxShares, left : 0 .. MaxShares]]
  <2>1. buy \in [state : BuyStates, filled : 0 .. MaxShares, left : 0 .. MaxShares]
    BY <1>1 DEF NoBuy, BuyStates
  <2> QED
    BY <1>1, <2>1, Fields
<1>4. /\ b \in Account /\ b.status = a.status /\ b.cohort = a.cohort /\ b.target = a.target
      /\ b.started = a.started /\ b.active = a.active /\ b.epoch = a.epoch
      /\ b.grant = a.grant /\ b.shares = n /\ b.buy = y /\ b.sell = l
      /\ b.entered = a.entered /\ b.generation = a.generation
  <2> HIDE DEF n, l, y, t
  <2> QED
    BY <1>1, <1>2, <1>3 DEF Account
<1>5. /\ n[g] = shares /\ l[g] = sell /\ y[g] = buy
      /\ \A h \in Grants : h # g => n[h] = a.shares[h] /\ l[h] = a.sell[h] /\ y[h] = a.buy[h]
  BY <1>1, Fields
<1>6. a.shares[g] + a.buy[g].left <= MaxShares /\ a.buy[g].filled + a.buy[g].left <= MaxShares
  BY DEF Sound, Sized
<1>7. /\ shares + buy.left <= MaxShares /\ buy.filled + buy.left <= MaxShares
      /\ buy.state # "none" => a.buy[g].state # "none"
  <2>1. CASE buy = a.buy[g]
    BY <1>1, <1>6, <2>1
  <2>2. CASE buy = NoBuy
    BY <1>1, <2>2 DEF NoBuy
  <2> QED
    BY <2>1, <2>2
<1> HIDE DEF b, n, l, y, t
<1>8. Sized(b)
  BY <1>4, <1>5, <1>7 DEF Sound, Sized
<1>9. Owning(b)
  BY <1>1, <1>4, <1>5, <1>7 DEF Sound, Owning
<1>10. Numbered(b) /\ Pointed(b) /\ Untouched(b) /\ Earned(b) /\ Counted(b)
  BY <1>4, CountedKept DEF Sound, Numbered, Pointed, Untouched, Earned
<1>11. Sound(b)
  BY <1>4, <1>8, <1>9, <1>10 DEF Sound
<1> QED
  BY <1>11 DEF b, n, l, y, t

\* The steps of the broker, the auction and the positions.
LEMMA OutsideSound ==
    ASSUME IInv, NEW g \in Grants,
           FillBuy(g) \/ FillSell(g) \/ EndBuy(g) \/ EndSell(g) \/ Deficit(g)
    PROVE  /\ IInv' /\ (account.status = "EXPIRED" => account'.status = "EXPIRED")
           /\ refused' = refused
<1> DEFINE a == account
           Left(shares, sell, buy, short) ==
               [a EXCEPT !.shares[g] = shares, !.sell[g] = sell, !.buy[g] = buy,
                         !.short[g] = short]
<1> USE GrantAssumption
<1>1. /\ Sound(a) /\ a \in Account /\ a.shares[g] \in Nat
      /\ a.sell[g] \in BOOLEAN /\ a.short[g] \in BOOLEAN
  BY Entries DEF IInv, Sound
<1>2. ASSUME NEW shares \in 0 .. a.shares[g], NEW sell \in BOOLEAN, sell => a.sell[g],
             NEW buy \in {a.buy[g], NoBuy}, NEW short \in BOOLEAN
      PROVE  Sound(Left(shares, sell, buy, short)) /\ Left(shares, sell, buy, short).status = a.status
  <2>1. Sound(Left(shares, sell, buy, short))
    BY <1>1, <1>2, LeaveSound
  <2>2. Left(shares, sell, buy, short).status = a.status
    BY <1>1 DEF Account
  <2> QED
    BY <2>1, <2>2
<1>3. CASE FillBuy(g)
  BY <1>3, FillBuySound DEF FillBuy
<1>4. CASE FillSell(g)
  <2>1. PICK s \in 1 .. a.shares[g], done \in BOOLEAN :
           account' = [a EXCEPT !.shares[g] = @ - s, !.sell[g] = ~done]
    BY <1>4 DEF FillSell
  <2>2. account' = Left(a.shares[g] - s, ~done, a.buy[g], a.short[g])
    BY <1>1, <2>1, Fields DEF Account
  <2>3. a.shares[g] - s \in 0 .. a.shares[g] /\ (~done) \in BOOLEAN
    BY <1>1
  <2>4. a.sell[g] /\ refused' = refused
    BY <1>4 DEF FillSell
  <2> HIDE DEF Left
  <2>5. Sound(account') /\ account'.status = a.status
    BY <1>1, <1>2, <2>2, <2>3, <2>4
  <2> QED
    BY <2>4, <2>5 DEF IInv
<1>5. CASE EndBuy(g)
  <2>1. account' = Left(a.shares[g], a.sell[g], NoBuy, a.short[g] \/ a.buy[g].filled > 0)
    BY <1>1, <1>5, Fields DEF EndBuy, Account
  <2>2. (a.short[g] \/ a.buy[g].filled > 0) \in BOOLEAN /\ a.shares[g] \in 0 .. a.shares[g]
    BY <1>1
  <2>3. refused' = refused
    BY <1>5 DEF EndBuy
  <2> HIDE DEF Left
  <2>4. Sound(account') /\ account'.status = a.status
    BY <1>1, <1>2, <2>1, <2>2
  <2> QED
    BY <2>3, <2>4 DEF IInv
<1>6. CASE EndSell(g)
  <2>1. account' = Left(a.shares[g], FALSE, a.buy[g], a.short[g])
    BY <1>1, <1>6, Fields DEF EndSell, Account
  <2>2. FALSE \in BOOLEAN /\ a.shares[g] \in 0 .. a.shares[g]
    BY <1>1
  <2>3. refused' = refused
    BY <1>6 DEF EndSell
  <2> HIDE DEF Left
  <2>4. Sound(account') /\ account'.status = a.status
    BY <1>1, <1>2, <2>1, <2>2
  <2> QED
    BY <2>3, <2>4 DEF IInv
<1>7. CASE Deficit(g)
  <2>1. PICK s \in 1 .. a.shares[g] : account' = [a EXCEPT !.shares[g] = @ - s]
    BY <1>7 DEF Deficit
  <2>2. account' = Left(a.shares[g] - s, a.sell[g], a.buy[g], a.short[g])
    BY <1>1, <2>1, Fields DEF Account
  <2>3. a.shares[g] - s \in 0 .. a.shares[g]
    BY <1>1
  <2>4. refused' = refused
    BY <1>7 DEF Deficit
  <2> HIDE DEF Left
  <2>5. Sound(account') /\ account'.status = a.status
    BY <1>1, <1>2, <2>2, <2>3
  <2> QED
    BY <2>4, <2>5 DEF IInv
<1> QED
  BY <1>3, <1>4, <1>5, <1>6, <1>7

--------------------------------------------------------------------------------

\* What the end of a decision keeps.
LEMMA ConcludedSound ==
    ASSUME NEW a, Sound(a), NEW freeze \in BOOLEAN, Concluded(a, freeze)
    PROVE  /\ Sound(account') /\ account'.grant = a.grant
           /\ a.status = "EXPIRED" => account'.status = "EXPIRED"
<1>1. CASE a.grant = 0
  BY <1>1 DEF Concluded
<1>2. CASE a.grant # 0
  <2>1. PICK buy \in BuysAfter(a, a.grant, freeze), sell \in BOOLEAN :
           /\ sell => a.shares[a.grant] > 0
           /\ account' = Ordered(a, a.grant, buy, sell)
    BY <1>2 DEF Concluded
  <2> QED
    BY <1>2, <2>1, OrderedSound
<1> QED
  BY <1>1, <1>2

\* The cohort of an expired grant does not complete it.
LEMMA ExpiredStays ==
    ASSUME NEW a, Sound(a), a.status = "EXPIRED", NEW noticed \in BOOLEAN,
           Blocked(a, a.grant) \/ ~a.cohort
    PROVE  RunCohort(a, noticed).status = "EXPIRED"
<1>1. CASE ~a.cohort
  BY <1>1 DEF RunCohort
<1>2. CASE a.cohort /\ ~a.target
  <2>1. a.active # 0 => a.active = a.grant
    BY Owner
  <2> QED
    BY <1>2, <2>1 DEF RunCohort, CompleteEmpty
<1>3. CASE a.cohort /\ a.target
  BY <1>3 DEF RunCohort, Member, Sound, Account
<1> QED
  BY <1>1, <1>2, <1>3 DEF Sound, Account

\* A new grant is refused only while the broker owes an answer for the prior one.
LEMMA RefusalFrozen ==
    ASSUME NEW a, Sound(a), CanForm(a), Unsettled(a),
           a.status = "EXPIRED" => Blocked(a, a.grant) \/ EpochTerminal(a.epoch[a.grant])
    PROVE  a.buy[a.grant].state = "frozen"
<1> DEFINE g == a.grant
<1> USE GrantAssumption
<1>1. a \in Account /\ g \in Grants /\ g # 0 /\ ~EpochTerminal(a.epoch[g])
  BY Fields DEF Sound, Unsettled, Grants
<1>2. /\ a.active = 0 /\ ~a.cohort /\ ~(a.shares[g] > 0) /\ a.buy[g].state # "pending"
  BY <1>1 DEF CanForm
<1>3. a.epoch[g] # "ACTIVE"
  BY <1>1, <1>2 DEF Sound, Pointed
<1>4. a.epoch[g] # "NONE"
  BY <1>1 DEF Sound, Numbered, Grants
<1>5. a.epoch[g] = "PROBE"
  BY <1>1, <1>3, <1>4, Entries DEF EpochTerminal
<1>6. Blocked(a, g)
  BY <1>1, <1>2, <1>5 DEF Sound, Untouched
<1>7. ~a.sell[g]
  BY <1>1, <1>3 DEF Sound, Owning
<1> QED
  BY <1>1, <1>2, <1>6, <1>7, Entries DEF Blocked

\* A decision: the account stays sound, an expired grant stays expired, and a refusal has
\* the reason that RefusedUnanswered names.
LEMMA DecideSound ==
    ASSUME IInv, Decide
    PROVE  /\ IInv'
           /\ account.status = "EXPIRED" /\ account'.grant = account.grant
                 => account'.status = "EXPIRED"
           /\ refused' # refused => account.buy[account.grant].state = "frozen"
<1>1. PICK evidence \in Evidence : DecideOn(evidence)
  BY DEF Decide
<1>2. PICK freeze \in BOOLEAN, madeUp \in MadeUp(account) :
        LET checked == Revalidate(account, evidence, madeUp)
            settled == SettleTerminal(checked)
        IN \/ /\ checked.status # account.status
              /\ UNCHANGED refused /\ Concluded(checked, freeze)
           \/ \E quorum \in Offers(settled), noticed \in BOOLEAN :
                   IF quorum # "none" /\ Unsettled(settled)
                   THEN refused' = TRUE /\ UNCHANGED account
                   ELSE /\ UNCHANGED refused
                        /\ Concluded(RunCohort(Form(settled, quorum), noticed), freeze)
  BY <1>1 DEF DecideOn
<1> DEFINE a == account
           checked == Revalidate(a, evidence, madeUp)
           settled == SettleTerminal(checked)
<1>3. /\ Sound(a) /\ Sound(checked) /\ checked.grant = a.grant /\ checked.buy = a.buy
      /\ a.status = "EXPIRED" => checked.status = "EXPIRED"
  <2>1. madeUp \in BOOLEAN
    BY <1>2 DEF MadeUp
  <2> QED
    BY <2>1, RevalidateSound DEF IInv
<1>4. /\ Sound(settled) /\ settled.grant = a.grant /\ settled.buy = a.buy
      /\ a.status = "EXPIRED" => settled.status = "EXPIRED"
      /\ settled.status = "EXPIRED" =>
            \/ Blocked(settled, settled.grant)
            \/ ~settled.cohort /\ EpochTerminal(settled.epoch[settled.grant])
  BY <1>3, SettleTerminalSound
<1>5. refused \in BOOLEAN
  BY DEF IInv
<1> HIDE DEF checked, settled
<1>6. CASE UNCHANGED refused /\ Concluded(checked, freeze)
  BY <1>3, <1>5, <1>6, ConcludedSound DEF IInv
<1>7. CASE \E quorum \in Offers(settled), noticed \in BOOLEAN :
                   IF quorum # "none" /\ Unsettled(settled)
                   THEN refused' = TRUE /\ UNCHANGED account
                   ELSE /\ UNCHANGED refused
                        /\ Concluded(RunCohort(Form(settled, quorum), noticed), freeze)
  <2>1. PICK quorum \in Offers(settled), noticed \in BOOLEAN :
                   IF quorum # "none" /\ Unsettled(settled)
                   THEN refused' = TRUE /\ UNCHANGED account
                   ELSE /\ UNCHANGED refused
                        /\ Concluded(RunCohort(Form(settled, quorum), noticed), freeze)
    BY <1>7
  <2>2. CASE quorum # "none" /\ Unsettled(settled)
    <3>1. CanForm(settled)
      BY <2>2 DEF Offers
    <3>2. settled.buy[settled.grant].state = "frozen"
      BY <1>4, <2>2, <3>1, RefusalFrozen
    <3> QED
      BY <1>3, <1>4, <2>1, <2>2, <3>2 DEF IInv
  <2>3. CASE quorum = "none"
    <3> DEFINE run == RunCohort(settled, noticed)
    <3>1. UNCHANGED refused /\ Concluded(run, freeze)
      BY <2>1, <2>3 DEF Form
    <3>2. Sound(run) /\ run.grant = a.grant
      BY <1>4, RunCohortSound
    <3>3. a.status = "EXPIRED" => run.status = "EXPIRED"
      BY <1>4, ExpiredStays
    <3> HIDE DEF run
    <3> QED
      BY <1>5, <3>1, <3>2, <3>3, ConcludedSound DEF IInv
  <2>4. CASE quorum # "none" /\ ~Unsettled(settled)
    <3> DEFINE formed == Form(settled, quorum)
               run == RunCohort(formed, noticed)
    <3>1. UNCHANGED refused /\ Concluded(run, freeze)
      BY <2>1, <2>4
    <3>2. CanForm(settled) /\ quorum \in Quorums
      BY <2>4 DEF Offers
    <3>3. Sound(formed) /\ formed.grant = settled.grant + 1
      BY <1>4, <2>4, <3>2, FormSound
    <3> HIDE DEF formed
    <3>4. Sound(run) /\ run.grant = a.grant + 1
      BY <1>4, <3>3, RunCohortSound
    <3>5. a.grant + 1 # a.grant
      BY <1>3, Fields DEF Sound
    <3> HIDE DEF run
    <3> QED
      BY <1>5, <3>1, <3>4, <3>5, ConcludedSound DEF IInv
  <2> QED
    BY <2>2, <2>3, <2>4
<1> QED
  BY <1>2, <1>6, <1>7 DEF checked, settled

--------------------------------------------------------------------------------

\* The invariant holds in every reachable state: one owner of capital, whatever the order
\* of decisions, fills, freezes, answers, sales and deficits.
THEOREM Inductive == Spec => []IInv
<1>1. Init => IInv
  BY InitInv
<1>2. IInv /\ [Next]_vars => IInv'
  <2> SUFFICES ASSUME IInv, [Next]_vars PROVE IInv'
    OBVIOUS
  <2>1. CASE Decide
    BY <2>1, DecideSound
  <2>2. CASE \E g \in Grants : FillBuy(g) \/ FillSell(g) \/ EndBuy(g) \/ EndSell(g) \/ Deficit(g)
    BY <2>2, OutsideSound
  <2>3. CASE UNCHANGED vars
    BY <2>3 DEF vars, IInv
  <2> QED
    BY <2>1, <2>2, <2>3 DEF Next
<1> QED
  BY <1>1, <1>2, PTL DEF Spec

\* The account of grants, epochs and orders keeps its shape and its bounds.
THEOREM TypeCorrect == Spec => []TypeOK
<1>1. IInv => TypeOK
  BY Consequences
<1> QED
  BY <1>1, Inductive, PTL

\* One epoch owns the strategic capital, and positions and orders belong to it.
THEOREM OneOwner == Spec => []OwnerBound
<1>1. IInv => OwnerBound
  BY Consequences
<1> QED
  BY <1>1, Inductive, PTL

\* A BUY that can still be filled belongs to an epoch that accepts the fill.
THEOREM NoFillRefused == Spec => []FillsAdmitted
<1>1. IInv => FillsAdmitted
  BY Consequences
<1> QED
  BY <1>1, Inductive, PTL

\* An epoch that owned shares ends CLOSED, and no generation is counted twice.
THEOREM EndsCounted == Spec => []EntriesCounted
<1>1. IInv => EntriesCounted
  BY Consequences
<1> QED
  BY <1>1, Inductive, PTL

\* A grant that expired is not completed by what its orders and its cohort still do.
THEOREM ExpiredForGood == Spec => ExpiryFinal
<1>1. IInv /\ [Next]_vars =>
          [account.status = "EXPIRED" /\ account'.grant = account.grant
             => account'.status = "EXPIRED"]_vars
  <2> SUFFICES ASSUME IInv, [Next]_vars, account.status = "EXPIRED",
                      account'.grant = account.grant
               PROVE  account'.status = "EXPIRED"
    OBVIOUS
  <2>1. CASE Decide
    BY <2>1, DecideSound
  <2>2. CASE \E g \in Grants : FillBuy(g) \/ FillSell(g) \/ EndBuy(g) \/ EndSell(g) \/ Deficit(g)
    BY <2>2, OutsideSound
  <2>3. CASE UNCHANGED vars
    BY <2>3 DEF vars
  <2> QED
    BY <2>1, <2>2, <2>3 DEF Next
<1> QED
  BY <1>1, Inductive, PTL DEF Spec, ExpiryFinal

\* The formation of a grant raises only while a cancellation of the prior one is unanswered.
THEOREM RefusalsExplained == Spec => RefusedUnanswered
<1>1. IInv /\ [Next]_vars =>
          [refused' # refused => account.buy[account.grant].state = "frozen"]_vars
  <2> SUFFICES ASSUME IInv, [Next]_vars, refused' # refused
               PROVE  account.buy[account.grant].state = "frozen"
    OBVIOUS
  <2>1. CASE Decide
    BY <2>1, DecideSound
  <2>2. CASE \E g \in Grants : FillBuy(g) \/ FillSell(g) \/ EndBuy(g) \/ EndSell(g) \/ Deficit(g)
    BY <2>2, OutsideSound
  <2>3. CASE UNCHANGED vars
    BY <2>3 DEF vars
  <2> QED
    BY <2>1, <2>2, <2>3 DEF Next
<1> QED
  BY <1>1, Inductive, PTL DEF Spec, RefusedUnanswered

--------------------------------------------------------------------------------
(* The risk state (RiskState) *)

\* A cooldown runs in CRISIS only: it is what keeps a collapse in its course from ending it.
CoolsInCrisis == cooldown > 0 => risk = "CRISIS"

RiskInv == GuardHolds /\ CoolsInCrisis

--------------------------------------------------------------------------------
(* Helpers *)

GuardType == [active : BOOLEAN, age : 1 .. GuardSessions, repairs : 0 .. GuardConfirm - 1,
              shocks : SUBSET (1 .. ShockWindow - 1)]

\* The sector guard keeps its shape whatever a session shows it.
LEMMA GuardAfterType ==
    ASSUME RiskTypeOK, NEW o \in {"none", "shock", "repair"}, NEW diverging \in BOOLEAN
    PROVE  GuardAfter(o, diverging) \in GuardType
<1>1. /\ guard \in GuardType
      /\ GuardSessions \in Nat \ {0} /\ GuardConfirm \in Nat \ {0} /\ ShockWindow \in Nat \ {0}
    BY RiskAssumption DEF RiskTypeOK, GuardType
<1>2. GuardOn \in GuardType
    BY <1>1 DEF GuardOn, GuardType
<1>3. \A ages \in SUBSET (1 .. ShockWindow - 1) : GuardOff(ages) \in GuardType
    BY <1>1 DEF GuardOff, GuardType
<1>4. Aged(ShockAges(o)) \in SUBSET (1 .. ShockWindow - 1)
    <2>1. \A a \in ShockAges(o) : a \in Nat
        BY <1>1 DEF ShockAges, GuardType
    <2>2. QED  BY <1>1, <2>1 DEF Aged
<1>5. ASSUME NEW repairs \in Nat, ~(repairs >= GuardConfirm)
      PROVE  [GuardOn EXCEPT !.age = Lower(guard.age + 1, GuardSessions), !.repairs = repairs]
                 \in GuardType
    <2>1. guard.age \in 1 .. GuardSessions
        BY <1>1 DEF GuardType
    <2>2. Lower(guard.age + 1, GuardSessions) \in 1 .. GuardSessions
        BY <1>1, <2>1 DEF Lower
    <2>3. repairs \in 0 .. GuardConfirm - 1
        BY <1>1, <1>5
    <2>4. QED  BY <1>2, <2>2, <2>3 DEF GuardType
<1>6. CASE Triggered(o, diverging)
    BY <1>2, <1>6 DEF GuardAfter
<1>7. CASE ~Triggered(o, diverging) /\ ~guard.active
    BY <1>3, <1>4, <1>7 DEF GuardAfter
<1>8. CASE ~Triggered(o, diverging) /\ guard.active
    <2> DEFINE repairs == IF o = "repair" /\ guard.age >= GuardSessions THEN guard.repairs + 1 ELSE 0
    <2>1. repairs \in Nat
        BY <1>1 DEF GuardType
    <2>2. GuardAfter(o, diverging) =
              IF repairs >= GuardConfirm THEN GuardOff({})
              ELSE [GuardOn EXCEPT !.age = Lower(guard.age + 1, GuardSessions), !.repairs = repairs]
        BY <1>8 DEF GuardAfter
    <2> HIDE DEF repairs
    <2>3. QED  BY <1>3, <1>5, <2>1, <2>2
<1>9. QED  BY <1>6, <1>7, <1>8

\* What an assessment finds: sights and protections have their type.
LEMMA SightsType ==
    ASSUME NEW s \in Sights
    PROVE  s[1] \in {"none", "shock", "repair"} /\ s[2] \in BOOLEAN
<1>1. s \in {"none", "shock", "repair"} \X BOOLEAN
    <2>1. CASE Calm
        <3>1. PICK x \in {"none", "repair"} : s = <<x, FALSE>>
            BY <2>1 DEF Sights
        <3>2. QED  BY <3>1
    <2>2. CASE ~Calm
        BY <2>2 DEF Sights
    <2>3. QED  BY <2>1, <2>2
<1>2. QED  BY <1>1

\* A repair counts up by one at a time, and not at all while the guard is active.
LEMMA StreakShape ==
    ASSUME NEW seen, NEW g \in GuardType, NEW n \in Nat
    PROVE  Streak(seen, g, n) \in Nat /\ (g.active => Streak(seen, g, n) = 0)
BY DEF Streak

\* The age of a shock and the sessions since a recovery stay within what is compared.
LEMMA Ages ==
    ASSUME RiskTypeOK
    PROVE  /\ Older \in [age : 1 .. RearmDays, kind : {"plain", "incomplete", "backed"}]
           /\ \A kind \in {"plain", "incomplete", "backed"} :
                 NewShock(kind) \in [age : 1 .. RearmDays, kind : {"plain", "incomplete", "backed"}]
           /\ Lower(recovered + 1, RecoveryDays) \in 1 .. RecoveryDays
           /\ 1 \in 1 .. RecoveryDays
           /\ last.kind \in {"plain", "incomplete", "backed"}
<1>1. /\ last \in [age : 1 .. RearmDays, kind : {"plain", "incomplete", "backed"}]
      /\ recovered \in 1 .. RecoveryDays
      /\ RearmDays \in Nat \ {0} /\ RecoveryDays \in Nat \ {0}
    BY RiskAssumption DEF RiskTypeOK
<1>2. Lower(last.age + 1, RearmDays) \in 1 .. RearmDays
    BY <1>1 DEF Lower
<1>3. Lower(recovered + 1, RecoveryDays) \in 1 .. RecoveryDays
    BY <1>1 DEF Lower
<1>4. QED  BY <1>1, <1>2, <1>3 DEF Older, NewShock

\* Every budget of a crisis is a part of the gross.
LEMMA CrisisCapsType ==
    ASSUME NEW sev \in Severities
    PROVE  \A c \in CrisisCaps(sev) : c \in 0 .. MaxGross
BY DEF CrisisCaps, Severities, MaxGross, RiskOffGross

LEMMA TransitionCapsType ==
    ASSUME NEW state \in States, NEW sev \in Severities, NEW forced \in BOOLEAN,
           NEW c \in TransitionCaps(state, sev, forced)
    PROVE  c \in 0 .. MaxGross
<1> DEFINE caps == CASE state = "RISK_OFF" -> {RiskOffGross}
                     [] state = "CRISIS" -> CrisisCaps(sev)
                     [] OTHER -> {MaxGross}
<1>1. \A x \in caps : x \in 0 .. MaxGross
    <2>1. CASE state = "RISK_OFF"
        BY <2>1 DEF RiskOffGross, MaxGross
    <2>2. CASE state = "CRISIS"
        BY <2>2, CrisisCapsType
    <2>3. CASE state \notin {"RISK_OFF", "CRISIS"}
        BY <2>3 DEF MaxGross
    <2>4. QED  BY <2>1, <2>2, <2>3
<1>2. c \in caps \/ \E x \in caps : c = Lower(x, GuardGross)
    BY DEF TransitionCaps
<1> HIDE DEF caps
<1>3. QED  BY <1>1, <1>2 DEF Lower, GuardGross, MaxGross

--------------------------------------------------------------------------------
(* Each way an assessment ends *)

LEMMA EvacuateInv ==
    ASSUME RiskInv, NEW p \in Protections, NEW s \in Sights, Evacuate(p, s[1], s[2]),
           calm' \in 0 .. 2
    PROVE  RiskInv'
<1>1. RiskTypeOK /\ CoolsInCrisis
    BY DEF RiskInv, GuardHolds
<1>2. /\ s[1] \in {"none", "shock", "repair"} /\ s[2] \in BOOLEAN
    BY SightsType
<1>3. PICK broken \in BOOLEAN :
          /\ risk' = (IF risk = "CRISIS" \/ broken THEN "CRISIS" ELSE "RISK_OFF")
          /\ severity' \in {"CONCENTRATED", severity}
          /\ recovered' \in {1, Lower(recovered + 1, RecoveryDays)}
    BY DEF Evacuate, Record
<1>4. guard' \in GuardType
    <2>1. GuardOn \in GuardType
        BY RiskAssumption DEF GuardOn, GuardType
    <2>2. QED  BY <1>1, <1>2, <2>1, GuardAfterType DEF Evacuate
<1>5. /\ rights' \in BOOLEAN /\ book' \in {book, "carried"}
      /\ last' \in {NewShock("incomplete"), NewShock("plain")}
      /\ cap' = 0 /\ streaks' = [streaks EXCEPT !.concentrated = 0]
      /\ UNCHANGED <<observed, cooldown>>
    BY DEF Evacuate, Capture
<1>6. streaks' \in [market : 0 .. NormalConfirm - 1, concentrated : 0 .. RepairConfirm - 1]
    BY <1>1, <1>5, RiskAssumption DEF RiskTypeOK
<1>7. risk' \in {"CRISIS", "RISK_OFF"} /\ (risk = "CRISIS" => risk' = "CRISIS")
    BY <1>3
<1>8. RiskTypeOK'
    <2>1. 0 \in 0 .. MaxGross /\ book' \in Books /\ severity' \in Severities
        BY <1>1, <1>3, <1>5 DEF RiskTypeOK, Books, Severities, MaxGross
    <2>2. risk' \in States
        BY <1>7 DEF States
    <2>3. QED  BY <1>1, <1>3, <1>4, <1>5, <1>6, <2>1, <2>2, Ages DEF RiskTypeOK, GuardType
<1>9. QED  BY <1>1, <1>5, <1>7, <1>8 DEF RiskInv, GuardHolds, CoolsInCrisis

LEMMA CoolInv ==
    ASSUME RiskInv, NEW s \in Sights, Cool(s[1], s[2]), calm' \in 0 .. 2
    PROVE  RiskInv'
<1>1. RiskTypeOK
    BY DEF RiskInv, GuardHolds
<1>2. guard' \in GuardType
    BY <1>1, SightsType, GuardAfterType DEF Cool
<1>3. cooldown' \in 0 .. CooldownDays
    BY <1>1, RiskAssumption DEF Cool, CoolingDown, RiskTypeOK
<1>4. /\ risk' = "CRISIS" /\ cap' = 0 /\ rights' = FALSE /\ last' = Older
      /\ recovered' = Lower(recovered + 1, RecoveryDays)
      /\ UNCHANGED <<severity, observed, streaks, book>>
    BY DEF Cool, NoRecord
<1>5. RiskTypeOK'
    <2>1. 0 \in 0 .. MaxGross /\ "CRISIS" \in States
        BY DEF MaxGross, States
    <2>2. QED  BY <1>1, <1>2, <1>3, <1>4, <2>1, Ages DEF RiskTypeOK, GuardType
<1>6. QED  BY <1>4, <1>5 DEF RiskInv, GuardHolds, CoolsInCrisis

LEMMA UnbackedWaitInv ==
    ASSUME RiskInv, NEW p \in Protections, NEW s \in Sights, UnbackedWait(p, s[1], s[2]),
           calm' \in 0 .. 2
    PROVE  RiskInv'
<1>1. RiskTypeOK /\ CoolsInCrisis
    BY DEF RiskInv, GuardHolds
<1>2. guard' \in GuardType
    BY <1>1, SightsType, GuardAfterType DEF UnbackedWait
<1>3. /\ risk = "CRISIS" /\ cap' = 0 /\ last' = Older
      /\ recovered' = Lower(recovered + 1, RecoveryDays)
      /\ UNCHANGED <<risk, rights, severity, observed, streaks, cooldown, book>>
    BY DEF UnbackedWait, Repairing, NoRecord
<1>4. RiskTypeOK'
    <2>1. 0 \in 0 .. MaxGross
        BY DEF MaxGross
    <2>2. QED  BY <1>1, <1>2, <1>3, <2>1, Ages DEF RiskTypeOK, GuardType
<1>5. QED  BY <1>3, <1>4 DEF RiskInv, GuardHolds, CoolsInCrisis

LEMMA RepairInv ==
    ASSUME RiskInv, NEW p \in Protections, NEW s \in Sights, Repair(p, s[1], s[2]),
           calm' \in 0 .. 2
    PROVE  RiskInv'
<1>1. RiskTypeOK /\ CoolsInCrisis
    BY DEF RiskInv, GuardHolds
<1> DEFINE g == GuardAfter(s[1], s[2])
<1>2. g \in GuardType
    BY <1>1, SightsType, GuardAfterType
<1>3. PICK m \in Repairs, rising \in Risings :
        LET market == Streak(m # "none", g, streaks.market)
            concentrated == Streak(rising, g, streaks.concentrated)
            byMarket == market >= IF m = "fast" THEN RepairConfirm ELSE NormalConfirm
            repaired == byMarket \/ concentrated >= RepairConfirm
        IN  /\ guard' = g
            /\ streaks' = [market |-> Lower(market, NormalConfirm - 1),
                           concentrated |-> IF byMarket THEN streaks.concentrated
                                            ELSE Lower(concentrated, RepairConfirm - 1)]
            /\ \/ repaired /\ risk' = "CAUTION" /\ cap' = MaxGross /\ Record("CAUTION")
               \/ ~repaired /\ UNCHANGED risk /\ cap' \in CrisisCaps(severity) /\ NoRecord
    BY DEF Repair
<1> DEFINE market == Streak(m # "none", g, streaks.market)
           concentrated == Streak(rising, g, streaks.concentrated)
           byMarket == market >= IF m = "fast" THEN RepairConfirm ELSE NormalConfirm
           repaired == byMarket \/ concentrated >= RepairConfirm
<1>4. /\ guard' = g
      /\ streaks' = [market |-> Lower(market, NormalConfirm - 1),
                     concentrated |-> IF byMarket THEN streaks.concentrated
                                      ELSE Lower(concentrated, RepairConfirm - 1)]
      /\ \/ repaired /\ risk' = "CAUTION" /\ cap' = MaxGross /\ Record("CAUTION")
         \/ ~repaired /\ UNCHANGED risk /\ cap' \in CrisisCaps(severity) /\ NoRecord
    BY <1>3
<1>5. /\ streaks \in [market : 0 .. NormalConfirm - 1, concentrated : 0 .. RepairConfirm - 1]
      /\ streaks.market \in Nat /\ streaks.concentrated \in 0 .. RepairConfirm - 1
      /\ streaks.concentrated \in Nat
    BY <1>1, RiskAssumption DEF RiskTypeOK
<1> HIDE DEF g
<1>6. /\ market \in Nat /\ concentrated \in Nat
      /\ g.active => market = 0 /\ concentrated = 0
    BY <1>2, <1>5, StreakShape
<1>7. g.active => ~repaired
    BY <1>6, RiskAssumption
<1> HIDE DEF market, concentrated
<1>8. streaks' \in [market : 0 .. NormalConfirm - 1, concentrated : 0 .. RepairConfirm - 1]
    <2>1. Lower(market, NormalConfirm - 1) \in 0 .. NormalConfirm - 1
        BY <1>6, RiskAssumption DEF Lower
    <2>2. Lower(concentrated, RepairConfirm - 1) \in 0 .. RepairConfirm - 1
        BY <1>6, RiskAssumption DEF Lower
    <2> HIDE DEF byMarket
    <2>3. (IF byMarket THEN streaks.concentrated ELSE Lower(concentrated, RepairConfirm - 1))
              \in 0 .. RepairConfirm - 1
        BY <1>5, <2>2
    <2>4. QED  BY <1>4, <2>1, <2>3
<1> HIDE DEF byMarket, repaired
<1>9. /\ risk = "CRISIS" /\ ~CoolingDown /\ last' = Older
      /\ UNCHANGED <<severity, rights, observed, cooldown, book>>
    BY DEF Repair, Repairing
<1>10. /\ risk' \in States /\ cap' \in 0 .. MaxGross
       /\ recovered' \in {1, Lower(recovered + 1, RecoveryDays)}
    <2>1. severity \in Severities
        BY <1>1 DEF RiskTypeOK
    <2>2. CASE repaired
        BY <1>4, <2>2 DEF Record, States, MaxGross
    <2>3. CASE ~repaired
        BY <1>4, <1>9, <2>1, <2>3, CrisisCapsType DEF NoRecord, States
    <2>4. QED  BY <2>2, <2>3
<1>11. RiskTypeOK'
    BY <1>1, <1>2, <1>4, <1>8, <1>9, <1>10, Ages DEF RiskTypeOK, GuardType
<1>12. guard'.active => risk' = "CRISIS"
    BY <1>4, <1>7, <1>9
<1>13. ~(cooldown' > 0)
    BY <1>9 DEF CoolingDown
<1>14. QED  BY <1>11, <1>12, <1>13 DEF RiskInv, GuardHolds, CoolsInCrisis

LEMMA BreakInv ==
    ASSUME RiskInv, NEW p \in Protections, NEW s \in Sights, Break(p, s[1], s[2]),
           calm' \in 0 .. 2
    PROVE  RiskInv'
<1>1. RiskTypeOK
    BY DEF RiskInv, GuardHolds
<1>2. guard' \in GuardType
    BY <1>1, SightsType, GuardAfterType DEF Break
<1>3. PICK k \in Breaks(p), n \in Normalizes(p) :
        /\ severity' \in BreakSeverities(k)
        /\ cap' \in CrisisCaps(severity')
        /\ IF k \in Failed THEN rights' = FALSE /\ book' = "carried"
                           ELSE Capture(p /\ ~n, TRUE)
        /\ cooldown' = IF k \in Failed THEN CooldownDays ELSE cooldown
        /\ last' = NewShock(CASE k = "backed_tail" -> "incomplete"
                              [] k \in {"market_relapse", "terminal_relapse"} -> "backed"
                              [] OTHER -> "plain")
    BY DEF Break
<1>4. severity' \in Severities
    BY <1>3 DEF BreakSeverities, Severities
<1>5. cap' \in 0 .. MaxGross
    BY <1>3, <1>4, CrisisCapsType
<1>6. rights' \in BOOLEAN /\ book' \in {book, "carried"}
    <2>1. CASE k \in Failed
        BY <1>3, <2>1
    <2>2. CASE k \notin Failed
        BY <1>3, <2>2 DEF Capture
    <2>3. QED  BY <2>1, <2>2
<1>7. cooldown' \in 0 .. CooldownDays
    BY <1>1, <1>3, RiskAssumption DEF RiskTypeOK
<1>8. last' \in {NewShock("incomplete"), NewShock("backed"), NewShock("plain")}
    <2>1. CASE k = "backed_tail"
        BY <1>3, <2>1
    <2>2. CASE k \in {"market_relapse", "terminal_relapse"}
        BY <1>3, <2>2
    <2>3. CASE k \notin {"backed_tail", "market_relapse", "terminal_relapse"}
        BY <1>3, <2>3
    <2>4. QED  BY <2>1, <2>2, <2>3
<1>9. /\ risk' = "CRISIS" /\ streaks' = [streaks EXCEPT !.concentrated = 0]
      /\ recovered' \in {1, Lower(recovered + 1, RecoveryDays)} /\ UNCHANGED observed
    BY DEF Break, Record
<1>10. streaks' \in [market : 0 .. NormalConfirm - 1, concentrated : 0 .. RepairConfirm - 1]
    BY <1>1, <1>9, RiskAssumption DEF RiskTypeOK
<1>11. RiskTypeOK'
    <2>1. risk' \in States /\ book' \in Books
        BY <1>1, <1>6, <1>9 DEF RiskTypeOK, States, Books
    <2>2. QED
        BY <1>1, <1>2, <1>4, <1>5, <1>6, <1>7, <1>8, <1>9, <1>10, <2>1, Ages
        DEF RiskTypeOK, GuardType
<1>12. QED  BY <1>9, <1>11 DEF RiskInv, GuardHolds, CoolsInCrisis

\* The states that evidence shows and that a transition confirms are states of the account.
LEMMA Confirmable ==
    ASSUME RiskTypeOK, NEW p, NEW n, NEW view \in Views(p, n)
    PROVE  /\ Seen(view) \in States /\ Times(view) \in Nat \ {0}
           /\ Confirmed(view) \in {Seen(view), risk}
<1>1. view \in {"NORMAL", "CAUTION", "RISK_OFF", "narrow", "CRISIS"}
    BY DEF Views
<1>2. Seen(view) \in States
    BY <1>1 DEF Seen, States
<1>3. observed.times \in Nat
    BY RiskAssumption DEF RiskTypeOK
<1>4. Times(view) \in Nat \ {0}
    BY <1>3 DEF Times
<1>5. QED  BY <1>2, <1>4 DEF Confirmed

\* What a transition does with the view it confirms (resolve_risk_transition).
Resolution(p, n, view, g) ==
    LET confirmed == Confirmed(view)
        forced == g.active /\ confirmed # "CRISIS"
        state == Guarded(confirmed, g)
    IN  /\ risk' = state
        /\ observed' = [state |-> Seen(view), times |-> Lower(Times(view), NormalConfirm - 1)]
        /\ guard' = g
        /\ IF state = "CRISIS" /\ risk # "CRISIS"
           THEN /\ severity' \in {"MARKET", "CONCENTRATED"}
                /\ Capture(p /\ ~n, FALSE)
                /\ last' = NewShock("plain")
           ELSE /\ severity' = IF n THEN "MARKET" ELSE severity
                /\ rights' = (Kept(p) /\ ~n)
                /\ last' = Older
                /\ UNCHANGED book
        /\ cap' \in TransitionCaps(state, severity', forced)
        /\ Recorded(state)

LEMMA ResolveInv ==
    ASSUME RiskInv, NEW p \in Protections, NEW s \in Sights, Resolve(p, s[1], s[2]),
           calm' \in 0 .. 2
    PROVE  RiskInv'
<1> DEFINE g == GuardAfter(s[1], s[2])
<1>1. RiskTypeOK
    BY DEF RiskInv, GuardHolds
<1>2. g \in GuardType
    BY <1>1, SightsType, GuardAfterType
<1> HIDE DEF g
<1>3. PICK n \in Normalizes(p) : \E view \in Views(p, n) : Resolution(p, n, view, g)
    BY DEF Resolve, Resolution, g
<1>4. PICK view \in Views(p, n) : Resolution(p, n, view, g)
    BY <1>3
<1> DEFINE confirmed == Confirmed(view)
           forced == g.active /\ confirmed # "CRISIS"
           state == Guarded(confirmed, g)
<1>5. /\ Seen(view) \in States /\ Times(view) \in Nat \ {0}
      /\ confirmed \in States
    BY <1>1, Confirmable DEF RiskTypeOK
<1> HIDE DEF confirmed
<1>6. state \in States /\ (g.active => state \in {"RISK_OFF", "CRISIS"})
    BY <1>5 DEF Guarded, States
<1>7. /\ risk' = state /\ guard' = g
      /\ observed' = [state |-> Seen(view), times |-> Lower(Times(view), NormalConfirm - 1)]
      /\ cap' \in TransitionCaps(state, severity', forced)
      /\ recovered' \in {1, Lower(recovered + 1, RecoveryDays)}
    BY <1>4 DEF Resolution, Recorded, Record, NoRecord, confirmed
<1>8. /\ severity' \in {"MARKET", "CONCENTRATED", severity}
      /\ rights' \in BOOLEAN /\ book' \in {book, "carried"}
      /\ last' \in {NewShock("plain"), Older}
    <2>1. CASE state = "CRISIS" /\ risk # "CRISIS"
        BY <1>4, <2>1 DEF Resolution, Capture, confirmed
    <2>2. CASE ~(state = "CRISIS" /\ risk # "CRISIS")
        <3>1. /\ severity' = IF n THEN "MARKET" ELSE severity
              /\ rights' = (Kept(p) /\ ~n) /\ last' = Older /\ UNCHANGED book
            BY <1>4, <2>2 DEF Resolution, confirmed
        <3>2. QED  BY <3>1
    <2>3. QED  BY <2>1, <2>2
<1> HIDE DEF state
<1>9. severity' \in Severities /\ book' \in Books
    BY <1>1, <1>8 DEF RiskTypeOK, Severities, Books
<1>10. forced \in BOOLEAN
    OBVIOUS
<1> HIDE DEF forced
<1>11. cap' \in 0 .. MaxGross
    BY <1>6, <1>7, <1>9, <1>10, TransitionCapsType
<1>12. observed' \in [state : States, times : 0 .. NormalConfirm - 1]
    <2>1. Lower(Times(view), NormalConfirm - 1) \in 0 .. NormalConfirm - 1
        BY <1>5, RiskAssumption DEF Lower
    <2>2. QED  BY <1>5, <1>7, <2>1
<1>13. UNCHANGED <<streaks, cooldown>> /\ ~CoolingDown
    BY DEF Resolve
<1>14. RiskTypeOK'
    BY <1>1, <1>2, <1>6, <1>7, <1>8, <1>9, <1>11, <1>12, <1>13, Ages DEF RiskTypeOK, GuardType
<1>15. guard'.active => risk' \in {"RISK_OFF", "CRISIS"}
    BY <1>6, <1>7
<1>16. ~(cooldown' > 0)
    BY <1>13 DEF CoolingDown
<1>17. QED  BY <1>14, <1>15, <1>16 DEF RiskInv, GuardHolds, CoolsInCrisis

--------------------------------------------------------------------------------
(* Theorems *)

LEMMA RiskInitInv == RiskInit => RiskInv
<1> SUFFICES ASSUME RiskInit PROVE RiskInv
    OBVIOUS
<1>1. GuardOff({}) \in GuardType /\ ~GuardOff({}).active
    BY RiskAssumption DEF GuardOff, GuardType
<1>2. RiskTypeOK
    <2>1. /\ 0 \in 0 .. NormalConfirm - 1 /\ 0 \in 0 .. RepairConfirm - 1
          /\ RearmDays \in 1 .. RearmDays /\ RecoveryDays \in 1 .. RecoveryDays
          /\ 0 \in 0 .. CooldownDays /\ 0 \in 0 .. 2
        BY RiskAssumption
    <2>2. observed \in [state : States, times : 0 .. NormalConfirm - 1]
        BY <2>1 DEF RiskInit, States
    <2>3. streaks \in [market : 0 .. NormalConfirm - 1, concentrated : 0 .. RepairConfirm - 1]
        BY <2>1 DEF RiskInit
    <2>4. last \in [age : 1 .. RearmDays, kind : {"plain", "incomplete", "backed"}]
        BY <2>1 DEF RiskInit
    <2>5. risk \in States /\ severity \in Severities /\ book \in Books
        BY DEF RiskInit, States, Severities, Books
    <2>6. cap \in 0 .. MaxGross
        BY DEF RiskInit, MaxGross
    <2>7. rights \in BOOLEAN
        BY DEF RiskInit
    <2>8. QED  BY <1>1, <2>1, <2>2, <2>3, <2>4, <2>5, <2>6, <2>7 DEF RiskInit, RiskTypeOK, GuardType
<1>3. QED  BY <1>1, <1>2 DEF RiskInit, RiskInv, GuardHolds, CoolsInCrisis

LEMMA RiskNextInv == RiskInv /\ [RiskNext]_riskVars => RiskInv'
<1> SUFFICES ASSUME RiskInv, [RiskNext]_riskVars PROVE RiskInv'
    OBVIOUS
<1>1. RiskTypeOK
    BY DEF RiskInv, GuardHolds
<1>2. CASE Assess
    <2>1. calm' \in 0 .. 2
        BY <1>1, <1>2 DEF Assess, Calm, RiskTypeOK
    <2>2. QED
        BY <1>2, <2>1, EvacuateInv, CoolInv, UnbackedWaitInv, RepairInv, BreakInv, ResolveInv
        DEF Assess, Evacuation, Cooldown, UnbackedStress, ProtectedRepair, ConfirmedBreak,
            Transition
<1>3. CASE Trade
    BY <1>1, <1>3 DEF Trade, RiskInv, GuardHolds, CoolsInCrisis, RiskTypeOK, Books
<1>4. CASE CalmDown
    BY <1>1, <1>4 DEF CalmDown, RiskInv, GuardHolds, CoolsInCrisis, RiskTypeOK
<1>5. CASE UNCHANGED riskVars
    BY <1>5 DEF riskVars, RiskInv, GuardHolds, CoolsInCrisis, RiskTypeOK
<1>6. QED  BY <1>2, <1>3, <1>4, <1>5 DEF RiskNext

\* In every behaviour the state satisfies the inductive invariant.
THEOREM RiskInductive == RiskSpec => []RiskInv
<1>1. QED  BY RiskInitInv, RiskNextInv, PTL DEF RiskSpec

\* While the sector guard is active no assessment leaves the account calmer than RISK_OFF
\* (_apply_sector_guard, assess_protected_recovery), and every count stays in its bounds.
THEOREM GuardAlwaysHolds == RiskSpec => []GuardHolds
<1>1. RiskInv => GuardHolds
    BY DEF RiskInv
<1>2. QED  BY <1>1, RiskInductive, PTL

\* Every session of a capital cooldown ends in CRISIS with nothing allowed, also one in which
\* an acute collapse is assessed before the cooldown (_capital_cooldown_assessment).
THEOREM CooldownIsServed == RiskSpec => CooldownServed
<1>1. ASSUME RiskInv, Assess, cooldown > 0 PROVE risk' = "CRISIS" /\ cap' = 0
    <2>1. risk = "CRISIS" /\ CoolingDown
        BY <1>1 DEF RiskInv, CoolsInCrisis, CoolingDown
    <2>2. CASE Evacuation
        BY <2>1, <2>2 DEF Evacuation, Evacuate
    <2>3. CASE Cooldown
        BY <2>3 DEF Cooldown, Cool
    <2>4. CASE UnbackedStress
        BY <2>1, <2>4 DEF UnbackedStress, UnbackedWait
    <2>5. CASE ProtectedRepair
        BY <2>1, <2>5 DEF ProtectedRepair, Repair
    <2>6. CASE ConfirmedBreak
        BY <2>1, <2>6 DEF ConfirmedBreak, Break
    <2>7. CASE Transition
        BY <2>1, <2>7 DEF Transition, Resolve
    <2>8. QED  BY <1>1, <2>2, <2>3, <2>4, <2>5, <2>6, <2>7 DEF Assess
<1>2. RiskInv => (Assess /\ cooldown > 0 => risk' = "CRISIS" /\ cap' = 0)
    BY <1>1
<1>3. QED  BY <1>2, RiskInductive, PTL DEF CooldownServed

\* A cut of the book that enters CRISIS and is no acute collapse follows a rearmed shock or a
\* recovery that has lasted (_shock_rearmed, assess_confirmed_concentrated_break).
THEOREM ShocksAreSpaced == RiskSpec => ShocksSpaced
<1>1. ASSUME RiskNext, risk # "CRISIS", risk' = "CRISIS", cap' > 0
      PROVE  Rearmed \/ recovered >= RecoveryDays
    <2>1. ~(0 > 0)
        OBVIOUS
    <2>2. CASE Assess
        <3>1. CASE Evacuation
            BY <1>1, <2>1, <3>1 DEF Evacuation, Evacuate
        <3>2. CASE Cooldown
            BY <1>1, <2>1, <3>2 DEF Cooldown, Cool
        <3>3. CASE UnbackedStress
            BY <1>1, <3>3 DEF UnbackedStress, UnbackedWait, Repairing
        <3>4. CASE ProtectedRepair
            BY <1>1, <3>4 DEF ProtectedRepair, Repair, Repairing
        <3>5. CASE ConfirmedBreak
            <4>1. PICK p \in Protections : Breaks(p) # {}
                BY <3>5 DEF ConfirmedBreak, Break
            <4>2. QED  BY <4>1 DEF Breaks, FirstBreakOpen
        <3>6. CASE Transition
            <4>1. PICK p \in Protections, s \in Sights : Resolve(p, s[1], s[2])
                BY <3>6 DEF Transition
            <4>2. PICK n \in Normalizes(p) : \E view \in Views(p, n) :
                      risk' = Guarded(Confirmed(view), GuardAfter(s[1], s[2]))
                BY <4>1 DEF Resolve
            <4>3. PICK view \in Views(p, n) :
                      risk' = Guarded(Confirmed(view), GuardAfter(s[1], s[2]))
                BY <4>2
            <4>4. Confirmed(view) = "CRISIS"
                BY <1>1, <4>3 DEF Guarded
            <4>5. Seen(view) = "CRISIS"
                BY <1>1, <4>4 DEF Confirmed
            <4>6. view = "CRISIS"
                BY <4>5 DEF Seen
            <4>7. FirstBreakOpen(p /\ ~n)
                BY <4>6 DEF Views
            <4>8. QED  BY <4>7 DEF FirstBreakOpen
        <3>7. QED  BY <2>2, <3>1, <3>2, <3>3, <3>4, <3>5, <3>6 DEF Assess
    <2>3. QED  BY <1>1, <2>2 DEF RiskNext, Trade, CalmDown
<1>2. [RiskNext]_riskVars => [risk # "CRISIS" /\ risk' = "CRISIS" /\ cap' > 0 =>
                         Rearmed \/ recovered >= RecoveryDays]_riskVars
    BY <1>1 DEF riskVars
<1>3. QED  BY <1>2, PTL DEF RiskSpec, ShocksSpaced

================================================================================
