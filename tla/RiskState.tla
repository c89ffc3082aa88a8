------------------------------- MODULE RiskState -------------------------------
(***************************************************************************)
(* The persistent risk state of the account (uquant/risk and               *)
(* uquant/risk_sector.py): NORMAL, CAUTION, RISK_OFF or CRISIS, the sector *)
(* guard, the protected rights of the last shock, the capital cooldown and *)
(* the streaks that confirm a change. One Assess step is one session:      *)
(* _assess_base_risk at its close.                                         *)
(*                                                                         *)
(* Prices and returns are seen only as the evidence the code draws from    *)
(* them, chosen freely within what the account allows: a break needs a     *)
(* book that holds something, a relapse a book that spans the last shock.  *)
(* The book is "flat", "carried" (a holding spans the last shock) or       *)
(* "fresh" (everything entered after it). Gross caps are percentages,      *)
(* before the capital overlays, which only lower them; the budgets of      *)
(* CAUTION and of a recovery stand with the full one. shock_state, a label *)
(* that no transition of the state reads, and the slower V route of a      *)
(* single protected name are left out.                                     *)
(*                                                                         *)
(* A count is kept as far as it can still matter: one short of the bound   *)
(* that the next session will compare it with.                             *)
(***************************************************************************)
EXTENDS Naturals, FiniteSets

CONSTANTS
    NormalConfirm,       \* recovery_risk_confirm_days
    RiskConfirm,         \* caution_confirm_days and risk_off_confirm_days
    RepairConfirm,       \* concentrated_repair_days and fast_v_recovery_confirm_days
    GuardShocks,         \* sector_shock_confirmations
    ShockWindow,         \* sector_shock_window
    GuardSessions,       \* sector_guard_min_sessions
    GuardConfirm,        \* sector_recovery_confirmations
    CooldownDays,        \* capital_guard_cooldown_days
    RearmDays,           \* shock_rearm_days
    IncompleteRearm,     \* incomplete_universe_rearm_days
    WaitDays,            \* severe_shock_wait_days
    RecoveryDays         \* capital_guard_min_recovery_days

ASSUME RiskAssumption ==
    /\ NormalConfirm \in Nat \ {0, 1} /\ RiskConfirm \in 1 .. NormalConfirm
    /\ RepairConfirm \in 1 .. NormalConfirm
    /\ GuardShocks \in Nat \ {0} /\ ShockWindow \in Nat \ {0}
    /\ GuardSessions \in Nat \ {0} /\ GuardConfirm \in Nat \ {0}
    /\ CooldownDays \in Nat \ {0} /\ RearmDays \in Nat \ {0}
    /\ IncompleteRearm \in 1 .. RearmDays /\ WaitDays \in 1 .. RearmDays
    /\ RecoveryDays \in Nat \ {0}

VARIABLES
    risk,           \* account.risk
    severity,       \* account.shock_severity, by what it means for caps and waits
    cap,            \* target_gross_cap of the last assessment
    observed,       \* the running risk_* streak: the state observed and how often
    streaks,        \* the repair streaks: market and concentrated
    guard,          \* the sector guard: active, its sessions, its repairs, recent shocks
    last,           \* the last shock: its age at the next session, and its kind
    rights,         \* account.protected_weights is not empty
    cooldown,       \* candidate_tenure["capital_guard_cooldown"]
    book,           \* the holdings, relative to the last shock
    recovered,      \* the age at the next session of the last event that left CRISIS
    calm            \* 0; from some day on, 1 and 2 by turns: the market repairs and nothing breaks

riskVars == <<risk, severity, cap, observed, streaks, guard, last, rights, cooldown, book,
          recovered, calm>>

Calm == calm > 0

States == {"NORMAL", "CAUTION", "RISK_OFF", "CRISIS"}
Books == {"flat", "carried", "fresh"}

\* SEVERE stands with CONCENTRATED; NORMAL and INCOMPLETE_UNIVERSE stand with MARKET.
Severities == {"MARKET", "CONCENTRATED", "COHORT_BREAK", "UNBACKED"}

MaxGross == 100
RiskOffGross == 66
GuardGross == 40

Lower(a, b) == IF a < b THEN a ELSE b

\* persistent_crisis_cap; a cohort break depends on a reserve.
CrisisCaps(sev) ==
    CASE sev = "UNBACKED" -> {0}
      [] sev = "COHORT_BREAK" -> {25, RiskOffGross}
      [] sev = "CONCENTRATED" -> {25}
      [] sev = "MARKET" -> {50}

--------------------------------------------------------------------------------
(* What one session finds in the account.                                  *)

\* protected_weights_for_current_episode is not empty: a protected holding spans the last shock,
\* or a strategic or recovery owner keeps its right without one. The allocator may drop rights.
Protections == {p \in BOOLEAN : p => rights}
Kept(p) == rights /\ (p \/ book # "carried")

\* Mutant of Rearmed: only a new book rearms, however long the wait.
RearmedByBook == book = "fresh"
\* _shock_rearmed. After an incomplete universe the wait is shorter.
Rearmed ==
    \/ last.age >= IF last.kind = "incomplete" THEN IncompleteRearm ELSE RearmDays
    \/ book = "fresh"

FirstBreaks == {"account", "reference", "cohort", "backed_tail", "unbacked_tail"}
Relapses == {"capital_relapse", "market_relapse", "terminal_relapse"}

\* Mutant of FirstBreakOpen: a break may follow a shock at once.
FirstBreakOpenEarly(p) == book # "flat" /\ ~p
\* What the first breaks share: holdings, no protected book, and a rearmed shock.
FirstBreakOpen(p) == book # "flat" /\ ~p /\ Rearmed

\* The breaks that may be confirmed.
Breaks(p) ==
    {k \in FirstBreaks : FirstBreakOpen(p)}
    \cup {k \in Relapses :
            /\ book = "carried" /\ p /\ recovered >= RecoveryDays
            /\ k # "capital_relapse" => risk = "CAUTION"
            /\ k = "market_relapse" => Rearmed
            /\ k = "terminal_relapse" => Rearmed \/ last.kind # "backed"}

--------------------------------------------------------------------------------
(* The sector guard: update_sector_guard.                                  *)

\* The ages of the shocks within the window. They are read while the guard is inactive and
\* cleared at its release, so none are kept while it is active.
ShockAges(o) == guard.shocks \cup (IF o = "shock" THEN {0} ELSE {})
Aged(ages) == {a + 1 : a \in {x \in ages : x + 1 < ShockWindow}}

Triggered(o, diverging) ==
    /\ ~guard.active
    /\ Cardinality(ShockAges(o)) >= GuardShocks
    /\ diverging

GuardOn == [active |-> TRUE, age |-> 1, repairs |-> 0, shocks |-> {}]
GuardOff(ages) == [active |-> FALSE, age |-> 1, repairs |-> 0, shocks |-> ages]

GuardAfter(o, diverging) ==
    IF Triggered(o, diverging) THEN GuardOn
    ELSE IF ~guard.active THEN GuardOff(Aged(ShockAges(o)))
    ELSE LET repairs == IF o = "repair" /\ guard.age >= GuardSessions THEN guard.repairs + 1 ELSE 0
         IN  IF repairs >= GuardConfirm THEN GuardOff({})
             ELSE [GuardOn EXCEPT !.age = Lower(guard.age + 1, GuardSessions), !.repairs = repairs]

\* The observation of the cohort and whether leadership diverges, where it makes a difference.
\* A calm session shows no shock, and repair of what the guard observes.
Sights ==
    IF Calm THEN {<<IF guard.active THEN "repair" ELSE "none", FALSE>>}
    ELSE {s \in {"none", "shock", "repair"} \X BOOLEAN : s[1] = "repair" => guard.active}

--------------------------------------------------------------------------------
(* What the paths of an assessment share.                                  *)

\* Another session passes without a shock.
Older == [last EXCEPT !.age = Lower(@ + 1, RearmDays)]
NewShock(kind) == [age |-> 1, kind |-> kind]

\* capture_protected_holdings: valid old rights and every holding, spanning the new shock; the
\* anchors of a recovery when there is nothing else.
Capture(p, anchors) ==
    /\ rights' \in IF p \/ book # "flat" THEN {TRUE} ELSE {FALSE, anchors}
    /\ book' = IF book = "flat" THEN book ELSE "carried"

\* An event of risk_events, and the sessions counted from the last one that left CRISIS.
Record(to) ==
    recovered' = IF risk = "CRISIS" /\ to # "CRISIS" THEN 1
                 ELSE Lower(recovered + 1, RecoveryDays)
NoRecord == recovered' = Lower(recovered + 1, RecoveryDays)

\* _acute_evacuation_assessment: a synchronized collapse, or of the one leader that is held.
Evacuate(p, o, diverging) ==
    /\ ~Calm /\ diverging
    /\ o = "shock" \/ book # "flat"
    /\ \E broken \in BOOLEAN :
        LET state == IF risk = "CRISIS" \/ broken THEN "CRISIS" ELSE "RISK_OFF"
        IN  /\ broken => Breaks(p) # {} /\ Triggered(o, diverging)
            /\ risk' = state
            /\ severity' = IF state = "CRISIS" /\ risk # "CRISIS" THEN "CONCENTRATED" ELSE severity
            /\ Record(state)
    /\ guard' = IF GuardAfter(o, diverging).active THEN GuardAfter(o, diverging) ELSE GuardOn
    /\ Capture(p, TRUE)
    /\ last' = NewShock(IF last.kind = "incomplete" THEN last.kind ELSE "plain")
    /\ cap' = 0
    /\ streaks' = [streaks EXCEPT !.concentrated = 0]
    /\ UNCHANGED <<observed, cooldown>>

\* Mutant of CoolingDown: the last session of the cooldown is not served.
CoolingDownShort == cooldown > 1
CoolingDown == cooldown > 0

\* _capital_cooldown_assessment; the allocator then ends the rights (_prepare_account).
Cool(o, diverging) ==
    /\ CoolingDown
    /\ cooldown' = cooldown - 1
    /\ risk' = "CRISIS"
    /\ cap' = 0
    /\ rights' = FALSE
    /\ guard' = GuardAfter(o, diverging)
    /\ last' = Older
    /\ NoRecord
    /\ UNCHANGED <<severity, observed, streaks, book>>

\* _normalize_protected_book: outside a crisis the rights of a restored book end.
Normalizes(p) == {n \in BOOLEAN : n => p /\ risk # "CRISIS" /\ book # "flat"}

\* A crisis whose book is still protected is left by repair only.
Repairing(p) == risk = "CRISIS" /\ p

\* _unbacked_cooldown_assessment.
UnbackedWait(p, o, diverging) ==
    /\ Repairing(p) /\ ~CoolingDown
    /\ severity = "UNBACKED" /\ ~Rearmed
    /\ cap' = 0
    /\ guard' = GuardAfter(o, diverging)
    /\ last' = Older
    /\ NoRecord
    /\ UNCHANGED <<risk, rights, severity, observed, streaks, cooldown, book>>

\* What the market shows of a repair; the fast one waits for the shock to age.
Repairs == {m \in {"none", "structural", "fast"} :
              /\ m = "fast" => last.age >= WaitDays
              /\ Calm => m # "none"}

\* The protected holdings rise together, with their structure restored after a severe shock.
Risings == {rising \in BOOLEAN :
              LET open == severity # "CONCENTRATED" \/ last.age >= WaitDays
              IN  (rising => open) /\ (Calm /\ open => rising)}

\* Mutant of Streak: the guard does not hold a repair back.
StreakUnguarded(seen, g, n) == IF seen THEN n + 1 ELSE 0
\* A repair counts in consecutive sessions, and not while the guard is active.
Streak(seen, g, n) == IF seen /\ ~g.active THEN n + 1 ELSE 0

\* assess_protected_recovery once the book is in its crisis: repair of the market, repair of the
\* protected holdings, or persistent stress.
Repair(p, o, diverging) ==
    /\ Repairing(p) /\ ~CoolingDown
    /\ severity # "UNBACKED" \/ Rearmed
    /\ \E m \in Repairs, rising \in Risings :
        LET g == GuardAfter(o, diverging)
            market == Streak(m # "none", g, streaks.market)
            concentrated == Streak(rising, g, streaks.concentrated)
            byMarket == market >= IF m = "fast" THEN RepairConfirm ELSE NormalConfirm
            repaired == byMarket \/ concentrated >= RepairConfirm
        IN  /\ guard' = g
            /\ streaks' = [market |-> Lower(market, NormalConfirm - 1),
                           concentrated |-> IF byMarket THEN streaks.concentrated
                                            ELSE Lower(concentrated, RepairConfirm - 1)]
            /\ \/ repaired /\ risk' = "CAUTION" /\ cap' = MaxGross /\ Record("CAUTION")
               \/ ~repaired /\ UNCHANGED risk /\ cap' \in CrisisCaps(severity) /\ NoRecord
    /\ last' = Older
    /\ UNCHANGED <<severity, rights, observed, cooldown, book>>

BreakSeverities(k) ==
    CASE k = "unbacked_tail" -> {"UNBACKED"}
      [] k = "backed_tail" -> {"MARKET"}
      [] k = "cohort" -> {"COHORT_BREAK"}
      [] OTHER -> {"MARKET", "CONCENTRATED"}

\* The restorations that failed: they start a cooldown, and the allocator ends their rights.
Failed == {"capital_relapse", "terminal_relapse"}

\* assess_confirmed_concentrated_break.
Break(p, o, diverging) ==
    /\ ~Calm /\ ~CoolingDown /\ ~Repairing(p)
    /\ \E k \in Breaks(p), n \in Normalizes(p) :
        /\ severity' \in BreakSeverities(k)
        /\ cap' \in CrisisCaps(severity')
        /\ IF k \in Failed THEN rights' = FALSE /\ book' = "carried"
                           ELSE Capture(p /\ ~n, TRUE)
        /\ cooldown' = IF k \in Failed THEN CooldownDays ELSE cooldown
        /\ last' = NewShock(CASE k = "backed_tail" -> "incomplete"
                              [] k \in {"market_relapse", "terminal_relapse"} -> "backed"
                              [] OTHER -> "plain")
    /\ risk' = "CRISIS"
    /\ streaks' = [streaks EXCEPT !.concentrated = 0]
    /\ guard' = GuardAfter(o, diverging)
    /\ Record("CRISIS")
    /\ UNCHANGED observed

--------------------------------------------------------------------------------
(* resolve_risk_transition.                                                *)

\* _observed_risk: the states the evidence may show; "narrow" is RISK_OFF by the narrow anchor
\* guard, decided before the book is normalised (n).
Views(p, n) ==
    IF Calm THEN {"NORMAL"}
    ELSE {"NORMAL", "CAUTION"}
         \cup (IF book # "flat" THEN {"RISK_OFF"} ELSE {})
         \cup (IF FirstBreakOpen(p) THEN {"narrow"} ELSE {})
         \cup (IF FirstBreakOpen(p /\ ~n) THEN {"CRISIS"} ELSE {})
Seen(view) == IF view = "narrow" THEN "RISK_OFF" ELSE view

\* How often a state must be observed before it replaces the previous one.
Required(view) ==
    CASE view = "NORMAL" -> IF risk = "NORMAL" THEN 1 ELSE NormalConfirm
      [] view \in {"CRISIS", "narrow"} -> 1
      [] OTHER -> RiskConfirm

Times(view) == IF observed.state = Seen(view) THEN observed.times + 1 ELSE 1
Confirmed(view) == IF Times(view) >= Required(view) THEN Seen(view) ELSE risk

\* _apply_sector_guard.
Guarded(state, g) == IF g.active /\ state # "CRISIS" THEN "RISK_OFF" ELSE state

\* _transition_cap without the overlays.
TransitionCaps(state, sev, forced) ==
    LET caps == CASE state = "RISK_OFF" -> {RiskOffGross}
                  [] state = "CRISIS" -> CrisisCaps(sev)
                  [] OTHER -> {MaxGross}
    IN  IF forced THEN {Lower(c, GuardGross) : c \in caps} ELSE caps

\* _record_transition.
Recorded(state) == IF state = risk THEN NoRecord ELSE Record(state)

Resolve(p, o, diverging) ==
    /\ ~CoolingDown /\ ~Repairing(p)
    /\ \E n \in Normalizes(p) : \E view \in Views(p, n) :
        LET g == GuardAfter(o, diverging)
            confirmed == Confirmed(view)
            forced == g.active /\ confirmed # "CRISIS"
            state == Guarded(confirmed, g)
        IN  /\ risk' = state
            /\ observed' = [state |-> Seen(view), times |-> Lower(Times(view), NormalConfirm - 1)]
            /\ guard' = g
            /\ IF state = "CRISIS" /\ risk # "CRISIS"
               THEN /\ severity' \in {"MARKET", "CONCENTRATED"}
                    /\ Capture(p /\ ~n, FALSE)
                    /\ last' = NewShock("plain")
               ELSE /\ severity' = IF n THEN "MARKET" ELSE severity
                    /\ rights' = (Kept(p) /\ ~n)
                    /\ last' = Older
                    /\ UNCHANGED book
            /\ cap' \in TransitionCaps(state, severity', forced)
            /\ Recorded(state)
    /\ UNCHANGED <<streaks, cooldown>>

--------------------------------------------------------------------------------

\* The ways an assessment ends, in the order of _assess_base_risk.
Evacuation == \E p \in Protections, s \in Sights : Evacuate(p, s[1], s[2])
Cooldown == \E s \in Sights : Cool(s[1], s[2])
UnbackedStress == \E p \in Protections, s \in Sights : UnbackedWait(p, s[1], s[2])
ProtectedRepair == \E p \in Protections, s \in Sights : Repair(p, s[1], s[2])
ConfirmedBreak == \E p \in Protections, s \in Sights : Break(p, s[1], s[2])
Transition == \E p \in Protections, s \in Sights : Resolve(p, s[1], s[2])

Assess ==
    /\ calm' = IF Calm THEN 3 - calm ELSE calm
    /\ \/ Evacuation \/ Cooldown \/ UnbackedStress \/ ProtectedRepair
       \/ ConfirmedBreak \/ Transition

\* Fills between two sessions. A holding counts as carried until it is closed.
Trade ==
    /\ book' \in {"flat", "fresh"} \ {book}
    /\ UNCHANGED <<risk, severity, cap, observed, streaks, guard, last, rights, cooldown,
                   recovered, calm>>

\* The market calms down for good.
CalmDown ==
    /\ ~Calm
    /\ calm' = 1
    /\ UNCHANGED <<risk, severity, cap, observed, streaks, guard, last, rights, cooldown,
                   book, recovered>>

RiskInit ==
    /\ risk = "NORMAL" /\ severity = "MARKET" /\ cap = MaxGross
    /\ observed = [state |-> "NORMAL", times |-> 0]
    /\ streaks = [market |-> 0, concentrated |-> 0]
    /\ guard = GuardOff({})
    /\ last = [age |-> RearmDays, kind |-> "plain"]  \* no shock yet: rearmed
    /\ rights = FALSE /\ cooldown = 0 /\ book = "flat"
    /\ recovered = RecoveryDays  \* math.inf: no crisis has been left yet
    /\ calm = 0

RiskNext == Assess \/ Trade \/ CalmDown

RiskSpec == RiskInit /\ [][RiskNext]_riskVars

\* A session is assessed sooner or later. No assessment of a calm market stutters (calm tells the
\* sessions apart), so fairness chooses none of what a session finds.
RiskFairSpec == RiskSpec /\ WF_riskVars(Assess)

--------------------------------------------------------------------------------

\* The shape of the state; the counts stay below the bound that ends them.
RiskTypeOK ==
    /\ risk \in States /\ severity \in Severities /\ cap \in 0 .. MaxGross
    /\ observed \in [state : States, times : 0 .. NormalConfirm - 1]
    /\ streaks \in [market : 0 .. NormalConfirm - 1, concentrated : 0 .. RepairConfirm - 1]
    /\ guard \in [active : BOOLEAN, age : 1 .. GuardSessions, repairs : 0 .. GuardConfirm - 1,
                  shocks : SUBSET (1 .. ShockWindow - 1)]
    /\ last \in [age : 1 .. RearmDays, kind : {"plain", "incomplete", "backed"}]
    /\ rights \in BOOLEAN /\ cooldown \in 0 .. CooldownDays /\ book \in Books
    /\ recovered \in 1 .. RecoveryDays
    /\ calm \in 0 .. 2

\* While the sector guard is active the account is in RISK_OFF or CRISIS: no repair, transition
\* or normalisation of the book raises it before the guard is released.
GuardHolds ==
    /\ RiskTypeOK
    /\ guard.active => risk \in {"RISK_OFF", "CRISIS"}

\* The cooldown of a capital relapse is served whole: every session of it ends in CRISIS with no
\* gross allowed, whatever recovers meanwhile.
CooldownServed == [][Assess /\ cooldown > 0 => risk' = "CRISIS" /\ cap' = 0]_riskVars

\* The book is not cut again for the same damage: a CRISIS entered from a calmer state needs a
\* rearmed shock, a new book, sessions enough since the last recovery, or an acute collapse.
ShocksSpaced ==
    [][risk # "CRISIS" /\ risk' = "CRISIS" /\ cap' > 0 =>
         Rearmed \/ recovered >= RecoveryDays]_riskVars

\* Nothing locks: once the market is calm for good, the account returns to NORMAL.
RiskLifts == Calm ~> (risk = "NORMAL" /\ cap = MaxGross)

================================================================================
