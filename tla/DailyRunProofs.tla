----------------------------- MODULE DailyRunProofs ----------------------------
(***************************************************************************)
(* Reports and accounts agree through every failed write, killed run and   *)
(* power loss, for any outputs, any dates and any number of runs.          *)
(***************************************************************************)
EXTENDS DailyRun, TLAPS

\* s is the beginning of t.
Begins(s, t) == Len(s) <= Len(t) /\ \A i \in 1..Len(s) : s[i] = t[i]

\* The decisions of an account are numbered by runs that took place, and no date is decided
\* twice.
Numbered(acc) == \A i \in 1..Len(acc) : acc[i].id <= runs
InOrder(acc) == \A i, j \in 1..Len(acc) : i < j => acc[i].day < acc[j].day

\* What the account ends with is shown by the report or by the given ready files.
Shown(acc, staged) ==
    \A doc \in Documents : Latest(acc) \in {None, report[doc]} \cup staged[doc]
AllShown ==
    /\ Shown(account, ready) /\ Shown(account, stableReady)
    /\ Shown(stableAccount, ready) /\ Shown(stableAccount, stableReady)

\* What the process knows while it runs: its decision is new and is staged document by
\* document, then it is in the account, then it is there for good.
Progress ==
    /\ pc = "staging" =>
          /\ \E x \in Decision : /\ run = Append(account, x)
                                 /\ x.id = runs
                                 /\ \A i \in 1..Len(account) : account[i].id < runs
                                 /\ \A i \in 1..Len(account) : account[i].day < x.day
          /\ \A doc \in Documents \ todo :
                Latest(run) \in ready[doc] /\ Latest(run) \in stableReady[doc]
    /\ pc \in {"replaced", "publishing"} => account = run /\ run # <<>>
    /\ pc = "publishing" => stableAccount = run

\* Inductive. A power loss may bring back either account with either copy of each ready
\* directory, so every combination has to show its latest decision; the stable account begins
\* the account, and reports reach the disk as they are written.
IInv ==
    /\ TypeOK
    /\ report = stableReport
    /\ Begins(stableAccount, account)
    /\ Numbered(account) /\ InOrder(account)
    /\ \A doc \in Documents : report[doc] = None \/ Contains(stableAccount, report[doc])
    /\ AllShown
    /\ Progress

--------------------------------------------------------------------------------

\* The parts of the type invariant, one by one.
LEMMA Fields ==
    ASSUME TypeOK
    PROVE  /\ run \in Seq(Decision) /\ account \in Seq(Decision) /\ stableAccount \in Seq(Decision)
           /\ runs \in Nat /\ runs <= MaxRuns
           /\ report \in [Documents -> Decision \cup {None}]
           /\ stableReport \in [Documents -> Decision \cup {None}]
           /\ ready \in [Documents -> SUBSET Decision]
           /\ stableReady \in [Documents -> SUBSET Decision]
BY DailyRunAssumption DEF TypeOK

\* A decision is appended at the end.
LEMMA Appended ==
    ASSUME NEW s \in Seq(Decision), NEW x \in Decision
    PROVE  /\ Append(s, x) \in Seq(Decision) /\ Append(s, x) # <<>>
           /\ Len(s) \in Nat /\ Len(Append(s, x)) = Len(s) + 1
           /\ Append(s, x)[Len(s) + 1] = x
           /\ \A i \in 1..Len(s) : Append(s, x)[i] = s[i]
           /\ Latest(Append(s, x)) = x
BY DEF Latest

\* Numbers and dates of decisions are numbers.
LEMMA ElementId ==
    ASSUME NEW s \in Seq(Decision), NEW i \in 1..Len(s)
    PROVE  s[i].id \in Nat /\ s[i].day \in Nat
<1>1. s[i] \in Decision
  OBVIOUS
<1> QED
  BY <1>1, DailyRunAssumption DEF Decision

\* The latest decision of an account that has one is a decision of it.
LEMMA LatestContained ==
    ASSUME NEW s \in Seq(Decision)
    PROVE  /\ s = <<>> => Latest(s) = None
           /\ s # <<>> => Latest(s) \in Decision /\ Contains(s, Latest(s)) /\ Latest(s) # None
<1>1. CASE s = <<>>
  BY <1>1 DEF Latest
<1>2. CASE s # <<>>
  <2>1. Len(s) \in 1..Len(s) /\ s[Len(s)] \in Decision /\ Latest(s) = s[Len(s)]
    BY <1>2 DEF Latest
  <2> QED
    BY <2>1, <1>2 DEF Contains, Decision, None
<1> QED
  BY <1>1, <1>2

\* What the beginning of an account contains, the account contains.
LEMMA BeginsContains ==
    ASSUME NEW s \in Seq(Decision), NEW t \in Seq(Decision), Begins(s, t), NEW x, Contains(s, x)
    PROVE  Contains(t, x)
BY DEF Begins, Contains

\* The properties that the runs check follow from the invariant.
LEMMA Consequences == IInv => ReportBacked /\ ReportRecoverable
<1> SUFFICES ASSUME IInv PROVE ReportBacked /\ ReportRecoverable
  OBVIOUS
<1> USE DEF IInv
<1>1. ASSUME NEW doc \in Documents, report[doc] # None
      PROVE  Contains(account, report[doc]) /\ Contains(stableAccount, report[doc])
  BY <1>1, Fields, BeginsContains
<1>2. Shown(account, ready)
  BY DEF AllShown
<1> QED
  BY <1>1, <1>2 DEF ReportBacked, ReportRecoverable, Shown

--------------------------------------------------------------------------------
\* The actions, one by one.

LEMMA IInvInit == Init => IInv
<1> SUFFICES ASSUME Init PROVE IInv
  OBVIOUS
<1> USE DEF Init
<1>1. TypeOK
  BY DailyRunAssumption DEF TypeOK
<1>2. Len(account) = 0 /\ Len(stableAccount) = 0
  OBVIOUS
<1>3. Begins(stableAccount, account) /\ Numbered(account) /\ InOrder(account)
  BY <1>2 DEF Begins, Numbered, InOrder
<1>4. AllShown
  BY DEF AllShown, Shown, Latest
<1>5. Progress
  BY DEF Progress
<1> QED
  BY <1>1, <1>3, <1>4, <1>5 DEF IInv

LEMMA StartKeepsIInv == ASSUME IInv, NEW d \in 1..MaxDay, Start(d) PROVE IInv'
<1> DEFINE x == [day |-> d, id |-> runs + 1]
<1> USE DEF IInv, Start, files
<1>1. x \in Decision /\ runs' = runs + 1 /\ runs' \in 0..MaxRuns
  BY Fields, DailyRunAssumption DEF Decision
<1>2. run' = Append(account, x) /\ run' \in Seq(Decision)
  BY <1>1, Fields, Appended
<1>3. TypeOK'
  BY <1>1, <1>2, Fields DEF TypeOK
<1>4. Numbered(account)' /\ InOrder(account)' /\ \A i \in 1..Len(account) : account[i].id < runs + 1
  <2>1. \A i \in 1..Len(account) : account[i].id <= runs /\ account[i].id \in Nat
    BY Fields, ElementId DEF Numbered
  <2> QED
    BY <2>1, <1>1, Fields DEF Numbered, InOrder
<1>5. \A i \in 1..Len(account) : account[i].day < d
  <2> SUFFICES ASSUME NEW i \in 1..Len(account) PROVE account[i].day < d
    OBVIOUS
  <2>1. /\ Latest(account) = account[Len(account)] /\ Len(account) \in 1..Len(account)
        /\ account[i] \in Decision /\ account[Len(account)] \in Decision
    BY Fields DEF Latest
  <2>2. account[i].day <= account[Len(account)].day
    BY <2>1 DEF InOrder, Decision
  <2> QED
    BY <2>1, <2>2, DailyRunAssumption DEF Decision
<1>6. Progress'
  BY <1>1, <1>2, <1>4, <1>5 DEF Progress
<1>7. AllShown'
  BY DEF AllShown, Shown
<1> QED
  BY <1>3, <1>4, <1>6, <1>7

LEMMA StageKeepsIInv == ASSUME IInv, NEW doc \in Documents, Stage(doc) PROVE IInv'
<1> USE DEF IInv, Stage
<1>1. Latest(run) \in Decision
  <2>1. PICK x \in Decision : run = Append(account, x)
    BY DEF Progress
  <2> QED
    BY <2>1, Fields, Appended
<1>2. TypeOK'
  BY <1>1, Fields DEF TypeOK
<1>3. ASSUME NEW e \in Documents
      PROVE  ready[e] \subseteq ready'[e] /\ stableReady[e] \subseteq stableReady'[e]
  BY Fields
<1>4. Latest(run) \in ready'[doc] /\ Latest(run) \in stableReady'[doc]
  BY Fields
<1>5. AllShown'
  BY <1>3 DEF AllShown, Shown
<1>6. Progress'
  BY <1>3, <1>4 DEF Progress
<1>7. Numbered(account)' /\ InOrder(account)'
  BY DEF Numbered, InOrder
<1> QED
  BY <1>2, <1>5, <1>6, <1>7

\* The decision that is given up was never in the account, so no ready file of the account
\* is lost with it.
LEMMA AbandonStagingKeepsIInv == ASSUME IInv, AbandonStaging PROVE IInv'
<1> USE DEF IInv, AbandonStaging
<1>1. PICK x \in Decision : /\ run = Append(account, x) /\ x.id = runs
                            /\ \A i \in 1..Len(account) : account[i].id < runs
  BY DEF Progress
<1>2. Latest(run) = x
  BY <1>1, Fields, Appended
<1>3. Latest(account) # x /\ Latest(stableAccount) # x
  <2>1. \A i \in 1..Len(account) : account[i] # x
    BY <1>1, Fields DEF Decision
  <2>2. x # None
    BY DailyRunAssumption DEF Decision, None
  <2> QED
    BY <2>1, <2>2, Fields DEF Begins, Latest
<1>4. TypeOK'
  BY Fields DEF TypeOK
<1>5. AllShown'
  BY <1>2, <1>3 DEF AllShown, Shown
<1> QED
  BY <1>4, <1>5 DEF Progress, Numbered, InOrder

LEMMA ReplaceAccountKeepsIInv == ASSUME IInv, ReplaceAccount PROVE IInv'
<1> USE DEF IInv, ReplaceAccount
<1>1. PICK x \in Decision : /\ run = Append(account, x) /\ x.id = runs
                            /\ \A i \in 1..Len(account) : account[i].id < runs
                            /\ \A i \in 1..Len(account) : account[i].day < x.day
  BY DEF Progress
<1>2. /\ Latest(run) = x /\ run # <<>> /\ Len(account) \in Nat
      /\ Len(run) = Len(account) + 1 /\ run[Len(account) + 1] = x
      /\ \A i \in 1..Len(account) : run[i] = account[i]
  BY <1>1, Fields, Appended
<1>3. TypeOK'
  BY Fields DEF TypeOK
<1>4. Begins(stableAccount, account)'
  BY <1>2, Fields DEF Begins
<1>5. Numbered(account)'
  BY <1>1, <1>2, Fields DEF Numbered, Decision
<1>6. InOrder(account)'
  <2> SUFFICES ASSUME NEW i \in 1..Len(run), NEW j \in 1..Len(run), i < j
               PROVE  run[i].day < run[j].day
    BY DEF InOrder
  <2>1. i \in 1..Len(account) /\ run[i] = account[i]
    BY <1>2
  <2>2. CASE j = Len(account) + 1
    BY <1>1, <1>2, <2>1, <2>2
  <2>3. CASE j \in 1..Len(account)
    BY <1>2, <2>1, <2>3 DEF InOrder
  <2> QED
    BY <1>2, <2>2, <2>3
<1>7. AllShown'
  <2>1. \A doc \in Documents : Latest(run) \in ready[doc] /\ Latest(run) \in stableReady[doc]
    BY DEF Progress
  <2>2. Shown(stableAccount, ready) /\ Shown(stableAccount, stableReady)
    BY DEF AllShown
  <2> QED
    BY <2>1, <2>2 DEF AllShown, Shown
<1>8. Progress'
  BY <1>2 DEF Progress
<1> QED
  BY <1>3, <1>4, <1>5, <1>6, <1>7, <1>8

LEMMA ConfirmSaveKeepsIInv == ASSUME IInv, ConfirmSave PROVE IInv'
<1> USE DEF IInv, ConfirmSave
<1>1. TypeOK'
  BY Fields DEF TypeOK
<1>2. Begins(stableAccount, account)' /\ Numbered(account)' /\ InOrder(account)'
  BY Fields DEF Begins, Numbered, InOrder
<1>3. \A doc \in Documents : report[doc] = None \/ Contains(account, report[doc])
  BY Fields, BeginsContains
<1>4. AllShown'
  BY DEF AllShown, Shown
<1>5. Progress'
  BY DEF Progress
<1> QED
  BY <1>1, <1>2, <1>3, <1>4, <1>5

LEMMA PublishKeepsIInv == ASSUME IInv, NEW doc \in Documents, Publish(doc) PROVE IInv'
<1> USE DEF IInv, Publish
<1>1. account = run /\ stableAccount = run /\ run # <<>>
  BY DEF Progress
<1>2. Latest(run) \in Decision /\ Contains(stableAccount, Latest(run))
  BY <1>1, Fields, LatestContained
<1>3. TypeOK'
  BY <1>2, Fields DEF TypeOK
<1>4. AllShown'
  BY <1>1, Fields DEF AllShown, Shown
<1>5. \A e \in Documents : report'[e] = None \/ Contains(stableAccount, report'[e])
  BY <1>2, Fields
<1> QED
  BY <1>3, <1>4, <1>5 DEF Progress, Numbered, InOrder

LEMMA UnstageKeepsIInv == ASSUME IInv, NEW doc \in Documents, Unstage(doc) PROVE IInv'
<1> USE DEF IInv, Unstage
<1>1. account = run /\ stableAccount = run
  BY DEF Progress
<1>2. TypeOK'
  BY Fields DEF TypeOK
<1>3. AllShown'
  BY <1>1, Fields DEF AllShown, Shown
<1> QED
  BY <1>2, <1>3 DEF Progress, Numbered, InOrder

LEMMA ExitKeepsIInv == ASSUME IInv, Exit PROVE IInv'
BY DEF IInv, Exit, files, TypeOK, AllShown, Shown, Progress, Numbered, InOrder

LEMMA WriteBackKeepsIInv == ASSUME IInv, WriteBack PROVE IInv'
<1> USE DEF IInv, WriteBack
<1>1. TypeOK'
  BY Fields DEF TypeOK
<1>2. Begins(stableAccount, account)'
  BY Fields DEF Begins
<1>3. \A doc \in Documents : report[doc] = None \/ Contains(account, report[doc])
  BY Fields, BeginsContains
<1>4. AllShown'
  BY DEF AllShown, Shown
<1> QED
  BY <1>1, <1>2, <1>3, <1>4 DEF Progress, Numbered, InOrder

\* Whatever mixture comes back: the account ends with a decision that both copies of every
\* ready file show, or the report does.
LEMMA PowerLossKeepsIInv == ASSUME IInv, PowerLoss PROVE IInv'
<1> USE DEF IInv, PowerLoss
<1>1. ready' \in [Documents -> SUBSET Decision]
  BY Fields
<1>2. TypeOK'
  BY <1>1, Fields DEF TypeOK
<1>3. Begins(stableAccount, account)' /\ Numbered(account)' /\ InOrder(account)'
  BY Fields DEF Begins, Numbered, InOrder
<1>4. \A doc \in Documents : report[doc] = None \/ Contains(account', report[doc])
  BY Fields, BeginsContains
<1>5. AllShown'
  <2> SUFFICES ASSUME NEW doc \in Documents
               PROVE  Latest(account') \in {None, report[doc]} \cup ready'[doc]
    BY DEF AllShown, Shown
  <2>1. ready'[doc] = ready[doc] \/ ready'[doc] = stableReady[doc]
    OBVIOUS
  <2> QED
    BY <2>1 DEF AllShown, Shown
<1> QED
  BY <1>2, <1>3, <1>4, <1>5 DEF Progress

LEMMA RestoreKeepsIInv == ASSUME IInv, NEW doc \in Documents, Restore(doc) PROVE IInv'
<1> USE DEF IInv, Restore
<1>1. Latest(account) \in Decision /\ Contains(stableAccount, Latest(account))
  <2>1. Latest(account) \in Decision
    BY Fields
  <2>2. None \notin Decision
    BY DailyRunAssumption DEF Decision, None
  <2> QED
    BY <2>1, <2>2, Fields, LatestContained
<1>2. TypeOK'
  BY <1>1, Fields DEF TypeOK
<1>3. AllShown'
  BY Fields DEF AllShown, Shown
<1>4. \A e \in Documents : report'[e] = None \/ Contains(stableAccount, report'[e])
  BY <1>1, Fields
<1> QED
  BY <1>2, <1>3, <1>4 DEF Progress, Numbered, InOrder

LEMMA IInvNext == IInv /\ [Next]_vars => IInv'
<1> SUFFICES ASSUME IInv, [Next]_vars PROVE IInv'
  OBVIOUS
<1>1. CASE UNCHANGED vars
  BY <1>1 DEF vars, files, IInv, TypeOK, Begins, Numbered, InOrder, AllShown, Shown, Progress, Contains
<1>2. CASE Next
  BY <1>2, StartKeepsIInv, StageKeepsIInv, PublishKeepsIInv, UnstageKeepsIInv, RestoreKeepsIInv,
     AbandonStagingKeepsIInv, ReplaceAccountKeepsIInv, ConfirmSaveKeepsIInv, ExitKeepsIInv,
     WriteBackKeepsIInv, PowerLossKeepsIInv
     DEF Next
<1> QED
  BY <1>1, <1>2

--------------------------------------------------------------------------------
\* The theorems.

\* The invariant holds in every state: what a power loss may bring back, the account or an
\* earlier one with any mixture of ready files, is consistent (account/store.py, cli.py).
THEOREM Inductive == Spec => []IInv
BY IInvInit, IInvNext, PTL DEF Spec

\* A published report never shows a decision that the account can still lose (cli.py
\* _run_daily saves the account before it publishes).
THEOREM Backed == Spec => []ReportBacked
<1>1. IInv => ReportBacked
  BY Consequences
<1> QED
  BY <1>1, Inductive, PTL

\* The latest decision of the account can always be shown, by the report or by a ready file.
THEOREM Recoverable == Spec => []ReportRecoverable
<1>1. IInv => ReportRecoverable
  BY Consequences
<1> QED
  BY <1>1, Inductive, PTL

\* The reports never go back to an earlier date: not when they are published, not when one is
\* restored by hand, and not after a power loss.
ReportsAdvance == [][\A doc \in Documents : report'[doc].day >= report[doc].day]_vars

\* What an account contains is not later than what it ends with.
LEMMA LatestIsLast ==
    ASSUME NEW acc \in Seq(Decision), InOrder(acc), NEW x, Contains(acc, x)
    PROVE  x.day \in Nat /\ Latest(acc).day \in Nat /\ x.day <= Latest(acc).day
<1>1. PICK i \in 1..Len(acc) : acc[i] = x
  BY DEF Contains
<1>2. Len(acc) \in 1..Len(acc) /\ Latest(acc) = acc[Len(acc)]
  BY <1>1 DEF Latest
<1>3. acc[i].day \in Nat /\ acc[Len(acc)].day \in Nat
  BY <1>1, <1>2, ElementId
<1>4. i < Len(acc) => acc[i].day < acc[Len(acc)].day
  BY <1>1, <1>2 DEF InOrder
<1> QED
  BY <1>1, <1>2, <1>3, <1>4

\* The reports never go back (Publish and Restore replace a report by the latest decision of
\* an account that contains the decision it showed; PowerLoss returns the report written last).
THEOREM Advance == Spec => ReportsAdvance
<1>1. IInv /\ [Next]_vars => [\A doc \in Documents : report'[doc].day >= report[doc].day]_vars
  <2> SUFFICES ASSUME IInv, [Next]_vars, NEW doc \in Documents
               PROVE  report'[doc].day >= report[doc].day
    OBVIOUS
  <2> USE DEF IInv
  <2>1. report[doc].day \in Nat
    BY Fields, DailyRunAssumption DEF Decision, None
  <2>2. Latest(account).day \in Nat /\ report[doc].day <= Latest(account).day
    <3>1. Latest(account).day \in Nat
      <4>1. Latest(account) \in Decision \/ Latest(account) = None
        BY Fields, LatestContained
      <4> QED
        BY <4>1, DailyRunAssumption DEF None, Decision
    <3>2. CASE report[doc] = None
      BY <3>1, <3>2 DEF None
    <3>3. CASE report[doc] # None
      <4>1. account \in Seq(Decision) /\ stableAccount \in Seq(Decision) /\ InOrder(account)
        BY Fields
      <4>2. Contains(account, report[doc])
        BY <3>3, <4>1, BeginsContains
      <4> QED
        BY <4>1, <4>2, LatestIsLast
    <3> QED
      BY <3>1, <3>2, <3>3
  <2>3. ASSUME NEW e \in Documents, Publish(e) PROVE report'[doc].day >= report[doc].day
    BY <2>1, <2>2, <2>3, Fields DEF Publish, Progress
  <2>4. ASSUME NEW e \in Documents, Restore(e) PROVE report'[doc].day >= report[doc].day
    BY <2>1, <2>2, <2>4, Fields DEF Restore
  <2>5. CASE PowerLoss
    BY <2>1, <2>5 DEF PowerLoss
  <2>6. CASE UNCHANGED report
    BY <2>1, <2>6
  <2> QED
    BY <2>3, <2>4, <2>5, <2>6 DEF Next, Start, Stage, Unstage, AbandonStaging, ReplaceAccount,
       ConfirmSave, Exit, WriteBack, vars, files
<1> QED
  BY <1>1, Inductive, PTL DEF Spec, ReportsAdvance

================================================================================
