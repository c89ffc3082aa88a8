-------------------------------- MODULE DailyRun -------------------------------
(***************************************************************************)
(* The files of one daily run (uquant/cli.py _run_daily, account/store.py, *)
(* infrastructure/atomic_files.py): the reports are rendered to ready      *)
(* files, the account is replaced atomically, then the reports are         *)
(* published one by one. A write can fail, the process can die and the     *)
(* machine can lose power between any two steps; a person restores a       *)
(* report that was not published.                                          *)
(*                                                                         *)
(* A file is what a reader sees now (account, report, ready) and what      *)
(* survives a power loss (the stable copies). An account is the sequence   *)
(* of decisions it contains; a rendered document is the decision it shows. *)
(***************************************************************************)
EXTENDS Naturals, Sequences

CONSTANTS
    Documents,  \* outputs of a run: the Markdown and the HTML report
    MaxDay,     \* bound: last decision date
    MaxRuns     \* bound: most decisions ever computed

ASSUME DailyRunAssumption == MaxDay \in Nat /\ MaxRuns \in Nat

VARIABLES
    pc,             \* progress of the running process, "idle" when there is none
    run,            \* the account as the process decided it, in memory
    todo,           \* documents the process has still to stage, then to publish
    runs,           \* decisions computed so far
    account, stableAccount,
    report, stableReport,
    ready, stableReady

files == <<account, stableAccount, report, stableReport, ready, stableReady>>
vars == <<pc, run, todo, runs, files>>

Decision == [day: 1..MaxDay, id: 1..MaxRuns]
None == [day |-> 0, id |-> 0]

\* The decision an account ends with, last_successful_run being its day.
Latest(acc) == IF acc = <<>> THEN None ELSE acc[Len(acc)]

--------------------------------------------------------------------------------
(* The process *)

\* Load the account and decide for a date after its last successful run.
Start(d) ==
    /\ pc = "idle"
    /\ runs < MaxRuns
    /\ d > Latest(account).day
    /\ runs' = runs + 1
    /\ run' = Append(account, [day |-> d, id |-> runs + 1])
    /\ todo' = Documents
    /\ pc' = "staging"
    /\ UNCHANGED files

\* A ready file is written through a temporary file, flushed and renamed.
Stage(doc) ==
    /\ pc = "staging"
    /\ doc \in todo
    /\ ready' = [ready EXCEPT ![doc] = @ \cup {Latest(run)}]
    /\ stableReady' = [stableReady EXCEPT ![doc] = @ \cup {Latest(run)}]
    /\ todo' = todo \ {doc}
    /\ UNCHANGED <<pc, run, runs, account, stableAccount, report, stableReport>>

\* Staging fails: the ready files of this run are removed, nothing was saved.
AbandonStaging ==
    /\ pc = "staging"
    /\ todo # {}
    /\ ready' = [doc \in Documents |-> ready[doc] \ {Latest(run)}]
    /\ pc' = "idle"
    /\ UNCHANGED <<run, todo, runs, account, stableAccount, report, stableReport, stableReady>>

\* Mutant of ReplaceAccount: the reports are published before the directory is flushed.
ReplaceAccountUnflushed ==
    /\ pc = "staging"
    /\ todo = {}
    /\ account' = run
    /\ todo' = Documents
    /\ pc' = "publishing"
    /\ UNCHANGED <<run, runs, stableAccount, report, stableReport, ready, stableReady>>

\* save_account renames the new file over the account.
ReplaceAccount ==
    /\ pc = "staging"
    /\ todo = {}
    /\ account' = run
    /\ pc' = "replaced"
    /\ UNCHANGED <<run, todo, runs, stableAccount, report, stableReport, ready, stableReady>>

\* The directory of the account is flushed: the save is confirmed.
ConfirmSave ==
    /\ pc = "replaced"
    /\ stableAccount' = account
    /\ todo' = Documents
    /\ pc' = "publishing"
    /\ UNCHANGED <<run, runs, account, report, stableReport, ready, stableReady>>

\* Publish one report, durably, then remove its ready file.
Publish(doc) ==
    /\ pc = "publishing"
    /\ doc \in todo
    /\ report[doc] # Latest(run)
    /\ report' = [report EXCEPT ![doc] = Latest(run)]
    /\ stableReport' = [stableReport EXCEPT ![doc] = Latest(run)]
    /\ UNCHANGED <<pc, run, todo, runs, account, stableAccount, ready, stableReady>>

\* Mutant of Unstage: the ready file is removed before its report is published.
UnstageFirst(doc) ==
    /\ pc = "publishing"
    /\ doc \in todo
    /\ ready' = [ready EXCEPT ![doc] = @ \ {Latest(run)}]
    /\ todo' = todo \ {doc}
    /\ UNCHANGED <<pc, run, runs, account, stableAccount, report, stableReport, stableReady>>

Unstage(doc) ==
    /\ pc = "publishing"
    /\ doc \in todo
    /\ report[doc] = Latest(run)
    /\ ready' = [ready EXCEPT ![doc] = @ \ {Latest(run)}]
    /\ todo' = todo \ {doc}
    /\ UNCHANGED <<pc, run, runs, account, stableAccount, report, stableReport, stableReady>>

\* The run ends: all is published, or a save or a publication failed and the message asks
\* for a recovery by hand, or the process dies. What it wrote stays.
Exit ==
    /\ pc # "idle"
    /\ pc' = "idle"
    /\ UNCHANGED <<run, todo, runs, files>>

--------------------------------------------------------------------------------
(* The file system and the operator *)

\* Renames and removals reach the disk on their own.
WriteBack ==
    /\ stableAccount' = account
    /\ stableReady' = ready
    /\ UNCHANGED <<pc, run, todo, runs, account, report, stableReport, ready>>

\* Each directory comes back as it was, or as it was last flushed.
PowerLoss ==
    /\ account' \in {account, stableAccount}
    /\ stableAccount' = account'
    /\ ready' \in [Documents -> {ready[doc] : doc \in Documents} \cup {stableReady[doc] : doc \in Documents}]
    /\ \A doc \in Documents : ready'[doc] \in {ready[doc], stableReady[doc]}
    /\ stableReady' = ready'
    /\ report' = stableReport
    /\ pc' = "idle"
    /\ UNCHANGED <<run, todo, runs, stableReport>>

\* With the account settled, the operator moves the ready file that shows its state to the
\* report's place.
Restore(doc) ==
    /\ pc = "idle"
    /\ account = stableAccount
    /\ Latest(account) \in ready[doc]
    /\ report' = [report EXCEPT ![doc] = Latest(account)]
    /\ stableReport' = [stableReport EXCEPT ![doc] = Latest(account)]
    /\ ready' = [ready EXCEPT ![doc] = @ \ {Latest(account)}]
    /\ stableReady' = [stableReady EXCEPT ![doc] = @ \ {Latest(account)}]
    /\ UNCHANGED <<pc, run, todo, runs, account, stableAccount>>

Init ==
    /\ pc = "idle"
    /\ run = <<>>
    /\ todo = {}
    /\ runs = 0
    /\ account = <<>> /\ stableAccount = <<>>
    /\ report = [doc \in Documents |-> None] /\ stableReport = report
    /\ ready = [doc \in Documents |-> {}] /\ stableReady = ready

Next ==
    \/ \E d \in 1..MaxDay : Start(d)
    \/ \E doc \in Documents : Stage(doc) \/ Publish(doc) \/ Unstage(doc) \/ Restore(doc)
    \/ AbandonStaging
    \/ ReplaceAccount
    \/ ConfirmSave
    \/ Exit
    \/ WriteBack
    \/ PowerLoss

Spec == Init /\ [][Next]_vars

--------------------------------------------------------------------------------
(* Properties *)

\* The decisions of the account are a sequence; reports and ready files stand for decisions.
TypeOK ==
    /\ pc \in {"idle", "staging", "replaced", "publishing"}
    /\ {run, account, stableAccount} \subseteq Seq(Decision)
    /\ todo \subseteq Documents
    /\ runs \in 0..MaxRuns
    /\ {report, stableReport} \subseteq [Documents -> Decision \cup {None}]
    /\ {ready, stableReady} \subseteq [Documents -> SUBSET Decision]

Contains(acc, x) == \E i \in DOMAIN acc : acc[i] = x

\* A published report never shows a decision that the account can still lose: the account
\* is durable before the first report is written.
ReportBacked ==
    /\ TypeOK
    /\ \A doc \in Documents :
        \/ report[doc] = None
        \/ Contains(account, report[doc]) /\ Contains(stableAccount, report[doc])

\* The decision an account ends with can always be shown, by the report or by a ready file,
\* so that a run is never repeated to get its report.
ReportRecoverable ==
    \A doc \in Documents :
        \/ Latest(account) \in {None, report[doc]}
        \/ Latest(account) \in ready[doc]

================================================================================
