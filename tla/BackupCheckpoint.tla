--------------------------- MODULE BackupCheckpoint ---------------------------
(***************************************************************************)
(* The backup directory of one production observation                      *)
(* (uquant/validation/production_observation.py): copies of the inputs, a  *)
(* manifest that binds them, the evidence of the run, and a receipt that   *)
(* the last manifest binds. Every file is replaced atomically; a write may *)
(* raise before or after its rename, and the process may be killed.        *)
(*                                                                         *)
(* A file is there with its right bytes or not there; the receipt is named *)
(* by its status, the manifest by its status and the files it binds.       *)
(***************************************************************************)
EXTENDS FiniteSets

CONSTANTS
    Before,  \* inputs copied before the run
    After    \* evidence archived after it

ASSUME FilesAssumption == Before \cap After = {}

VARIABLES
    pc,        \* where run_production_observation is
    present,   \* files of Before and After in the directory
    receipt,   \* receipt.json: "none" or its status
    manifest,  \* manifest.json: its status and the files it binds
    outcome    \* how the command ended: "running", "returned", "raised" or "killed"

backupVars == <<pc, present, receipt, manifest, outcome>>

NoManifest == [status |-> "none", files |-> {}, receipt |-> "none"]
Manifest(status, files, r) == [status |-> status, files |-> files, receipt |-> r]
Terminal == {"COMPLETED", "FAILED"}

\* Nothing but what the manifest binds is in the directory.
Tracked == present \subseteq manifest.files /\ manifest.receipt = receipt

\* verify_backup_checkpoint accepts the directory.
Verifies ==
    /\ manifest.status \in Terminal \cup {"PREPARED"}
    /\ manifest.files \subseteq present
    /\ manifest.receipt = IF manifest.status = "PREPARED" THEN "none" ELSE manifest.status
    /\ Tracked

\* How one atomic write may end: it returns, or it raises with or without the file in place.
WriteEndings == {"returned", "raised_before", "raised_after"}
InPlace(ending) == ending # "raised_before"

End(how) == pc' = "ended" /\ outcome' = how

--------------------------------------------------------------------------------

\* create_backup_checkpoint copies the inputs; an incomplete directory is kept as it is.
CopyBefore ==
    /\ pc = "create"
    /\ \E f \in Before \ present, ending \in WriteEndings :
           /\ present' = IF InPlace(ending) THEN present \cup {f} ELSE present
           /\ IF ending = "returned" THEN UNCHANGED <<pc, outcome>> ELSE End("raised")
    /\ UNCHANGED <<receipt, manifest>>

PrepareManifest ==
    /\ pc = "create"
    /\ Before \subseteq present
    /\ \E ending \in WriteEndings :
           /\ manifest' = IF InPlace(ending) THEN Manifest("PREPARED", Before, "none") ELSE manifest
           /\ IF ending = "returned" THEN pc' = "verify" /\ UNCHANGED outcome ELSE End("raised")
    /\ UNCHANGED <<present, receipt>>

VerifyPrepared ==
    /\ pc = "verify"
    /\ pc' = IF Verifies /\ manifest.status = "PREPARED" THEN "observe" ELSE "fail"
    /\ UNCHANGED <<present, receipt, manifest, outcome>>

\* Append, replay, daily decision, lanes and journal: any of them may raise.
Observe ==
    /\ pc = "observe"
    /\ pc' \in {"archive", "fail"}
    /\ UNCHANGED <<present, receipt, manifest, outcome>>

\* Mutant of Withdrawn: the carriers written so far are left behind.
WithdrawnNever == present

\* What is left of the directory when the evidence could not be archived.
Withdrawn == present \ After

\* add_backup_evidence writes the evidence first and then reseals the manifest.
ArchiveFile ==
    /\ pc = "archive"
    /\ \E f \in After \ present, ending \in WriteEndings :
           IF ending = "returned"
           THEN present' = present \cup {f} /\ UNCHANGED pc
           ELSE present' = Withdrawn /\ pc' = "fail"
    /\ UNCHANGED <<receipt, manifest, outcome>>

\* When the resealed manifest is in place the evidence stays, although the write raised.
ArchiveManifest ==
    /\ pc = "archive"
    /\ After \subseteq present
    /\ \E ending \in WriteEndings :
           /\ manifest' = IF InPlace(ending) THEN Manifest("PREPARED", Before \cup After, "none")
                          ELSE manifest
           /\ present' = IF InPlace(ending) THEN present ELSE Withdrawn
           /\ pc' = IF ending = "returned" THEN "complete" ELSE "fail"
    /\ UNCHANGED <<receipt, outcome>>

\* The receipt a call of seal_backup_receipt is for.
Sealing == IF pc \in {"complete", "bind_complete"} THEN "COMPLETED" ELSE "FAILED"

\* A call that fails to seal COMPLETED is followed by one for FAILED.
Raise ==
    IF Sealing = "COMPLETED" THEN pc' = "fail" /\ UNCHANGED outcome ELSE End("raised")

\* Mutant of Sealable: a finalized directory is sealed again.
SealableTwice == Verifies

\* A finalized directory is not sealed again.
Sealable == Verifies /\ manifest.status = "PREPARED"

\* seal_backup_receipt writes the receipt, and goes on when the write raised with the receipt
\* in place.
WriteReceipt ==
    /\ pc \in {"complete", "fail"}
    /\ IF Sealable
       THEN \E placed \in BOOLEAN :
                /\ receipt' = IF placed THEN Sealing ELSE receipt
                /\ IF placed
                   THEN /\ pc' = IF Sealing = "COMPLETED" THEN "bind_complete" ELSE "bind_failed"
                        /\ UNCHANGED outcome
                   ELSE Raise
       ELSE Raise /\ UNCHANGED receipt
    /\ UNCHANGED <<present, manifest>>

\* A receipt that could not be bound is removed.
Unbound == "none"

\* The manifest binds the receipt. When it raised with the manifest in place the call still
\* returns, unless the directory cannot be flushed either.
BindReceipt ==
    /\ pc \in {"bind_complete", "bind_failed"}
    /\ \/ /\ manifest' = Manifest(Sealing, manifest.files, receipt)
          /\ End(IF Sealing = "COMPLETED" THEN "returned" ELSE "raised")
          /\ UNCHANGED receipt
       \/ /\ manifest' = Manifest(Sealing, manifest.files, receipt)
          /\ Raise
          /\ UNCHANGED receipt
       \/ /\ receipt' = Unbound
          /\ Raise
          /\ UNCHANGED manifest
    /\ UNCHANGED present

KillBackup ==
    /\ pc # "ended"
    /\ End("killed")
    /\ UNCHANGED <<present, receipt, manifest>>

BackupFinished == pc = "ended" /\ UNCHANGED backupVars

BackupInit ==
    /\ pc = "create"
    /\ present = {}
    /\ receipt = "none"
    /\ manifest = NoManifest
    /\ outcome = "running"

BackupNext ==
    \/ CopyBefore \/ PrepareManifest \/ VerifyPrepared \/ Observe
    \/ ArchiveFile \/ ArchiveManifest \/ WriteReceipt \/ BindReceipt
    \/ KillBackup \/ BackupFinished

BackupSpec == BackupInit /\ [][BackupNext]_backupVars

--------------------------------------------------------------------------------
(* Properties *)

BackupTypeOK ==
    /\ pc \in {"create", "verify", "observe", "archive", "complete", "fail", "bind_complete",
               "bind_failed", "ended"}
    /\ present \subseteq Before \cup After
    /\ receipt \in Terminal \cup {"none"}
    /\ manifest \in [status: Terminal \cup {"none", "PREPARED"}, files: SUBSET (Before \cup After),
                     receipt: Terminal \cup {"none"}]
    /\ outcome \in {"running", "returned", "raised", "killed"}

\* A finalized checkpoint always verifies, wherever the command was killed or failed.
FinalVerifies == manifest.status \in Terminal => Verifies

\* Unless it was killed, a command leaves no directory that fails verification once it was
\* prepared, whatever writes failed and were cleaned up.
EndedVerifies ==
    (pc = "ended" /\ outcome # "killed" /\ manifest # NoManifest) => Verifies

\* A command that returned is COMPLETED; a checkpoint is COMPLETED only with all the evidence.
CompletedWhole ==
    /\ outcome = "returned" => manifest.status = "COMPLETED"
    /\ manifest.status = "COMPLETED" => manifest.files = Before \cup After

\* What the directory says of itself can be believed, at every point of every command.
Trustworthy == FinalVerifies /\ EndedVerifies /\ CompletedWhole

\* A sealed checkpoint is never written again, although a failing command tries to.
SealedForever ==
    [][manifest.status \in Terminal => UNCHANGED <<manifest, present, receipt>>]_backupVars

================================================================================
