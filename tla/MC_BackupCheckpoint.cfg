\* The inputs and the documents of evidence of a run with a journal.
SPECIFICATION BackupSpec
CONSTANTS
    Before = {account_before, broker_snapshot, holdout_account, journal_before,
              journal_checkpoint_before}
    After = {account_after, daily_report, holdout_decision, holdout_replay, journal_after,
             journal_checkpoint_after, lane_report}
INVARIANTS
    Trustworthy
PROPERTIES
    SealedForever
