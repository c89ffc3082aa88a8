-------------------------- MODULE MC_BackupCheckpoint --------------------------
EXTENDS BackupCheckpoint
================================================================================
