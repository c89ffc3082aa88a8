---------------------------- MODULE ExecutionJournal ---------------------------
(***************************************************************************)
(* The journal of manual executions and the checkpoint kept outside it     *)
(* (uquant/observation/execution_journal, validation/holdout/              *)
(* cli_operations.py). Commands of several processes append one record     *)
(* each, anchor the tail or verify the journal against the anchor. A write *)
(* can be short or fail, a rollback can fail, a process can be killed and  *)
(* the machine can lose power between any two steps.                       *)
(*                                                                         *)
(* A file is what a reader sees (file) and what survives a power loss      *)
(* (stable, once its directory entry does). A record hash commits to all   *)
(* before it; records have unique ids here and prev names the one before.  *)
(* Prices, times and texts, whose checks only refuse a record before it is *)
(* written, are left out, as is the migration of version 1 journals.       *)
(***************************************************************************)
EXTENDS Naturals, Sequences, FiniteSetsExt

CONSTANTS
    Processes,
    Plans,          \* plan identities
    PlannedShares,  \* shares of every plan, in lots
    MaxRecords      \* bound: records ever encoded

ASSUME JournalAssumption == PlannedShares \in Nat \ {0} /\ MaxRecords \in Nat

VARIABLES
    file,           \* the journal as it is read
    stable,         \* the journal as the disk has it
    named,          \* the disk has the directory entry of the journal
    holders,        \* processes with the exclusive lock
    process,        \* what each process is at
    anchor,         \* the checkpoint file
    encoded,        \* records encoded so far
    appended,       \* records whose append returned
    cut,            \* an append was left half-way: killed, not rolled back, or lost power
    accused         \* records that the anchor named and a verification missed

vars == <<file, stable, named, holders, process, anchor, encoded, appended, cut, accused>>

Event ==
    [plan : Plans, status : {"PLANNED", "SKIPPED"}, shares : {0}]
        \cup [plan : Plans, status : {"FILLED"}, shares : 1 .. PlannedShares]

\* A file ends with a newline, is one byte short of it ("bare"), or its last line is no
\* record ("broken").
Empty == [lines |-> <<>>, end |-> "newline"]
Idle == [at |-> "idle"]

\* A checkpoint names a tail, that of an empty journal when there is none: a command that
\* misses the checkpoint of a nonempty journal is refused and changes nothing.
NoCheckpoint == [seq |-> 0, id |-> 0]

Init ==
    /\ file = Empty /\ stable = Empty /\ named = FALSE
    /\ holders = {}
    /\ process = [p \in Processes |-> Idle]
    /\ anchor = NoCheckpoint
    /\ encoded = 0
    /\ appended = {} /\ accused = {}
    /\ cut = FALSE

--------------------------------------------------------------------------------
(* Decoding *)

\* _validate_lifecycle: what the records so far make of a plan.
Planned(lines, plan) ==
    \E k \in DOMAIN lines : lines[k].plan = plan /\ lines[k].status = "PLANNED"
FilledShares(lines, plan) ==
    MapThenSumSet(LAMBDA k : lines[k].shares,
                  {k \in DOMAIN lines : lines[k].plan = plan /\ lines[k].status = "FILLED"})
IsTerminal(lines, plan) ==
    \/ FilledShares(lines, plan) = PlannedShares
    \/ \E k \in DOMAIN lines : lines[k].plan = plan /\ lines[k].status = "SKIPPED"

\* The record r may come after these lines.
Follows(lines, r) ==
    IF r.status = "PLANNED" THEN ~Planned(lines, r.plan)
    ELSE /\ Planned(lines, r.plan)
         /\ ~IsTerminal(lines, r.plan)
         /\ FilledShares(lines, r.plan) + r.shares <= PlannedShares

Lifecycle(lines) == \A i \in 1 .. Len(lines) : Follows(SubSeq(lines, 1, i - 1), lines[i])

Hash(lines) == IF lines = <<>> THEN 0 ELSE lines[Len(lines)].id

Chained(lines) ==
    \A i \in 1 .. Len(lines) :
        lines[i].seq = i /\ lines[i].prev = Hash(SubSeq(lines, 1, i - 1))

\* A last record without its newline still decodes.
Readable(f) == f.end # "broken" /\ Chained(f.lines) /\ Lifecycle(f.lines)

--------------------------------------------------------------------------------
(* Appending a record *)

\* Mutant of LockFree: the lock is taken shared.
LockShared == TRUE

LockFree == holders = {}

Release(p) ==
    /\ process' = [process EXCEPT ![p] = Idle]
    /\ holders' = holders \ {p}

\* The record of an event, sealed behind the records that were read under the lock. joined
\* says that it will share the line of a record without newline.
Encoded(e, f) ==
    [seq |-> Len(f.lines) + 1, prev |-> Hash(f.lines), id |-> encoded + 1,
     plan |-> e.plan, status |-> e.status, shares |-> e.shares,
     joined |-> f.end # "newline"]

Admitted(r, f) == Readable(f) /\ Lifecycle(Append(f.lines, r))

Open(p) ==
    /\ process[p] = Idle
    /\ \E e \in Event : process' = [process EXCEPT ![p] = [at |-> "opened", event |-> e]]
    /\ UNCHANGED <<file, stable, named, holders, anchor, encoded, appended, cut, accused>>

\* Under the lock the journal is read and the record validated, or refused.
Acquire(p) ==
    /\ process[p].at = "opened" /\ LockFree /\ encoded < MaxRecords
    /\ LET r == Encoded(process[p].event, file)
       IN IF Admitted(r, file)
          THEN /\ process' = [process EXCEPT ![p] =
                      [at |-> "writing", record |-> r, start |-> file, progress |-> "none"]]
               /\ holders' = holders \cup {p}
               /\ encoded' = encoded + 1
          ELSE process' = [process EXCEPT ![p] = Idle] /\ UNCHANGED <<holders, encoded>>
    /\ UNCHANGED <<file, stable, named, anchor, appended, cut, accused>>

\* How much of the record is written: a part, all but its newline, or all of it.
More(progress) ==
    CASE progress = "none" -> {"part", "bare", "all"}
      [] progress = "part" -> {"part", "bare", "all"}
      [] progress = "bare" -> {"all"}

\* The file after a write that brought the record from one progress to another. A record
\* behind one without newline makes one undecodable line of both.
Written(f, w, progress) ==
    IF w.record.joined
    THEN [lines |-> SubSeq(w.start.lines, 1, Len(w.start.lines) - 1), end |-> "broken"]
    ELSE [lines |-> IF progress = "part" \/ w.progress = "bare" THEN f.lines
                    ELSE Append(f.lines, w.record),
          end |-> CASE progress = "part" -> "broken"
                    [] progress = "bare" -> "bare"
                    [] progress = "all" -> "newline"]

Write(p) ==
    /\ process[p].at = "writing"
    /\ \E progress \in More(process[p].progress) :
          /\ file' = Written(file, process[p], progress)
          /\ process' = [process EXCEPT ![p].progress = progress,
                                        ![p].at = IF progress = "all" THEN "written" ELSE @]
    /\ UNCHANGED <<stable, named, holders, anchor, encoded, appended, cut, accused>>

\* A write raises: the file is truncated to where it ended and flushed, unless one of
\* these raises too.
Rollback(p) ==
    /\ process[p].at = "writing"
    /\ Release(p)
    /\ \/ file' = process[p].start /\ stable' \in {stable, file'} /\ UNCHANGED cut
       \/ /\ UNCHANGED <<file, stable>>
          /\ cut' = (cut \/ process[p].progress # "none")
    /\ UNCHANGED <<named, anchor, encoded, appended, accused>>

Sync(p) ==
    /\ process[p].at = "written"
    /\ stable' = file
    /\ process' = [process EXCEPT ![p].at = "synced"]
    /\ UNCHANGED <<file, named, holders, anchor, encoded, appended, cut, accused>>

\* Flushing the file or its directory, or the release, raises: the record stays.
SyncFails(p) ==
    /\ process[p].at \in {"written", "synced"}
    /\ Release(p)
    /\ UNCHANGED <<file, stable, named, anchor, encoded, appended, cut, accused>>

\* Mutant of Acknowledge: the directory is not flushed.
AcknowledgeUnnamed(p) ==
    /\ process[p].at = "synced"
    /\ appended' = appended \cup {process[p].record}
    /\ Release(p)
    /\ UNCHANGED <<file, stable, named, anchor, encoded, cut, accused>>

Acknowledge(p) ==
    /\ process[p].at = "synced"
    /\ named' = TRUE
    /\ appended' = appended \cup {process[p].record}
    /\ Release(p)
    /\ UNCHANGED <<file, stable, anchor, encoded, cut, accused>>

--------------------------------------------------------------------------------
(* The checkpoint *)

Checkpoint(lines) == [seq |-> Len(lines), id |-> Hash(lines)]

\* write_journal_checkpoint reads the tail under the shared lock and replaces the
\* checkpoint afterwards; it compares nothing with the checkpoint it replaces.
ReadTail(p) ==
    /\ process[p] = Idle /\ LockFree /\ Readable(file)
    /\ process' = [process EXCEPT ![p] = [at |-> "anchoring", tail |-> Checkpoint(file.lines)]]
    /\ UNCHANGED <<file, stable, named, holders, anchor, encoded, appended, cut, accused>>

WriteAnchor(p) ==
    /\ process[p].at = "anchoring"
    /\ anchor' = process[p].tail
    /\ Release(p)
    /\ UNCHANGED <<file, stable, named, encoded, appended, cut, accused>>

\* verify_checkpoint: the journal is behind the checkpoint or differs from it.
Missed(checkpoint, lines) ==
    checkpoint.seq > 0 /\ (\/ Len(lines) < checkpoint.seq
                           \/ lines[checkpoint.seq].id # checkpoint.id)

\* Mutant of Verify: the journal is read before the checkpoint.
VerifyJournalFirst(p) ==
    \/ /\ process[p] = Idle /\ LockFree /\ Readable(file)
       /\ process' = [process EXCEPT ![p] = [at |-> "verifying", lines |-> file.lines]]
       /\ UNCHANGED <<holders, accused>>
    \/ /\ process[p].at = "verifying"
       /\ accused' = IF Missed(anchor, process[p].lines) THEN accused \cup {anchor.id} ELSE accused
       /\ Release(p)

\* read_trusted_execution_journal loads the checkpoint, then reads the journal.
Verify(p) ==
    \/ /\ process[p] = Idle
       /\ process' = [process EXCEPT ![p] = [at |-> "verifying", checkpoint |-> anchor]]
       /\ UNCHANGED <<holders, accused>>
    \/ /\ process[p].at = "verifying" /\ LockFree
       /\ accused' = IF Readable(file) /\ Missed(process[p].checkpoint, file.lines)
                     THEN accused \cup {process[p].checkpoint.id} ELSE accused
       /\ Release(p)

VerifyStep(p) ==
    Verify(p) /\ UNCHANGED <<file, stable, named, anchor, encoded, appended, cut>>

--------------------------------------------------------------------------------
(* The machine *)

Kill(p) ==
    /\ process[p] # Idle
    /\ Release(p)
    /\ cut' = (cut \/ (process[p].at = "writing" /\ process[p].progress # "none"))
    /\ UNCHANGED <<file, stable, named, anchor, encoded, appended, accused>>

\* The kernel writes back what it likes when it likes.
WriteBack ==
    /\ \/ stable' = file /\ UNCHANGED named
       \/ named' = TRUE /\ UNCHANGED stable
    /\ UNCHANGED <<file, holders, process, anchor, encoded, appended, cut, accused>>

PowerLoss ==
    /\ file' = IF named THEN stable ELSE Empty
    /\ stable' = file'
    /\ process' = [p \in Processes |-> Idle]
    /\ holders' = {}
    /\ cut' = (cut \/ file'.end # "newline")
    /\ UNCHANGED <<named, anchor, encoded, appended, accused>>

Command(p) ==
    \/ Open(p) \/ Acquire(p) \/ Write(p) \/ Rollback(p)
    \/ Sync(p) \/ SyncFails(p) \/ Acknowledge(p)
    \/ ReadTail(p) \/ WriteAnchor(p) \/ VerifyStep(p)

Next ==
    \/ \E p \in Processes : Command(p) \/ Kill(p)
    \/ WriteBack
    \/ PowerLoss

Spec == Init /\ [][Next]_vars

--------------------------------------------------------------------------------
(* Properties *)

\* A record whose append returned is in its place for ever, whatever is killed, rolled back
\* or lost afterwards; only one that the code put on the line of an unfinished record is not.
Durable ==
    \A r \in appended : r.joined \/ (r.seq <= Len(file.lines) /\ file.lines[r.seq] = r)

\* The records of all processes form one chain in which no plan is filled beyond its size
\* or after its end, and the journal nobody is writing can be read and appended to: a
\* failed append leaves no trace unless it was killed or its rollback failed too.
OneChain ==
    /\ Chained(file.lines) /\ Lifecycle(file.lines)
    /\ holders = {} /\ ~cut => file.end = "newline"

\* Verification never says that a journal lost a record that was acknowledged: running
\* beside appends and checkpoints is no tampering, and neither is a crash.
NeverAccused == accused \cap {r.id : r \in appended} = {}

================================================================================
