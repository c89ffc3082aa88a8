---------------------------- MODULE HoldoutEvidence ----------------------------
(***************************************************************************)
(* The evidence of the future holdout                                      *)
(* (uquant/validation/production_observation.py, validation/holdout/): a   *)
(* production observation appends one market session to the immutable      *)
(* prefix of its repository and then replaces three carriers, the replay,  *)
(* the daily decision and the checkpoint that seals both, in one           *)
(* transaction that rolls back when a step fails.                          *)
(*                                                                         *)
(* Observations run concurrently, of one repository or of checkouts that   *)
(* share output paths; a run may be killed, a write may fail before or     *)
(* after its rename, and somebody outside may overwrite an output.         *)
(*                                                                         *)
(* File contents are the generation they stand for: a replay of n sessions *)
(* is deterministic. The checkpoint path of a repository is named by its   *)
(* root; its lock stands for the repository's bundle lock too, which the   *)
(* same runs take. Daily report, lanes and journal are left out.           *)
(***************************************************************************)
EXTENDS Naturals, FiniteSets

CONSTANTS
    Runs,        \* observation commands, each executed once
    Roots,       \* repositories
    Outputs,     \* output paths of replays and decisions
    RootOf,      \* the repository a run observes
    ReplayOf,    \* repository -> path of its replay
    DecisionOf,  \* repository -> path of its daily decision
    Rank,        \* the order of the lock files' names
    Edited,      \* output paths that others may overwrite
    None,        \* no run
    MaxSessions, \* bound: sessions of the contract
    MaxEdits     \* bound: edits from outside

Carriers == Outputs \cup Roots

ASSUME PathsAssumption ==
    /\ Outputs \cap Roots = {} /\ None \notin Runs /\ Edited \subseteq Outputs
    /\ RootOf \in [Runs -> Roots] /\ ReplayOf \in [Roots -> Outputs] /\ DecisionOf \in [Roots -> Outputs]
    /\ \A r \in Roots : ReplayOf[r] # DecisionOf[r]
ASSUME RankAssumption ==
    /\ Rank \in [Carriers -> Nat]
    /\ \A c, d \in Carriers : c # d => Rank[c] # Rank[d]
ASSUME SessionsAssumption == MaxSessions \in Nat /\ MaxEdits \in Nat

VARIABLES
    disk,      \* carrier -> content
    data,      \* repository -> sessions of its appended prefix
    observing, \* repository -> the run that holds its observation lock
    holder,    \* carrier -> the run that holds its lock
    job,       \* run -> where it is and what it remembers
    edits      \* edits from outside so far

vars == <<disk, data, observing, holder, job, edits>>

Absent == [kind |-> "absent"]
Foreign == [kind |-> "foreign"]
Artifact(kind, r, n) == [kind |-> kind, root |-> r, sessions |-> n]
Replay(r, n) == Artifact("replay", r, n)
Decision(r, n) == Artifact("decision", r, n)

\* A checkpoint binds the bytes its author read back.
Checkpoint(r, n, replay, decision) ==
    [kind |-> "checkpoint", root |-> r, sessions |-> n, replay |-> replay, decision |-> decision]

IdleJob == [at |-> "idle", session |-> 0, sessions |-> 0, snapshot |-> <<>>, owned |-> <<>>,
            claimed |-> Absent, unrestored |-> {}, failed |-> FALSE]

CarriersOf(r) == {r, ReplayOf[r], DecisionOf[r]}
CarrierOf(stage, r) ==
    CASE stage = "replay" -> ReplayOf[r] [] stage = "decision" -> DecisionOf[r] [] OTHER -> r

At(p, place) == job[p].at = place
Goto(p, state) == job' = [job EXCEPT ![p] = state]
Ended(p) == At(p, "ended")

\* The checkpoint on disk seals the replay and the decision on disk.
Verified(r) ==
    /\ disk[r].kind = "checkpoint"
    /\ disk[ReplayOf[r]] = disk[r].replay /\ disk[r].replay = Replay(r, disk[r].sessions)
    /\ disk[DecisionOf[r]] = disk[r].decision /\ disk[r].decision = Decision(r, disk[r].sessions)

--------------------------------------------------------------------------------
(* The observation lock and the append *)

\* A command is given the snapshot of one session.
Start(p) ==
    /\ At(p, "idle")
    /\ \E d \in 1..MaxSessions :
           job' = [job EXCEPT ![p] = [IdleJob EXCEPT !.at = "observe", !.session = d]]
    /\ UNCHANGED <<disk, data, observing, holder, edits>>

\* Mutant of ObservationLockFree: observations of one repository are not serialized.
ObservationLockIgnored(p) == observing[RootOf[p]] # p

ObservationLockFree(p) == observing[RootOf[p]] = None

LockObservation(p) ==
    /\ At(p, "observe")
    /\ ObservationLockFree(p)
    /\ observing' = [observing EXCEPT ![RootOf[p]] = p]
    /\ Goto(p, [job[p] EXCEPT !.at = "append"])
    /\ UNCHANGED <<disk, data, holder, edits>>

\* Only the next session may be appended, and only when the checkpoint seals all others.
Appendable(r, d) ==
    /\ d = data[r] + 1
    /\ data[r] > 0 => Verified(r) /\ disk[r].sessions = data[r]

\* A session that is there already is not appended again.
ValidateAppend(p) ==
    LET r == RootOf[p] d == job[p].session
    IN /\ At(p, "append")
       /\ IF d <= data[r] THEN Goto(p, [IdleJob EXCEPT !.at = "lock"])
          ELSE IF Appendable(r, d) THEN Goto(p, [job[p] EXCEPT !.at = "install"])
          ELSE Goto(p, [IdleJob EXCEPT !.at = "release"])
       /\ UNCHANGED <<disk, data, observing, holder, edits>>

\* The staged directory is renamed; a session that appeared meanwhile makes that fail.
Install(p) ==
    LET r == RootOf[p] d == job[p].session
    IN /\ At(p, "install")
       /\ data' = [data EXCEPT ![r] = IF @ < d THEN d ELSE @]
       /\ Goto(p, [IdleJob EXCEPT !.at = IF data[r] < d THEN "lock" ELSE "release"])
       /\ UNCHANGED <<disk, observing, holder, edits>>

--------------------------------------------------------------------------------
(* The bundle transaction *)

Missing(p) == {c \in CarriersOf(RootOf[p]) : holder[c] # p}

\* Mutant of NextLock: the locks are taken in the order the carriers are listed.
NextLockListed(p) ==
    LET r == RootOf[p]
    IN IF holder[ReplayOf[r]] # p THEN ReplayOf[r] ELSE IF holder[r] # p THEN r ELSE DecisionOf[r]

\* The locks are taken in the order of their names.
NextLock(p) == CHOOSE c \in Missing(p) : \A d \in Missing(p) : Rank[c] <= Rank[d]

AcquireCarrier(p) ==
    /\ At(p, "lock")
    /\ Missing(p) # {}
    /\ holder[NextLock(p)] = None
    /\ holder' = [holder EXCEPT ![NextLock(p)] = p]
    /\ UNCHANGED <<disk, data, observing, job, edits>>

\* The request, the prior checkpoint and the continuity of the new replay.
Accepted(r) ==
    \/ disk[r] = Absent /\ data[r] = 1
    \/ Verified(r) /\ data[r] \in {disk[r].sessions, disk[r].sessions + 1}

Generate(p) ==
    LET r == RootOf[p]
    IN /\ At(p, "lock")
       /\ Missing(p) = {}
       /\ job' = [job EXCEPT ![p] = IF Accepted(r)
                                    THEN [@ EXCEPT !.at = "snapshot", !.sessions = data[r]]
                                    ELSE [@ EXCEPT !.at = "release", !.failed = TRUE]]
       /\ UNCHANGED <<disk, data, observing, holder, edits>>

TakeSnapshot(p) ==
    /\ At(p, "snapshot")
    /\ job' = [job EXCEPT ![p].at = "replay",
                          ![p].snapshot = [c \in CarriersOf(RootOf[p]) |-> disk[c]]]
    /\ UNCHANGED <<disk, data, observing, holder, edits>>

AfterStage(stage) ==
    CASE stage = "replay" -> "decision" [] stage = "decision" -> "checkpoint" [] OTHER -> "verify"

Payload(p, stage) ==
    LET r == RootOf[p] n == job[p].sessions
    IN CASE stage = "replay" -> Replay(r, n)
         [] stage = "decision" -> Decision(r, n)
         [] OTHER -> Checkpoint(r, n, disk[ReplayOf[r]], disk[DecisionOf[r]])

\* Mutant of Claims: a carrier is owned once its write has returned.
ClaimsWritten(p, c, content, returned) ==
    [d \in DOMAIN job[p].owned \cup (IF returned THEN {c} ELSE {}) |->
        IF d = c THEN content ELSE job[p].owned[d]]

\* A carrier is owned before it is written.
Claims(p, c, content, returned) ==
    [d \in DOMAIN job[p].owned \cup {c} |-> IF d = c THEN content ELSE job[p].owned[d]]

\* One carrier is written and read back. The write may raise, with the new bytes installed
\* (the directory could not be flushed, the readback differs) or not.
Write(p, stage) ==
    LET c == CarrierOf(stage, RootOf[p])
        content == Payload(p, stage)
    IN /\ At(p, stage)
       /\ \E written, returned \in BOOLEAN :
              /\ returned => written
              /\ disk' = IF written THEN [disk EXCEPT ![c] = content] ELSE disk
              /\ job' = [job EXCEPT ![p].owned = Claims(p, c, content, returned),
                                    ![p].at = IF returned THEN AfterStage(stage) ELSE "undo_replay",
                                    ![p].failed = ~returned]
       /\ UNCHANGED <<data, observing, holder, edits>>

\* The checkpoint just written must verify.
VerifyBundle(p) ==
    /\ At(p, "verify")
    /\ job' = [job EXCEPT ![p] = IF Verified(RootOf[p]) THEN [@ EXCEPT !.at = "release"]
                                 ELSE [@ EXCEPT !.at = "undo_replay", !.failed = TRUE]]
    /\ UNCHANGED <<disk, data, observing, holder, edits>>

Undo(stage) ==
    CASE stage = "replay" -> "undo_replay" [] stage = "decision" -> "undo_decision"
      [] OTHER -> "undo_checkpoint"
Put(stage) ==
    CASE stage = "replay" -> "put_replay" [] stage = "decision" -> "put_decision"
      [] OTHER -> "put_checkpoint"
AfterUndo(stage) ==
    CASE stage = "replay" -> Undo("decision") [] stage = "decision" -> Undo("checkpoint")
      [] OTHER -> "release"

\* Rollback moves the carrier aside, whatever it holds now. The move may be denied.
ClaimCarrier(p, stage) ==
    LET c == CarrierOf(stage, RootOf[p])
    IN /\ At(p, Undo(stage))
       /\ \/ /\ c \notin DOMAIN job[p].owned \/ disk[c] = Absent
             /\ Goto(p, [job[p] EXCEPT !.at = AfterUndo(stage)])
             /\ UNCHANGED disk
          \/ /\ c \in DOMAIN job[p].owned /\ disk[c] # Absent
             /\ job' = [job EXCEPT ![p].at = Put(stage), ![p].claimed = disk[c]]
             /\ disk' = [disk EXCEPT ![c] = Absent]
          \/ /\ c \in DOMAIN job[p].owned /\ disk[c] # Absent
             /\ job' = [job EXCEPT ![p].at = AfterUndo(stage), ![p].unrestored = @ \cup {c}]
             /\ UNCHANGED disk
       /\ UNCHANGED <<data, observing, holder, edits>>

\* Mutant of Restored: the prior bytes are put back over whatever is there.
RestoredBlindly(p, c) == job[p].snapshot[c]

\* What the carrier holds after the rollback: its prior bytes if the claimed ones were this
\* run's, the claimed bytes if not, and in no case instead of a file installed meanwhile.
Restored(p, c) ==
    IF disk[c] # Absent THEN disk[c]
    ELSE IF job[p].claimed = job[p].owned[c] THEN job[p].snapshot[c]
    ELSE job[p].claimed

\* Putting it back may fail; the claimed bytes are then kept beside the carrier.
RestoreCarrier(p, stage) ==
    LET c == CarrierOf(stage, RootOf[p])
    IN /\ At(p, Put(stage))
       /\ \E failed \in BOOLEAN :
              /\ disk' = IF failed THEN disk ELSE [disk EXCEPT ![c] = Restored(p, c)]
              /\ job' = [job EXCEPT ![p].at = AfterUndo(stage), ![p].claimed = Absent,
                                    ![p].unrestored = IF failed THEN @ \cup {c} ELSE @]
       /\ UNCHANGED <<data, observing, holder, edits>>

Unlocked(p) == [c \in Carriers |-> IF holder[c] = p THEN None ELSE holder[c]]

Unobserved(p) == [r \in Roots |-> IF observing[r] = p THEN None ELSE observing[r]]

\* The command ends: the carrier locks and, once its receipt is sealed, the observation lock
\* are released.
Release(p) ==
    /\ At(p, "release")
    /\ holder' = Unlocked(p)
    /\ observing' = Unobserved(p)
    /\ Goto(p, [IdleJob EXCEPT !.at = "ended"])
    /\ UNCHANGED <<disk, data, edits>>

Step(p) ==
    \/ LockObservation(p)
    \/ ValidateAppend(p)
    \/ Install(p)
    \/ AcquireCarrier(p)
    \/ Generate(p)
    \/ TakeSnapshot(p)
    \/ \E stage \in {"replay", "decision", "checkpoint"} :
          \/ Write(p, stage)
          \/ ClaimCarrier(p, stage)
          \/ RestoreCarrier(p, stage)
    \/ VerifyBundle(p)
    \/ Release(p)

--------------------------------------------------------------------------------
(* The environment *)

\* A killed run loses its locks and leaves the disk as it is.
Kill(p) ==
    /\ ~At(p, "idle") /\ ~Ended(p)
    /\ holder' = Unlocked(p)
    /\ observing' = Unobserved(p)
    /\ Goto(p, [IdleJob EXCEPT !.at = "ended"])
    /\ UNCHANGED <<disk, data, edits>>

Edit(c) ==
    /\ edits < MaxEdits
    /\ disk' = [disk EXCEPT ![c] = Foreign]
    /\ edits' = edits + 1
    /\ UNCHANGED <<data, observing, holder, job>>

Finished ==
    /\ \A p \in Runs : Ended(p)
    /\ UNCHANGED vars

Init ==
    /\ disk = [c \in Carriers |-> Absent]
    /\ data = [r \in Roots |-> 0]
    /\ observing = [r \in Roots |-> None]
    /\ holder = [c \in Carriers |-> None]
    /\ job = [p \in Runs |-> IdleJob]
    /\ edits = 0

Next ==
    \/ \E p \in Runs : Start(p) \/ Step(p) \/ Kill(p)
    \/ \E c \in Edited : Edit(c)
    \/ Finished

Spec == Init /\ [][Next]_vars

\* The operating system keeps scheduling a started command.
FairSpec == Spec /\ \A p \in Runs : WF_vars(Step(p))

--------------------------------------------------------------------------------
(* Properties *)

Contents ==
    {Absent, Foreign}
    \cup {Artifact(k, r, n) : k \in {"replay", "decision"}, r \in Roots, n \in 1..MaxSessions}

Places ==
    {"idle", "observe", "append", "install", "lock", "snapshot", "replay", "decision",
     "checkpoint", "verify", "release", "ended"}
    \cup {Undo(s) : s \in {"replay", "decision", "checkpoint"}}
    \cup {Put(s) : s \in {"replay", "decision", "checkpoint"}}

\* Each carrier holds content of its own kind, and the state keeps its shape.
TypeOK ==
    /\ \A o \in Outputs : disk[o] \in Contents
    /\ \A r \in Roots : disk[r] = Absent \/ (disk[r].kind = "checkpoint" /\ disk[r].root = r)
    /\ data \in [Roots -> 0..MaxSessions]
    /\ observing \in [Roots -> Runs \cup {None}]
    /\ holder \in [Carriers -> Runs \cup {None}]
    /\ \A p \in Runs : job[p].at \in Places
    /\ edits \in 0..MaxEdits

\* When a transaction is about to release its locks, its carriers are all as they were
\* before it or all new, whichever step failed and whoever else was running; only an outside
\* edit or a carrier whose rollback failed too may differ.
AllOrNothing ==
    /\ TypeOK
    /\ \A p \in Runs :
        (At(p, "release") /\ job[p].snapshot # <<>>) =>
            \A c \in CarriersOf(RootOf[p]) \ job[p].unrestored :
                \/ disk[c] = Foreign
                \/ disk[c] = IF job[p].failed THEN job[p].snapshot[c] ELSE job[p].owned[c]

\* Rollback never replaces a file that somebody else installed, before or after it moved the
\* carrier aside; when it cannot put a file back it keeps it aside.
ForeignKept ==
    [][\A p \in Runs, stage \in {"replay", "decision", "checkpoint"} :
          LET c == CarrierOf(stage, RootOf[p])
          IN (/\ At(p, Put(stage)) /\ job'[p].at = AfterUndo(stage)
              /\ c \notin job'[p].unrestored
              /\ Foreign \in {disk[c], job[p].claimed}) => disk'[c] = Foreign]_vars

\* The immutable prefix grows only when the checkpoint seals every session before the new
\* one, at the moment of the append and not only when it was validated: otherwise no replay
\* would ever be accepted again, and appended sessions are never deleted.
AppendSealed ==
    [][\A r \in Roots :
          data'[r] # data[r] =>
              /\ data'[r] = data[r] + 1
              /\ data[r] > 0 => disk[r].kind = "checkpoint" /\ disk[r].sessions = data[r]]_vars

\* A started observation ends, although runs of different checkouts wait for each other's
\* carrier locks.
ObservationEnds == \A p \in Runs : ~At(p, "idle") ~> Ended(p)

================================================================================
