----------------------------- MODULE EvidenceProofs -----------------------------
(***************************************************************************)
(* The two commands that write evidence are safe. The append and the       *)
(* bundle transaction of HoldoutEvidence, for any number of concurrent     *)
(* observations, repositories and shared output paths, whichever steps     *)
(* fail and whoever is killed; the backup of BackupCheckpoint for every    *)
(* list of inputs and documents of evidence, as long as no name is in      *)
(* both.                                                                   *)
(***************************************************************************)
EXTENDS HoldoutEvidence, BackupCheckpoint, TLAPS

--------------------------------------------------------------------------------
(* The append of an observation and its bundle (HoldoutEvidence) *)

Stages == {"replay", "decision", "checkpoint"}
Forward == {"replay", "decision", "checkpoint", "verify"}
Undoing == {"undo_replay", "undo_decision", "undo_checkpoint"}
Putting == {"put_replay", "put_decision", "put_checkpoint"}
Backward == Undoing \cup Putting

\* What a carrier may hold: the path of a repository its checkpoint, an output the rest.
Seals(r) ==
    [kind : {"checkpoint"}, root : {r}, sessions : 1..MaxSessions, replay : Contents,
     decision : Contents]
ContentsOf(c) == IF c \in Roots THEN {Absent} \cup Seals(c) ELSE Contents
Values == UNION {ContentsOf(c) : c \in Carriers}
Partial == UNION {[S -> Values] : S \in SUBSET Carriers}

Job ==
    [at : Places, session : 0..MaxSessions, sessions : 0..MaxSessions,
     snapshot : Partial, owned : Partial, claimed : Values \cup {Absent},
     unrestored : SUBSET Carriers, failed : BOOLEAN]

Shape ==
    /\ disk \in [Carriers -> Values] /\ \A c \in Carriers : disk[c] \in ContentsOf(c)
    /\ data \in [Roots -> 0..MaxSessions]
    /\ observing \in [Roots -> Runs \cup {None}]
    /\ holder \in [Carriers -> Runs \cup {None}]
    /\ job \in [Runs -> Job]
    /\ edits \in 0..MaxEdits

\* A job in its transaction: it has its snapshot and has not released its locks.
InTransaction(j) ==
    j.at \in Forward \cup Backward \/ (j.at = "release" /\ j.snapshot # <<>>)

\* From the append on a run is the only observation of its repository; from the snapshot on
\* it holds the locks of its carriers.
Locked(p) ==
    /\ job[p].at \in {"append", "install", "lock", "snapshot", "release"} \cup Forward \cup Backward =>
           observing[RootOf[p]] = p
    /\ job[p].at = "snapshot" \/ InTransaction(job[p]) =>
           \A c \in CarriersOf(RootOf[p]) : holder[c] = p

\* The append that was validated is still the next one, and still sealed.
Appending(p) ==
    LET r == RootOf[p]
    IN At(p, "install") =>
           /\ job[p].session = data[r] + 1
           /\ data[r] > 0 => disk[r].kind = "checkpoint" /\ disk[r].sessions = data[r]

\* The sessions a transaction was generated for are at least one.
Generated(j) == j.at = "snapshot" \/ InTransaction(j) => j.sessions >= 1

\* Outside its transaction a run remembers nothing of one.
Fresh(j) ==
    ~InTransaction(j) => /\ j.owned = <<>> /\ j.unrestored = {}
                         /\ j.claimed = Absent /\ j.snapshot = <<>>
                         /\ j.failed => j.at = "release"

Remembered(r, j) ==
    InTransaction(j) =>
        /\ DOMAIN j.snapshot = CarriersOf(r)
        /\ \A c \in CarriersOf(r) : j.snapshot[c] \in ContentsOf(c)
        /\ DOMAIN j.owned \subseteq CarriersOf(r)
        /\ \A c \in DOMAIN j.owned : j.owned[c] \notin {Absent, Foreign}
        /\ j.at \in Forward => ~j.failed
        /\ j.at \in Backward => j.failed

\* The carriers written before each step of a transaction that goes forward.
WrittenBefore(r, at) ==
    IF at = "replay" THEN {}
    ELSE IF at = "decision" THEN {ReplayOf[r]}
    ELSE IF at = "checkpoint" THEN {ReplayOf[r], DecisionOf[r]}
    ELSE CarriersOf(r)

\* Going forward every carrier holds what this run wrote or else what was there before.
GoingForward(r, j, D) ==
    (InTransaction(j) /\ ~j.failed) =>
        /\ DOMAIN j.owned = WrittenBefore(r, j.at)
        /\ j.unrestored = {}
        /\ \A c \in CarriersOf(r) :
              D[c] \in {Foreign, IF c \in DOMAIN j.owned THEN j.owned[c] ELSE j.snapshot[c]}

\* The carriers dealt with before each step of a rollback, and the one that is moved aside.
UndoneBefore(r, at) ==
    IF at \in {"undo_replay", "put_replay"} THEN {}
    ELSE IF at \in {"undo_decision", "put_decision"} THEN {ReplayOf[r]}
    ELSE IF at \in {"undo_checkpoint", "put_checkpoint"} THEN {ReplayOf[r], DecisionOf[r]}
    ELSE CarriersOf(r)
Aside(r, at) ==
    IF at = "put_replay" THEN {ReplayOf[r]}
    ELSE IF at = "put_decision" THEN {DecisionOf[r]}
    ELSE IF at = "put_checkpoint" THEN {r} ELSE {}

\* Going back every carrier is restored or listed as unrestored, or is moved aside, or still
\* holds what this run wrote or what was there before.
GoingBack(r, j, D) ==
    (InTransaction(j) /\ j.failed) =>
        /\ \A c \in UndoneBefore(r, j.at) : c \in j.unrestored \/ D[c] \in {Foreign, j.snapshot[c]}
        /\ \A c \in Aside(r, j.at) : /\ c \in DOMAIN j.owned
                                     /\ D[c] \in {Absent, Foreign}
                                     /\ j.claimed \in ContentsOf(c)
                                     /\ j.claimed \in {Foreign, j.owned[c], j.snapshot[c]}
        /\ \A c \in CarriersOf(r) \ (UndoneBefore(r, j.at) \cup Aside(r, j.at)) :
              \/ D[c] \in {Foreign, j.snapshot[c]}
              \/ c \in DOMAIN j.owned /\ D[c] = j.owned[c]

Settled(r, j, D) ==
    Generated(j) /\ Fresh(j) /\ Remembered(r, j) /\ GoingForward(r, j, D) /\ GoingBack(r, j, D)

\* Inductive: what a run relies on is kept by the locks it holds, and nobody else touches
\* the carriers of a transaction but with an outside edit.
IInv ==
    /\ Shape
    /\ \A p \in Runs : Locked(p) /\ Appending(p) /\ Settled(RootOf[p], job[p], disk)

--------------------------------------------------------------------------------
\* Lemmas about the data.

\* The carriers of a repository are three different ones.
LEMMA Paths ==
    ASSUME NEW r \in Roots
    PROVE  /\ ReplayOf[r] \in Outputs /\ DecisionOf[r] \in Outputs
           /\ ReplayOf[r] # DecisionOf[r] /\ r # ReplayOf[r] /\ r # DecisionOf[r]
           /\ ReplayOf[r] \notin Roots /\ DecisionOf[r] \notin Roots
           /\ CarriersOf(r) = {r, ReplayOf[r], DecisionOf[r]} /\ CarriersOf(r) \subseteq Carriers
           /\ CarriersOf(r) \cap Roots = {r}
BY PathsAssumption DEF CarriersOf, Carriers

\* The steps of the rollback, by stage.
LEMMA StageNames ==
    ASSUME NEW stage \in Stages, NEW r
    PROVE  /\ Undo(stage) \in Undoing /\ Put(stage) \in Putting
           /\ AfterUndo(stage) \in Undoing \cup {"release"}
           /\ CarrierOf(stage, r) \in CarriersOf(r)
           /\ Aside(r, Put(stage)) = {CarrierOf(stage, r)} /\ Aside(r, Undo(stage)) = {}
           /\ Aside(r, AfterUndo(stage)) = {} /\ AfterUndo(stage) # "undo_replay"
           /\ UndoneBefore(r, Put(stage)) = UndoneBefore(r, Undo(stage))
           /\ UndoneBefore(r, AfterUndo(stage)) = UndoneBefore(r, Undo(stage)) \cup {CarrierOf(stage, r)}
<1> USE DEF Undo, Put, AfterUndo, CarrierOf, CarriersOf, Undoing, Putting, Aside, UndoneBefore
<1>1. CASE stage = "replay"
  BY <1>1
<1>2. CASE stage = "decision"
  BY <1>2
<1>3. CASE stage = "checkpoint"
  BY <1>3
<1> QED
  BY <1>1, <1>2, <1>3 DEF Stages

\* Artifacts are contents exactly when they are of a repository and its sessions.
LEMMA ArtifactContents ==
    ASSUME NEW k \in {"replay", "decision"}, NEW r, NEW n
    PROVE  /\ Artifact(k, r, n) \in Contents <=> r \in Roots /\ n \in 1..MaxSessions
           /\ Artifact(k, r, n) \notin {Absent, Foreign}
<1>1. Artifact(k, r, n).kind = k /\ Artifact(k, r, n).root = r /\ Artifact(k, r, n).sessions = n
  BY DEF Artifact
<1>2. Artifact(k, r, n) \notin {Absent, Foreign}
  BY <1>1 DEF Absent, Foreign
<1>3. ASSUME Artifact(k, r, n) \in Contents PROVE r \in Roots /\ n \in 1..MaxSessions
  <2>1. PICK k2 \in {"replay", "decision"}, r2 \in Roots, n2 \in 1..MaxSessions :
            Artifact(k, r, n) = Artifact(k2, r2, n2)
    BY <1>2, <1>3 DEF Contents
  <2>2. Artifact(k2, r2, n2).root = r2 /\ Artifact(k2, r2, n2).sessions = n2
    BY DEF Artifact
  <2> QED
    BY <2>1, <2>2, <1>1
<1> QED
  BY <1>2, <1>3 DEF Contents

\* What a carrier may hold is a value, and a repository's checkpoint is one of its own.
LEMMA CarrierContents ==
    ASSUME NEW c \in Carriers
    PROVE  /\ ContentsOf(c) \subseteq Values /\ Absent \in ContentsOf(c)
           /\ c \in Outputs => Foreign \in ContentsOf(c) /\ ContentsOf(c) = Contents
           /\ c \in Roots => ContentsOf(c) = {Absent} \cup Seals(c)
           /\ c \in Roots => \A v \in ContentsOf(c) :
                 v.kind = "checkpoint" => v.root = c /\ v.sessions \in 1..MaxSessions
<1>1. c \in Roots => \A v \in ContentsOf(c) :
          v.kind = "checkpoint" => v.root = c /\ v.sessions \in 1..MaxSessions
  BY DEF ContentsOf, Seals, Absent
<1> QED
  BY <1>1, PathsAssumption DEF ContentsOf, Values, Contents, Carriers

\* A bundle that verifies stands for at least one session.
LEMMA VerifiedSessions ==
    ASSUME Shape, NEW r \in Roots, Verified(r)
    PROVE  disk[r].sessions \in 1..MaxSessions
BY Paths, CarrierContents DEF Shape, Verified

\* What others do to a carrier of a transaction is no more than an outside edit.
LEMMA OthersSettled ==
    ASSUME NEW r \in Roots, NEW j \in Job, NEW D, NEW E, Settled(r, j, D),
           \A c \in CarriersOf(r) : E[c] \in {D[c], Foreign}
    PROVE  Settled(r, j, E)
<1>1. GoingForward(r, j, E)
  BY DEF Settled, GoingForward
<1>2. GoingBack(r, j, E)
  <2>1. UndoneBefore(r, j.at) \subseteq CarriersOf(r) /\ Aside(r, j.at) \subseteq CarriersOf(r)
    BY DEF UndoneBefore, Aside, CarriersOf
  <2> QED
    BY <2>1 DEF Settled, GoingBack
<1> QED
  BY <1>1, <1>2 DEF Settled

--------------------------------------------------------------------------------
\* The actions, one by one.

\* A run that touches the disk only where it holds the lock, and keeps its own promises,
\* keeps those of all others.
LEMMA RunStep ==
    ASSUME IInv, NEW p \in Runs, Shape',
           \A q \in Runs \ {p} : job'[q] = job[q],
           \A c \in Carriers : disk'[c] # disk[c] =>
               /\ job[p].at \in Forward \cup Backward /\ c \in CarriersOf(RootOf[p]),
           \A c \in Carriers, q \in Runs \ {p} : holder[c] = q => holder'[c] = q,
           \A r \in Roots, q \in Runs \ {p} : observing[r] = q => observing'[r] = q,
           \A r \in Roots : data'[r] # data[r] => observing[r] = p,
           Locked(p)', Appending(p)', Settled(RootOf[p], job'[p], disk')
    PROVE  IInv'
<1> SUFFICES ASSUME NEW q \in Runs, q # p
             PROVE  Locked(q)' /\ Appending(q)' /\ Settled(RootOf[q], job'[q], disk')
  BY DEF IInv
<1>1. /\ RootOf[p] \in Roots /\ RootOf[q] \in Roots /\ job'[q] = job[q] /\ job[q] \in Job
      /\ Locked(p) /\ Locked(q) /\ Appending(q) /\ Settled(RootOf[q], job[q], disk)
  BY PathsAssumption DEF IInv, Shape
<1>2. Locked(q)'
  BY <1>1, Paths DEF Locked
<1>3. ASSUME NEW c \in CarriersOf(RootOf[q]), disk'[c] # disk[c]
      PROVE  /\ observing[RootOf[p]] = p /\ holder[c] = p
             /\ c \in Roots => c = RootOf[p]
  BY <1>1, <1>3, Paths DEF Locked, InTransaction
<1>4. Appending(q)'
  <2> SUFFICES ASSUME At(q, "install") PROVE Appending(q)'
    BY <1>1 DEF Appending, At
  <2>1. observing[RootOf[q]] = q
    BY <1>1 DEF Locked, At
  <2>2. data'[RootOf[q]] = data[RootOf[q]]
    BY <1>1, <2>1
  <2>3. disk'[RootOf[q]] = disk[RootOf[q]]
    BY <1>1, <1>3, <2>1, Paths
  <2> QED
    BY <1>1, <2>2, <2>3 DEF Appending, At
<1>5. Settled(RootOf[q], job'[q], disk')
  <2>1. CASE InTransaction(job[q])
    <3>1. \A c \in CarriersOf(RootOf[q]) : disk'[c] = disk[c]
      BY <1>1, <1>3, <2>1 DEF Locked
    <3> QED
      BY <1>1, <3>1, OthersSettled
  <2>2. CASE ~InTransaction(job[q])
    BY <1>1, <2>2 DEF Settled, GoingForward, GoingBack
  <2> QED
    BY <2>1, <2>2
<1> QED
  BY <1>2, <1>4, <1>5

\* The parts of a job.
LEMMA JobFields ==
    ASSUME NEW j \in Job
    PROVE  /\ j.at \in Places /\ j.session \in 0..MaxSessions /\ j.sessions \in 0..MaxSessions
           /\ j.claimed \in Values \cup {Absent} /\ j.unrestored \in SUBSET Carriers
           /\ j.failed \in BOOLEAN /\ j.snapshot \in Partial /\ j.owned \in Partial
           /\ DOMAIN j = {"at", "session", "sessions", "snapshot", "owned", "claimed",
                          "unrestored", "failed"}
BY DEF Job

\* The places of a run.
LEMMA PlaceNames ==
    /\ Stages \cup Forward \cup Backward \subseteq Places
    /\ {"idle", "observe", "append", "install", "lock", "snapshot", "release", "ended"} \subseteq Places
<1>1. \A s \in Stages : Undo(s) \in Places /\ Put(s) \in Places
  BY DEF Places, Stages
<1>2. /\ Undo("replay") = "undo_replay" /\ Undo("decision") = "undo_decision"
      /\ Undo("checkpoint") = "undo_checkpoint" /\ Put("replay") = "put_replay"
      /\ Put("decision") = "put_decision" /\ Put("checkpoint") = "put_checkpoint"
  BY DEF Undo, Put
<1> QED
  BY <1>1, <1>2 DEF Places, Stages, Forward, Backward, Undoing, Putting

\* An idle run remembers nothing.
LEMMA IdleJobShape ==
    /\ IdleJob \in Job /\ IdleJob.at = "idle" /\ IdleJob.snapshot = <<>> /\ IdleJob.owned = <<>>
    /\ IdleJob.claimed = Absent /\ IdleJob.unrestored = {} /\ IdleJob.failed = FALSE
<1>1. <<>> \in [{} -> Values]
  OBVIOUS
<1>2. <<>> \in Partial
  BY <1>1 DEF Partial
<1> QED
  BY <1>2, PlaceNames, SessionsAssumption DEF Job, IdleJob

\* A run that has not entered its transaction has nothing to settle.
LEMMA OutsideSettled ==
    ASSUME NEW r, NEW D, NEW j \in Job, j.at \notin {"snapshot"} \cup Forward \cup Backward,
           j.snapshot = <<>>, j.owned = <<>>, j.claimed = Absent, j.unrestored = {},
           j.failed => j.at = "release"
    PROVE  Settled(r, j, D) /\ ~InTransaction(j)
<1>1. ~InTransaction(j)
  BY DEF InTransaction
<1> QED
  BY <1>1 DEF Settled, Generated, Fresh, Remembered, GoingForward, GoingBack

\* Facts about a run that the invariant gives.
LEMMA RunFacts ==
    ASSUME IInv, NEW p \in Runs
    PROVE  /\ RootOf[p] \in Roots /\ job[p] \in Job /\ job \in [Runs -> Job]
           /\ Locked(p) /\ Appending(p) /\ Settled(RootOf[p], job[p], disk)
           /\ data[RootOf[p]] \in 0..MaxSessions /\ p # None
BY PathsAssumption DEF IInv, Shape

\* Updating the job of one run.
LEMMA JobUpdate ==
    ASSUME job \in [Runs -> Job], NEW p \in Runs, NEW j \in Job, job' = [job EXCEPT ![p] = j]
    PROVE  /\ job' \in [Runs -> Job] /\ job'[p] = j /\ \A q \in Runs \ {p} : job'[q] = job[q]
OBVIOUS

LEMMA StartKeepsIInv == ASSUME IInv, NEW p \in Runs, Start(p) PROVE IInv'
<1> USE DEF Start
<1>1. PICK d \in 1..MaxSessions :
          job' = [job EXCEPT ![p] = [IdleJob EXCEPT !.at = "observe", !.session = d]]
  OBVIOUS
<1> DEFINE j == [IdleJob EXCEPT !.at = "observe", !.session = d]
<1>2. /\ j \in Job /\ j.at = "observe" /\ j.snapshot = <<>> /\ j.owned = <<>>
      /\ j.claimed = Absent /\ j.unrestored = {} /\ ~j.failed
  <2>1. d \in 0..MaxSessions /\ "observe" \in Places
    BY PlaceNames, SessionsAssumption
  <2>2. j \in Job
    BY <2>1, IdleJobShape DEF Job
  <2> QED
    BY <2>2 DEF IdleJob
<1> HIDE DEF j
<1>3. job' \in [Runs -> Job] /\ job'[p] = j /\ \A q \in Runs \ {p} : job'[q] = job[q]
  BY <1>1, <1>2, RunFacts, JobUpdate DEF j
<1>4. Settled(RootOf[p], job'[p], disk') /\ ~InTransaction(job'[p])
  BY <1>2, <1>3, OutsideSettled DEF Forward, Backward, Undoing, Putting
<1>5. Locked(p)' /\ Appending(p)'
  BY <1>2, <1>3, <1>4 DEF Locked, Appending, At, Forward, Backward, Undoing, Putting
<1>6. Shape'
  BY <1>3 DEF IInv, Shape
<1> QED
  BY <1>3, <1>4, <1>5, <1>6, RunStep

LEMMA LockObservationKeepsIInv == ASSUME IInv, NEW p \in Runs, LockObservation(p) PROVE IInv'
<1> USE DEF LockObservation, Goto, At, ObservationLockFree
<1> DEFINE j == [job[p] EXCEPT !.at = "append"]
<1>1. ~InTransaction(job[p])
  BY RunFacts DEF InTransaction, Forward, Backward, Undoing, Putting
<1>2. /\ j \in Job /\ j.at = "append" /\ j.snapshot = <<>> /\ j.owned = <<>>
      /\ j.claimed = Absent /\ j.unrestored = {} /\ ~j.failed
  <2>1. j \in Job
    BY RunFacts, PlaceNames DEF Job
  <2>2. DOMAIN job[p] = {"at", "session", "sessions", "snapshot", "owned", "claimed",
                         "unrestored", "failed"}
    BY RunFacts, JobFields
  <2>3. /\ job[p].snapshot = <<>> /\ job[p].owned = <<>> /\ job[p].claimed = Absent
        /\ job[p].unrestored = {} /\ ~job[p].failed
    BY <1>1, RunFacts DEF Settled, Fresh
  <2> QED
    BY <2>1, <2>2, <2>3
<1>3. job' \in [Runs -> Job] /\ job'[p] = j /\ \A q \in Runs \ {p} : job'[q] = job[q]
  BY <1>2, RunFacts, JobUpdate
<1> HIDE DEF j
<1>4. Settled(RootOf[p], job'[p], disk') /\ ~InTransaction(job'[p])
  BY <1>2, <1>3, OutsideSettled DEF Forward, Backward, Undoing, Putting
<1>5. Shape'
  BY <1>3 DEF IInv, Shape
<1>6. observing'[RootOf[p]] = p /\ \A r \in Roots : observing[r] # None => observing'[r] = observing[r]
  BY RunFacts DEF IInv, Shape
<1>7. Locked(p)' /\ Appending(p)'
  BY <1>2, <1>3, <1>4, <1>6 DEF Locked, Appending
<1> QED
  BY <1>3, <1>4, <1>5, <1>6, <1>7, RunStep, PathsAssumption

\* An idle run with another place, as the steps outside a transaction leave it.
LEMMA IdleAt ==
    ASSUME NEW at \in Places
    PROVE  LET j == [IdleJob EXCEPT !.at = at]
           IN /\ j \in Job /\ j.at = at /\ j.snapshot = <<>> /\ j.owned = <<>>
              /\ j.claimed = Absent /\ j.unrestored = {} /\ ~j.failed
<1>1. [IdleJob EXCEPT !.at = at] \in Job
  BY IdleJobShape DEF Job
<1> QED
  BY <1>1 DEF IdleJob

LEMMA ValidateAppendKeepsIInv == ASSUME IInv, NEW p \in Runs, ValidateAppend(p) PROVE IInv'
<1> DEFINE r == RootOf[p]
<1> USE DEF ValidateAppend, Goto, At
<1>1. ~InTransaction(job[p]) /\ observing[r] = p
  BY RunFacts DEF InTransaction, Locked, Forward, Backward, Undoing, Putting
<1>2. PICK j \in Job :
          /\ job' = [job EXCEPT ![p] = j] /\ j.at \in {"lock", "install", "release"}
          /\ j.snapshot = <<>> /\ j.owned = <<>> /\ j.claimed = Absent /\ j.unrestored = {} /\ ~j.failed
          /\ j.at = "install" => j.session = job[p].session /\ Appendable(r, job[p].session)
  <2>1. CASE job[p].session <= data[r]
    BY <2>1, IdleAt, PlaceNames
  <2>2. CASE ~(job[p].session <= data[r]) /\ Appendable(r, job[p].session)
    <3>1. [job[p] EXCEPT !.at = "install"] \in Job
      BY RunFacts, PlaceNames DEF Job
    <3>2. job' = [job EXCEPT ![p] = [job[p] EXCEPT !.at = "install"]]
      BY <2>2
    <3>3. job[p].snapshot = <<>> /\ job[p].owned = <<>> /\ job[p].claimed = Absent /\ job[p].unrestored = {} /\ ~job[p].failed
      BY <1>1, RunFacts DEF Settled, Fresh
    <3>4. DOMAIN job[p] = {"at", "session", "sessions", "snapshot", "owned", "claimed",
                           "unrestored", "failed"}
      BY RunFacts, JobFields
    <3> DEFINE k == [job[p] EXCEPT !.at = "install"]
    <3>5. /\ k.at = "install" /\ k.session = job[p].session /\ k.snapshot = <<>> /\ k.owned = <<>>
          /\ k.claimed = Absent /\ k.unrestored = {} /\ ~k.failed
      BY <3>3, <3>4
    <3> QED
      BY <2>2, <3>1, <3>2, <3>5
  <2>3. CASE ~(job[p].session <= data[r]) /\ ~Appendable(r, job[p].session)
    BY <2>3, IdleAt, PlaceNames
  <2> QED
    BY <2>1, <2>2, <2>3
<1>3. job' \in [Runs -> Job] /\ job'[p] = j /\ \A q \in Runs \ {p} : job'[q] = job[q]
  BY <1>2, RunFacts, JobUpdate
<1>4. Settled(r, job'[p], disk') /\ ~InTransaction(job'[p])
  BY <1>2, <1>3, OutsideSettled DEF Forward, Backward, Undoing, Putting
<1>5. Locked(p)'
  BY <1>1, <1>2, <1>3, <1>4 DEF Locked
<1>6. Appending(p)'
  BY <1>2, <1>3 DEF Appending, Appendable, Verified
<1>7. Shape'
  BY <1>3 DEF IInv, Shape
<1> QED
  BY <1>3, <1>4, <1>5, <1>6, <1>7, RunStep

LEMMA InstallKeepsIInv == ASSUME IInv, NEW p \in Runs, Install(p) PROVE IInv'
<1> DEFINE r == RootOf[p]
<1> USE DEF Install, Goto, At
<1>1. /\ observing[r] = p /\ job[p].session \in 0..MaxSessions
      /\ job[p].session = data[r] + 1 /\ data[r] < job[p].session
  BY RunFacts, JobFields, SessionsAssumption DEF Locked, Appending
<1>2. [IdleJob EXCEPT !.at = "lock"] \in Job /\ job' = [job EXCEPT ![p] = [IdleJob EXCEPT !.at = "lock"]]
  BY <1>1, IdleAt, PlaceNames
<1>3. PICK j \in Job :
          /\ job' = [job EXCEPT ![p] = j] /\ j.at = "lock"
          /\ j.snapshot = <<>> /\ j.owned = <<>> /\ j.claimed = Absent /\ j.unrestored = {} /\ ~j.failed
  BY <1>2, IdleAt, PlaceNames
<1>4. job' \in [Runs -> Job] /\ job'[p] = j /\ \A q \in Runs \ {p} : job'[q] = job[q]
  BY <1>3, RunFacts, JobUpdate
<1>5. Settled(r, job'[p], disk') /\ ~InTransaction(job'[p])
  BY <1>3, <1>4, OutsideSettled DEF Forward, Backward, Undoing, Putting
<1>6. Locked(p)' /\ Appending(p)'
  BY <1>1, <1>3, <1>4, <1>5 DEF Locked, Appending
<1>7. data' \in [Roots -> 0..MaxSessions] /\ \A s \in Roots : data'[s] # data[s] => s = r
  BY <1>1, RunFacts DEF IInv, Shape
<1>8. Shape'
  BY <1>4, <1>7 DEF IInv, Shape
<1> QED
  BY <1>1, <1>4, <1>5, <1>6, <1>7, <1>8, RunStep

LEMMA AcquireCarrierKeepsIInv == ASSUME IInv, NEW p \in Runs, AcquireCarrier(p) PROVE IInv'
<1> USE DEF AcquireCarrier, At
<1>1. Shape'
  BY DEF IInv, Shape
<1>2. \A c \in Carriers : holder[c] # None => holder'[c] = holder[c]
  BY DEF IInv, Shape
<1>3. ~InTransaction(job[p])
  BY DEF InTransaction, Forward, Backward, Undoing, Putting
<1>4. Locked(p)' /\ Appending(p)' /\ Settled(RootOf[p], job'[p], disk')
  BY <1>3, RunFacts DEF Locked, Appending
<1> QED
  BY <1>1, <1>2, <1>4, RunStep, PathsAssumption

LEMMA GenerateKeepsIInv == ASSUME IInv, NEW p \in Runs, Generate(p) PROVE IInv'
<1> DEFINE r == RootOf[p]
<1> USE DEF Generate, At
<1>1. ~InTransaction(job[p]) /\ observing[r] = p /\ \A c \in CarriersOf(r) : holder[c] = p
  BY RunFacts DEF InTransaction, Locked, Missing, Forward, Backward, Undoing, Putting
<1>2. DOMAIN job[p] = {"at", "session", "sessions", "snapshot", "owned", "claimed",
                       "unrestored", "failed"}
  BY RunFacts, JobFields
<1>3. /\ job[p].snapshot = <<>> /\ job[p].owned = <<>> /\ job[p].claimed = Absent
      /\ job[p].unrestored = {} /\ ~job[p].failed
  BY <1>1, RunFacts DEF Settled, Fresh
<1>4. CASE Accepted(r)
  <2> DEFINE j == [job[p] EXCEPT !.at = "snapshot", !.sessions = data[r]]
  <2>1. j \in Job /\ job' = [job EXCEPT ![p] = j]
    BY <1>4, RunFacts, PlaceNames DEF Job
  <2>2. /\ j.at = "snapshot" /\ j.sessions = data[r] /\ j.snapshot = <<>> /\ j.owned = <<>>
        /\ j.claimed = Absent /\ j.unrestored = {} /\ ~j.failed
    BY <1>2, <1>3
  <2>3. data[r] >= 1
    BY <1>4, RunFacts, VerifiedSessions, SessionsAssumption DEF Accepted, IInv
  <2> HIDE DEF j
  <2>4. job' \in [Runs -> Job] /\ job'[p] = j /\ \A q \in Runs \ {p} : job'[q] = job[q]
    BY <2>1, RunFacts, JobUpdate
  <2>5. ~InTransaction(j)
    BY <2>2 DEF InTransaction, Forward, Backward, Undoing, Putting
  <2>6. Settled(r, job'[p], disk')
    BY <2>2, <2>3, <2>4, <2>5 DEF Settled, Generated, Fresh, Remembered, GoingForward, GoingBack
  <2>7. Locked(p)' /\ Appending(p)'
    BY <1>1, <2>2, <2>4 DEF Locked, Appending
  <2>8. Shape'
    BY <2>4 DEF IInv, Shape
  <2> QED
    BY <2>4, <2>6, <2>7, <2>8, RunStep
<1>5. CASE ~Accepted(r)
  <2> DEFINE j == [job[p] EXCEPT !.at = "release", !.failed = TRUE]
  <2>1. j \in Job /\ job' = [job EXCEPT ![p] = j]
    BY <1>5, RunFacts, PlaceNames DEF Job
  <2>2. /\ j.at = "release" /\ j.snapshot = <<>> /\ j.owned = <<>>
        /\ j.claimed = Absent /\ j.unrestored = {}
    BY <1>2, <1>3
  <2> HIDE DEF j
  <2>3. job' \in [Runs -> Job] /\ job'[p] = j /\ \A q \in Runs \ {p} : job'[q] = job[q]
    BY <2>1, RunFacts, JobUpdate
  <2>4. Settled(r, job'[p], disk') /\ ~InTransaction(job'[p])
    BY <2>1, <2>2, <2>3, OutsideSettled DEF Forward, Backward, Undoing, Putting
  <2>5. Locked(p)' /\ Appending(p)'
    BY <1>1, <2>2, <2>3, <2>4 DEF Locked, Appending
  <2>6. Shape'
    BY <2>3 DEF IInv, Shape
  <2> QED
    BY <2>3, <2>4, <2>5, <2>6, RunStep
<1> QED
  BY <1>4, <1>5

LEMMA TakeSnapshotKeepsIInv == ASSUME IInv, NEW p \in Runs, TakeSnapshot(p) PROVE IInv'
<1> DEFINE r == RootOf[p]
           saved == [c \in CarriersOf(r) |-> disk[c]]
           j == [job[p] EXCEPT !.at = "replay", !.snapshot = saved]
<1> USE DEF TakeSnapshot, At
<1>1. ~InTransaction(job[p]) /\ observing[r] = p /\ \A c \in CarriersOf(r) : holder[c] = p
  BY RunFacts DEF InTransaction, Locked, Forward, Backward, Undoing, Putting
<1>2. DOMAIN job[p] = {"at", "session", "sessions", "snapshot", "owned", "claimed",
                       "unrestored", "failed"}
  BY RunFacts, JobFields
<1>3. /\ job[p].owned = <<>> /\ job[p].unrestored = {} /\ ~job[p].failed
      /\ job[p].claimed = Absent /\ job[p].sessions >= 1
  BY <1>1, RunFacts DEF Settled, Fresh, Generated
<1>4. saved \in Partial
  <2>1. saved \in [CarriersOf(r) -> Values]
    BY RunFacts, Paths DEF IInv, Shape
  <2> QED
    BY <2>1, RunFacts, Paths DEF Partial
<1>5. j \in Job
  BY <1>4, RunFacts, PlaceNames DEF Job, Forward
<1>6. job' = [job EXCEPT ![p] = j]
  BY RunFacts
<1>7. /\ j.at = "replay" /\ j.sessions >= 1 /\ j.snapshot = saved /\ DOMAIN j.owned = {}
      /\ j.claimed = Absent /\ j.unrestored = {} /\ ~j.failed
  BY <1>2, <1>3
<1>8. DOMAIN saved = CarriersOf(r) /\ \A c \in CarriersOf(r) : saved[c] = disk[c] /\ disk[c] \in ContentsOf(c)
  BY RunFacts, Paths DEF IInv, Shape
<1> HIDE DEF j, saved
<1>9. job' \in [Runs -> Job] /\ job'[p] = j /\ \A q \in Runs \ {p} : job'[q] = job[q]
  BY <1>5, <1>6, RunFacts, JobUpdate
<1>10. InTransaction(j) /\ j.at \in Forward /\ j.at \notin Backward
  BY <1>7 DEF InTransaction, Forward, Backward, Undoing, Putting
<1>11. Settled(r, job'[p], disk')
  BY <1>7, <1>8, <1>9, <1>10 DEF Settled, Generated, Fresh, Remembered, GoingForward, GoingBack,
     WrittenBefore
<1>12. Locked(p)' /\ Appending(p)'
  BY <1>1, <1>7, <1>9 DEF Locked, Appending
<1>13. Shape'
  BY <1>9 DEF IInv, Shape
<1> QED
  BY <1>9, <1>11, <1>12, <1>13, RunStep

\* A job with another place.
LEMMA MovedJob ==
    ASSUME NEW j \in Job, NEW at \in Places
    PROVE  LET k == [j EXCEPT !.at = at]
           IN /\ k \in Job /\ k.at = at /\ k.session = j.session /\ k.sessions = j.sessions
              /\ k.snapshot = j.snapshot /\ k.owned = j.owned /\ k.claimed = j.claimed
              /\ k.unrestored = j.unrestored /\ k.failed = j.failed
<1>1. [j EXCEPT !.at = at] \in Job
  BY DEF Job
<1>2. DOMAIN j = {"at", "session", "sessions", "snapshot", "owned", "claimed", "unrestored", "failed"}
  BY JobFields
<1> QED
  BY <1>1, <1>2

LEMMA VerifyBundleKeepsIInv == ASSUME IInv, NEW p \in Runs, VerifyBundle(p) PROVE IInv'
<1> DEFINE r == RootOf[p]
<1> USE DEF VerifyBundle, At
<1>1. InTransaction(job[p])
  BY DEF InTransaction, Forward
<1>2. observing[r] = p /\ \A c \in CarriersOf(r) : holder[c] = p
  BY <1>1, RunFacts DEF Locked, Forward
<1>3. /\ Remembered(r, job[p]) /\ GoingForward(r, job[p], disk) /\ job[p].sessions >= 1
      /\ ~job[p].failed /\ DOMAIN job[p].snapshot = CarriersOf(r)
  BY <1>1, RunFacts DEF Settled, Generated, Remembered, Forward
<1>4. job[p].snapshot # <<>>
  <2>1. DOMAIN <<>> = {} /\ r \in CarriersOf(r)
    BY DEF CarriersOf
  <2> QED
    BY <1>3, <2>1
<1>5. WrittenBefore(r, job[p].at) = CarriersOf(r) /\ WrittenBefore(r, "release") = CarriersOf(r)
  BY DEF WrittenBefore
<1>6. CASE Verified(r)
  <2> DEFINE j == [job[p] EXCEPT !.at = "release"]
  <2>1. /\ j \in Job /\ j.at = "release" /\ j.sessions = job[p].sessions
        /\ j.snapshot = job[p].snapshot /\ j.owned = job[p].owned /\ j.claimed = job[p].claimed
        /\ j.unrestored = job[p].unrestored /\ j.failed = job[p].failed
    BY RunFacts, MovedJob, PlaceNames
  <2>2. job' = [job EXCEPT ![p] = j]
    BY <1>6
  <2> HIDE DEF j
  <2>3. job' \in [Runs -> Job] /\ job'[p] = j /\ \A q \in Runs \ {p} : job'[q] = job[q]
    BY <2>1, <2>2, RunFacts, JobUpdate
  <2>4. InTransaction(j)
    BY <1>4, <2>1 DEF InTransaction
  <2>5. Remembered(r, j) /\ GoingForward(r, j, disk)
    BY <1>1, <1>3, <1>5, <2>1 DEF Remembered, GoingForward, Forward, Backward, Undoing, Putting
  <2>6. Settled(r, job'[p], disk')
    BY <1>3, <2>1, <2>3, <2>4, <2>5 DEF Settled, Generated, Fresh, GoingBack
  <2>7. Locked(p)' /\ Appending(p)'
    BY <1>2, <2>1, <2>3 DEF Locked, Appending
  <2>8. Shape'
    BY <2>3 DEF IInv, Shape
  <2> QED
    BY <2>3, <2>6, <2>7, <2>8, RunStep
<1>7. CASE ~Verified(r)
  <2> DEFINE j == [job[p] EXCEPT !.at = "undo_replay", !.failed = TRUE]
  <2>1. /\ j \in Job /\ j.at = "undo_replay" /\ j.sessions = job[p].sessions
        /\ j.snapshot = job[p].snapshot /\ j.owned = job[p].owned /\ j.claimed = job[p].claimed
        /\ j.unrestored = job[p].unrestored /\ j.failed
    <3>1. j \in Job
      BY RunFacts, PlaceNames DEF Job, Backward, Undoing
    <3> QED
      BY <3>1, RunFacts, JobFields
  <2>2. job' = [job EXCEPT ![p] = j]
    BY <1>7
  <2> HIDE DEF j
  <2>3. job' \in [Runs -> Job] /\ job'[p] = j /\ \A q \in Runs \ {p} : job'[q] = job[q]
    BY <2>1, <2>2, RunFacts, JobUpdate
  <2>4. InTransaction(j)
    BY <2>1 DEF InTransaction, Backward, Undoing
  <2>5. Remembered(r, j)
    BY <1>1, <1>3, <2>1 DEF Remembered, Forward, Backward, Undoing, Putting
  <2>6. GoingBack(r, j, disk)
    BY <1>1, <1>3, <1>5, <2>1 DEF GoingForward, GoingBack, UndoneBefore, Aside
  <2>7. Settled(r, job'[p], disk')
    BY <1>3, <2>1, <2>3, <2>4, <2>5, <2>6 DEF Settled, Generated, Fresh, GoingForward
  <2>8. Locked(p)' /\ Appending(p)'
    BY <1>2, <2>1, <2>3 DEF Locked, Appending
  <2>9. Shape'
    BY <2>3 DEF IInv, Shape
  <2> QED
    BY <2>3, <2>7, <2>8, <2>9, RunStep
<1> QED
  BY <1>6, <1>7

\* A run that ends, by itself or killed, releases its locks and nobody else's.
LEMMA EndKeepsIInv ==
    ASSUME IInv, NEW p \in Runs, holder' = Unlocked(p), observing' = Unobserved(p),
           Goto(p, [IdleJob EXCEPT !.at = "ended"]), UNCHANGED <<disk, data, edits>>
    PROVE  IInv'
<1>1. PICK j \in Job :
          /\ job' = [job EXCEPT ![p] = j] /\ j.at = "ended"
          /\ j.snapshot = <<>> /\ j.owned = <<>> /\ j.claimed = Absent /\ j.unrestored = {} /\ ~j.failed
  BY IdleAt, PlaceNames DEF Goto
<1>2. job' \in [Runs -> Job] /\ job'[p] = j /\ \A q \in Runs \ {p} : job'[q] = job[q]
  BY <1>1, RunFacts, JobUpdate
<1>3. Settled(RootOf[p], job'[p], disk') /\ ~InTransaction(job'[p])
  BY <1>1, <1>2, OutsideSettled DEF Forward, Backward, Undoing, Putting
<1>4. Locked(p)' /\ Appending(p)'
  BY <1>1, <1>2, <1>3 DEF Locked, Appending, At, Forward, Backward, Undoing, Putting
<1>5. /\ \A c \in Carriers, q \in Runs \ {p} : holder[c] = q => holder'[c] = q
      /\ \A r \in Roots, q \in Runs \ {p} : observing[r] = q => observing'[r] = q
      /\ holder' \in [Carriers -> Runs \cup {None}] /\ observing' \in [Roots -> Runs \cup {None}]
  <2>1. holder \in [Carriers -> Runs \cup {None}] /\ observing \in [Roots -> Runs \cup {None}]
    BY DEF IInv, Shape
  <2> QED
    BY <2>1 DEF Unlocked, Unobserved
<1>6. Shape'
  BY <1>2, <1>5 DEF IInv, Shape
<1> QED
  BY <1>2, <1>3, <1>4, <1>5, <1>6, RunStep

\* Somebody outside overwrites an output.
LEMMA EditKeepsIInv == ASSUME IInv, NEW c \in Edited, Edit(c) PROVE IInv'
<1> USE DEF Edit
<1>1. c \in Outputs /\ c \in Carriers /\ c \notin Roots
  BY PathsAssumption DEF Carriers
<1>2. \A d \in Carriers : disk'[d] \in {disk[d], Foreign} /\ (d \in Roots => disk'[d] = disk[d])
  BY <1>1 DEF IInv, Shape
<1>3. Foreign \in ContentsOf(c) /\ Foreign \in Values
  BY <1>1, CarrierContents
<1>4. Shape'
  BY <1>1, <1>3, SessionsAssumption DEF IInv, Shape
<1>5. ASSUME NEW p \in Runs
      PROVE  Locked(p)' /\ Appending(p)' /\ Settled(RootOf[p], job'[p], disk')
  <2>1. Settled(RootOf[p], job'[p], disk')
    BY <1>2, RunFacts, OthersSettled, Paths
  <2>2. Locked(p)' /\ Appending(p)'
    BY <1>2, RunFacts, PathsAssumption DEF Locked, Appending, At, Carriers
  <2> QED
    BY <2>1, <2>2
<1> QED
  BY <1>4, <1>5 DEF IInv

\* The writes of a transaction, by stage.
LEMMA StageWrites ==
    ASSUME NEW stage \in Stages, NEW r \in Roots
    PROVE  /\ CarrierOf(stage, r) \in CarriersOf(r) /\ stage \in Forward
           /\ AfterStage(stage) \in Forward /\ AfterStage(stage) # "replay"
           /\ CarrierOf(stage, r) \notin WrittenBefore(r, stage)
           /\ CarrierOf(stage, r) \notin UndoneBefore(r, Undo(stage))
           /\ WrittenBefore(r, AfterStage(stage)) = WrittenBefore(r, stage) \cup {CarrierOf(stage, r)}
<1> USE Paths DEF CarrierOf, CarriersOf, AfterStage, WrittenBefore, Forward, Undo, UndoneBefore
<1>1. CASE stage = "replay"
  BY <1>1
<1>2. CASE stage = "decision"
  BY <1>2
<1>3. CASE stage = "checkpoint"
  BY <1>3
<1> QED
  BY <1>1, <1>2, <1>3 DEF Stages

\* What is written to a carrier is content of its kind, and is told from an outside edit.
LEMMA PayloadContents ==
    ASSUME IInv, NEW p \in Runs, NEW stage \in Stages, job[p].sessions >= 1
    PROVE  Payload(p, stage) \in ContentsOf(CarrierOf(stage, RootOf[p])) \ {Absent, Foreign}
<1> DEFINE r == RootOf[p]
           n == job[p].sessions
<1>1. r \in Roots /\ n \in 1..MaxSessions
  BY RunFacts, JobFields, SessionsAssumption
<1>2. /\ ReplayOf[r] \in Carriers /\ DecisionOf[r] \in Carriers /\ r \in Carriers
      /\ ContentsOf(ReplayOf[r]) = Contents /\ ContentsOf(DecisionOf[r]) = Contents
      /\ Seals(r) \subseteq ContentsOf(r)
  BY <1>1, Paths, CarrierContents DEF Carriers
<1>3. CASE stage = "replay"
  <2>1. Payload(p, stage) = Artifact("replay", r, n) /\ CarrierOf(stage, r) = ReplayOf[r]
    BY <1>3 DEF Payload, Replay, CarrierOf
  <2> QED
    BY <2>1, <1>1, <1>2, ArtifactContents
<1>4. CASE stage = "decision"
  <2>1. Payload(p, stage) = Artifact("decision", r, n) /\ CarrierOf(stage, r) = DecisionOf[r]
    BY <1>4 DEF Payload, Decision, CarrierOf
  <2> QED
    BY <2>1, <1>1, <1>2, ArtifactContents
<1>5. CASE stage = "checkpoint"
  <2>1. /\ Payload(p, stage) = Checkpoint(r, n, disk[ReplayOf[r]], disk[DecisionOf[r]])
        /\ CarrierOf(stage, r) = r
    BY <1>5 DEF Payload, CarrierOf
  <2>2. disk[ReplayOf[r]] \in Contents /\ disk[DecisionOf[r]] \in Contents
    BY <1>2 DEF IInv, Shape
  <2>3. Payload(p, stage) \in Seals(r) /\ Payload(p, stage).kind = "checkpoint"
    BY <2>1, <2>2, <1>1 DEF Checkpoint, Seals
  <2> QED
    BY <2>1, <2>3, <1>2 DEF Absent, Foreign
<1> QED
  BY <1>3, <1>4, <1>5 DEF Stages

\* Claiming a carrier before it is written (Claims).
LEMMA ClaimsShape ==
    ASSUME NEW j \in Job, NEW c \in Carriers, NEW v \in Values, NEW f,
           f = [d \in DOMAIN j.owned \cup {c} |-> IF d = c THEN v ELSE j.owned[d]]
    PROVE  /\ f \in Partial /\ DOMAIN f = DOMAIN j.owned \cup {c} /\ f[c] = v
           /\ \A d \in DOMAIN j.owned : d # c => f[d] = j.owned[d]
<1>1. PICK S \in SUBSET Carriers : j.owned \in [S -> Values]
  <2>1. j.owned \in Partial
    BY JobFields
  <2> QED
    BY <2>1 DEF Partial
<1>2. f \in [S \cup {c} -> Values]
  BY <1>1
<1>3. S \cup {c} \in SUBSET Carriers
  OBVIOUS
<1> QED
  BY <1>1, <1>2, <1>3 DEF Partial

LEMMA WriteKeepsIInv ==
    ASSUME IInv, NEW p \in Runs, NEW stage \in Stages, Write(p, stage) PROVE IInv'
<1> DEFINE r == RootOf[p]
           c == CarrierOf(stage, r)
           content == Payload(p, stage)
<1>1. PICK written \in BOOLEAN, returned \in BOOLEAN :
          /\ returned => written
          /\ disk' = IF written THEN [disk EXCEPT ![c] = content] ELSE disk
          /\ job' = [job EXCEPT ![p].owned = Claims(p, c, content, returned),
                                ![p].at = IF returned THEN AfterStage(stage) ELSE "undo_replay",
                                ![p].failed = ~returned]
  BY DEF Write
<1>2. At(p, stage) /\ UNCHANGED <<data, observing, holder, edits>>
  BY DEF Write
<1>3. r \in Roots /\ job[p] \in Job /\ c \in Carriers /\ c \in CarriersOf(r)
  BY RunFacts, StageWrites, Paths
<1>4. InTransaction(job[p]) /\ job[p].at \in Forward
  BY <1>2, <1>3, StageWrites DEF InTransaction, At
<1>5. /\ Remembered(r, job[p]) /\ GoingForward(r, job[p], disk) /\ job[p].sessions >= 1
      /\ ~job[p].failed
  BY <1>4, RunFacts DEF Settled, Generated, Remembered
<1>6. content \in ContentsOf(c) /\ content \notin {Absent, Foreign} /\ content \in Values
  BY <1>3, <1>5, PayloadContents, CarrierContents
<1> DEFINE owned == Claims(p, c, content, returned)
           j == [job[p] EXCEPT !.owned = owned,
                               !.at = IF returned THEN AfterStage(stage) ELSE "undo_replay",
                               !.failed = ~returned]
<1> HIDE DEF c, content
<1>7. /\ owned \in Partial /\ DOMAIN owned = DOMAIN job[p].owned \cup {c} /\ owned[c] = content
      /\ \A d \in DOMAIN job[p].owned : d # c => owned[d] = job[p].owned[d]
  <2>1. owned = [d \in DOMAIN job[p].owned \cup {c} |-> IF d = c THEN content ELSE job[p].owned[d]]
    BY DEF Claims
  <2> HIDE DEF owned
  <2> QED
    BY <2>1, <1>3, <1>6, ClaimsShape
<1> HIDE DEF owned
<1>8. (IF returned THEN AfterStage(stage) ELSE "undo_replay") \in Places
  BY <1>3, StageWrites, PlaceNames DEF Backward, Undoing
<1>9. j \in Job
  BY <1>3, <1>7, <1>8 DEF Job
<1>10. /\ j.at = (IF returned THEN AfterStage(stage) ELSE "undo_replay")
       /\ j.owned = owned /\ j.failed = ~returned /\ j.sessions = job[p].sessions
       /\ j.snapshot = job[p].snapshot /\ j.claimed = job[p].claimed
       /\ j.unrestored = job[p].unrestored
  BY <1>3, JobFields
<1>11. job' = [job EXCEPT ![p] = j]
  BY <1>1, RunFacts DEF owned, c, content
<1> HIDE DEF j
<1>12. job' \in [Runs -> Job] /\ job'[p] = j /\ \A q \in Runs \ {p} : job'[q] = job[q]
  BY <1>9, <1>11, RunFacts, JobUpdate
<1>13. /\ \A d \in Carriers : d # c => disk'[d] = disk[d]
       /\ disk'[c] = IF written THEN content ELSE disk[c]
       /\ disk' \in [Carriers -> Values] /\ \A d \in Carriers : disk'[d] \in ContentsOf(d)
  <2>1. disk' = IF written THEN [disk EXCEPT ![c] = content] ELSE disk
    BY <1>1 DEF c, content
  <2> QED
    BY <2>1, <1>3, <1>6 DEF IInv, Shape
<1>14. InTransaction(j) /\ (returned => j.at \in Forward /\ j.at \notin Backward)
       /\ (~returned => j.at \in Backward /\ j.at \notin Forward)
  BY <1>3, <1>10, StageWrites DEF InTransaction, Forward, Backward, Undoing, Putting
<1>15. Remembered(r, j)
  <2>1. \A d \in DOMAIN owned : owned[d] \notin {Absent, Foreign}
    BY <1>4, <1>5, <1>6, <1>7 DEF Remembered
  <2>2. DOMAIN owned \subseteq CarriersOf(r)
    BY <1>3, <1>4, <1>5, <1>7 DEF Remembered
  <2>3. /\ DOMAIN j.snapshot = CarriersOf(r)
        /\ \A d \in CarriersOf(r) : j.snapshot[d] \in ContentsOf(d)
    BY <1>4, <1>5, <1>10 DEF Remembered
  <2> QED
    BY <2>1, <2>2, <2>3, <1>10, <1>14 DEF Remembered
<1>16. GoingForward(r, j, disk')
  <2> SUFFICES ASSUME returned PROVE GoingForward(r, j, disk')
    BY <1>10 DEF GoingForward
  <2>1. DOMAIN job[p].owned = WrittenBefore(r, stage) /\ job[p].unrestored = {}
    BY <1>2, <1>4, <1>5 DEF GoingForward, At
  <2>2. DOMAIN owned = WrittenBefore(r, j.at)
    BY <2>1, <1>3, <1>7, <1>10, StageWrites DEF c
  <2>3. \A d \in CarriersOf(r) : d # c => disk'[d] = disk[d] /\ (d \in DOMAIN owned <=> d \in DOMAIN job[p].owned)
    BY <1>3, <1>7, <1>13, Paths
  <2>4. disk'[c] = owned[c] /\ c \in DOMAIN owned
    BY <1>1, <1>7, <1>13
  <2> QED
    BY <2>1, <2>2, <2>3, <2>4, <1>4, <1>5, <1>7, <1>10 DEF GoingForward
<1>17. GoingBack(r, j, disk')
  <2> SUFFICES ASSUME ~returned PROVE GoingBack(r, j, disk')
    BY <1>10 DEF GoingBack
  <2>1. UndoneBefore(r, j.at) = {} /\ Aside(r, j.at) = {}
    BY <1>10 DEF UndoneBefore, Aside
  <2>2. ASSUME NEW d \in CarriersOf(r)
        PROVE  disk'[d] \in {Foreign, j.snapshot[d]} \/ (d \in DOMAIN owned /\ disk'[d] = owned[d])
    <3>1. d \notin DOMAIN job[p].owned => disk[d] \in {Foreign, job[p].snapshot[d]}
      BY <1>4, <1>5 DEF GoingForward
    <3>2. d \in DOMAIN job[p].owned => disk[d] \in {Foreign, job[p].owned[d]} /\ d # c
      <4>1. DOMAIN job[p].owned = WrittenBefore(r, stage)
        BY <1>2, <1>4, <1>5 DEF GoingForward, At
      <4> QED
        BY <4>1, <1>3, <1>4, <1>5, StageWrites DEF GoingForward, c
    <3>3. d # c => disk'[d] = disk[d]
      BY <1>3, <1>13, Paths
    <3> QED
      BY <3>1, <3>2, <3>3, <1>7, <1>10, <1>13
  <2> QED
    BY <2>1, <2>2, <1>10 DEF GoingBack
<1>18. Settled(r, job'[p], disk')
  BY <1>5, <1>10, <1>12, <1>14, <1>15, <1>16, <1>17 DEF Settled, Generated, Fresh
<1>19. Locked(p)' /\ Appending(p)'
  <2>1. observing[r] = p /\ \A d \in CarriersOf(r) : holder[d] = p
    BY <1>4, RunFacts DEF Locked
  <2>2. j.at # "install"
    BY <1>14 DEF Forward, Backward, Undoing, Putting
  <2> QED
    BY <2>1, <2>2, <1>2, <1>12 DEF Locked, Appending, At
<1>20. Shape'
  BY <1>2, <1>12, <1>13 DEF IInv, Shape
<1>21. \A d \in Carriers : disk'[d] # disk[d] =>
           job[p].at \in Forward \cup Backward /\ d \in CarriersOf(RootOf[p])
  BY <1>3, <1>4, <1>13
<1> QED
  BY <1>2, <1>12, <1>18, <1>19, <1>20, <1>21, RunStep

\* What the two steps of the rollback share: a run that goes back, its carrier, and what is
\* left to show when one step of it changes that carrier and its own job only.
LEMMA Rolling ==
    ASSUME IInv, NEW p \in Runs, NEW stage \in Stages, job[p].at \in {Undo(stage), Put(stage)}
    PROVE  LET r == RootOf[p] c == CarrierOf(stage, r)
           IN /\ r \in Roots /\ job[p] \in Job /\ c \in CarriersOf(r) /\ c \in Carriers
              /\ CarriersOf(r) \subseteq Carriers
              /\ InTransaction(job[p]) /\ job[p].at \in Backward /\ job[p].failed
              /\ Remembered(r, job[p]) /\ GoingBack(r, job[p], disk) /\ job[p].sessions >= 1
              /\ DOMAIN job[p].snapshot = CarriersOf(r) /\ job[p].snapshot # <<>>
              /\ observing[r] = p /\ \A d \in CarriersOf(r) : holder[d] = p
              /\ UndoneBefore(r, job[p].at) = UndoneBefore(r, Undo(stage))
<1> DEFINE r == RootOf[p]
<1>1. r \in Roots /\ job[p] \in Job /\ CarrierOf(stage, r) \in CarriersOf(r) /\ CarriersOf(r) \subseteq Carriers
  BY RunFacts, StageNames, Paths
<1>2. job[p].at \in Backward /\ InTransaction(job[p])
  BY StageNames DEF Backward, InTransaction
<1>3. /\ Remembered(r, job[p]) /\ GoingBack(r, job[p], disk) /\ job[p].sessions >= 1
      /\ DOMAIN job[p].snapshot = CarriersOf(r) /\ job[p].failed
  BY <1>2, RunFacts DEF Settled, Generated, Remembered
<1>4. job[p].snapshot # <<>>
  <2>1. DOMAIN <<>> = {} /\ r \in CarriersOf(r)
    BY DEF CarriersOf
  <2> QED
    BY <1>3, <2>1
<1>5. observing[r] = p /\ \A d \in CarriersOf(r) : holder[d] = p
  BY <1>2, RunFacts DEF Locked
<1> QED
  BY <1>1, <1>2, <1>3, <1>4, <1>5, StageNames

LEMMA RollbackStep ==
    ASSUME IInv, NEW p \in Runs, NEW stage \in Stages, job[p].at \in {Undo(stage), Put(stage)},
           NEW c, c = CarrierOf(stage, RootOf[p]), NEW j \in Job, job' = [job EXCEPT ![p] = j],
           j.at \in {Put(stage), AfterUndo(stage)}, j.failed, j.sessions = job[p].sessions,
           j.snapshot = job[p].snapshot, j.owned = job[p].owned,
           j.unrestored \in {job[p].unrestored, job[p].unrestored \cup {c}},
           disk' \in [Carriers -> Values], disk'[c] \in ContentsOf(c),
           \A d \in Carriers \ {c} : disk'[d] = disk[d],
           \* dealt with
           j.at = AfterUndo(stage) =>
               c \in j.unrestored \/ disk'[c] \in {Foreign, j.snapshot[c]},
           \* moved aside
           j.at = Put(stage) => /\ c \in DOMAIN j.owned /\ disk'[c] \in {Absent, Foreign}
                                /\ j.claimed \in ContentsOf(c)
                                /\ j.claimed \in {Foreign, j.owned[c], j.snapshot[c]},
           UNCHANGED <<data, observing, holder, edits>>
    PROVE  IInv'
<1> DEFINE r == RootOf[p]
<1>1. /\ r \in Roots /\ job[p] \in Job /\ c \in CarriersOf(r) /\ c \in Carriers
      /\ CarriersOf(r) \subseteq Carriers
      /\ job[p].at \in Backward /\ InTransaction(job[p]) /\ job[p].failed
      /\ Remembered(r, job[p]) /\ GoingBack(r, job[p], disk) /\ job[p].sessions >= 1
      /\ DOMAIN job[p].snapshot = CarriersOf(r) /\ job[p].snapshot # <<>>
      /\ observing[r] = p /\ \A d \in CarriersOf(r) : holder[d] = p
      /\ UndoneBefore(r, job[p].at) = UndoneBefore(r, Undo(stage))
  BY Rolling
<1>2. job' \in [Runs -> Job] /\ job'[p] = j /\ \A q \in Runs \ {p} : job'[q] = job[q]
  BY RunFacts, JobUpdate
<1>3. j.at \in Backward \cup {"release"} /\ InTransaction(j) /\ j.at \notin Forward
  <2>1. j.at \in Backward \cup {"release"}
    BY StageNames DEF Backward
  <2> QED
    BY <1>1, <2>1 DEF InTransaction, Forward, Backward, Undoing, Putting
<1>4. Remembered(r, j)
  BY <1>1, <1>3 DEF Remembered
<1>5. GoingBack(r, j, disk')
  <2>1. /\ UndoneBefore(r, j.at) = IF j.at = Put(stage) THEN UndoneBefore(r, job[p].at)
                                   ELSE UndoneBefore(r, job[p].at) \cup {c}
        /\ Aside(r, j.at) = IF j.at = Put(stage) THEN {c} ELSE {}
        /\ Aside(r, job[p].at) \subseteq {c}
    <3>1. /\ Aside(r, Put(stage)) = {c} /\ Aside(r, Undo(stage)) = {} /\ Aside(r, AfterUndo(stage)) = {}
          /\ UndoneBefore(r, Put(stage)) = UndoneBefore(r, Undo(stage))
          /\ UndoneBefore(r, AfterUndo(stage)) = UndoneBefore(r, Undo(stage)) \cup {c}
      BY StageNames
    <3> QED
      BY <3>1, <1>1
  <2>2. \A d \in UndoneBefore(r, job[p].at) : d # c
    BY <1>1, StageWrites
  <2>3. UndoneBefore(r, job[p].at) \subseteq CarriersOf(r)
    BY DEF UndoneBefore, CarriersOf
  <2>4. \A d \in UndoneBefore(r, job[p].at) : d \in j.unrestored \/ disk'[d] \in {Foreign, j.snapshot[d]}
    BY <1>1, <2>2, <2>3 DEF GoingBack
  <2>5. \A d \in CarriersOf(r) \ (UndoneBefore(r, job[p].at) \cup {c}) :
            disk'[d] \in {Foreign, j.snapshot[d]} \/ (d \in DOMAIN j.owned /\ disk'[d] = j.owned[d])
    BY <1>1, <2>1 DEF GoingBack
  <2>6. CASE j.at = Put(stage)
    BY <2>1, <2>4, <2>5, <2>6 DEF GoingBack
  <2>7. CASE j.at # Put(stage)
    BY <2>1, <2>4, <2>5, <2>7 DEF GoingBack
  <2> QED
    BY <2>6, <2>7
<1>6. Settled(r, job'[p], disk')
  BY <1>1, <1>2, <1>3, <1>4, <1>5 DEF Settled, Generated, Fresh, GoingForward
<1>7. Locked(p)' /\ Appending(p)'
  BY <1>1, <1>2, <1>3 DEF Locked, Appending, At, Backward, Undoing, Putting
<1>8. Shape'
  BY <1>1, <1>2 DEF IInv, Shape
<1> QED
  BY <1>1, <1>2, <1>6, <1>7, <1>8, RunStep

LEMMA ClaimCarrierKeepsIInv ==
    ASSUME IInv, NEW p \in Runs, NEW stage \in Stages, ClaimCarrier(p, stage) PROVE IInv'
<1>1. PICK c : c = CarrierOf(stage, RootOf[p])
  OBVIOUS
<1>2. job[p].at = Undo(stage) /\ UNCHANGED <<data, observing, holder, edits>>
  BY DEF ClaimCarrier, At
<1>3. /\ RootOf[p] \in Roots /\ job[p] \in Job /\ c \in CarriersOf(RootOf[p]) /\ c \in Carriers
      /\ InTransaction(job[p]) /\ job[p].failed
      /\ Remembered(RootOf[p], job[p]) /\ GoingBack(RootOf[p], job[p], disk)
  BY <1>1, <1>2, Rolling
<1>4. /\ disk \in [Carriers -> Values] /\ disk[c] \in ContentsOf(c) /\ disk[c] \in Values
      /\ Absent \in ContentsOf(c) /\ Absent \in Values
  BY <1>3, CarrierContents DEF IInv, Shape
<1>5. \/ disk[c] \in {Foreign, job[p].snapshot[c]}
      \/ c \in DOMAIN job[p].owned /\ disk[c] = job[p].owned[c] /\ disk[c] # Absent
  <2>1. c \notin UndoneBefore(RootOf[p], job[p].at) /\ Aside(RootOf[p], job[p].at) = {}
    BY <1>1, <1>2, <1>3, StageNames, StageWrites
  <2> QED
    BY <2>1, <1>3 DEF GoingBack, Remembered
<1>6. Put(stage) \in Places /\ AfterUndo(stage) \in Places /\ AfterUndo(stage) # Put(stage)
  BY StageNames, PlaceNames DEF Backward, Undoing, Putting
<1>7. Absent # Foreign
  BY DEF Absent, Foreign
<1>8. CASE /\ c \notin DOMAIN job[p].owned \/ disk[c] = Absent
           /\ job' = [job EXCEPT ![p] = [job[p] EXCEPT !.at = AfterUndo(stage)]] /\ disk' = disk
  <2> DEFINE j == [job[p] EXCEPT !.at = AfterUndo(stage)]
  <2>1. /\ j \in Job /\ j.at = AfterUndo(stage) /\ j.failed /\ j.sessions = job[p].sessions
        /\ j.snapshot = job[p].snapshot /\ j.owned = job[p].owned
        /\ j.unrestored = job[p].unrestored
    BY <1>3, <1>6, MovedJob
  <2>2. job' = [job EXCEPT ![p] = j]
    BY <1>8
  <2> HIDE DEF j
  <2>3. disk'[c] \in {Foreign, j.snapshot[c]}
    BY <1>5, <1>7, <1>8, <2>1
  <2> QED
    BY <1>1, <1>2, <1>4, <1>6, <1>8, <2>1, <2>2, <2>3, RollbackStep
<1>9. CASE /\ c \in DOMAIN job[p].owned /\ disk[c] # Absent
           /\ job' = [job EXCEPT ![p].at = Put(stage), ![p].claimed = disk[c]]
           /\ disk' = [disk EXCEPT ![c] = Absent]
  <2> DEFINE j == [job[p] EXCEPT !.at = Put(stage), !.claimed = disk[c]]
  <2>1. j \in Job
    BY <1>3, <1>4, <1>6 DEF Job
  <2>2. /\ j.at = Put(stage) /\ j.failed /\ j.sessions = job[p].sessions
        /\ j.snapshot = job[p].snapshot /\ j.owned = job[p].owned /\ j.claimed = disk[c]
        /\ j.unrestored = job[p].unrestored
    BY <1>3, JobFields
  <2>3. job' = [job EXCEPT ![p] = j]
    BY <1>9, RunFacts
  <2> HIDE DEF j
  <2>4. /\ disk' \in [Carriers -> Values] /\ disk'[c] = Absent
        /\ \A d \in Carriers \ {c} : disk'[d] = disk[d]
    BY <1>3, <1>4, <1>9
  <2>5. /\ c \in DOMAIN j.owned /\ j.claimed \in {Foreign, j.owned[c], j.snapshot[c]}
        /\ j.claimed \in ContentsOf(c)
    BY <1>4, <1>5, <1>9, <2>2
  <2> QED
    BY <1>1, <1>2, <1>4, <1>6, <2>1, <2>2, <2>3, <2>4, <2>5, RollbackStep
<1>10. CASE /\ job' = [job EXCEPT ![p].at = AfterUndo(stage), ![p].unrestored = @ \cup {c}]
            /\ disk' = disk
  <2> DEFINE j == [job[p] EXCEPT !.at = AfterUndo(stage), !.unrestored = @ \cup {c}]
  <2>1. job[p].unrestored \cup {c} \in SUBSET Carriers
    BY <1>3, JobFields
  <2>2. j \in Job
    BY <1>3, <1>6, <2>1 DEF Job
  <2>3. /\ j.at = AfterUndo(stage) /\ j.failed /\ j.sessions = job[p].sessions
        /\ j.snapshot = job[p].snapshot /\ j.owned = job[p].owned
        /\ j.unrestored = job[p].unrestored \cup {c}
    BY <1>3, JobFields
  <2>4. job' = [job EXCEPT ![p] = j]
    BY <1>10, RunFacts
  <2> HIDE DEF j
  <2> QED
    BY <1>1, <1>2, <1>4, <1>6, <1>10, <2>2, <2>3, <2>4, RollbackStep
<1> QED
  BY <1>1, <1>8, <1>9, <1>10 DEF ClaimCarrier, Goto

LEMMA RestoreCarrierKeepsIInv ==
    ASSUME IInv, NEW p \in Runs, NEW stage \in Stages, RestoreCarrier(p, stage) PROVE IInv'
<1>1. PICK c : c = CarrierOf(stage, RootOf[p])
  OBVIOUS
<1>2. job[p].at = Put(stage) /\ UNCHANGED <<data, observing, holder, edits>>
  BY DEF RestoreCarrier, At
<1>3. /\ RootOf[p] \in Roots /\ job[p] \in Job /\ c \in CarriersOf(RootOf[p]) /\ c \in Carriers
      /\ InTransaction(job[p]) /\ job[p].failed
      /\ Remembered(RootOf[p], job[p]) /\ GoingBack(RootOf[p], job[p], disk)
  BY <1>1, <1>2, Rolling
<1>4. /\ c \in DOMAIN job[p].owned /\ disk[c] \in {Absent, Foreign}
      /\ job[p].claimed \in {Foreign, job[p].owned[c], job[p].snapshot[c]}
      /\ job[p].claimed \in ContentsOf(c) /\ job[p].snapshot[c] \in ContentsOf(c)
      /\ disk \in [Carriers -> Values] /\ disk[c] \in ContentsOf(c)
  <2>1. c \in Aside(RootOf[p], job[p].at)
    BY <1>1, <1>2, StageNames
  <2> QED
    BY <2>1, <1>3 DEF GoingBack, Remembered, IInv, Shape
<1>5. PICK failed \in BOOLEAN :
          /\ disk' = IF failed THEN disk ELSE [disk EXCEPT ![c] = Restored(p, c)]
          /\ job' = [job EXCEPT ![p].at = AfterUndo(stage), ![p].claimed = Absent,
                                ![p].unrestored = IF failed THEN @ \cup {c} ELSE @]
  BY <1>1 DEF RestoreCarrier
<1>6. Restored(p, c) \in {Foreign, job[p].snapshot[c]} /\ Restored(p, c) \in ContentsOf(c)
  BY <1>4 DEF Restored
<1>7. ContentsOf(c) \subseteq Values /\ Absent \in Values
  BY <1>3, CarrierContents
<1>8. AfterUndo(stage) \in Places /\ AfterUndo(stage) # Put(stage)
  BY StageNames, PlaceNames DEF Backward, Undoing, Putting
<1>9. /\ disk' \in [Carriers -> Values] /\ disk'[c] \in ContentsOf(c)
      /\ \A d \in Carriers \ {c} : disk'[d] = disk[d]
      /\ ~failed => disk'[c] \in {Foreign, job[p].snapshot[c]}
  BY <1>3, <1>4, <1>5, <1>6, <1>7
<1> DEFINE unrestored == IF failed THEN job[p].unrestored \cup {c} ELSE job[p].unrestored
           j == [job[p] EXCEPT !.at = AfterUndo(stage), !.claimed = Absent, !.unrestored = unrestored]
<1>10. unrestored \in SUBSET Carriers
  BY <1>3, JobFields
<1>11. job' = [job EXCEPT ![p] = j]
  BY <1>5, RunFacts
<1> HIDE DEF unrestored
<1>12. j \in Job
  BY <1>3, <1>7, <1>8, <1>10 DEF Job
<1>13. /\ j.at = AfterUndo(stage) /\ j.failed /\ j.sessions = job[p].sessions
       /\ j.snapshot = job[p].snapshot /\ j.owned = job[p].owned
       /\ j.unrestored = unrestored
  BY <1>3, JobFields
<1> HIDE DEF j
<1>14. /\ j.unrestored \in {job[p].unrestored, job[p].unrestored \cup {c}}
       /\ c \in j.unrestored \/ disk'[c] \in {Foreign, j.snapshot[c]}
  BY <1>5, <1>9, <1>13 DEF unrestored
<1> QED
  BY <1>1, <1>2, <1>8, <1>9, <1>11, <1>12, <1>13, <1>14, RollbackStep

LEMMA IInvInit == Init => IInv
<1> SUFFICES ASSUME Init PROVE IInv
  OBVIOUS
<1>1. Shape
  <2>1. \A c \in Carriers : Absent \in ContentsOf(c) /\ Absent \in Values
    BY CarrierContents
  <2> QED
    BY <2>1, IdleJobShape, SessionsAssumption DEF Init, Shape
<1>2. ASSUME NEW p \in Runs
      PROVE  Locked(p) /\ Appending(p) /\ Settled(RootOf[p], job[p], disk)
  <2>1. job[p] = IdleJob
    BY DEF Init
  <2>2. Settled(RootOf[p], job[p], disk) /\ ~InTransaction(job[p])
    BY <2>1, IdleJobShape, OutsideSettled DEF Forward, Backward, Undoing, Putting
  <2>3. Locked(p) /\ Appending(p)
    BY <2>1, <2>2, IdleJobShape DEF Locked, Appending, At, Forward, Backward, Undoing, Putting
  <2> QED
    BY <2>2, <2>3
<1> QED
  BY <1>1, <1>2 DEF IInv

LEMMA IInvNext == IInv /\ [Next]_vars => IInv'
<1> SUFFICES ASSUME IInv, [Next]_vars PROVE IInv'
  OBVIOUS
<1>1. CASE UNCHANGED vars
  BY <1>1 DEF vars, IInv, Shape, Locked, Appending, At
<1>2. ASSUME NEW p \in Runs, Step(p) PROVE IInv'
  <2>1. CASE \E stage \in Stages : Write(p, stage) \/ ClaimCarrier(p, stage) \/ RestoreCarrier(p, stage)
    BY <2>1, WriteKeepsIInv, ClaimCarrierKeepsIInv, RestoreCarrierKeepsIInv
  <2>2. CASE Release(p)
    BY <2>2, EndKeepsIInv DEF Release
  <2> QED
    BY <1>2, <2>1, <2>2, LockObservationKeepsIInv, ValidateAppendKeepsIInv, InstallKeepsIInv,
       AcquireCarrierKeepsIInv, GenerateKeepsIInv, TakeSnapshotKeepsIInv, VerifyBundleKeepsIInv
       DEF Step, Stages
<1>3. ASSUME NEW p \in Runs, Kill(p) PROVE IInv'
  BY <1>3, EndKeepsIInv DEF Kill
<1> QED
  BY <1>1, <1>2, <1>3, StartKeepsIInv, EditKeepsIInv DEF Next, Finished

--------------------------------------------------------------------------------
\* The theorems.

\* Runs keep out of each other's repositories and transactions, and a transaction knows at
\* every step what each of its carriers holds.
THEOREM Inductive == Spec => []IInv
BY IInvInit, IInvNext, PTL DEF Spec

\* The state keeps its shape.
LEMMA Shaped == IInv => TypeOK
<1> SUFFICES ASSUME IInv PROVE TypeOK
  OBVIOUS
<1>1. \A o \in Outputs : disk[o] \in Contents
  BY CarrierContents DEF IInv, Shape, Carriers
<1>2. \A r \in Roots : disk[r] = Absent \/ (disk[r].kind = "checkpoint" /\ disk[r].root = r)
  BY CarrierContents DEF IInv, Shape, Carriers, Seals
<1>3. \A p \in Runs : job[p].at \in Places
  BY RunFacts, JobFields
<1> QED
  BY <1>1, <1>2, <1>3 DEF TypeOK, IInv, Shape

\* A transaction that ends leaves all its carriers new or all as they were, whatever failed
\* and whoever ran beside it (artifact_transaction.py publish and rollback).
THEOREM Atomic == Spec => []AllOrNothing
<1>1. IInv => AllOrNothing
  <2> SUFFICES ASSUME IInv, NEW p \in Runs, At(p, "release"), job[p].snapshot # <<>>,
                      NEW c \in CarriersOf(RootOf[p]) \ job[p].unrestored
               PROVE  \/ disk[c] = Foreign
                      \/ disk[c] = IF job[p].failed THEN job[p].snapshot[c] ELSE job[p].owned[c]
    BY Shaped DEF AllOrNothing
  <2>1. /\ InTransaction(job[p])
        /\ WrittenBefore(RootOf[p], job[p].at) = CarriersOf(RootOf[p])
        /\ UndoneBefore(RootOf[p], job[p].at) = CarriersOf(RootOf[p])
    BY DEF InTransaction, At, WrittenBefore, UndoneBefore
  <2>2. GoingForward(RootOf[p], job[p], disk) /\ GoingBack(RootOf[p], job[p], disk)
    BY RunFacts DEF Settled
  <2> QED
    BY <2>1, <2>2 DEF GoingForward, GoingBack
<1> QED
  BY <1>1, Inductive, PTL

\* A command changes its own job only.
LEMMA ActsAlone ==
    ASSUME job \in [Runs -> Job], NEW p \in Runs, NEW q \in Runs, p # q, Start(p) \/ Step(p) \/ Kill(p)
    PROVE  job'[q] = job[q]
<1>1. CASE Start(p)
  BY <1>1 DEF Start
<1>2. CASE Kill(p)
  BY <1>2 DEF Kill, Goto
<1>3. ASSUME NEW stage \in Stages, Write(p, stage) PROVE job'[q] = job[q]
  BY <1>3 DEF Write
<1>4. ASSUME NEW stage \in Stages, ClaimCarrier(p, stage) PROVE job'[q] = job[q]
  BY <1>4 DEF ClaimCarrier, Goto
<1>5. ASSUME NEW stage \in Stages, RestoreCarrier(p, stage) PROVE job'[q] = job[q]
  BY <1>5 DEF RestoreCarrier
<1>6. CASE LockObservation(p) \/ AcquireCarrier(p) \/ Generate(p) \/ TakeSnapshot(p)
  BY <1>6 DEF LockObservation, AcquireCarrier, Generate, TakeSnapshot, Goto
<1>7. CASE ValidateAppend(p) \/ Install(p) \/ VerifyBundle(p) \/ Release(p)
  BY <1>7 DEF ValidateAppend, Install, VerifyBundle, Release, Goto
<1> QED
  BY <1>1, <1>2, <1>3, <1>4, <1>5, <1>6, <1>7 DEF Step, Stages

\* A command that has moved a carrier aside puts it back or is killed.
LEMMA PutsBack ==
    ASSUME IInv, NEW p \in Runs, NEW stage \in Stages, At(p, Put(stage)),
           Start(p) \/ Step(p) \/ Kill(p)
    PROVE  RestoreCarrier(p, stage) \/ job'[p].at = "ended"
<1> DEFINE at == job[p].at
<1>1. /\ at = Put(stage) /\ at \in Putting /\ at \notin Stages /\ at \notin Undoing
      /\ at \notin {"idle", "observe", "append", "install", "lock", "snapshot", "verify", "release"}
  BY StageNames DEF At, Putting, Stages, Undoing
<1>2. \A s \in Stages : Undo(s) \in Undoing /\ (Put(s) = Put(stage) => s = stage)
  BY StageNames DEF Put, Stages
<1>3. ASSUME NEW s \in Stages, Write(p, s) \/ ClaimCarrier(p, s) PROVE FALSE
  BY <1>1, <1>2, <1>3 DEF Write, ClaimCarrier, At
<1>4. ASSUME NEW s \in Stages, RestoreCarrier(p, s) PROVE RestoreCarrier(p, stage)
  BY <1>1, <1>2, <1>4 DEF RestoreCarrier, At
<1>5. CASE Kill(p)
  <2>1. job' = [job EXCEPT ![p] = [IdleJob EXCEPT !.at = "ended"]]
    BY <1>5 DEF Kill, Goto
  <2> QED
    BY <2>1, RunFacts, IdleAt, PlaceNames
<1>6. ~Start(p)
  BY <1>1 DEF Start, At
<1>7. ~(LockObservation(p) \/ AcquireCarrier(p) \/ Generate(p) \/ TakeSnapshot(p))
  BY <1>1 DEF LockObservation, AcquireCarrier, Generate, TakeSnapshot, At
<1>8. ~(ValidateAppend(p) \/ Install(p) \/ VerifyBundle(p) \/ Release(p))
  BY <1>1 DEF ValidateAppend, Install, VerifyBundle, Release, At
<1> QED
  BY <1>3, <1>4, <1>5, <1>6, <1>7, <1>8 DEF Step, Stages

\* Rollback never replaces a file that somebody else installed (artifact_transaction.py).
THEOREM KeptForeign == Spec => ForeignKept
<1> DEFINE Kept == \A p \in Runs, stage \in {"replay", "decision", "checkpoint"} :
                      LET c == CarrierOf(stage, RootOf[p])
                      IN (/\ At(p, Put(stage)) /\ job'[p].at = AfterUndo(stage)
                          /\ c \notin job'[p].unrestored
                          /\ Foreign \in {disk[c], job[p].claimed}) => disk'[c] = Foreign
<1>1. IInv /\ [Next]_vars => [Kept]_vars
  <2> SUFFICES ASSUME IInv, [Next]_vars, NEW p \in Runs, NEW stage \in Stages,
                      NEW c, c = CarrierOf(stage, RootOf[p]),
                      At(p, Put(stage)), job'[p].at = AfterUndo(stage), c \notin job'[p].unrestored,
                      Foreign \in {disk[c], job[p].claimed}
               PROVE  disk'[c] = Foreign
    BY DEF Stages
  <2>1. AfterUndo(stage) \notin {Put(stage), "ended"}
    BY StageNames DEF Undoing, Putting
  <2>2. RestoreCarrier(p, stage)
    <3>1. job'[p] # job[p]
      BY <2>1 DEF At
    <3>2. \E q \in Runs : Start(q) \/ Step(q) \/ Kill(q)
      BY <3>1 DEF Next, Edit, Finished, vars
    <3>3. Start(p) \/ Step(p) \/ Kill(p)
      BY <3>1, <3>2, ActsAlone, RunFacts
    <3> QED
      BY <2>1, <3>3, PutsBack
  <2>3. /\ RootOf[p] \in Roots /\ c \in CarriersOf(RootOf[p]) /\ c \in Carriers
        /\ Remembered(RootOf[p], job[p]) /\ GoingBack(RootOf[p], job[p], disk)
        /\ InTransaction(job[p]) /\ job[p].failed /\ job[p] \in Job
    BY Rolling DEF At
  <2>4. /\ c \in DOMAIN job[p].owned /\ disk[c] \in {Absent, Foreign}
        /\ job[p].owned[c] # Foreign
    <3>1. c \in Aside(RootOf[p], job[p].at)
      BY StageNames DEF At
    <3> QED
      BY <3>1, <2>3 DEF GoingBack, Remembered
  <2>5. Restored(p, c) = Foreign
    BY <2>4 DEF Restored, Absent, Foreign
  <2>6. disk'[c] = Restored(p, c)
    <3>1. PICK failed \in BOOLEAN :
              /\ disk' = IF failed THEN disk ELSE [disk EXCEPT ![c] = Restored(p, c)]
              /\ job' = [job EXCEPT ![p].at = AfterUndo(stage), ![p].claimed = Absent,
                                    ![p].unrestored = IF failed THEN @ \cup {c} ELSE @]
      BY <2>2 DEF RestoreCarrier
    <3>2. failed => c \in job'[p].unrestored
      BY <3>1, <2>3, RunFacts, JobFields
    <3>3. ~failed
      BY <3>2
    <3> QED
      BY <3>1, <3>3, <2>3 DEF IInv, Shape
  <2> QED
    BY <2>5, <2>6
<1> QED
  BY <1>1, Inductive, PTL DEF Spec, ForeignKept

\* The immutable prefix grows one session at a time, behind a checkpoint that seals the rest
\* at that moment (production_observation.py: the observation lock spans both).
THEOREM SealedAppends == Spec => AppendSealed
<1> DEFINE Sealed == \A r \in Roots :
                        data'[r] # data[r] =>
                            /\ data'[r] = data[r] + 1
                            /\ data[r] > 0 => disk[r].kind = "checkpoint" /\ disk[r].sessions = data[r]
<1>1. IInv /\ [Next]_vars => [Sealed]_vars
  <2> SUFFICES ASSUME IInv, [Next]_vars, NEW r \in Roots, data'[r] # data[r]
               PROVE  /\ data'[r] = data[r] + 1
                      /\ data[r] > 0 => disk[r].kind = "checkpoint" /\ disk[r].sessions = data[r]
    OBVIOUS
  <2>1. PICK p \in Runs : Install(p)
    <3>1. ~(\E c \in Edited : Edit(c)) /\ ~Finished /\ ~UNCHANGED vars
      BY DEF Edit, Finished, vars
    <3>2. \A p \in Runs : ~Start(p) /\ ~Kill(p)
      BY DEF Start, Kill
    <3>3. \A p \in Runs, stage \in Stages :
              ~Write(p, stage) /\ ~ClaimCarrier(p, stage) /\ ~RestoreCarrier(p, stage)
      BY DEF Write, ClaimCarrier, RestoreCarrier
    <3>4. \A p \in Runs : /\ ~LockObservation(p) /\ ~ValidateAppend(p) /\ ~AcquireCarrier(p)
                          /\ ~Generate(p) /\ ~TakeSnapshot(p) /\ ~VerifyBundle(p) /\ ~Release(p)
      BY DEF LockObservation, ValidateAppend, AcquireCarrier, Generate, TakeSnapshot, VerifyBundle, Release
    <3> QED
      BY <3>1, <3>2, <3>3, <3>4 DEF Next, Step, Stages
  <2>2. /\ At(p, "install") /\ Appending(p) /\ RootOf[p] \in Roots /\ data \in [Roots -> 0..MaxSessions]
        /\ data' = [data EXCEPT ![RootOf[p]] = IF @ < job[p].session THEN job[p].session ELSE @]
    BY <2>1, RunFacts DEF Install, IInv, Shape
  <2>3. r = RootOf[p] /\ data'[r] = job[p].session
    BY <2>2
  <2> QED
    BY <2>2, <2>3 DEF Appending
<1> QED
  BY <1>1, Inductive, PTL DEF Spec, AppendSealed

--------------------------------------------------------------------------------
\* The safety behind ObservationEnds: commands that wait for carrier locks never wait in a
\* circle.

\* A run holds locks of its own carriers only, none before it asks for them, and while it
\* asks only locks that come before those it still misses.
Ordered ==
    \A p \in Runs :
        /\ \A c \in Carriers : holder[c] = p => c \in CarriersOf(RootOf[p])
        /\ job[p].at \in {"idle", "observe", "append", "install", "ended"} =>
               \A c \in Carriers : holder[c] # p
        /\ At(p, "lock") =>
               \A c, d \in CarriersOf(RootOf[p]) : holder[c] = p /\ holder[d] # p => Rank[c] < Rank[d]

\* p waits for the lock that q holds.
Waits(p, q) == At(p, "lock") /\ Missing(p) # {} /\ holder[NextLock(p)] = q

\* Along a chain of waiting commands the locks waited for rise in the order of their names,
\* so that no chain, of any length, closes.
WaitsAscend ==
    \A p, q, s \in Runs : Waits(p, q) /\ Waits(q, s) => Rank[NextLock(p)] < Rank[NextLock(q)]

\* The next lock is the first of those a run misses.
LEMMA NextLockFirst ==
    ASSUME NEW p \in Runs, Missing(p) # {}
    PROVE  /\ NextLock(p) \in Missing(p) /\ NextLock(p) \in CarriersOf(RootOf[p])
           /\ \A d \in Missing(p) : Rank[NextLock(p)] <= Rank[d]
<1> DEFINE r == RootOf[p]
<1>1. /\ Missing(p) \subseteq {r, ReplayOf[r], DecisionOf[r]} /\ Missing(p) \subseteq Carriers
      /\ Missing(p) \subseteq CarriersOf(r)
  BY PathsAssumption, Paths DEF Missing
<1>2. \A c \in Missing(p) : Rank[c] \in Nat
  BY <1>1, RankAssumption
<1>3. \E c \in Missing(p) : \A d \in Missing(p) : Rank[c] <= Rank[d]
  <2> DEFINE Least(c) == c \in Missing(p) /\ \A d \in Missing(p) : Rank[c] <= Rank[d]
  <2> SUFFICES Least(r) \/ Least(ReplayOf[r]) \/ Least(DecisionOf[r])
    OBVIOUS
  <2> QED
    BY <1>1, <1>2
<1> QED
  BY <1>1, <1>3 DEF NextLock

\* A step that acquires nothing and leaves a command outside the places where it asks for
\* locks, or that releases all its locks, keeps the order.
LEMMA OrderedStep ==
    ASSUME Ordered, IInv, NEW p \in Runs, \A q \in Runs \ {p} : job'[q] = job[q],
           \A c \in Carriers, q \in Runs \ {p} : holder[c] = q <=> holder'[c] = q,
           \A c \in Carriers : holder'[c] = p => c \in CarriersOf(RootOf[p]),
           job'[p].at \in {"idle", "observe", "append", "install", "ended"} =>
               \A c \in Carriers : holder'[c] # p,
           At(p, "lock")' => \A c, d \in CarriersOf(RootOf[p]) :
               holder'[c] = p /\ holder'[d] # p => Rank[c] < Rank[d]
    PROVE  Ordered'
<1> SUFFICES ASSUME NEW q \in Runs, q # p
             PROVE  /\ \A c \in Carriers : holder'[c] = q => c \in CarriersOf(RootOf[q])
                    /\ job'[q].at \in {"idle", "observe", "append", "install", "ended"} =>
                           \A c \in Carriers : holder'[c] # q
                    /\ At(q, "lock")' => \A c, d \in CarriersOf(RootOf[q]) :
                           holder'[c] = q /\ holder'[d] # q => Rank[c] < Rank[d]
  BY DEF Ordered
<1>1. CarriersOf(RootOf[q]) \subseteq Carriers
  BY RunFacts, Paths
<1> QED
  BY <1>1 DEF Ordered, At

\* Where the steps without a carrier lock leave a command: before its locks, or just asking.
LEMMA EarlySteps ==
    ASSUME IInv, NEW p \in Runs, Start(p) \/ LockObservation(p) \/ ValidateAppend(p) \/ Install(p)
    PROVE  /\ job[p].at \in {"idle", "observe", "append", "install"} /\ holder' = holder
           /\ job'[p].at \in {"observe", "append", "install", "lock", "release"}
<1> USE DEF At, Goto
<1>0. job \in [Runs -> Job] /\ job[p] \in Job
  BY RunFacts
<1>1. CASE Start(p)
  <2>1. PICK d \in 1..MaxSessions :
            job' = [job EXCEPT ![p] = [IdleJob EXCEPT !.at = "observe", !.session = d]]
    BY <1>1 DEF Start
  <2> QED
    BY <1>0, <1>1, <2>1 DEF Start, IdleJob
<1>2. CASE LockObservation(p)
  BY <1>0, <1>2, MovedJob, PlaceNames DEF LockObservation
<1>3. CASE ValidateAppend(p)
  <2>1. /\ job[p].at = "append" /\ holder' = holder
        /\ \E at \in {"lock", "install", "release"} :
              \/ job' = [job EXCEPT ![p] = [IdleJob EXCEPT !.at = at]]
              \/ job' = [job EXCEPT ![p] = [job[p] EXCEPT !.at = at]]
    BY <1>3 DEF ValidateAppend
  <2> QED
    <3>1. PICK at \in {"lock", "install", "release"} :
              \/ job' = [job EXCEPT ![p] = [IdleJob EXCEPT !.at = at]]
              \/ job' = [job EXCEPT ![p] = [job[p] EXCEPT !.at = at]]
      BY <2>1
    <3>2. [IdleJob EXCEPT !.at = at].at = at /\ [job[p] EXCEPT !.at = at].at = at
      BY <1>0, MovedJob, IdleAt, PlaceNames
    <3> QED
      BY <1>0, <2>1, <3>1, <3>2
<1>4. CASE Install(p)
  <2>1. /\ job[p].at = "install" /\ holder' = holder
        /\ \E at \in {"lock", "release"} : job' = [job EXCEPT ![p] = [IdleJob EXCEPT !.at = at]]
    BY <1>4 DEF Install
  <2> QED
    BY <1>0, <2>1, IdleAt, PlaceNames
<1> QED
  BY <1>1, <1>2, <1>3, <1>4

\* The steps under all carrier locks do not ask for another.
LEMMA LateSteps ==
    ASSUME IInv, NEW p \in Runs,
           \/ Generate(p) \/ TakeSnapshot(p) \/ VerifyBundle(p)
           \/ \E stage \in Stages : Write(p, stage) \/ ClaimCarrier(p, stage) \/ RestoreCarrier(p, stage)
    PROVE  /\ holder' = holder
           /\ job'[p].at \in {"snapshot", "release"} \cup Forward \cup Backward
<1> USE DEF At, Goto
<1>0. job \in [Runs -> Job] /\ job[p] \in Job
  BY RunFacts
<1>1. CASE Generate(p)
  BY <1>0, <1>1, JobFields DEF Generate
<1>2. CASE TakeSnapshot(p)
  BY <1>0, <1>2, JobFields DEF TakeSnapshot, Forward
<1>3. CASE VerifyBundle(p)
  BY <1>0, <1>3, JobFields DEF VerifyBundle, Backward, Undoing
<1>4. ASSUME NEW stage \in Stages, Write(p, stage)
      PROVE  holder' = holder /\ job'[p].at \in Forward \cup Backward
  <2>1. AfterStage(stage) \in Forward
    BY StageWrites, RunFacts
  <2> QED
    <3>1. PICK written \in BOOLEAN, returned \in BOOLEAN :
              job' = [job EXCEPT ![p].owned = Claims(p, CarrierOf(stage, RootOf[p]), Payload(p, stage), returned),
                                 ![p].at = IF returned THEN AfterStage(stage) ELSE "undo_replay",
                                 ![p].failed = ~returned]
      BY <1>4 DEF Write
    <3>2. job'[p].at = IF returned THEN AfterStage(stage) ELSE "undo_replay"
      BY <1>0, <3>1, JobFields
    <3> QED
      BY <1>4, <2>1, <3>2 DEF Write, Backward, Undoing
<1>5. ASSUME NEW stage \in Stages, ClaimCarrier(p, stage)
      PROVE  holder' = holder /\ job'[p].at \in {"release"} \cup Backward
  BY <1>0, <1>5, StageNames, JobFields DEF ClaimCarrier, Backward
<1>6. ASSUME NEW stage \in Stages, RestoreCarrier(p, stage)
      PROVE  holder' = holder /\ job'[p].at \in {"release"} \cup Backward
  <2>1. PICK failed \in BOOLEAN :
            job' = [job EXCEPT ![p].at = AfterUndo(stage), ![p].claimed = Absent,
                               ![p].unrestored = IF failed THEN @ \cup {CarrierOf(stage, RootOf[p])} ELSE @]
    BY <1>6 DEF RestoreCarrier
  <2>2. job'[p].at = AfterUndo(stage)
    BY <1>0, <2>1, JobFields
  <2> QED
    BY <1>6, <2>2, StageNames DEF RestoreCarrier, Backward
<1> QED
  BY <1>1, <1>2, <1>3, <1>4, <1>5, <1>6

LEMMA AcquireCarrierKeepsOrder ==
    ASSUME Ordered, IInv, NEW p \in Runs, AcquireCarrier(p) PROVE Ordered'
<1> USE DEF AcquireCarrier, At
<1>1. /\ NextLock(p) \in Missing(p) /\ NextLock(p) \in CarriersOf(RootOf[p])
      /\ \A d \in Missing(p) : Rank[NextLock(p)] <= Rank[d]
  BY NextLockFirst
<1>2. /\ CarriersOf(RootOf[p]) \subseteq Carriers /\ NextLock(p) \in Carriers
      /\ \A c \in Carriers : holder'[c] = IF c = NextLock(p) THEN p ELSE holder[c]
  BY <1>1, RunFacts, Paths DEF IInv, Shape
<1>3. ASSUME NEW c \in CarriersOf(RootOf[p]), NEW d \in CarriersOf(RootOf[p]),
             holder'[c] = p, holder'[d] # p
      PROVE  Rank[c] < Rank[d]
  <2>1. d \in Missing(p) /\ holder[d] # p /\ d # NextLock(p)
    BY <1>2, <1>3 DEF Missing
  <2>2. CASE c = NextLock(p)
    <3>1. Rank[c] \in Nat /\ Rank[d] \in Nat /\ Rank[c] # Rank[d] /\ Rank[c] <= Rank[d]
      BY <1>1, <1>2, <2>1, <2>2, RankAssumption
    <3> QED
      BY <3>1
  <2>3. CASE c # NextLock(p)
    BY <1>2, <1>3, <2>1, <2>3 DEF Ordered
  <2> QED
    BY <2>2, <2>3
<1>4. \A c \in Carriers, q \in Runs \ {p} : holder[c] = q <=> holder'[c] = q
  BY <1>1, <1>2, PathsAssumption
<1>5. \A c \in Carriers : holder'[c] = p => c \in CarriersOf(RootOf[p])
  BY <1>1, <1>2 DEF Ordered
<1> QED
  BY <1>3, <1>4, <1>5, OrderedStep

LEMMA OrderedNext == Ordered /\ IInv /\ [Next]_vars => Ordered'
<1> SUFFICES ASSUME Ordered, IInv, [Next]_vars PROVE Ordered'
  OBVIOUS
<1>1. CASE UNCHANGED <<job, holder>>
  BY <1>1 DEF Ordered, At
<1>2. ASSUME NEW p \in Runs, Start(p) \/ Step(p) \/ Kill(p) PROVE Ordered'
  <2>1. \A q \in Runs \ {p} : job'[q] = job[q]
    BY <1>2, ActsAlone, RunFacts
  <2>2. CASE Start(p) \/ LockObservation(p) \/ ValidateAppend(p) \/ Install(p)
    BY <2>1, <2>2, EarlySteps, OrderedStep, RunFacts, Paths DEF Ordered
  <2>3. CASE \/ Generate(p) \/ TakeSnapshot(p) \/ VerifyBundle(p)
             \/ \E stage \in Stages : Write(p, stage) \/ ClaimCarrier(p, stage) \/ RestoreCarrier(p, stage)
    <3>1. holder' = holder
      BY <2>3, LateSteps
    <3>2. job'[p].at \notin {"idle", "observe", "append", "install", "ended", "lock"}
      BY <2>3, LateSteps DEF Forward, Backward, Undoing, Putting
    <3> QED
      BY <2>1, <3>1, <3>2, OrderedStep DEF Ordered, At
  <2>4. CASE Release(p) \/ Kill(p)
    <3>1. /\ job' = [job EXCEPT ![p] = [IdleJob EXCEPT !.at = "ended"]]
          /\ \A c \in Carriers : holder'[c] = IF holder[c] = p THEN None ELSE holder[c]
      BY <2>4 DEF Release, Kill, Goto, Unlocked
    <3>2. job'[p].at = "ended"
      BY <3>1, RunFacts, IdleAt, PlaceNames
    <3> QED
      BY <2>1, <3>1, <3>2, OrderedStep, PathsAssumption DEF At
  <2> QED
    BY <1>2, <2>2, <2>3, <2>4, AcquireCarrierKeepsOrder DEF Step, Stages
<1> QED
  BY <1>1, <1>2 DEF Next, Edit, Finished, vars

\* Commands of different checkouts that wait for each other's carriers never wait in a circle
\* (artifact_transaction.py takes the locks of a bundle in the order of their names).
THEOREM NoCircle == Spec => []WaitsAscend
<1>1. Init => Ordered
  BY PathsAssumption, IdleJobShape DEF Init, Ordered, At
<1>2. Ordered => WaitsAscend
  <2> SUFFICES ASSUME Ordered, NEW p \in Runs, NEW q \in Runs, NEW s \in Runs,
                      Waits(p, q), Waits(q, s)
               PROVE  Rank[NextLock(p)] < Rank[NextLock(q)]
    BY DEF WaitsAscend
  <2>1. /\ NextLock(p) \in CarriersOf(RootOf[p]) /\ holder[NextLock(p)] = q
        /\ NextLock(q) \in CarriersOf(RootOf[q]) /\ holder[NextLock(q)] # q
        /\ At(q, "lock")
    BY NextLockFirst DEF Waits, Missing
  <2>2. NextLock(p) \in Carriers
    BY <2>1, PathsAssumption, Paths
  <2> QED
    BY <2>1, <2>2 DEF Ordered
<1> QED
  BY <1>1, <1>2, OrderedNext, Inductive, PTL DEF Spec

--------------------------------------------------------------------------------
(* The backup checkpoint (BackupCheckpoint) *)

All == Before \cup After

\* The manifest says that nothing is sealed yet, binds these files, and they are there.
PreparedWith(files) == manifest = Manifest("PREPARED", files, "none") /\ present = files

\* What is known of the directory at each point of the command.
Creating == pc = "create" => manifest = NoManifest /\ receipt = "none" /\ present \subseteq Before
Backed == pc \in {"verify", "observe"} => PreparedWith(Before) /\ receipt = "none"
Archiving ==
    pc = "archive" =>
        /\ manifest = Manifest("PREPARED", Before, "none")
        /\ receipt = "none"
        /\ Before \subseteq present
Archived == pc = "complete" => PreparedWith(All) /\ receipt = "none"
Binding ==
    /\ pc = "bind_complete" => PreparedWith(All) /\ receipt = "COMPLETED"
    /\ pc = "bind_failed" => PreparedWith(present) /\ receipt = "FAILED"

\* A command that failed leaves a directory that verifies, sealed as COMPLETED or not sealed.
Failing == pc = "fail" => Verifies /\ manifest.status \in {"PREPARED", "COMPLETED"}

Running == (outcome = "running") <=> (pc # "ended")

BackupInv ==
    /\ BackupTypeOK
    /\ Creating /\ Backed /\ Archiving /\ Archived /\ Binding /\ Failing /\ Running
    /\ FinalVerifies /\ EndedVerifies /\ CompletedWhole

--------------------------------------------------------------------------------

\* The empty directory.
LEMMA BackupInitInv == BackupInit => BackupInv
BY DEF BackupInit, BackupInv, BackupTypeOK, Creating, Backed, Archiving, Archived, Binding, Failing, Running,
       FinalVerifies, EndedVerifies, CompletedWhole, NoManifest, Terminal

\* The inputs are copied one by one; what was copied stays when the command fails.
LEMMA CreateInv == BackupInv /\ (CopyBefore \/ PrepareManifest) => BackupInv'
<1> SUFFICES ASSUME BackupInv, CopyBefore \/ PrepareManifest PROVE BackupInv'
  OBVIOUS
<1> USE DEF BackupInv, BackupTypeOK, Creating, Backed, Archiving, Archived, Binding, Failing, Running,
            FinalVerifies, EndedVerifies, CompletedWhole, Terminal
<1>1. /\ pc = "create" /\ outcome = "running" /\ receipt = "none"
      /\ manifest = NoManifest /\ present \subseteq Before
  BY DEF CopyBefore, PrepareManifest
<1>2. CASE CopyBefore
  <2>1. present' \subseteq Before
    BY <1>1, <1>2 DEF CopyBefore
  <2>2. /\ receipt' = receipt /\ manifest' = manifest
        /\ (pc' = pc /\ outcome' = outcome) \/ (pc' = "ended" /\ outcome' = "raised")
    BY <1>2 DEF CopyBefore, End
  <2> QED
    BY <1>1, <2>1, <2>2 DEF NoManifest
<1>3. CASE PrepareManifest
  <2>1. present' = Before /\ receipt' = "none"
    BY <1>1, <1>3 DEF PrepareManifest
  <2>2. CASE manifest' = NoManifest
    <3>1. pc' = "ended" /\ outcome' = "raised"
      BY <1>1, <1>3, <2>2 DEF PrepareManifest, WriteEndings, InPlace, End, Manifest, NoManifest
    <3> QED
      BY <2>1, <2>2, <3>1 DEF NoManifest
  <2>3. CASE manifest' = Manifest("PREPARED", Before, "none")
    <3>1. Verifies'
      BY <2>1, <2>3 DEF Verifies, Tracked, Manifest
    <3>2. (pc' = "verify" /\ outcome' = "running") \/ (pc' = "ended" /\ outcome' = "raised")
      BY <1>1, <1>3 DEF PrepareManifest, End
    <3>3. BackupTypeOK'
      BY <2>1, <2>3, <3>2 DEF Manifest
    <3> QED
      BY <2>1, <2>3, <3>1, <3>2, <3>3 DEF Manifest, PreparedWith
  <2> QED
    BY <1>1, <1>3, <2>2, <2>3 DEF PrepareManifest
<1> QED
  BY <1>2, <1>3

\* What was written so far is withdrawn when the manifest that binds it is not in place.
LEMMA ArchiveInv == BackupInv /\ (ArchiveFile \/ ArchiveManifest) => BackupInv'
<1> SUFFICES ASSUME BackupInv, ArchiveFile \/ ArchiveManifest PROVE BackupInv'
  OBVIOUS
<1> USE DEF BackupInv, BackupTypeOK, Creating, Backed, Archiving, Archived, Binding, Failing, Running,
            FinalVerifies, EndedVerifies, CompletedWhole, Terminal
<1>1. /\ pc = "archive" /\ outcome = "running" /\ receipt = "none"
      /\ manifest = Manifest("PREPARED", Before, "none")
      /\ Before \subseteq present /\ present \subseteq All
      /\ receipt' = receipt /\ outcome' = outcome
  BY DEF ArchiveFile, ArchiveManifest, All
<1>2. Withdrawn = Before
  BY <1>1, FilesAssumption DEF Withdrawn, All
<1>3. CASE manifest' = manifest /\ pc' = "fail" /\ present' = Withdrawn
  <2>1. Verifies'
    BY <1>1, <1>2, <1>3 DEF Verifies, Tracked, Manifest
  <2> QED
    BY <1>1, <1>2, <1>3, <2>1 DEF Manifest, All
<1>4. CASE manifest' = manifest /\ pc' = pc /\ ArchiveFile
  <2>1. Before \subseteq present' /\ present' \subseteq All
    BY <1>1, <1>4 DEF ArchiveFile, All
  <2> QED
    BY <1>1, <1>4, <2>1 DEF Manifest, All
<1>5. CASE manifest' = Manifest("PREPARED", All, "none") /\ ArchiveManifest
  <2>1. present' = All
    BY <1>1, <1>2, <1>5 DEF ArchiveManifest, All, Manifest, InPlace
  <2>2. pc' \in {"complete", "fail"}
    BY <1>5 DEF ArchiveManifest
  <2>3. Verifies'
    BY <1>1, <1>5, <2>1 DEF Verifies, Tracked, Manifest
  <2> QED
    BY <1>1, <1>5, <2>1, <2>2, <2>3 DEF Manifest, All, PreparedWith
<1> QED
  BY <1>3, <1>4, <1>5 DEF ArchiveFile, ArchiveManifest, InPlace, WriteEndings, All

\* Writing the receipt seals nothing yet: the manifest still says PREPARED.
LEMMA WriteReceiptInv == BackupInv /\ WriteReceipt => BackupInv'
<1> SUFFICES ASSUME BackupInv, WriteReceipt PROVE BackupInv'
  OBVIOUS
<1> USE DEF BackupInv, BackupTypeOK, Creating, Backed, Archiving, Archived, Binding, Failing, Running,
            FinalVerifies, EndedVerifies, CompletedWhole, Verifies, Tracked, Terminal, All,
            PreparedWith, Manifest, NoManifest
<1>1. /\ pc \in {"complete", "fail"}
      /\ outcome = "running"
      /\ Verifies
  <2>1. pc \in {"complete", "fail"}
    BY DEF WriteReceipt
  <2>2. CASE pc = "complete"
    BY <2>2
  <2>3. CASE pc = "fail"
    BY <2>3
  <2> QED
    BY <2>1, <2>2, <2>3
<1>2. CASE Sealable /\ receipt' # receipt
  <2>1. manifest = Manifest("PREPARED", present, "none") /\ receipt' = Sealing
    BY <1>2 DEF WriteReceipt, Sealable
  <2> QED
    BY <1>1, <1>2, <2>1 DEF WriteReceipt, Sealing, Raise, End
<1>3. CASE receipt' = receipt
  <2>1. Verifies'
    BY <1>1, <1>3 DEF WriteReceipt
  <2>2. pc' \in {"fail", "ended"} \/ (Sealable /\ receipt' = Sealing)
    BY <1>3 DEF WriteReceipt, Sealing, Raise, End
  <2>3. ~(Sealable /\ receipt' = Sealing)
    BY <1>3 DEF Sealable, Sealing
  <2> QED
    BY <1>1, <1>3, <2>1, <2>2, <2>3 DEF WriteReceipt, Sealing, Raise, End
<1> QED
  BY <1>2, <1>3 DEF WriteReceipt

\* Binding seals the directory as it is; a receipt that is not bound is taken away.
LEMMA BindReceiptInv == BackupInv /\ BindReceipt => BackupInv'
<1> SUFFICES ASSUME BackupInv, BindReceipt PROVE BackupInv'
  OBVIOUS
<1> USE DEF BackupInv, BackupTypeOK, Creating, Backed, Archiving, Archived, Binding, Failing, Running,
            FinalVerifies, EndedVerifies, CompletedWhole, Verifies, Tracked, Terminal, All,
            PreparedWith, Manifest, NoManifest
<1>1. /\ pc \in {"bind_complete", "bind_failed"}
      /\ outcome = "running"
      /\ manifest = Manifest("PREPARED", present, "none")
      /\ receipt = Sealing
      /\ Sealing = "COMPLETED" => present = All
      /\ present' = present
  BY DEF BindReceipt, Sealing
<1>2. CASE manifest' = Manifest(Sealing, manifest.files, receipt) /\ receipt' = receipt
  <2>1. Verifies'
    BY <1>1, <1>2 DEF Sealing
  <2> QED
    BY <1>1, <1>2, <2>1 DEF BindReceipt, Sealing, Raise, End, Unbound
<1>3. CASE receipt' = Unbound /\ Raise /\ manifest' = manifest
  <2>1. Verifies'
    BY <1>1, <1>3 DEF Unbound
  <2> QED
    BY <1>1, <1>3, <2>1 DEF Sealing, Raise, End, Unbound
<1> QED
  BY <1>2, <1>3 DEF BindReceipt

\* Every step keeps the invariant.
LEMMA BackupNextInv == BackupInv /\ [BackupNext]_backupVars => BackupInv'
<1> SUFFICES ASSUME BackupInv, [BackupNext]_backupVars PROVE BackupInv'
  OBVIOUS
<1> USE DEF BackupInv, BackupTypeOK, Creating, Backed, Archiving, Archived, Binding, Failing, Running,
            FinalVerifies, EndedVerifies, CompletedWhole, Verifies, Tracked, Terminal,
            PreparedWith, Manifest, NoManifest
<1>1. CASE CopyBefore \/ PrepareManifest
  BY <1>1, CreateInv
<1>2. CASE VerifyPrepared
  BY <1>2 DEF VerifyPrepared
<1>3. CASE Observe
  <2>1. /\ pc = "observe" /\ pc' \in {"archive", "fail"}
        /\ UNCHANGED <<present, receipt, manifest, outcome>>
    BY <1>3 DEF Observe
  <2>2. Verifies
    BY <2>1
  <2> QED
    BY <2>1, <2>2
<1>4. CASE ArchiveFile \/ ArchiveManifest
  BY <1>4, ArchiveInv
<1>5. CASE WriteReceipt
  BY <1>5, WriteReceiptInv
<1>6. CASE BindReceipt
  BY <1>6, BindReceiptInv
<1>7. CASE KillBackup
  BY <1>7 DEF KillBackup, End
<1>8. CASE UNCHANGED backupVars
  BY <1>8 DEF backupVars
<1> QED
  BY <1>1, <1>2, <1>3, <1>4, <1>5, <1>6, <1>7, <1>8 DEF BackupNext, BackupFinished

\* What is known of the directory holds in every reachable state.
THEOREM BackupInductive == BackupSpec => []BackupInv
BY BackupInitInv, BackupNextInv, PTL DEF BackupSpec

\* Every variable keeps its type.
THEOREM BackupTypeCorrect == BackupSpec => []BackupTypeOK
BY BackupInductive, PTL DEF BackupInv

\* A checkpoint that says COMPLETED or FAILED verifies, wherever its command stopped.
THEOREM FinalsVerify == BackupSpec => []FinalVerifies
BY BackupInductive, PTL DEF BackupInv

\* A command that was not killed leaves no prepared directory that fails its verification.
THEOREM EndsVerify == BackupSpec => []EndedVerifies
BY BackupInductive, PTL DEF BackupInv

\* COMPLETED means that all the evidence is bound.
THEOREM CompletedIsWhole == BackupSpec => []CompletedWhole
BY BackupInductive, PTL DEF BackupInv

\* What the directory says of itself can be believed: the three facts together.
THEOREM DirectoryTrustworthy == BackupSpec => []Trustworthy
BY FinalsVerify, EndsVerify, CompletedIsWhole, PTL DEF Trustworthy

\* A sealed directory is never written again: the one command that still runs refuses to seal
\* it a second time, and all that write are past.
THEOREM SealedStays == BackupSpec => SealedForever
<1>1. BackupInv /\ [BackupNext]_backupVars
      => [manifest.status \in Terminal => UNCHANGED <<manifest, present, receipt>>]_backupVars
  <2> SUFFICES ASSUME BackupInv, BackupNext, manifest.status \in Terminal
               PROVE  UNCHANGED <<manifest, present, receipt>>
    BY DEF backupVars
  <2>1. pc \in {"fail", "ended"}
    <3>1. manifest.status \notin {"none", "PREPARED"}
      BY DEF Terminal
    <3>2. pc # "create"
      BY <3>1 DEF BackupInv, Creating, NoManifest
    <3>3. pc \notin {"verify", "observe", "archive", "complete"}
      BY <3>1 DEF BackupInv, Backed, Archiving, Archived, PreparedWith, Manifest
    <3>4. pc \notin {"bind_complete", "bind_failed"}
      BY <3>1 DEF BackupInv, Binding, PreparedWith, Manifest
    <3> QED
      BY <3>2, <3>3, <3>4 DEF BackupInv, BackupTypeOK
  <2>2. ~Sealable
    BY DEF Sealable, Terminal
  <2> QED
    BY <2>1, <2>2 DEF BackupNext, CopyBefore, PrepareManifest, VerifyPrepared, Observe, ArchiveFile,
                      ArchiveManifest, WriteReceipt, BindReceipt, KillBackup, BackupFinished, backupVars
<1> QED
  BY <1>1, BackupInductive, PTL DEF BackupSpec, SealedForever

================================================================================
