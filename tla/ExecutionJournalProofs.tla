------------------------- MODULE ExecutionJournalProofs ------------------------
(***************************************************************************)
(* Proofs about ExecutionJournal, for any number of processes, plans,      *)
(* shares and records: the journal stays one chain of valid records, what  *)
(* was acknowledged stays in its place, and no verification accuses it.    *)
(*                                                                         *)
(* The argument: one process at most holds the lock (Exclusion), so the    *)
(* file is what its holder started from with as much of its record as it   *)
(* wrote (Unfinished). All lines but one without newline are out of reach  *)
(* of a writer (Kept); the ids of records are unique (Unique) and a        *)
(* checkpoint names none that is being written (Unnamed).                  *)
(***************************************************************************)
EXTENDS ExecutionJournal, SequenceTheorems, TLAPS

--------------------------------------------------------------------------------
(* Types *)

Record == [seq : Nat, prev : Nat, id : Nat, plan : Plans,
           status : {"PLANNED", "SKIPPED", "FILLED"}, shares : Nat, joined : BOOLEAN]
File == [lines : Seq(Record), end : {"newline", "bare", "broken"}]
CheckpointType == [seq : Nat, id : Nat]

Writing == {"writing", "written", "synced"}
OpenedAs == [at : {"opened"}, event : Event]
WritingAs == [at : Writing, record : Record, start : File,
              progress : {"none", "part", "bare", "all"}]
AnchoringAs == [at : {"anchoring"}, tail : CheckpointType]
VerifyingAs == [at : {"verifying"}, checkpoint : CheckpointType]

TypeOK ==
    /\ file \in File /\ stable \in File
    /\ named \in BOOLEAN /\ cut \in BOOLEAN
    /\ holders \subseteq Processes
    /\ process \in [Processes -> {Idle} \cup OpenedAs \cup WritingAs
                                    \cup AnchoringAs \cup VerifyingAs]
    /\ anchor \in CheckpointType
    /\ encoded \in Nat
    /\ appended \subseteq Record
    /\ accused \subseteq Nat

--------------------------------------------------------------------------------
(* The inductive invariant *)

\* The lock is held by the process that writes, and by one only.
Exclusion ==
    /\ \A p \in Processes : p \in holders <=> process[p].at \in Writing
    /\ \A p, q \in holders : p = q

Valid(lines) ==
    /\ Chained(lines) /\ Lifecycle(lines)
    /\ \A i \in 1 .. Len(lines) : ~lines[i].joined

Sound(f) == Valid(f.lines) /\ (f.end = "bare" => Len(f.lines) > 0)

\* What is written was admitted behind a readable start.
Admissible(w) ==
    /\ Sound(w.start) /\ w.start.end # "broken"
    /\ w.record.seq = Len(w.start.lines) + 1
    /\ w.record.joined <=> w.start.end # "newline"
    /\ ~w.record.joined => Valid(Append(w.start.lines, w.record))
    /\ w.at = "writing" <=> w.progress # "all"

\* The file that a writer has made of its start.
Begun(w) ==
    CASE w.progress = "none" -> w.start
      [] w.progress # "none" /\ w.record.joined ->
            [lines |-> SubSeq(w.start.lines, 1, Len(w.start.lines) - 1), end |-> "broken"]
      [] w.progress = "part" /\ ~w.record.joined -> [lines |-> w.start.lines, end |-> "broken"]
      [] w.progress = "bare" /\ ~w.record.joined ->
            [lines |-> Append(w.start.lines, w.record), end |-> "bare"]
      [] w.progress = "all" /\ ~w.record.joined ->
            [lines |-> Append(w.start.lines, w.record), end |-> "newline"]

Unfinished ==
    \A p \in holders :
        /\ Admissible(process[p])
        /\ file = Begun(process[p])
        /\ process[p].at = "synced" => stable = file
        /\ ~cut => process[p].start.end = "newline"

\* Lines that end with a newline, out of reach of any writer.
Complete(f) == IF f.end = "bare" THEN Len(f.lines) - 1 ELSE Len(f.lines)
Kept(r, f) == r.seq \in 1 .. Complete(f) /\ f.lines[r.seq] = r

Acknowledged ==
    /\ appended # {} => named
    /\ \A r \in appended :
          r.joined \/ /\ Kept(r, file) /\ Kept(r, stable)
                      /\ \A p \in holders : Kept(r, process[p].start)

\* Every record that a file, a writer or an acknowledgement still knows.
LinesOf(f) == {f.lines[i] : i \in 1 .. Len(f.lines)}
Known ==
    appended \cup LinesOf(file) \cup LinesOf(stable)
    \cup {process[p].record : p \in holders}
    \cup UNION {LinesOf(process[p].start) : p \in holders}

Unique ==
    \A r \in Known : r.id \in 1 .. encoded /\ \A s \in Known : r.id = s.id => r = s

\* Every checkpoint that is written, about to be, or read.
Checkpoints ==
    {anchor} \cup {process[p].tail : p \in {q \in Processes : process[q].at = "anchoring"}}
    \cup {process[p].checkpoint : p \in {q \in Processes : process[q].at = "verifying"}}

Truthful ==
    \A c \in Checkpoints : \A r \in Known : c.id = r.id => c.seq = r.seq /\ ~r.joined

\* No checkpoint names a record that is being written, or that is still to come.
Unnamed ==
    /\ \A c \in Checkpoints : c.id <= encoded
    /\ \A a \in accused : a <= encoded
    /\ \A p \in holders : /\ \A c \in Checkpoints : c.id # process[p].record.id
                          /\ process[p].record.id \notin accused

IInv ==
    /\ TypeOK /\ Exclusion
    /\ Sound(file) /\ Sound(stable)
    /\ holders = {} /\ ~cut => file.end = "newline"
    /\ Unfinished /\ Acknowledged
    /\ Unique /\ Truthful /\ Unnamed
    /\ NeverAccused

--------------------------------------------------------------------------------
(* Prefixes of a valid journal *)

\* The records of a prefix are those of the journal.
LEMMA PrefixShape ==
    ASSUME NEW S, NEW lines \in Seq(S), NEW n \in Nat, n <= Len(lines)
    PROVE  /\ SubSeq(lines, 1, n) \in Seq(S)
           /\ Len(SubSeq(lines, 1, n)) = n
           /\ \A i \in 1 .. n : SubSeq(lines, 1, n)[i] = lines[i]
<1>1. \A i \in 1 .. n : lines[i] \in S
    BY LenProperties
<1>2. QED  BY <1>1, SubSeqProperties

\* Journals that agree on their first records have the same prefix.
LEMMA SamePrefix ==
    ASSUME NEW S, NEW s \in Seq(S), NEW t \in Seq(S), NEW n \in Nat,
           n <= Len(s), n <= Len(t), \A i \in 1 .. n : s[i] = t[i]
    PROVE  SubSeq(s, 1, n) = SubSeq(t, 1, n)
<1>1. /\ SubSeq(s, 1, n) \in Seq(S) /\ Len(SubSeq(s, 1, n)) = n
      /\ \A i \in 1 .. n : SubSeq(s, 1, n)[i] = s[i]
    BY PrefixShape
<1>2. /\ SubSeq(t, 1, n) \in Seq(S) /\ Len(SubSeq(t, 1, n)) = n
      /\ \A i \in 1 .. n : SubSeq(t, 1, n)[i] = t[i]
    BY PrefixShape
<1>3. QED  BY <1>1, <1>2, SeqEqual

\* Validity looks at a record and at what is before it, so a prefix is as valid.
LEMMA ValidPrefix ==
    ASSUME NEW lines \in Seq(Record), Valid(lines), NEW n \in Nat, n <= Len(lines)
    PROVE  Valid(SubSeq(lines, 1, n))
<1> DEFINE s == SubSeq(lines, 1, n)
<1>1. s \in Seq(Record) /\ Len(s) = n /\ \A i \in 1 .. n : s[i] = lines[i]
    BY PrefixShape
<1> HIDE DEF s
<1>2. ASSUME NEW i \in 1 .. n
      PROVE  s[i] = lines[i] /\ SubSeq(s, 1, i - 1) = SubSeq(lines, 1, i - 1)
    <2>1. i - 1 \in Nat /\ i - 1 <= Len(s) /\ i - 1 <= Len(lines)
        BY <1>1, LenProperties
    <2>2. \A k \in 1 .. i - 1 : s[k] = lines[k]
        BY <1>1
    <2>3. QED  BY <2>1, <2>2, <1>1, SamePrefix
<1>3. 1 .. n \subseteq 1 .. Len(lines)
    BY LenProperties
<1>4. Chained(s)
    BY <1>1, <1>2, <1>3 DEF Chained, Valid
<1>5. Lifecycle(s)
    BY <1>1, <1>2, <1>3 DEF Lifecycle, Valid
<1>6. QED  BY <1>1, <1>3, <1>4, <1>5 DEF Valid, s

\* A sealed record extends the chain it was sealed behind.
LEMMA ValidAppend ==
    ASSUME NEW lines \in Seq(Record), Valid(lines), NEW r \in Record,
           r.seq = Len(lines) + 1, r.prev = Hash(lines), ~r.joined,
           Lifecycle(Append(lines, r))
    PROVE  Valid(Append(lines, r))
<1> DEFINE s == Append(lines, r)
           n == Len(lines)
<1>1. /\ s \in Seq(Record) /\ Len(s) = n + 1 /\ n \in Nat
      /\ \A i \in 1 .. n : s[i] = lines[i]
      /\ s[n + 1] = r
    BY AppendProperties, LenProperties
<1> HIDE DEF s, n
<1>2. ASSUME NEW i \in 1 .. n + 1
      PROVE  SubSeq(s, 1, i - 1) = SubSeq(lines, 1, i - 1)
    <2>1. i - 1 \in Nat /\ i - 1 <= Len(s) /\ i - 1 <= Len(lines)
        BY <1>1 DEF n
    <2>2. \A k \in 1 .. i - 1 : s[k] = lines[k]
        BY <1>1
    <2>3. QED  BY <2>1, <2>2, <1>1, SamePrefix
<1>3. SubSeq(lines, 1, n) = lines
    <2>1. /\ SubSeq(lines, 1, n) \in Seq(Record) /\ Len(SubSeq(lines, 1, n)) = n
          /\ \A i \in 1 .. n : SubSeq(lines, 1, n)[i] = lines[i]
        BY <1>1, PrefixShape DEF n
    <2>2. QED  BY <2>1, SeqEqual DEF n
<1>4. ASSUME NEW i \in 1 .. n + 1
      PROVE  s[i].seq = i /\ s[i].prev = Hash(SubSeq(s, 1, i - 1))
    <2>1. CASE i = n + 1
        <3>1. SubSeq(s, 1, i - 1) = lines
            BY <1>1, <1>2, <1>3, <2>1
        <3>2. QED  BY <1>1, <2>1, <3>1 DEF n
    <2>2. CASE i # n + 1
        <3>1. i \in 1 .. Len(lines) /\ s[i] = lines[i]
            BY <1>1, <2>2 DEF n
        <3>2. lines[i].seq = i /\ lines[i].prev = Hash(SubSeq(lines, 1, i - 1))
            BY <3>1 DEF Valid, Chained
        <3>3. QED  BY <3>1, <3>2, <1>2
    <2>3. QED  BY <2>1, <2>2
<1>5. Chained(s)
    BY <1>1, <1>4 DEF Chained
<1>6. \A i \in 1 .. n + 1 : ~s[i].joined
    <2>1. \A i \in 1 .. n : ~lines[i].joined
        BY DEF Valid, n
    <2>2. QED  BY <2>1, <1>1
<1>7. QED  BY <1>1, <1>5, <1>6 DEF Valid, s

--------------------------------------------------------------------------------
(* The writer and its file *)

\* The one process that holds the lock is the one that is writing.
LEMMA WriterShape ==
    ASSUME TypeOK, Exclusion, NEW p \in Processes, process[p].at \in Writing
    PROVE  process[p] \in WritingAs /\ holders = {p}
<1>1. process[p] \in {Idle} \cup OpenedAs \cup WritingAs \cup AnchoringAs \cup VerifyingAs
    BY DEF TypeOK
<1>2. process[p] \in WritingAs
    BY <1>1 DEF Writing, Idle, OpenedAs, AnchoringAs, VerifyingAs
<1>3. holders = {p}
    BY DEF TypeOK, Exclusion
<1>4. QED  BY <1>2, <1>3

\* What a writer has made of a valid journal is valid, and keeps its complete lines.
LEMMA BegunSound ==
    ASSUME NEW w \in WritingAs, Admissible(w)
    PROVE  /\ Begun(w) \in File /\ Sound(Begun(w))
           /\ \A r : Kept(r, w.start) => Kept(r, Begun(w))
           /\ LinesOf(Begun(w)) \subseteq LinesOf(w.start) \cup {w.record}
           /\ w.start.end = "newline" /\ w.progress \in {"none", "all"}
                => Begun(w).end = "newline"
<1> DEFINE f == w.start
           lines == w.start.lines
           r == w.record
           n == Len(w.start.lines)
<1>1. /\ f \in File /\ lines \in Seq(Record) /\ r \in Record /\ n \in Nat
      /\ f.end \in {"newline", "bare", "broken"}
      /\ w.progress \in {"none", "part", "bare", "all"} /\ r.joined \in BOOLEAN
    BY LenProperties DEF WritingAs, File, Record
<1>2. /\ Valid(lines) /\ (f.end = "bare" => n > 0) /\ f.end # "broken"
      /\ r.joined <=> f.end # "newline"
      /\ ~r.joined => Valid(Append(lines, r))
    BY DEF Admissible, Sound
<1>3. CASE w.progress = "none"
    <2>1. Begun(w) = f
        BY <1>3 DEF Begun
    <2>2. QED  BY <1>1, <2>1 DEF Admissible
<1>4. CASE w.progress # "none" /\ r.joined
    <2> DEFINE s == SubSeq(lines, 1, n - 1)
    <2>1. Begun(w) = [lines |-> s, end |-> "broken"]
        BY <1>4 DEF Begun
    <2>2. f.end = "bare" /\ n > 0
        BY <1>1, <1>2, <1>4
    <2>3. /\ n - 1 \in Nat /\ n - 1 <= n
          /\ s \in Seq(Record) /\ Len(s) = n - 1 /\ \A i \in 1 .. n - 1 : s[i] = lines[i]
        <3>1. n - 1 \in Nat /\ n - 1 <= Len(lines)
            BY <1>1, <2>2
        <3>2. QED  BY <3>1, <1>1, PrefixShape
    <2>4. Valid(s)
        BY <1>1, <1>2, <2>3, ValidPrefix
    <2> HIDE DEF s
    <2>5. Begun(w) \in File /\ Sound(Begun(w))
        BY <2>1, <2>3, <2>4 DEF File, Sound
    <2>6. \A x : Kept(x, f) => Kept(x, Begun(w))
        BY <2>1, <2>2, <2>3, <1>1 DEF Kept, Complete
    <2>7. LinesOf(Begun(w)) \subseteq LinesOf(f)
        <3>1. \A i \in 1 .. n - 1 : i \in 1 .. n
            BY <1>1
        <3>2. QED  BY <2>1, <2>3, <3>1 DEF LinesOf
    <2>8. QED  BY <2>2, <2>5, <2>6, <2>7
<1>5. CASE w.progress = "part" /\ ~r.joined
    <2>1. Begun(w) = [lines |-> lines, end |-> "broken"]
        BY <1>5 DEF Begun
    <2>2. f.end = "newline"
        BY <1>2, <1>5
    <2>3. Begun(w) \in File /\ Sound(Begun(w))
        BY <1>1, <1>2, <2>1 DEF File, Sound
    <2>4. \A x : Kept(x, f) => Kept(x, Begun(w))
        BY <2>1, <2>2 DEF Kept, Complete
    <2>5. LinesOf(Begun(w)) \subseteq LinesOf(f)
        BY <2>1 DEF LinesOf
    <2>6. QED  BY <1>5, <2>3, <2>4, <2>5
<1>6. CASE w.progress \in {"bare", "all"} /\ ~r.joined
    <2> DEFINE s == Append(lines, r)
               end == IF w.progress = "bare" THEN "bare" ELSE "newline"
    <2>1. Begun(w) = [lines |-> s, end |-> end]
        BY <1>6 DEF Begun
    <2>2. f.end = "newline" /\ Valid(s)
        BY <1>2, <1>6
    <2>3. /\ s \in Seq(Record) /\ Len(s) = n + 1 /\ s[n + 1] = r
          /\ \A i \in 1 .. n : s[i] = lines[i]
        BY <1>1, AppendProperties
    <2> HIDE DEF s
    <2>4. end \in {"bare", "newline"} /\ (w.progress = "all" => end = "newline")
        OBVIOUS
    <2> HIDE DEF end
    <2>5. Begun(w) \in File /\ Sound(Begun(w))
        BY <2>1, <2>2, <2>3, <2>4, <1>1 DEF File, Sound
    <2>6. \A x : Kept(x, f) => Kept(x, Begun(w))
        BY <2>1, <2>2, <2>3, <2>4, <1>1 DEF Kept, Complete
    <2>7. LinesOf(Begun(w)) \subseteq LinesOf(f) \cup {r}
        <3>1. \A i \in 1 .. n + 1 : i \in 1 .. n \/ i = n + 1
            BY <1>1
        <3>2. QED  BY <2>1, <2>3, <3>1 DEF LinesOf
    <2>8. QED  BY <1>6, <2>1, <2>4, <2>5, <2>6, <2>7
<1>7. QED  BY <1>1, <1>3, <1>4, <1>5, <1>6

\* The next write of a writer brings its file to what its progress says.
LEMMA WrittenBegun ==
    ASSUME NEW w \in WritingAs, Admissible(w), w.at = "writing",
           NEW progress \in More(w.progress), NEW next \in WritingAs,
           next.start = w.start, next.record = w.record, next.progress = progress,
           next.at = IF progress = "all" THEN "written" ELSE "writing"
    PROVE  /\ Admissible(next) /\ next.at # "synced"
           /\ Written(Begun(w), w, progress) = Begun(next)
<1>1. w.progress \in {"none", "part", "bare"} /\ w.record.joined \in BOOLEAN
    BY DEF Admissible, WritingAs, Record
<1>2. /\ progress \in {"part", "bare", "all"}
      /\ w.progress = "bare" => progress = "all"
    BY <1>1 DEF More
<1>3. /\ next.start = w.start /\ next.record = w.record /\ next.progress = progress
      /\ next.at = IF progress = "all" THEN "written" ELSE "writing"
    OBVIOUS
<1>4. Admissible(next)
    <2>1. next.at = "writing" <=> next.progress # "all"
        BY <1>3
    <2>2. QED  BY <1>3, <2>1 DEF Admissible
<1>. SUFFICES Written(Begun(w), w, progress) = Begun(next)
    BY <1>2, <1>3, <1>4
<1> DEFINE lines == w.start.lines
           s == Append(lines, w.record)
           cropped == SubSeq(lines, 1, Len(lines) - 1)
<1>5. CASE w.record.joined
    <2>1. Begun(next) = [lines |-> cropped, end |-> "broken"]
        BY <1>2, <1>3, <1>5 DEF Begun
    <2>2. Written(Begun(w), w, progress) = [lines |-> cropped, end |-> "broken"]
        BY <1>5 DEF Written
    <2>3. QED  BY <2>1, <2>2
<1>6. CASE ~w.record.joined
    <2>1. CASE progress = "part"
        <3>1. Begun(w).lines = lines
            BY <1>1, <1>2, <1>6, <2>1 DEF Begun
        <3>2. Begun(next) = [lines |-> lines, end |-> "broken"]
            BY <1>3, <1>6, <2>1 DEF Begun
        <3>3. Written(Begun(w), w, progress) = [lines |-> Begun(w).lines, end |-> "broken"]
            BY <1>6, <2>1 DEF Written
        <3>4. QED  BY <3>1, <3>2, <3>3
    <2>2. CASE w.progress = "bare"
        <3>1. Begun(w).lines = s
            BY <1>6, <2>2 DEF Begun
        <3>2. Begun(next) = [lines |-> s, end |-> "newline"]
            BY <1>2, <1>3, <1>6, <2>2 DEF Begun
        <3>3. Written(Begun(w), w, progress) = [lines |-> Begun(w).lines, end |-> "newline"]
            BY <1>2, <1>6, <2>2 DEF Written
        <3>4. QED  BY <3>1, <3>2, <3>3
    <2>3. CASE w.progress # "bare" /\ progress = "bare"
        <3>1. Begun(w).lines = lines
            BY <1>1, <1>6, <2>3 DEF Begun
        <3>2. Begun(next) = [lines |-> s, end |-> "bare"]
            BY <1>3, <1>6, <2>3 DEF Begun
        <3>3. Written(Begun(w), w, progress) =
                  [lines |-> Append(Begun(w).lines, w.record), end |-> "bare"]
            BY <1>6, <2>3 DEF Written
        <3>4. QED  BY <3>1, <3>2, <3>3
    <2>4. CASE w.progress # "bare" /\ progress = "all"
        <3>1. Begun(w).lines = lines
            BY <1>1, <1>6, <2>4 DEF Begun
        <3>2. Begun(next) = [lines |-> s, end |-> "newline"]
            BY <1>3, <1>6, <2>4 DEF Begun
        <3>3. Written(Begun(w), w, progress) =
                  [lines |-> Append(Begun(w).lines, w.record), end |-> "newline"]
            BY <1>6, <2>4 DEF Written
        <3>4. QED  BY <3>1, <3>2, <3>3
    <2>5. QED  BY <1>2, <2>1, <2>2, <2>3, <2>4
<1>7. QED  BY <1>5, <1>6

--------------------------------------------------------------------------------
(* Steps *)

\* Where a known record and a checkpoint are found.
LEMMA KnownIs ==
    ASSUME NEW r
    PROVE  r \in Known <=>
             \/ r \in appended \/ r \in LinesOf(file) \/ r \in LinesOf(stable)
             \/ \E p \in holders : r = process[p].record \/ r \in LinesOf(process[p].start)
BY DEF Known

LEMMA CheckpointIs ==
    ASSUME NEW c
    PROVE  c \in Checkpoints <=>
             \/ c = anchor
             \/ \E p \in Processes : process[p].at = "anchoring" /\ c = process[p].tail
             \/ \E p \in Processes : process[p].at = "verifying" /\ c = process[p].checkpoint
BY DEF Checkpoints

\* A step that makes no record and no checkpoint keeps what their ids say.
LEMMA Carried ==
    ASSUME IInv, Known' \subseteq Known, Checkpoints' \subseteq Checkpoints,
           encoded' = encoded, accused' = accused, holders' \subseteq holders,
           \A q \in holders' : process'[q].record = process[q].record
    PROVE  Unique' /\ Truthful' /\ Unnamed'
<1>1. Unique /\ Truthful /\ Unnamed
    BY DEF IInv
<1>2. Unique'
    BY <1>1 DEF Unique
<1>3. Truthful'
    BY <1>1 DEF Truthful
<1>4. Unnamed'
    BY <1>1 DEF Unnamed
<1>5. QED  BY <1>2, <1>3, <1>4

\* A process that does not write goes on to something else that is not writing.
LEMMA Quiet ==
    ASSUME IInv, NEW p \in Processes, process[p].at \notin Writing,
           NEW v \in {Idle} \cup OpenedAs \cup AnchoringAs \cup VerifyingAs,
           process' = [process EXCEPT ![p] = v],
           UNCHANGED <<file, stable, named, holders, encoded, appended, cut>>
    PROVE  /\ Exclusion' /\ Sound(file)' /\ Sound(stable)'
           /\ (holders = {} /\ ~cut => file.end = "newline")'
           /\ Unfinished' /\ Acknowledged' /\ Unique'
           /\ Known' \subseteq Known
           /\ process' \in [Processes -> {Idle} \cup OpenedAs \cup WritingAs
                                            \cup AnchoringAs \cup VerifyingAs]
<1>1. /\ TypeOK /\ Exclusion /\ Sound(file) /\ Sound(stable)
      /\ (holders = {} /\ ~cut => file.end = "newline")
      /\ Unfinished /\ Acknowledged /\ Unique
    BY DEF IInv
<1>2. /\ p \notin holders /\ holders \subseteq Processes
      /\ \A q \in Processes : q # p => process'[q] = process[q]
      /\ process'[p] = v
    BY <1>1 DEF TypeOK, Exclusion
<1>3. v.at \notin Writing
    BY DEF Writing, Idle, OpenedAs, AnchoringAs, VerifyingAs
<1>4. Exclusion'
    BY <1>1, <1>2, <1>3 DEF Exclusion
<1>5. \A q \in holders : process'[q] = process[q]
    BY <1>2
<1>6. Sound(file)' /\ Sound(stable)'
    BY <1>1
<1>7. Unfinished'
    BY <1>1, <1>5 DEF Unfinished
<1>8. Acknowledged'
    BY <1>1, <1>5 DEF Acknowledged
<1>9. Known' \subseteq Known
    <2> SUFFICES ASSUME NEW r \in Known' PROVE r \in Known
        OBVIOUS
    <2>1. \/ r \in appended' \/ r \in LinesOf(file)' \/ r \in LinesOf(stable)'
          \/ \E q \in holders' : r = process'[q].record \/ r \in LinesOf(process[q].start)'
        BY DEF Known
    <2>2. QED  BY <2>1, <1>5, KnownIs DEF LinesOf
<1>10. Unique'
    BY <1>1, <1>9 DEF Unique
<1>11. process' \in [Processes -> {Idle} \cup OpenedAs \cup WritingAs
                                            \cup AnchoringAs \cup VerifyingAs]
    BY <1>1 DEF TypeOK
<1>12. QED  BY <1>1, <1>4, <1>6, <1>7, <1>8, <1>9, <1>10, <1>11

\* The writer gives the lock back, with its file as it is or as it was.
LEMMA Leaves ==
    ASSUME IInv, NEW p \in Processes, process[p].at \in Writing, Release(p),
           file' \in {file, process[p].start}, stable' \in {stable, file'},
           appended' \in {appended, appended \cup {process[p].record}},
           named' \in BOOLEAN, cut' \in BOOLEAN, ~cut' => file'.end = "newline",
           UNCHANGED <<anchor, encoded, accused>>, Acknowledged'
    PROVE  IInv'
<1> DEFINE w == process[p]
<1>1. /\ TypeOK /\ Exclusion /\ Sound(file) /\ Sound(stable)
      /\ Unfinished /\ Unique /\ Unnamed /\ NeverAccused
    BY DEF IInv
<1>2. w \in WritingAs /\ holders = {p}
    BY <1>1, WriterShape
<1>3. /\ holders' = {} /\ process'[p] = Idle
      /\ \A q \in Processes : q # p => process'[q] = process[q]
    BY <1>1, <1>2 DEF Release, TypeOK
<1>4. w.start \in File /\ w.record \in Record
    BY <1>2 DEF WritingAs
<1>5. TypeOK'
    <2>1. process' \in [Processes -> {Idle} \cup OpenedAs \cup WritingAs
                                       \cup AnchoringAs \cup VerifyingAs]
        BY <1>1 DEF TypeOK, Release
    <2>2. QED  BY <1>1, <1>3, <1>4, <2>1 DEF TypeOK
<1>6. Exclusion'
    <2>1. \A q \in Processes : q # p => process[q].at \notin Writing
        BY <1>1, <1>2 DEF Exclusion
    <2>2. Idle.at \notin Writing
        BY DEF Idle, Writing
    <2>3. QED  BY <1>3, <2>1, <2>2 DEF Exclusion
<1>7. Sound(file)' /\ Sound(stable)'
    <2>1. Sound(w.start)
        BY <1>1, <1>2 DEF Unfinished, Admissible
    <2>2. QED  BY <1>1, <2>1
<1>8. Unfinished' /\ (holders = {} /\ ~cut => file.end = "newline")'
    BY <1>3 DEF Unfinished
<1>9. Known' \subseteq Known
    <2> SUFFICES ASSUME NEW r \in Known' PROVE r \in Known
        OBVIOUS
    <2>1. r \in appended' \/ r \in LinesOf(file') \/ r \in LinesOf(stable')
        BY <1>3 DEF Known
    <2>2. \/ r \in appended \/ r = w.record \/ r \in LinesOf(file)
          \/ r \in LinesOf(stable) \/ r \in LinesOf(w.start)
        BY <2>1
    <2>3. QED  BY <2>2, <1>2, KnownIs
<1>10. Checkpoints' \subseteq Checkpoints
    <2> SUFFICES ASSUME NEW c \in Checkpoints' PROVE c \in Checkpoints
        OBVIOUS
    <2>1. \/ c = anchor
          \/ \E q \in Processes : process'[q].at = "anchoring" /\ c = process'[q].tail
          \/ \E q \in Processes : process'[q].at = "verifying" /\ c = process'[q].checkpoint
        BY DEF Checkpoints
    <2>2. Idle.at # "anchoring" /\ Idle.at # "verifying"
        BY DEF Idle
    <2>3. QED  BY <2>1, <2>2, <1>3, CheckpointIs
<1>11. Unique' /\ Truthful' /\ Unnamed'
    BY <1>3, <1>9, <1>10, Carried
<1>12. NeverAccused'
    <2>1. w.record.id \notin accused
        BY <1>1, <1>2 DEF Unnamed
    <2>2. QED  BY <1>1, <2>1 DEF NeverAccused
<1>13. QED  BY <1>5, <1>6, <1>7, <1>8, <1>11, <1>12 DEF IInv

\* The last record of a chain has the number of the checkpoint that names it.
LEMMA TailKnown ==
    ASSUME NEW f \in File, Sound(f)
    PROVE  /\ Checkpoint(f.lines) \in CheckpointType
           /\ \/ Checkpoint(f.lines).id = 0
              \/ \E r \in LinesOf(f) : /\ r.id = Checkpoint(f.lines).id
                                       /\ r.seq = Checkpoint(f.lines).seq /\ ~r.joined
<1> DEFINE lines == f.lines
           n == Len(lines)
<1>1. lines \in Seq(Record) /\ n \in Nat /\ \A i \in 1 .. n : lines[i] \in Record
    BY LenProperties DEF File
<1>2. CASE lines = <<>>
    BY <1>1, <1>2 DEF Checkpoint, Hash, CheckpointType
<1>3. CASE lines # <<>>
    <2>1. n \in 1 .. n
        BY <1>1, <1>3, EmptySeq
    <2>2. lines[n] \in Record /\ lines[n] \in LinesOf(f)
        BY <1>1, <2>1 DEF LinesOf
    <2>3. lines[n].seq = n /\ ~lines[n].joined
        BY <2>1 DEF Sound, Valid, Chained
    <2>4. Checkpoint(lines) = [seq |-> n, id |-> lines[n].id]
        BY <1>3 DEF Checkpoint, Hash
    <2>5. QED  BY <1>1, <2>2, <2>3, <2>4 DEF CheckpointType, Record
<1>4. QED  BY <1>2, <1>3

\* What is read or about to be written as a checkpoint is one.
LEMMA CheckpointTypes ==
    ASSUME TypeOK
    PROVE  \A c \in Checkpoints : c \in CheckpointType
<1> SUFFICES ASSUME NEW c \in Checkpoints PROVE c \in CheckpointType
    OBVIOUS
<1>1. ASSUME NEW q \in Processes, process[q].at = "anchoring" 
      PROVE  process[q].tail \in CheckpointType
    BY <1>1 DEF TypeOK, Idle, OpenedAs, WritingAs, AnchoringAs, VerifyingAs, Writing
<1>2. ASSUME NEW q \in Processes, process[q].at = "verifying" 
      PROVE  process[q].checkpoint \in CheckpointType
    BY <1>2 DEF TypeOK, Idle, OpenedAs, WritingAs, AnchoringAs, VerifyingAs, Writing
<1>3. anchor \in CheckpointType
    BY DEF TypeOK
<1>4. QED  BY <1>1, <1>2, <1>3, CheckpointIs

\* Reading, checking and checkpointing: only Checkpoints and accused change.
LEMMA QuietInv ==
    ASSUME IInv, NEW p \in Processes, process[p].at \notin Writing,
           NEW v \in {Idle} \cup OpenedAs \cup AnchoringAs \cup VerifyingAs,
           process' = [process EXCEPT ![p] = v],
           UNCHANGED <<file, stable, named, holders, encoded, appended, cut>>,
           anchor' = anchor \/ (process[p].at = "anchoring" /\ anchor' = process[p].tail),
           v.at = "anchoring" => v.tail = Checkpoint(file.lines) /\ holders = {},
           v.at = "verifying" => v.checkpoint = anchor,
           accused' = accused \/ \E c \in Checkpoints :
                                    /\ accused' = accused \cup {c.id}
                                    /\ \A r \in appended : r.id # c.id
    PROVE  IInv'
<1>1. /\ TypeOK /\ Exclusion /\ Sound(file) /\ Unique /\ Truthful /\ Unnamed /\ NeverAccused
    BY DEF IInv
<1>2. /\ Exclusion' /\ Sound(file)' /\ Sound(stable)'
      /\ (holders = {} /\ ~cut => file.end = "newline")'
      /\ Unfinished' /\ Acknowledged' /\ Unique'
      /\ Known' \subseteq Known
      /\ process' \in [Processes -> {Idle} \cup OpenedAs \cup WritingAs
                                       \cup AnchoringAs \cup VerifyingAs]
    BY Quiet
<1>3. /\ process'[p] = v
      /\ \A q \in Processes : q # p => process'[q] = process[q]
    BY <1>1 DEF TypeOK
<1>4. anchor' \in Checkpoints
    BY CheckpointIs
<1>5. \A c \in Checkpoints : c \in CheckpointType
    BY <1>1, CheckpointTypes
<1>6. TypeOK'
    <2>1. accused' \subseteq Nat
        BY <1>1, <1>5 DEF TypeOK, CheckpointType
    <2>2. QED  BY <1>1, <1>2, <1>4, <1>5, <2>1 DEF TypeOK
<1>7. \A c \in Checkpoints' : \/ c \in Checkpoints
                              \/ c = Checkpoint(file.lines) /\ holders = {}
    <2> SUFFICES ASSUME NEW c \in Checkpoints'
                 PROVE  c \in Checkpoints \/ (c = Checkpoint(file.lines) /\ holders = {})
        OBVIOUS
    <2>1. \/ c = anchor'
          \/ \E q \in Processes : process'[q].at = "anchoring" /\ c = process'[q].tail
          \/ \E q \in Processes : process'[q].at = "verifying" /\ c = process'[q].checkpoint
        BY DEF Checkpoints
    <2>2. anchor \in Checkpoints
        BY CheckpointIs
    <2>3. QED  BY <1>3, <1>4, <2>1, <2>2, CheckpointIs
<1>8. /\ \A r \in LinesOf(file) : r \in Known
      /\ \A r \in Known : r.id \in 1 .. encoded
    BY <1>1, KnownIs DEF Unique
<1>9. /\ file \in File /\ encoded \in Nat
      /\ \/ Checkpoint(file.lines).id = 0
         \/ \E r \in LinesOf(file) : /\ r.id = Checkpoint(file.lines).id
                                     /\ r.seq = Checkpoint(file.lines).seq /\ ~r.joined
    BY <1>1, TailKnown DEF TypeOK
<1>10. /\ Checkpoint(file.lines).id <= encoded
       /\ \A r \in Known : Checkpoint(file.lines).id = r.id =>
                              Checkpoint(file.lines).seq = r.seq /\ ~r.joined
    <2> DEFINE c == Checkpoint(file.lines)
    <2> HIDE DEF c
    <2>1. CASE c.id = 0
        BY <1>8, <1>9, <2>1 DEF c
    <2>2. CASE c.id # 0
        <3>1. PICK s \in LinesOf(file) : s.id = c.id /\ s.seq = c.seq /\ ~s.joined
            BY <1>9, <2>2 DEF c
        <3>2. s \in Known
            BY <1>8
        <3>3. c.id <= encoded
            BY <1>8, <1>9, <3>1, <3>2
        <3>4. ASSUME NEW r \in Known, c.id = r.id PROVE c.seq = r.seq /\ ~r.joined
            BY <1>1, <3>1, <3>2, <3>4 DEF Unique
        <3>5. QED  BY <3>3, <3>4 DEF c
    <2>3. QED  BY <2>1, <2>2
<1>11. Truthful'
    BY <1>1, <1>2, <1>7, <1>10 DEF Truthful
<1>12. Unnamed'
    <2>1. \A q \in holders : process'[q] = process[q]
        BY <1>1, <1>3 DEF Exclusion
    <2>2. \A c \in Checkpoints' : c.id <= encoded
        BY <1>1, <1>7, <1>10 DEF Unnamed
    <2>3. \A a \in accused' : a <= encoded
        BY <1>1 DEF Unnamed
    <2>4. \A q \in holders : \A c \in Checkpoints' : c.id # process'[q].record.id
        BY <1>1, <1>7, <2>1 DEF Unnamed
    <2>5. \A q \in holders : process'[q].record.id \notin accused'
        BY <1>1, <2>1 DEF Unnamed
    <2>6. QED  BY <2>2, <2>3, <2>4, <2>5 DEF Unnamed
<1>13. NeverAccused'
    BY <1>1 DEF NeverAccused
<1>14. QED  BY <1>2, <1>6, <1>11, <1>12, <1>13 DEF IInv

\* A journal with every complete record in its place misses no truthful checkpoint of one.
LEMMA NotMissed ==
    ASSUME TypeOK, Acknowledged, Truthful, NEW c \in Checkpoints, NEW r \in appended,
           r.id = c.id
    PROVE  ~Missed(c, file.lines)
<1>1. r \in Known
    BY KnownIs
<1>2. c.seq = r.seq /\ ~r.joined
    BY <1>1 DEF Truthful
<1>3. Kept(r, file)
    BY <1>2 DEF Acknowledged
<1>4. Len(file.lines) \in Nat
    BY LenProperties DEF TypeOK, File
<1>5. r.seq \in 1 .. Len(file.lines) /\ file.lines[r.seq] = r
    BY <1>3, <1>4 DEF Kept, Complete
<1>6. QED  BY <1>2, <1>4, <1>5 DEF Missed

--------------------------------------------------------------------------------
(* Every action keeps the invariant *)

LEMMA InitInv == Init => IInv
<1> SUFFICES ASSUME Init PROVE IInv
    OBVIOUS
<1>1. Empty \in File /\ Len(Empty.lines) = 0 /\ Empty.end = "newline"
    BY EmptySeq DEF Empty, File
<1>2. Sound(Empty)
    BY <1>1 DEF Sound, Valid, Chained, Lifecycle
<1>3. TypeOK
    BY <1>1 DEF Init, TypeOK, NoCheckpoint, CheckpointType
<1>4. Exclusion /\ Unfinished /\ Acknowledged
    BY DEF Init, Exclusion, Unfinished, Acknowledged, Idle, Writing
<1>5. Known = {}
    BY <1>1 DEF Init, Known, LinesOf
<1>6. Unique /\ Truthful
    BY <1>5 DEF Unique, Truthful
<1>7. \A c \in Checkpoints : c = NoCheckpoint
    BY CheckpointIs DEF Init, Idle
<1>8. Unnamed
    BY <1>7 DEF Init, Unnamed, NoCheckpoint
<1>9. QED  BY <1>1, <1>2, <1>3, <1>4, <1>6, <1>8 DEF Init, IInv, NeverAccused

\* A record is encoded behind a file that nobody writes.
LEMMA AcquireInv ==
    ASSUME IInv, NEW p \in Processes, Acquire(p)
    PROVE  IInv'
<1> DEFINE r == Encoded(process[p].event, file)
<1>1. /\ TypeOK /\ Exclusion /\ Sound(file) /\ Sound(stable)
      /\ holders = {} /\ ~cut => file.end = "newline"
      /\ Acknowledged /\ Unique /\ Truthful /\ Unnamed /\ NeverAccused
    BY DEF IInv
<1>2. /\ process[p].at = "opened" /\ process[p].at \notin Writing /\ holders = {}
      /\ UNCHANGED <<file, stable, named, anchor, appended, cut, accused>>
    BY DEF Acquire, LockFree, Writing
<1>3. CASE ~Admitted(r, file)
    <2>1. process' = [process EXCEPT ![p] = Idle] /\ UNCHANGED <<holders, encoded>>
        BY <1>3 DEF Acquire
    <2>2. Idle.at # "anchoring" /\ Idle.at # "verifying"
        BY DEF Idle
    <2>3. QED  BY <1>2, <2>1, <2>2, QuietInv
<1>4. CASE Admitted(r, file)
    <2> DEFINE w == [at |-> "writing", record |-> r, start |-> file, progress |-> "none"]
    <2>1. /\ process' = [process EXCEPT ![p] = w]
          /\ holders' = holders \cup {p} /\ encoded' = encoded + 1
        BY <1>4 DEF Acquire
    <2>2. process[p].event \in Event
        BY <1>1, <1>2 DEF TypeOK, Idle, OpenedAs, WritingAs, AnchoringAs, VerifyingAs, Writing
    <2>3. /\ file \in File /\ encoded \in Nat /\ file.lines \in Seq(Record)
          /\ Len(file.lines) \in Nat
        BY <1>1, LenProperties DEF TypeOK, File
    <2>4. Hash(file.lines) \in Nat
        BY <1>1, <2>3, TailKnown DEF Checkpoint, CheckpointType
    <2>5. /\ r.seq = Len(file.lines) + 1 /\ r.prev = Hash(file.lines) /\ r.id = encoded + 1
          /\ r.joined <=> file.end # "newline"
        BY DEF Encoded
    <2>6. r \in Record
        <3>1. /\ process[p].event.plan \in Plans
              /\ process[p].event.status \in {"PLANNED", "SKIPPED", "FILLED"}
              /\ process[p].event.shares \in Nat
            BY <2>2, JournalAssumption DEF Event
        <3>2. QED  BY <2>3, <2>4, <3>1 DEF Encoded, Record
    <2> HIDE DEF r
    <2>7. w \in WritingAs /\ w.at \in Writing
        BY <2>3, <2>6 DEF WritingAs, Writing
    <2>8. Admissible(w)
        <3>1. Readable(file) /\ Lifecycle(Append(file.lines, r))
            BY <1>4 DEF Admitted
        <3>2. ~r.joined => Valid(Append(file.lines, r))
            BY <1>1, <2>3, <2>5, <2>6, <3>1, ValidAppend DEF Sound
        <3>3. file.end # "broken"
            BY <3>1 DEF Readable
        <3>4. QED  BY <1>1, <2>5, <3>2, <3>3 DEF Admissible
    <2>9. Begun(w) = file
        BY DEF Begun
    <2>10. /\ w.start = file /\ w.record = r /\ w.at = "writing"
        OBVIOUS
    <2> HIDE DEF w
    <2>11. /\ holders' = {p} /\ process'[p] = w
           /\ \A q \in Processes : q # p => process'[q] = process[q]
        BY <1>1, <1>2, <2>1 DEF TypeOK
    <2>12. TypeOK'
        <3>1. process' \in [Processes -> {Idle} \cup OpenedAs \cup WritingAs
                                           \cup AnchoringAs \cup VerifyingAs]
            BY <1>1, <2>1, <2>7 DEF TypeOK
        <3>2. QED  BY <1>1, <1>2, <2>1, <2>3, <3>1 DEF TypeOK
    <2>13. Exclusion'
        <3>1. \A q \in Processes : q # p => process'[q].at \notin Writing
            BY <1>1, <1>2, <2>11 DEF Exclusion
        <3>2. QED  BY <2>7, <2>11, <3>1 DEF Exclusion
    <2>14. Unfinished' /\ (holders = {} /\ ~cut => file.end = "newline")'
        BY <1>1, <1>2, <2>8, <2>9, <2>10, <2>11 DEF Unfinished
    <2>15. Acknowledged'
        BY <1>1, <1>2, <2>10, <2>11 DEF Acknowledged
    <2>16. Known' \subseteq Known \cup {r}
        <3> SUFFICES ASSUME NEW s \in Known' PROVE s \in Known \/ s = r
            OBVIOUS
        <3>1. \/ s \in appended' \/ s \in LinesOf(file)' \/ s \in LinesOf(stable)'
              \/ \E q \in holders' : s = process'[q].record \/ s \in LinesOf(process[q].start)'
            BY DEF Known
        <3>2. s \in appended \/ s \in LinesOf(file) \/ s \in LinesOf(stable) \/ s = r
            BY <1>2, <2>10, <2>11, <3>1 DEF LinesOf
        <3>3. QED  BY <3>2, KnownIs
    <2>17. Unique'
        <3>1. \A s \in Known : s.id \in 1 .. encoded
            BY <1>1 DEF Unique
        <3>2. \A s \in Known \cup {r} : s.id \in 1 .. encoded + 1
            BY <2>3, <2>5, <3>1
        <3>3. \A s, t \in Known \cup {r} : s.id = t.id => s = t
            BY <1>1, <2>3, <2>5, <3>1 DEF Unique
        <3>4. QED  BY <2>1, <2>16, <3>2, <3>3 DEF Unique
    <2>18. Checkpoints' \subseteq Checkpoints
        <3> SUFFICES ASSUME NEW c \in Checkpoints' PROVE c \in Checkpoints
            OBVIOUS
        <3>1. \/ c = anchor'
              \/ \E q \in Processes : process'[q].at = "anchoring" /\ c = process'[q].tail
              \/ \E q \in Processes : process'[q].at = "verifying" /\ c = process'[q].checkpoint
            BY DEF Checkpoints
        <3>2. QED  BY <1>2, <2>10, <2>11, <3>1, CheckpointIs
    <2>19. /\ \A c \in Checkpoints : c.id \in Nat /\ c.id <= encoded
           /\ \A a \in accused : a \in Nat /\ a <= encoded
        <3>1. \A c \in Checkpoints : c.id \in Nat
            BY <1>1, CheckpointTypes DEF CheckpointType
        <3>2. QED  BY <1>1, <3>1 DEF Unnamed, TypeOK
    <2>20. Truthful'
        <3>1. \A c \in Checkpoints : c.id # r.id
            BY <2>3, <2>5, <2>19
        <3>2. QED  BY <1>1, <2>16, <2>18, <3>1 DEF Truthful
    <2>21. Unnamed'
        <3>1. \A c \in Checkpoints' : c.id <= encoded + 1 /\ c.id # r.id
            BY <2>3, <2>5, <2>18, <2>19
        <3>2. \A a \in accused : a <= encoded + 1 /\ a # r.id
            BY <2>3, <2>5, <2>19
        <3>3. QED  BY <1>2, <2>1, <2>10, <2>11, <3>1, <3>2 DEF Unnamed
    <2>22. Sound(file)' /\ Sound(stable)' /\ NeverAccused'
        BY <1>1, <1>2 DEF NeverAccused
    <2>23. QED  BY <2>12, <2>13, <2>14, <2>15, <2>17, <2>20, <2>21, <2>22 DEF IInv
<1>5. QED  BY <1>3, <1>4

\* A write or a flush of the writer, which keeps the lock.
LEMMA StaysInv ==
    ASSUME IInv, NEW p \in Processes, process[p].at \in Writing, NEW w \in WritingAs,
           process' = [process EXCEPT ![p] = w],
           w.start = process[p].start, w.record = process[p].record, Admissible(w),
           file' = Begun(w), stable' \in {stable, file},
           w.at = "synced" => stable' = file',
           UNCHANGED <<named, holders, anchor, encoded, appended, cut, accused>>
    PROVE  IInv'
<1>1. /\ TypeOK /\ Exclusion /\ Sound(file) /\ Sound(stable)
      /\ Unfinished /\ Acknowledged /\ NeverAccused
    BY DEF IInv
<1>2. process[p] \in WritingAs /\ holders = {p}
    BY <1>1, WriterShape
<1>3. /\ process'[p] = w /\ w.at \in Writing /\ w.at # "anchoring" /\ w.at # "verifying"
      /\ \A q \in Processes : q # p => process'[q] = process[q]
    BY <1>1 DEF TypeOK, WritingAs, Writing
<1>4. /\ Begun(w) \in File /\ Sound(Begun(w))
      /\ \A r : Kept(r, w.start) => Kept(r, Begun(w))
      /\ LinesOf(Begun(w)) \subseteq LinesOf(w.start) \cup {w.record}
    BY BegunSound
<1>5. TypeOK'
    <2>1. process' \in [Processes -> {Idle} \cup OpenedAs \cup WritingAs
                                       \cup AnchoringAs \cup VerifyingAs]
        BY <1>1 DEF TypeOK
    <2>2. QED  BY <1>1, <1>4, <2>1 DEF TypeOK
<1>6. Exclusion'
    <2>1. \A q \in Processes : q # p => process[q].at \notin Writing
        BY <1>1, <1>2 DEF Exclusion
    <2>2. QED  BY <1>2, <1>3, <2>1 DEF Exclusion
<1>7. Unfinished'
    BY <1>1, <1>2, <1>3 DEF Unfinished
<1>8. Acknowledged'
    <2>1. \A r \in appended : r.joined \/ (Kept(r, file) /\ Kept(r, stable) /\ Kept(r, w.start))
        BY <1>1, <1>2 DEF Acknowledged
    <2>2. QED  BY <1>1, <1>2, <1>3, <1>4, <2>1 DEF Acknowledged
<1>9. Known' \subseteq Known
    <2> SUFFICES ASSUME NEW r \in Known' PROVE r \in Known
        OBVIOUS
    <2>1. \/ r \in appended' \/ r \in LinesOf(file') \/ r \in LinesOf(stable')
          \/ r = w.record \/ r \in LinesOf(w.start)
        <3>1. \/ r \in appended' \/ r \in LinesOf(file)' \/ r \in LinesOf(stable)'
              \/ \E q \in holders' : r = process'[q].record \/ r \in LinesOf(process[q].start)'
            BY DEF Known
        <3>2. QED  BY <1>2, <1>3, <3>1 DEF LinesOf
    <2>2. \/ r \in appended \/ r \in LinesOf(file) \/ r \in LinesOf(stable)
          \/ r = process[p].record \/ r \in LinesOf(process[p].start)
        BY <1>4, <2>1
    <2>3. QED  BY <1>2, <2>2, KnownIs
<1>10. Checkpoints' \subseteq Checkpoints
    <2> SUFFICES ASSUME NEW c \in Checkpoints' PROVE c \in Checkpoints
        OBVIOUS
    <2>1. \/ c = anchor'
          \/ \E q \in Processes : process'[q].at = "anchoring" /\ c = process'[q].tail
          \/ \E q \in Processes : process'[q].at = "verifying" /\ c = process'[q].checkpoint
        BY DEF Checkpoints
    <2>2. QED  BY <1>3, <2>1, CheckpointIs
<1>11. Unique' /\ Truthful' /\ Unnamed'
    BY <1>2, <1>3, <1>9, <1>10, Carried
<1>12. /\ Sound(file)' /\ Sound(stable)' /\ NeverAccused'
       /\ (holders = {} /\ ~cut => file.end = "newline")'
    BY <1>1, <1>2, <1>4 DEF NeverAccused
<1>13. QED  BY <1>5, <1>6, <1>7, <1>8, <1>11, <1>12 DEF IInv

LEMMA WriteInv ==
    ASSUME IInv, NEW p \in Processes, Write(p)
    PROVE  IInv'
<1> DEFINE w == process[p]
<1>1. w.at = "writing" /\ w.at \in Writing
    BY DEF Write, Writing
<1>2. w \in WritingAs /\ Admissible(w) /\ file = Begun(w)
    BY <1>1, WriterShape DEF IInv, Unfinished
<1>3. PICK progress \in More(w.progress) :
          /\ file' = Written(file, w, progress)
          /\ process' = [process EXCEPT ![p].progress = progress,
                                        ![p].at = IF progress = "all" THEN "written" ELSE @]
    BY DEF Write
<1> DEFINE next == [w EXCEPT !.progress = progress,
                             !.at = IF progress = "all" THEN "written" ELSE @]
<1>4. process' = [process EXCEPT ![p] = next]
    BY <1>3 DEF IInv, TypeOK
<1>5. /\ next \in WritingAs
      /\ next.start = w.start /\ next.record = w.record /\ next.progress = progress
      /\ next.at = IF progress = "all" THEN "written" ELSE "writing"
    <2>1. progress \in {"part", "bare", "all"}
        BY <1>1, <1>2 DEF More, WritingAs, Admissible
    <2>2. QED  BY <1>1, <1>2, <2>1 DEF WritingAs, Writing
<1> HIDE DEF next
<1>6. /\ Admissible(next) /\ next.at # "synced"
      /\ Written(Begun(w), w, progress) = Begun(next)
    BY <1>1, <1>2, <1>5, WrittenBegun
<1>7. UNCHANGED <<stable, named, holders, anchor, encoded, appended, cut, accused>>
    BY DEF Write
<1>8. QED  BY <1>1, <1>2, <1>3, <1>4, <1>5, <1>6, <1>7, StaysInv

LEMMA SyncInv ==
    ASSUME IInv, NEW p \in Processes, Sync(p)
    PROVE  IInv'
<1> DEFINE w == process[p]
           next == [w EXCEPT !.at = "synced"]
<1>1. w.at = "written" /\ w.at \in Writing
    BY DEF Sync, Writing
<1>2. w \in WritingAs /\ Admissible(w) /\ file = Begun(w)
    BY <1>1, WriterShape DEF IInv, Unfinished
<1>3. process' = [process EXCEPT ![p] = next]
    BY DEF Sync, IInv, TypeOK
<1>4. /\ next \in WritingAs /\ next.start = w.start /\ next.record = w.record
      /\ next.progress = w.progress /\ next.at = "synced"
    BY <1>2 DEF WritingAs, Writing
<1> HIDE DEF next
<1>5. Admissible(next)
    <2>1. next.at = "writing" <=> next.progress # "all"
        BY <1>1, <1>2, <1>4 DEF Admissible
    <2>2. QED  BY <1>2, <1>4, <2>1 DEF Admissible
<1>6. Begun(next) = file
    BY <1>2, <1>4 DEF Begun
<1>7. /\ file' = file /\ stable' = file
      /\ UNCHANGED <<named, holders, anchor, encoded, appended, cut, accused>>
    BY DEF Sync
<1>8. QED  BY <1>1, <1>3, <1>4, <1>5, <1>6, <1>7, StaysInv

\* The ways in which a writer gives up, and the one in which it is done.
LEMMA GivesUpInv ==
    ASSUME IInv, NEW p \in Processes, process[p].at \in Writing,
           Rollback(p) \/ SyncFails(p) \/ Kill(p)
    PROVE  IInv'
<1> DEFINE w == process[p]
<1>1. TypeOK /\ Exclusion /\ Unfinished /\ Acknowledged
    BY DEF IInv
<1>2. w \in WritingAs /\ holders = {p} /\ Admissible(w) /\ file = Begun(w)
    BY <1>1, WriterShape DEF Unfinished
<1>3. /\ Release(p) /\ file' \in {file, w.start} /\ stable' \in {stable, file'}
      /\ UNCHANGED <<named, anchor, encoded, appended, accused>>
      /\ cut' \in BOOLEAN
    <2>1. CASE Rollback(p)
        BY <1>1, <2>1 DEF Rollback, TypeOK
    <2>2. CASE SyncFails(p)
        BY <1>1, <2>2 DEF SyncFails, TypeOK
    <2>3. CASE Kill(p)
        BY <1>1, <2>3 DEF Kill, TypeOK
    <2>4. QED  BY <2>1, <2>2, <2>3
<1>4. ASSUME ~cut'
      PROVE  /\ ~cut
             /\ file' = w.start \/ (file' = file /\ w.progress \in {"none", "all"})
    <2>1. CASE Rollback(p)
        <3>1. CASE file' = w.start /\ UNCHANGED cut
            BY <1>4, <3>1
        <3>2. CASE UNCHANGED file /\ cut' = (cut \/ w.progress # "none")
            BY <1>4, <3>2
        <3>3. QED  BY <2>1, <3>1, <3>2 DEF Rollback
    <2>2. CASE SyncFails(p)
        <3>1. w.progress = "all"
            BY <1>2, <2>2 DEF SyncFails, Admissible
        <3>2. QED  BY <1>4, <2>2, <3>1 DEF SyncFails
    <2>3. CASE Kill(p)
        <3>1. w.at = "writing" \/ w.progress = "all"
            BY <1>2 DEF Admissible
        <3>2. QED  BY <1>4, <2>3, <3>1 DEF Kill
    <2>4. QED  BY <2>1, <2>2, <2>3
<1>5. ~cut' => file'.end = "newline"
    <2>1. ~cut => w.start.end = "newline"
        BY <1>1, <1>2 DEF Unfinished
    <2>2. QED  BY <1>2, <1>4, <2>1, BegunSound
<1>6. Acknowledged'
    <2>1. holders' = {}
        BY <1>2, <1>3 DEF Release
    <2>2. \A r \in appended : r.joined \/ (Kept(r, file) /\ Kept(r, stable) /\ Kept(r, w.start))
        BY <1>1, <1>2 DEF Acknowledged
    <2>3. \A r \in appended : r.joined \/ (Kept(r, file') /\ Kept(r, stable'))
        BY <1>3, <2>2
    <2>4. QED  BY <1>1, <1>3, <2>1, <2>3 DEF Acknowledged
<1>7. named' \in BOOLEAN /\ appended' = appended
    BY <1>1, <1>3 DEF TypeOK
<1>8. QED  BY <1>3, <1>5, <1>6, <1>7, Leaves

\* The record of an append that returns is whole, in the file and on the disk.
LEMMA AcknowledgeInv ==
    ASSUME IInv, NEW p \in Processes, Acknowledge(p)
    PROVE  IInv'
<1> DEFINE w == process[p]
           r == w.record
<1>1. TypeOK /\ Exclusion /\ Unfinished /\ Acknowledged
    BY DEF IInv
<1>2. /\ w.at = "synced" /\ w.at \in Writing /\ named' = TRUE /\ Release(p)
      /\ appended' = appended \cup {r}
      /\ UNCHANGED <<file, stable, anchor, encoded, cut, accused>>
    BY DEF Acknowledge, Writing
<1>3. /\ w \in WritingAs /\ holders = {p} /\ Admissible(w) /\ file = Begun(w)
      /\ stable = file /\ (~cut => w.start.end = "newline")
    BY <1>1, <1>2, WriterShape DEF Unfinished
<1>4. w.progress = "all"
    BY <1>2, <1>3 DEF Admissible
<1>5. r.joined \/ Kept(r, file)
    <2> SUFFICES ASSUME ~r.joined PROVE Kept(r, file)
        OBVIOUS
    <2>1. file = [lines |-> Append(w.start.lines, r), end |-> "newline"]
        BY <1>3, <1>4 DEF Begun
    <2>2. r.seq = Len(w.start.lines) + 1
        BY <1>3 DEF Admissible
    <2>3. w.start.lines \in Seq(Record) /\ r \in Record
        BY <1>3 DEF WritingAs, File
    <2>4. /\ Len(w.start.lines) \in Nat
          /\ Len(file.lines) = Len(w.start.lines) + 1
          /\ file.lines[Len(w.start.lines) + 1] = r
        BY <2>1, <2>3, AppendProperties, LenProperties
    <2>5. QED  BY <2>1, <2>2, <2>4 DEF Kept, Complete
<1>6. Acknowledged'
    <2>1. holders' = {}
        BY <1>2, <1>3 DEF Release
    <2>2. \A x \in appended : x.joined \/ (Kept(x, file) /\ Kept(x, stable))
        BY <1>1 DEF Acknowledged
    <2>3. \A x \in appended' : x.joined \/ (Kept(x, file) /\ Kept(x, stable))
        BY <1>2, <1>3, <1>5, <2>2
    <2>4. QED  BY <1>2, <2>1, <2>3 DEF Acknowledged
<1>7. ~cut => file.end = "newline"
    BY <1>3, <1>4, BegunSound
<1>8. cut' \in BOOLEAN
    BY <1>1, <1>2 DEF TypeOK
<1>9. QED  BY <1>2, <1>6, <1>7, <1>8, Leaves

LEMMA WriteBackInv == IInv /\ WriteBack => IInv'
<1> SUFFICES ASSUME IInv, WriteBack PROVE IInv'
    OBVIOUS
<1>1. /\ TypeOK /\ Exclusion /\ Sound(file) /\ Sound(stable)
      /\ (holders = {} /\ ~cut => file.end = "newline")
      /\ Unfinished /\ Acknowledged /\ NeverAccused
    BY DEF IInv
<1>2. /\ UNCHANGED <<file, holders, process, anchor, encoded, appended, cut, accused>>
      /\ stable' \in {stable, file} /\ (named' = named \/ named' = TRUE)
    BY DEF WriteBack
<1>3. TypeOK'
    BY <1>1, <1>2 DEF TypeOK
<1>4. Exclusion' /\ NeverAccused' /\ Sound(file)' /\ Sound(stable)'
      /\ (holders = {} /\ ~cut => file.end = "newline")'
    BY <1>1, <1>2 DEF Exclusion, NeverAccused
<1>5. Unfinished'
    BY <1>1, <1>2 DEF Unfinished
<1>6. Acknowledged'
    BY <1>1, <1>2 DEF Acknowledged
<1>7. Known' \subseteq Known
    <2> SUFFICES ASSUME NEW r \in Known' PROVE r \in Known
        OBVIOUS
    <2>1. \/ r \in appended' \/ r \in LinesOf(file') \/ r \in LinesOf(stable')
          \/ \E q \in holders' : r = process'[q].record \/ r \in LinesOf(process'[q].start)
        BY DEF Known
    <2>2. QED  BY <1>2, <2>1, KnownIs
<1>8. Checkpoints' = Checkpoints
    BY <1>2 DEF Checkpoints
<1>9. Unique' /\ Truthful' /\ Unnamed'
    BY <1>2, <1>7, <1>8, Carried
<1>10. QED  BY <1>3, <1>4, <1>5, <1>6, <1>9 DEF IInv

\* What a power loss leaves is what was on the disk, and all that was acknowledged was.
LEMMA PowerLossInv == IInv /\ PowerLoss => IInv'
<1> SUFFICES ASSUME IInv, PowerLoss PROVE IInv'
    OBVIOUS
<1>1. /\ TypeOK /\ Exclusion /\ Sound(file) /\ Sound(stable)
      /\ Unfinished /\ Acknowledged /\ NeverAccused
    BY DEF IInv
<1>2. /\ file' = (IF named THEN stable ELSE Empty) /\ stable' = file'
      /\ process' = [p \in Processes |-> Idle] /\ holders' = {}
      /\ cut' = (cut \/ file'.end # "newline")
      /\ UNCHANGED <<named, anchor, encoded, appended, accused>>
    BY DEF PowerLoss
<1>3. Empty \in File /\ Len(Empty.lines) = 0 /\ Empty.end = "newline"
    BY EmptySeq DEF Empty, File
<1>4. Sound(Empty)
    BY <1>3 DEF Sound, Valid, Chained, Lifecycle
<1>5. TypeOK'
    BY <1>1, <1>2, <1>3 DEF TypeOK
<1>6. /\ Exclusion' /\ NeverAccused' /\ Unfinished'
      /\ (holders = {} /\ ~cut => file.end = "newline")'
    BY <1>1, <1>2 DEF Exclusion, NeverAccused, Unfinished, Idle, Writing
<1>7. Sound(file)' /\ Sound(stable)'
    BY <1>1, <1>2, <1>4
<1>8. Acknowledged'
    BY <1>1, <1>2 DEF Acknowledged
<1>9. Known' \subseteq Known
    <2> SUFFICES ASSUME NEW r \in Known' PROVE r \in Known
        OBVIOUS
    <2>1. r \in appended' \/ r \in LinesOf(file')
        BY <1>2 DEF Known
    <2>2. LinesOf(Empty) = {}
        BY <1>3 DEF LinesOf
    <2>3. QED  BY <1>2, <2>1, <2>2, KnownIs
<1>10. Checkpoints' \subseteq Checkpoints
    <2> SUFFICES ASSUME NEW c \in Checkpoints' PROVE c \in Checkpoints
        OBVIOUS
    <2>1. c = anchor
        BY <1>2 DEF Checkpoints, Idle
    <2>2. QED  BY <2>1, CheckpointIs
<1>11. Unique' /\ Truthful' /\ Unnamed'
    BY <1>2, <1>9, <1>10, Carried
<1>12. QED  BY <1>5, <1>6, <1>7, <1>8, <1>11 DEF IInv

\* Opening, reading a tail, replacing the checkpoint, verifying, and a kill of one that does
\* not write.
LEMMA ReaderInv ==
    ASSUME IInv, NEW p \in Processes,
           \/ Open(p) \/ ReadTail(p) \/ WriteAnchor(p) \/ VerifyStep(p)
           \/ Kill(p) /\ process[p].at \notin Writing
    PROVE  IInv'
<1>1. /\ TypeOK /\ Exclusion /\ Acknowledged /\ Truthful
    BY DEF IInv
<1>2. process[p].at \notin Writing => holders \ {p} = holders
    BY <1>1 DEF Exclusion
<1>3. Idle.at # "anchoring" /\ Idle.at # "verifying" /\ Idle.at \notin Writing
    BY DEF Idle, Writing
<1>4. CASE Open(p)
    <2>1. PICK e \in Event : process' = [process EXCEPT ![p] = [at |-> "opened", event |-> e]]
        BY <1>4 DEF Open
    <2> DEFINE v == [at |-> "opened", event |-> e]
    <2>2. v \in OpenedAs /\ v.at = "opened"
        BY DEF OpenedAs
    <2>3. process' = [process EXCEPT ![p] = v]
        BY <2>1
    <2> HIDE DEF v
    <2>4. process[p].at \notin Writing
        BY <1>3, <1>4 DEF Open
    <2>5. UNCHANGED <<file, stable, named, holders, anchor, encoded, appended, cut, accused>>
        BY <1>4 DEF Open
    <2>6. QED  BY <2>2, <2>3, <2>4, <2>5, QuietInv
<1>5. CASE ReadTail(p)
    <2> DEFINE v == [at |-> "anchoring", tail |-> Checkpoint(file.lines)]
    <2>1. Checkpoint(file.lines) \in CheckpointType
        BY TailKnown DEF IInv, TypeOK
    <2>2. v \in AnchoringAs /\ v.at = "anchoring" /\ v.tail = Checkpoint(file.lines)
        BY <2>1 DEF AnchoringAs
    <2>3. process' = [process EXCEPT ![p] = v]
        BY <1>5 DEF ReadTail
    <2> HIDE DEF v
    <2>4. process[p].at \notin Writing /\ holders = {}
        BY <1>3, <1>5 DEF ReadTail, LockFree
    <2>5. UNCHANGED <<file, stable, named, holders, anchor, encoded, appended, cut, accused>>
        BY <1>5 DEF ReadTail
    <2>6. QED  BY <2>2, <2>3, <2>4, <2>5, QuietInv
<1>6. CASE WriteAnchor(p)
    <2>1. /\ process[p].at = "anchoring" /\ process[p].at \notin Writing
          /\ anchor' = process[p].tail /\ process' = [process EXCEPT ![p] = Idle]
          /\ holders' = holders \ {p}
          /\ UNCHANGED <<file, stable, named, encoded, appended, cut, accused>>
        BY <1>6 DEF WriteAnchor, Release, Writing
    <2>2. QED  BY <1>2, <1>3, <2>1, QuietInv
<1>7. CASE VerifyStep(p)
    <2>1. UNCHANGED <<file, stable, named, anchor, encoded, appended, cut>>
        BY <1>7 DEF VerifyStep
    <2>2. CASE process[p] = Idle
        <3> DEFINE v == [at |-> "verifying", checkpoint |-> anchor]
        <3>1. v \in VerifyingAs /\ v.at = "verifying" /\ v.checkpoint = anchor
            BY <1>1 DEF VerifyingAs, TypeOK
        <3>2. process' = [process EXCEPT ![p] = v] /\ UNCHANGED <<holders, accused>>
            BY <1>7, <2>2 DEF VerifyStep, Verify, Idle
        <3> HIDE DEF v
        <3>3. QED  BY <1>3, <2>1, <2>2, <3>1, <3>2, QuietInv
    <2>3. CASE process[p] # Idle
        <3> DEFINE c == process[p].checkpoint
        <3>1. /\ process[p].at = "verifying" /\ process[p].at \notin Writing
              /\ process' = [process EXCEPT ![p] = Idle] /\ holders' = holders \ {p}
              /\ accused' = accused \/ (Missed(c, file.lines) /\ accused' = accused \cup {c.id})
            BY <1>7, <2>3 DEF VerifyStep, Verify, Release, Writing
        <3>2. c \in Checkpoints
            BY <3>1, CheckpointIs
        <3>3. Missed(c, file.lines) => \A r \in appended : r.id # c.id
            BY <1>1, <3>2, NotMissed
        <3>4. accused' = accused \/ \E d \in Checkpoints :
                                       /\ accused' = accused \cup {d.id}
                                       /\ \A r \in appended : r.id # d.id
            BY <3>1, <3>2, <3>3
        <3>5. QED  BY <1>2, <1>3, <2>1, <3>1, <3>4, QuietInv
    <2>4. QED  BY <2>2, <2>3
<1>8. CASE Kill(p) /\ process[p].at \notin Writing
    <2>1. /\ process' = [process EXCEPT ![p] = Idle] /\ holders' = holders \ {p}
          /\ UNCHANGED <<file, stable, named, anchor, encoded, appended, accused>>
        BY <1>8 DEF Kill, Release
    <2>2. cut' = cut
        <3>1. process[p].at # "writing" /\ cut \in BOOLEAN
            BY <1>1, <1>8 DEF Writing, TypeOK
        <3>2. QED  BY <1>8, <3>1 DEF Kill
    <2>3. QED  BY <1>2, <1>3, <1>8, <2>1, <2>2, QuietInv
<1>9. QED  BY <1>4, <1>5, <1>6, <1>7, <1>8

LEMMA NextInv == IInv /\ [Next]_vars => IInv'
<1> SUFFICES ASSUME IInv, [Next]_vars PROVE IInv'
    OBVIOUS
<1>1. ASSUME NEW p \in Processes, Command(p) \/ Kill(p) PROVE IInv'
    <2>1. CASE Open(p) \/ ReadTail(p) \/ WriteAnchor(p) \/ VerifyStep(p)
        BY <2>1, ReaderInv
    <2>2. CASE Acquire(p)
        BY <2>2, AcquireInv
    <2>3. CASE Write(p)
        BY <2>3, WriteInv
    <2>4. CASE Sync(p)
        BY <2>4, SyncInv
    <2>5. CASE Rollback(p) \/ SyncFails(p)
        <3>1. process[p].at \in Writing
            BY <2>5 DEF Rollback, SyncFails, Writing
        <3>2. QED  BY <2>5, <3>1, GivesUpInv
    <2>6. CASE Acknowledge(p)
        BY <2>6, AcknowledgeInv
    <2>7. CASE Kill(p)
        BY <2>7, GivesUpInv, ReaderInv
    <2>8. QED  BY <1>1, <2>1, <2>2, <2>3, <2>4, <2>5, <2>6, <2>7 DEF Command
<1>2. CASE UNCHANGED vars
    <2>1. UNCHANGED <<file, stable, named, holders, process, anchor, encoded, appended, cut,
                      accused>>
        BY <1>2 DEF vars
    <2>2. Known' = Known /\ Checkpoints' = Checkpoints
        BY <2>1 DEF Known, Checkpoints, LinesOf
    <2>3. QED
        BY <2>1, <2>2 DEF IInv, TypeOK, Exclusion, Unfinished, Acknowledged, Unique, Truthful,
                          Unnamed, NeverAccused
<1>3. QED  BY <1>1, <1>2, WriteBackInv, PowerLossInv DEF Next

--------------------------------------------------------------------------------
(* Theorems *)

\* In every behaviour of the commands, whatever is killed or lost, the state satisfies the
\* inductive invariant.
THEOREM Inductive == Spec => []IInv
<1>1. QED  BY InitInv, NextInv, PTL DEF Spec

\* A record whose append returned stays in its place for ever (ExecutionJournalStore._append
\* flushes the file and its directory before it returns).
THEOREM AppendsDurable == Spec => []Durable
<1>1. IInv => Durable
    <2> SUFFICES ASSUME IInv, NEW r \in appended, ~r.joined
                 PROVE  r.seq <= Len(file.lines) /\ file.lines[r.seq] = r
        BY DEF Durable
    <2>1. Kept(r, file)
        BY DEF IInv, Acknowledged
    <2>2. Len(file.lines) \in Nat
        BY LenProperties DEF IInv, TypeOK, File
    <2>3. QED  BY <2>1, <2>2 DEF Kept, Complete
<1>2. QED  BY <1>1, Inductive, PTL

\* The records of all processes form one chain that respects the life of each plan, and a
\* failed append that was rolled back leaves no trace.
THEOREM JournalIsOneChain == Spec => []OneChain
<1>1. IInv => OneChain
    BY DEF IInv, Sound, Valid, OneChain
<1>2. QED  BY <1>1, Inductive, PTL

\* verify_checkpoint never reports the loss of an acknowledged record.
THEOREM NeverFalselyAccused == Spec => []NeverAccused
<1>1. IInv => NeverAccused
    BY DEF IInv
<1>2. QED  BY <1>1, Inductive, PTL

================================================================================
