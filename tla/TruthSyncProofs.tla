--------------------------- MODULE TruthSyncProofs ---------------------------
(***************************************************************************)
(* The truth that is published: a sync that is neither cut short nor       *)
(* unable to put a file back leaves a snapshot that loads, whatever was    *)
(* written between its plan and its apply, and a label above canary is     *)
(* carried by the record files, for every pack, every matrix and all       *)
(* inputs.  The one hypothesis is that the files are a snapshot that loads *)
(* to begin with.                                                          *)
(***************************************************************************)
EXTENDS TruthSync, FiniteSetTheorems, SequenceTheorems, TLAPS

IsFunction(f) == f = [x \in DOMAIN f |-> f[x]]

-----------------------------------------------------------------------------
(***************************************************************************)
(* The label a pack ends up with.                                          *)
(***************************************************************************)

\* No blocker was raised, so no condition holds.
LEMMA Unraised ==
  ASSUME NEW rules, Raised(rules) = {}
  PROVE  \A rule \in rules : ~rule[1]
BY DEF Raised

LEMMA OneRule ==
  ASSUME NEW rules, Raised(rules) = {}, NEW c \in BOOLEAN, NEW b, <<c, b>> \in rules
  PROVE  ~c
<1>1. ~(<<c, b>>[1])
  BY Unraised
<1> QED BY <1>1

\* A lane that raises nothing carries the label in its record, as soon as the matrix
\* mirrors it.
LEMMA LaneCarries ==
  ASSUME NEW lane, NEW record, NEW bound, MirrorHolds(lane, record),
         PreviewLaneBlockers(lane, record, bound) = {}
  PROVE  CarriesLabel(record)
<1> DEFINE low == lane.level \notin {"preview", "stable-tested"}
           old == lane.freshness # "fresh"
           bad == record.picker # "pass"
           weak == EvidenceRank(record.best) < 1
           bare == VerificationRuns(record) < 1
           rules == {<<low, "preview-public-lane-not-preview">>,
                     <<old, "preview-public-lane-not-fresh">>,
                     <<bad, "preview-canonical-picker-unverified">>,
                     <<weak, "preview-live-verification-missing">>,
                     <<bare, "preview-workflow-verification-run-missing">>}
<1>1. Raised(rules) = {}
  BY DEF PreviewLaneBlockers
<1>2. low \in BOOLEAN /\ old \in BOOLEAN /\ bare \in BOOLEAN
  OBVIOUS
<1>3. ~low /\ ~old /\ ~bare
  <2> HIDE DEF low, old, bad, weak, bare
  <2>1. /\ <<low, "preview-public-lane-not-preview">> \in rules
        /\ <<old, "preview-public-lane-not-fresh">> \in rules
        /\ <<bare, "preview-workflow-verification-run-missing">> \in rules
    OBVIOUS
  <2> HIDE DEF rules
  <2> QED BY <1>1, <1>2, <2>1, OneRule
<1>4. lane.level = record.level /\ lane.freshness = record.freshness
  <2> DEFINE mirror == [lane EXCEPT !.verified = record.verified]
  <2>1. mirror = Mirror(record)
    BY DEF MirrorHolds
  <2>2. mirror.level = record.level /\ mirror.freshness = record.freshness
    BY <2>1 DEF Mirror
  <2>3. DOMAIN mirror = DOMAIN lane /\ {"level", "freshness"} \subseteq DOMAIN mirror
    BY <2>1 DEF Mirror
  <2> QED BY <2>2, <2>3
<1>5. VerifyingRuns(record) # {}
  <2>1. Cardinality({}) = 0
    BY FS_EmptySet
  <2> QED BY <1>3, <2>1 DEF VerificationRuns
<1> QED BY <1>3, <1>4, <1>5 DEF CarriesLabel

\* A pack that is not held at canary has no blocker of a preview.
LEMMA AboveCanary ==
  ASSUME NEW manifest, NEW matrix, NEW records, NEW gate,
         ResolveWorkflowMaturity(manifest, matrix, records, gate).effective
           \in {"preview", "beta", "stable"}
  PROVE  CollectPreviewBlockers(manifest, matrix, records) = {}
<1> DEFINE canary == CollectCanaryBlockers(manifest)
           preview == IF canary # {} THEN {} ELSE CollectPreviewBlockers(manifest, matrix, records)
           beta == IF preview # {} THEN {} ELSE CollectBetaBlockers(manifest, records)
           stable == IF beta # {} THEN {}
                     ELSE CollectStableBlockers(manifest, matrix, records, gate)
           supported == IF canary \cup preview # {} THEN "canary"
                        ELSE IF beta # {} THEN "preview"
                        ELSE IF stable # {} THEN "beta" ELSE "stable"
           effective == IF manifest.assigned = "deprecated" THEN "deprecated"
                        ELSE PickWeaker(manifest.assigned, supported)
<1>1. effective \in {"preview", "beta", "stable"}
  BY DEF ResolveWorkflowMaturity
<1>2. supported # "canary"
  <2> SUFFICES ASSUME supported = "canary" PROVE FALSE
    OBVIOUS
  <2> HIDE DEF supported
  <2>1. effective = PickWeaker(manifest.assigned, "canary")
    BY <1>1
  <2>2. /\ MaturityRank["canary"] = 0 /\ MaturityRank["preview"] = 1
        /\ MaturityRank["beta"] = 2 /\ MaturityRank["stable"] = 3
    BY DEF MaturityRank
  <2> QED BY <1>1, <2>1, <2>2 DEF PickWeaker
<1>3. canary \cup preview = {}
  <2> HIDE DEF canary, preview, beta, stable
  <2> QED BY <1>2
<1> QED BY <1>3

\* TruthSync: in whatever state the files are found, a label above canary is only given
\* while the record of every lane the pack is judged by carries it.
LEMMA LabelIsCarried == MaturityFollowsRecords
<1> SUFFICES ASSUME SnapshotLoads(files),
                    SnapshotMaturity(files).effective \in {"preview", "beta", "stable"},
                    NEW r \in files["manifest"].runtimes,
                    files["manifest"].claims[r].required,
                    NEW l \in FindClaimedOrDefaultLanes(files["manifest"], r)
             PROVE  CarriesLabel(files[l])
  BY DEF MaturityFollowsRecords
<1> DEFINE manifest == files["manifest"]
           matrix == files["matrix"]
           records == [k \in Lanes |-> files[k]]
           bound == l \in EvidenceLanes(manifest, r, records)
<1>1. CollectPreviewBlockers(manifest, matrix, records) = {}
  BY AboveCanary DEF SnapshotMaturity
<1>2. PreviewRuntimeBlockers(manifest, r, matrix, records) = {}
  BY <1>1 DEF CollectPreviewBlockers
<1>3. PreviewLaneBlockers(matrix[l], records[l], bound) = {}
  <2> HIDE DEF records, matrix
  <2>1. UNION {PreviewLaneBlockers(matrix[k], records[k], k \in EvidenceLanes(manifest, r, records)) :
                 k \in FindClaimedOrDefaultLanes(manifest, r)} = {}
    <3> HIDE DEF manifest
    <3>1. manifest.claims[r].required
      BY DEF manifest
    <3> QED BY <1>2, <3>1 DEF PreviewRuntimeBlockers
  <2>2. PreviewLaneBlockers(matrix[l], records[l], l \in EvidenceLanes(manifest, r, records))
          \in {PreviewLaneBlockers(matrix[k], records[k], k \in EvidenceLanes(manifest, r, records)) :
                 k \in FindClaimedOrDefaultLanes(manifest, r)}
    OBVIOUS
  <2> QED BY <2>1, <2>2
<1>4. l \in Lanes
  BY DEF FindClaimedOrDefaultLanes, LanesOf
<1>5. MirrorHolds(matrix[l], records[l])
  BY <1>4 DEF SnapshotLoads, ValidateLiveRuntimeLaneRecord
<1>6. CarriesLabel(records[l])
  <2> HIDE DEF records, bound
  <2> QED BY <1>3, <1>5, LaneCarries
<1> QED BY <1>4, <1>6

\* The same as an invariant of every sync, from whatever texts it starts.
THEOREM LabelsAreCarried ==
  ASSUME NEW CONSTANT texts
  PROVE  SyncSpec(texts) => []MaturityFollowsRecords
BY LabelIsCarried, PTL

-----------------------------------------------------------------------------
(***************************************************************************)
(* The snapshot survives.  While an apply is under way there are texts,    *)
(* those it found, that load and that its backups give back; every file    *)
(* that differs from them is backed up.  Nothing is said of an apply that  *)
(* was cut short, or once a file could not be put back: no step brings     *)
(* such a file back.                                                       *)
(***************************************************************************)

\* A plan waits at its prompt only before its apply; the files and journals are tables.
PlansWait ==
  /\ IsFunction(files)
  /\ journal = [s \in Stamps |-> journal[s]]
  /\ plans = [s \in Stamps |-> plans[s]]
  /\ \A s \in Stamps : plans[s] # Missing => journal[s] = "planned"

\* The apply under way has started its journal and kept its backups in order.
WriterHolds ==
  sync # Missing =>
    /\ sync = [stamp |-> sync.stamp, ops |-> sync.ops,
                 backups |-> sync.backups, phase |-> sync.phase]
    /\ sync.stamp \in Stamps
    /\ journal[sync.stamp] = "started"
    /\ \E S : sync.backups \in Seq(S)

\* What the backups give back, written over the files as they are, is orig.
GivesBack(orig) ==
  /\ IsFunction(orig) /\ DOMAIN orig = DOMAIN files
  /\ \A p \in DOMAIN files : files[p] # orig[p] => p \in SavedPaths
  /\ \A i \in DOMAIN sync.backups :
       sync.backups[i].path \in DOMAIN files =>
         sync.backups[i].after = orig[sync.backups[i].path]

Recoverable ==
  ~Interrupted => IF sync = Missing THEN SnapshotLoads(files)
                  ELSE sync.phase # "unrestored" =>
                         \E orig : SnapshotLoads(orig) /\ GivesBack(orig)

SyncInv == PlansWait /\ WriterHolds /\ Recoverable

\* A first snapshot that loads; no journal of it says that an apply has started.
LEMMA SyncInitInv ==
  ASSUME NEW texts, SnapshotLoads(texts), IsFunction(texts),
         Missing \notin {"started", "not-restored"}, SyncInit(texts)
  PROVE  SyncInv
<1>1. PlansWait
  BY DEF SyncInit, PlansWait
<1>2. WriterHolds
  BY DEF SyncInit, WriterHolds
<1>3. Recoverable
  BY DEF SyncInit, Recoverable
<1> QED BY <1>1, <1>2, <1>3 DEF SyncInv

\* Planning and refusing a plan leave files and writer alone.
LEMMA PlanSyncInv ==
  ASSUME Missing \notin {"started", "not-restored"}, SyncInv,
         NEW s \in Stamps, NEW l \in Lanes, NEW in \in Inputs, PlanSync(s, l, in)
  PROVE  SyncInv'
<1> DEFINE text == FileOps(l, [NextRecord(files[l], in, day) EXCEPT
                                 !.level = TargetLevel(files[l], NextRecord(files[l], in, day),
                                                       in.level)], in.run, s)
<1>1. /\ SnapshotLoads(files) /\ journal[s] = Missing
      /\ plans' = [plans EXCEPT ![s] = text]
      /\ journal' = [journal EXCEPT ![s] = "planned"]
      /\ UNCHANGED <<files, sync>>
  BY DEF PlanSync, Unused
<1> HIDE DEF text
<1>2. PlansWait'
  BY <1>1 DEF SyncInv, PlansWait, IsFunction
<1>3. WriterHolds'
  BY <1>1 DEF SyncInv, PlansWait, WriterHolds
<1>4. Recoverable'
  <2>1. Interrupted => Interrupted'
    BY <1>1 DEF SyncInv, PlansWait, Interrupted, CutShort
  <2>2. ASSUME NEW orig, GivesBack(orig) PROVE GivesBack(orig)'
    BY <1>1, <2>2 DEF GivesBack, SavedPaths
  <2> QED BY <1>1, <2>1, <2>2 DEF SyncInv, Recoverable
<1> QED BY <1>2, <1>3, <1>4 DEF SyncInv

LEMMA DeclineInv ==
  ASSUME SyncInv, NEW s \in Stamps, Decline(s)
  PROVE  SyncInv'
<1>1. /\ plans' = [plans EXCEPT ![s] = Missing]
      /\ UNCHANGED <<files, sync, journal>>
  BY DEF Decline
<1>2. PlansWait'
  BY <1>1 DEF SyncInv, PlansWait, IsFunction
<1>3. WriterHolds'
  BY <1>1 DEF SyncInv, WriterHolds
<1>4. Recoverable'
  <2>1. ASSUME NEW orig, GivesBack(orig) PROVE GivesBack(orig)'
    BY <1>1, <2>1 DEF GivesBack, SavedPaths
  <2> QED BY <1>1, <2>1 DEF SyncInv, Recoverable, Interrupted, CutShort, SnapshotLoads
<1> QED BY <1>2, <1>3, <1>4 DEF SyncInv

\* An apply starts on a snapshot that loads, which is what it can give back.
LEMMA BeginApplyInv ==
  ASSUME SyncInv, NEW s \in Stamps, BeginApply(s)
  PROVE  SyncInv'
<1>1. /\ plans[s] # Missing /\ sync = Missing /\ journal[s] = "planned"
      /\ sync' = [stamp |-> s, ops |-> plans[s], backups |-> <<>>, phase |-> "write"]
      /\ plans' = [plans EXCEPT ![s] = Missing]
      /\ journal' = [journal EXCEPT ![s] = "started"]
      /\ files' = files
  BY DEF BeginApply, SyncInv, PlansWait
<1>2. PlansWait'
  BY <1>1 DEF SyncInv, PlansWait, IsFunction
<1>3. WriterHolds'
  <2>1. sync'.stamp = s /\ sync'.backups = <<>> /\ journal'[s] = "started"
    BY <1>1 DEF SyncInv, PlansWait
  <2>2. sync'.backups \in Seq({})
    BY <2>1
  <2> QED BY <1>1, <2>1, <2>2 DEF WriterHolds
<1>4. Recoverable'
  <2> SUFFICES ASSUME ~Interrupted' PROVE Recoverable'
    BY DEF Recoverable
  <2>1. journal'[s] = "started" /\ sync' # Missing
    BY <1>1 DEF SyncInv, PlansWait, Interrupted, CutShort
  <2>2. ~Interrupted
    BY <1>1, <2>1 DEF SyncInv, PlansWait, Interrupted, CutShort
  <2>3. SnapshotLoads(files)
    BY <1>1, <2>2 DEF SyncInv, Recoverable
  <2>4. GivesBack(files)'
    BY <1>1 DEF GivesBack, SyncInv, PlansWait, IsFunction
  <2>5. PICK orig : orig = files
    OBVIOUS
  <2>6. SnapshotLoads(orig) /\ GivesBack(orig)'
    BY <1>1, <2>3, <2>4, <2>5 DEF GivesBack, SavedPaths
  <2> QED BY <2>1, <2>6 DEF Recoverable
<1> QED BY <1>2, <1>3, <1>4 DEF SyncInv

\* The backups stay a sequence.
LEMMA SavedKept ==
  ASSUME SyncInv, Writing
  PROVE  \E S : Saved \in Seq(S)
<1>1. PICK S : sync.backups \in Seq(S)
  BY DEF SyncInv, WriterHolds, Writing
<1>2. PICK op : op = Op(Head(sync.ops).path, files[Head(sync.ops).path])
  OBVIOUS
<1>3. sync.backups \in Seq(S \cup {op}) /\ op \in S \cup {op}
  BY <1>1
<1>4. Saved \in Seq(S \cup {op})
  BY <1>2, <1>3 DEF Saved
<1> QED BY <1>4

\* What is saved before a write still gives the same texts back: a file that is saved
\* already keeps its first backup, one that is not has not been written yet.
LEMMA SavedGivesBack ==
  ASSUME SyncInv, Writing, NEW orig, GivesBack(orig)
  PROVE  /\ Head(sync.ops).path \in {Saved[i].path : i \in DOMAIN Saved}
         /\ SavedPaths \subseteq {Saved[i].path : i \in DOMAIN Saved}
         /\ \A i \in DOMAIN Saved :
              Saved[i].path \in DOMAIN files => Saved[i].after = orig[Saved[i].path]
<1> DEFINE path == Head(sync.ops).path
           op == Op(path, files[path])
<1>1. PICK S : sync.backups \in Seq(S)
  BY DEF SyncInv, WriterHolds, Writing
<1>2. CASE path \in SavedPaths
  <2>1. Saved = sync.backups
    BY <1>2 DEF Saved
  <2> QED BY <1>1, <1>2, <2>1 DEF SavedPaths, GivesBack
<1>3. CASE path \notin SavedPaths
  <2> DEFINE n == Len(sync.backups)
  <2>1. Saved = Append(sync.backups, op)
    BY <1>3 DEF Saved
  <2> HIDE DEF op
  <2>2. sync.backups \in Seq(S \cup {op}) /\ op \in S \cup {op}
    BY <1>1
  <2>3. /\ Saved \in Seq(S \cup {op}) /\ DOMAIN Saved = 1..(n + 1) /\ n \in Nat
        /\ DOMAIN sync.backups = 1..n
        /\ \A i \in 1..n : Saved[i] = sync.backups[i]
        /\ Saved[n + 1] = op
    BY <2>1, <2>2
  <2>4. op.path = path /\ op.after = files[path]
    BY DEF op, Op
  <2>5. path \in DOMAIN files => files[path] = orig[path]
    BY <1>3 DEF GivesBack
  <2>6. \A i \in DOMAIN Saved :
          Saved[i].path \in DOMAIN files => Saved[i].after = orig[Saved[i].path]
    <3> HIDE DEF path
    <3> SUFFICES ASSUME NEW i \in 1..(n + 1), Saved[i].path \in DOMAIN files
                 PROVE  Saved[i].after = orig[Saved[i].path]
      BY <2>3
    <3>1. CASE i = n + 1
      BY <2>3, <2>4, <2>5, <3>1
    <3>2. CASE i # n + 1
      <4>1. i \in 1..n
        BY <2>3, <3>2
      <4> QED BY <2>3, <4>1 DEF GivesBack
    <3> QED BY <3>1, <3>2
  <2>7. path \in {Saved[i].path : i \in DOMAIN Saved}
    <3> HIDE DEF path
    <3> QED BY <2>3, <2>4
  <2>8. SavedPaths \subseteq {Saved[i].path : i \in DOMAIN Saved}
    BY <2>3 DEF SavedPaths
  <2> QED BY <2>3, <2>6, <2>7, <2>8
<1> QED BY <1>2, <1>3

\* Whatever a step writes next, the apply keeps its stamp and its journal.
LEMMA WriterGoesOn ==
  ASSUME SyncInv, sync # Missing, NEW ops, NEW backups, NEW phase, NEW S, backups \in Seq(S),
         sync' = [sync EXCEPT !.ops = ops, !.backups = backups, !.phase = phase],
         UNCHANGED <<plans, journal>>, IsFunction(files')
  PROVE  /\ PlansWait' /\ WriterHolds'
         /\ sync'.backups = backups /\ sync'.ops = ops /\ sync'.phase = phase
         /\ ~Interrupted' => sync' # Missing /\ ~Interrupted
<1>1. sync' = [stamp |-> sync.stamp, ops |-> ops, backups |-> backups, phase |-> phase]
  BY DEF SyncInv, WriterHolds
<1>2. /\ sync'.stamp = sync.stamp /\ sync'.backups = backups
      /\ sync'.ops = ops /\ sync'.phase = phase
  BY <1>1
<1>3. PlansWait'
  BY DEF SyncInv, PlansWait, IsFunction
<1>4. WriterHolds'
  BY <1>1, <1>2 DEF SyncInv, WriterHolds
<1>5. ~Interrupted' => sync' # Missing /\ ~Interrupted
  BY <1>2 DEF SyncInv, WriterHolds, Interrupted, CutShort
<1> QED BY <1>2, <1>3, <1>4, <1>5

\* A write keeps what it overwrites.
LEMMA WriteFileInv ==
  ASSUME SyncInv, WriteText
  PROVE  SyncInv'
<1>1. Writing /\ sync # Missing /\ UNCHANGED <<plans, journal>>
  BY DEF WriteText, Writing
<1>2. PICK path, after, rest, kept :
        /\ path = Head(sync.ops).path /\ after = Head(sync.ops).after
        /\ rest = Tail(sync.ops) /\ kept = Saved
  OBVIOUS
<1>3. files' = [files EXCEPT ![path] = after]
  BY <1>2 DEF WriteText
<1>4. IsFunction(files') /\ DOMAIN files' = DOMAIN files
  BY <1>3 DEF SyncInv, PlansWait, IsFunction
<1>5. sync' = [sync EXCEPT !.ops = rest, !.backups = kept, !.phase = sync.phase]
  BY <1>1, <1>2 DEF WriteText, SyncInv, WriterHolds
<1>6. PICK S : kept \in Seq(S)
  BY <1>1, <1>2, SavedKept
<1>7. /\ PlansWait' /\ WriterHolds' /\ sync'.backups = kept
      /\ ~Interrupted' => sync' # Missing /\ ~Interrupted
  BY <1>1, <1>4, <1>5, <1>6, WriterGoesOn
<1>8. ASSUME NEW orig, GivesBack(orig) PROVE GivesBack(orig)'
  <2>1. /\ path \in {kept[i].path : i \in DOMAIN kept}
        /\ SavedPaths \subseteq {kept[i].path : i \in DOMAIN kept}
        /\ \A i \in DOMAIN kept : kept[i].path \in DOMAIN files => kept[i].after = orig[kept[i].path]
    BY <1>1, <1>2, <1>8, SavedGivesBack
  <2>2. \A p \in DOMAIN files : files'[p] # orig[p] => p \in {kept[i].path : i \in DOMAIN kept}
    <3> SUFFICES ASSUME NEW p \in DOMAIN files, files'[p] # orig[p], p # path
                 PROVE  p \in {kept[i].path : i \in DOMAIN kept}
      BY <2>1
    <3>1. files'[p] = files[p]
      BY <1>3
    <3> QED BY <1>8, <2>1, <3>1 DEF GivesBack
  <2> QED BY <1>4, <1>7, <1>8, <2>1, <2>2 DEF GivesBack, SavedPaths
<1>9. ~Interrupted' => \E orig : SnapshotLoads(orig) /\ GivesBack(orig)'
  BY <1>1, <1>7, <1>8 DEF Writing, SyncInv, Recoverable
<1> QED BY <1>7, <1>9 DEF SyncInv, Recoverable

\* A write that throws leaves the file it was for as it was, and turns the apply back.
LEMMA WriteFailsInv ==
  ASSUME SyncInv, WriteFails
  PROVE  SyncInv'
<1>1. Writing /\ sync # Missing /\ UNCHANGED <<plans, journal>> /\ files' = files
  BY DEF WriteFails, Writing
<1>2. PICK kept : kept = Saved
  OBVIOUS
<1>3. sync' = [sync EXCEPT !.ops = sync.ops, !.backups = kept, !.phase = "undo"]
  BY <1>1, <1>2 DEF WriteFails, SyncInv, WriterHolds
<1>4. PICK S : kept \in Seq(S)
  BY <1>2, <1>1, SavedKept
<1>5. /\ PlansWait' /\ WriterHolds' /\ sync'.backups = kept
      /\ ~Interrupted' => sync' # Missing /\ ~Interrupted
  <2>1. IsFunction(files')
    BY <1>1 DEF SyncInv, PlansWait
  <2> QED BY <1>1, <1>3, <1>4, <2>1, WriterGoesOn
<1>6. ASSUME NEW orig, GivesBack(orig) PROVE GivesBack(orig)'
  <2>1. /\ SavedPaths \subseteq {kept[i].path : i \in DOMAIN kept}
        /\ \A i \in DOMAIN kept : kept[i].path \in DOMAIN files => kept[i].after = orig[kept[i].path]
    BY <1>1, <1>2, <1>6, SavedGivesBack
  <2> QED BY <1>1, <1>5, <1>6, <2>1 DEF GivesBack, SavedPaths
<1>7. ~Interrupted' => \E orig : SnapshotLoads(orig) /\ GivesBack(orig)'
  BY <1>1, <1>5, <1>6 DEF Writing, SyncInv, Recoverable
<1> QED BY <1>5, <1>7 DEF SyncInv, Recoverable

\* The apply ends on a snapshot it has loaded again, or turns back.
LEMMA ValidateInv ==
  ASSUME SyncInv, Validate
  PROVE  SyncInv'
<1>1. sync # Missing /\ UNCHANGED <<files, plans>>
  BY DEF Validate, Writing
<1>2. CASE SnapshotLoads(files)
  <2>1. sync' = Missing /\ journal' = [journal EXCEPT ![sync.stamp] = "committed"]
    BY <1>2 DEF Validate
  <2>2. plans[sync.stamp] = Missing
    BY <1>1 DEF SyncInv, PlansWait, WriterHolds
  <2>3. PlansWait'
    BY <1>1, <2>1, <2>2 DEF SyncInv, PlansWait, IsFunction
  <2>4. SnapshotLoads(files)'
    BY <1>1, <1>2 DEF SnapshotLoads
  <2> QED BY <2>1, <2>3, <2>4 DEF SyncInv, WriterHolds, Recoverable
<1>3. CASE ~SnapshotLoads(files)
  <2>1. UNCHANGED journal /\ sync' = [sync EXCEPT !.ops = sync.ops,
                                           !.backups = sync.backups, !.phase = "undo"]
    BY <1>1, <1>3 DEF Validate, SyncInv, WriterHolds
  <2>2. PICK S : sync.backups \in Seq(S)
    BY <1>1 DEF SyncInv, WriterHolds
  <2>3. /\ PlansWait' /\ WriterHolds' /\ sync'.backups = sync.backups
        /\ ~Interrupted' => sync' # Missing /\ ~Interrupted
    <3>1. IsFunction(files')
      BY <1>1 DEF SyncInv, PlansWait
    <3> QED BY <1>1, <2>1, <2>2, <3>1, WriterGoesOn
  <2>4. ASSUME NEW orig, GivesBack(orig) PROVE GivesBack(orig)'
    BY <1>1, <2>3, <2>4 DEF GivesBack, SavedPaths
  <2> QED BY <1>1, <2>3, <2>4 DEF Validate, Writing, SyncInv, Recoverable
<1> QED BY <1>2, <1>3

\* A backup is written back and forgotten; when none is left, and none was passed
\* over, the files are what they were.
LEMMA UndoInv ==
  ASSUME SyncInv, Undo
  PROVE  SyncInv'
<1>1. sync # Missing /\ sync.phase \in {"undo", "unrestored"} /\ plans' = plans
  BY DEF Undo, Undoing
<1>2. PICK S : sync.backups \in Seq(S)
  BY <1>1 DEF SyncInv, WriterHolds
<1>3. CASE sync.backups = <<>>
  <2>1. /\ sync' = Missing /\ files' = files
        /\ journal' = [journal EXCEPT ![sync.stamp] =
                         IF sync.phase = "undo" THEN "rolled-back" ELSE "not-restored"]
    BY <1>3 DEF Undo
  <2>2. plans[sync.stamp] = Missing
    BY <1>1 DEF SyncInv, PlansWait, WriterHolds
  <2>3. PlansWait'
    BY <1>1, <2>1, <2>2 DEF SyncInv, PlansWait, IsFunction
  <2>4. ASSUME ~Interrupted' PROVE SnapshotLoads(files)'
    <3>1. sync.phase = "undo" /\ ~Interrupted
      BY <1>1, <2>1, <2>4 DEF SyncInv, PlansWait, WriterHolds, Interrupted, CutShort
    <3>2. PICK orig : SnapshotLoads(orig) /\ GivesBack(orig)
      BY <1>1, <3>1 DEF SyncInv, Recoverable
    <3>3. SavedPaths = {}
      BY <1>3 DEF SavedPaths
    <3>4. \A p \in DOMAIN files : files[p] = orig[p]
      BY <3>2, <3>3 DEF GivesBack
    <3>5. files = orig
      BY <3>2, <3>4 DEF GivesBack, SyncInv, PlansWait, IsFunction
    <3> QED BY <2>1, <3>2, <3>5 DEF SnapshotLoads
  <2> QED BY <2>1, <2>3, <2>4 DEF SyncInv, WriterHolds, Recoverable
<1>4. CASE sync.backups # <<>>
  <2>1. PICK path, after, rest :
          /\ path = Head(sync.backups).path /\ after = Head(sync.backups).after
          /\ rest = Tail(sync.backups)
    OBVIOUS
  <2>2. /\ files' = [files EXCEPT ![path] = after] /\ journal' = journal
        /\ sync' = [sync EXCEPT !.ops = sync.ops, !.backups = rest, !.phase = sync.phase]
    BY <1>1, <1>4, <2>1 DEF Undo, SyncInv, WriterHolds
  <2>3. IsFunction(files') /\ DOMAIN files' = DOMAIN files
    BY <2>2 DEF SyncInv, PlansWait, IsFunction
  <2>4. rest \in Seq(S)
    BY <1>2, <1>4, <2>1
  <2>5. /\ PlansWait' /\ WriterHolds' /\ sync'.backups = rest /\ sync'.phase = sync.phase
        /\ ~Interrupted' => sync' # Missing /\ ~Interrupted
    BY <1>1, <2>2, <2>3, <2>4, WriterGoesOn
  <2>6. ASSUME NEW orig, GivesBack(orig) PROVE GivesBack(orig)'
    <3> DEFINE n == Len(sync.backups)
    <3>1. /\ n \in Nat \ {0} /\ DOMAIN sync.backups = 1..n /\ DOMAIN rest = 1..(n - 1)
          /\ sync.backups[1].path = path /\ sync.backups[1].after = after
          /\ \A i \in 1..(n - 1) : rest[i] = sync.backups[i + 1]
      BY <1>2, <1>4, <2>1
    <3>2. \A i \in 1..(n - 1) :
            rest[i].path \in DOMAIN files => rest[i].after = orig[rest[i].path]
      <4> SUFFICES ASSUME NEW i \in 1..(n - 1), rest[i].path \in DOMAIN files
                   PROVE  rest[i].after = orig[rest[i].path]
        OBVIOUS
      <4>1. i + 1 \in DOMAIN sync.backups /\ rest[i] = sync.backups[i + 1]
        BY <3>1
      <4> QED BY <2>6, <4>1 DEF GivesBack
    <3>3. \A p \in DOMAIN files : files'[p] # orig[p] => p \in {rest[i].path : i \in 1..(n - 1)}
      <4> SUFFICES ASSUME NEW p \in DOMAIN files, files'[p] # orig[p]
                   PROVE  \E i \in 1..(n - 1) : p = rest[i].path
        OBVIOUS
      <4>1. p # path
        <5> SUFFICES ASSUME p = path PROVE FALSE
          OBVIOUS
        <5>1. files'[p] = after
          BY <2>2
        <5>2. after = orig[path]
          <6>1. 1 \in DOMAIN sync.backups
            BY <3>1
          <6> QED BY <2>6, <3>1, <6>1 DEF GivesBack
        <5> QED BY <5>1, <5>2
      <4>2. files'[p] = files[p]
        BY <2>2, <4>1
      <4>3. PICK i \in 1..n : p = sync.backups[i].path
        BY <2>6, <3>1, <4>2 DEF GivesBack, SavedPaths
      <4>4. i # 1
        BY <3>1, <4>1, <4>3
      <4>5. i - 1 \in 1..(n - 1) /\ (i - 1) + 1 = i
        BY <3>1, <4>3, <4>4
      <4>6. rest[i - 1] = sync.backups[i]
        BY <3>1, <4>5
      <4> QED BY <4>3, <4>5, <4>6
    <3>4. IsFunction(orig) /\ DOMAIN orig = DOMAIN files'
      BY <2>3, <2>6 DEF GivesBack
    <3>5. DOMAIN sync'.backups = 1..(n - 1)
      BY <2>5, <3>1
    <3>6. \A p \in DOMAIN files' : files'[p] # orig[p] => p \in SavedPaths'
      BY <2>3, <2>5, <3>3, <3>5 DEF SavedPaths
    <3>7. \A i \in DOMAIN sync'.backups :
            sync'.backups[i].path \in DOMAIN files' =>
              sync'.backups[i].after = orig[sync'.backups[i].path]
      BY <2>3, <2>5, <3>2, <3>5
    <3> QED BY <3>4, <3>6, <3>7 DEF GivesBack
  <2>7. ~Interrupted' /\ sync'.phase # "unrestored" =>
          \E orig : SnapshotLoads(orig) /\ GivesBack(orig)'
    BY <1>1, <2>5, <2>6 DEF SyncInv, Recoverable
  <2> QED BY <2>5, <2>7 DEF SyncInv, Recoverable
<1> QED BY <1>3, <1>4

\* Nothing is promised once a file was passed over.
LEMMA UndoFailsInv ==
  ASSUME SyncInv, UndoFails
  PROVE  SyncInv'
<1>1. /\ sync # Missing /\ UNCHANGED <<files, plans, journal>>
      /\ sync.backups # <<>>
  BY DEF UndoFails, Undoing
<1>2. PICK S : sync.backups \in Seq(S)
  BY <1>1 DEF SyncInv, WriterHolds
<1>3. PICK rest : rest = Tail(sync.backups)
  OBVIOUS
<1>4. rest \in Seq(S)
  BY <1>1, <1>2, <1>3
<1>5. sync' = [sync EXCEPT !.ops = sync.ops, !.backups = rest, !.phase = "unrestored"]
  BY <1>1, <1>3 DEF UndoFails, SyncInv, WriterHolds
<1>6. IsFunction(files')
  BY <1>1 DEF SyncInv, PlansWait
<1>7. /\ PlansWait' /\ WriterHolds' /\ sync'.phase = "unrestored"
      /\ ~Interrupted' => sync' # Missing /\ ~Interrupted
  BY <1>1, <1>4, <1>5, <1>6, WriterGoesOn
<1> QED BY <1>7 DEF SyncInv, Recoverable

\* Nothing is promised of an apply that is cut short.
LEMMA CrashInv ==
  ASSUME SyncInv, SyncDies
  PROVE  SyncInv'
<1>1. sync # Missing /\ sync' = Missing /\ UNCHANGED <<files, plans, journal>>
  BY DEF SyncDies
<1>2. Interrupted'
  BY <1>1 DEF SyncInv, WriterHolds, Interrupted, CutShort
<1> QED BY <1>1, <1>2 DEF SyncInv, PlansWait, IsFunction, WriterHolds, Recoverable

\* Neither a day that passes nor a step of somebody else is seen by the invariant.
LEMMA SyncRests ==
  ASSUME SyncInv, UNCHANGED <<files, plans, sync, journal>>
  PROVE  SyncInv'
<1>1. ASSUME NEW orig, GivesBack(orig) PROVE GivesBack(orig)'
  BY <1>1 DEF GivesBack, SavedPaths
<1> QED BY <1>1 DEF SyncInv, PlansWait, IsFunction, WriterHolds, Recoverable,
                    Interrupted, CutShort, SnapshotLoads

LEMMA SyncStep ==
  ASSUME Missing \notin {"started", "not-restored"}, SyncInv, [SyncNext]_syncVars
  PROVE  SyncInv'
<1>1. CASE \E s \in Stamps, l \in Lanes, in \in Inputs : PlanSync(s, l, in)
  BY <1>1, PlanSyncInv
<1>2. CASE \E s \in Stamps : Decline(s) \/ BeginApply(s)
  BY <1>2, DeclineInv, BeginApplyInv
<1>3. CASE WriteText \/ WriteFails
  BY <1>3, WriteFileInv, WriteFailsInv
<1>4. CASE Validate \/ Undo \/ UndoFails \/ SyncDies
  BY <1>4, ValidateInv, UndoInv, UndoFailsInv, CrashInv
<1>5. CASE NextDay \/ UNCHANGED syncVars
  BY <1>5, SyncRests DEF NextDay, syncVars
<1> QED BY <1>1, <1>2, <1>3, <1>4, <1>5 DEF SyncNext

\* TruthSync: whatever was planned, waited at its prompt and was written meanwhile, an
\* apply that was not cut short, and whose rollback passed over no file, leaves a
\* snapshot that loads: it has loaded what it wrote, or it has put back the one it found.
THEOREM SnapshotsSurvive ==
  ASSUME NEW CONSTANT texts, SnapshotLoads(texts), IsFunction(texts),
         Missing \notin {"started", "not-restored"}
  PROVE  SyncSpec(texts) => []SnapshotSurvives
<1>1. SyncInit(texts) => SyncInv
  BY SyncInitInv
<1>2. SyncInv /\ [SyncNext]_syncVars => SyncInv'
  BY SyncStep
<1>3. SyncInv => SnapshotSurvives
  BY DEF SyncInv, Recoverable, SnapshotSurvives
<1> QED BY <1>1, <1>2, <1>3, PTL DEF SyncSpec
=============================================================================
