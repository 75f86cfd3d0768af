----------------------------- MODULE TruthSync -----------------------------
(***************************************************************************)
(* sync-truth (compat-lab): a live record, an evidence class, a support    *)
(* level or a surface verdict is entered for one lane.  The plan computes  *)
(* the new text of every file it touches; after the prompt the texts are   *)
(* written one by one, the snapshot is loaded again, and the writes are    *)
(* undone when that fails, as far as they can be.  Several processes may   *)
(* wait at their prompts, one at a time writes.                            *)
(***************************************************************************)
EXTENDS WorkflowMaturity, Sentinels

CONSTANTS
  Inputs,         \* what a call may ask for
  Present,        \* evidence files that exist
  Minutes,        \* one call is made in each of these, in turn: bounds the calls
  MaxDays, MaxFaults

VARIABLES
  files,          \* the text of each file
  plans,          \* [stamp -> plan at its prompt, Missing before and after]
  sync,           \* the apply under way, Missing if none
  journal,        \* [stamp -> what its journal says]
  day, faults

syncVars == <<files, plans, sync, journal, day, faults>>

Stamps == {Minutes[i] : i \in 1..Len(Minutes)}
MaxOf(set) == CHOOSE x \in set : \A y \in set : y <= x

-----------------------------------------------------------------------------
(***************************************************************************)
(* The lane entry of the matrix mirrors the record; loading the snapshot   *)
(* checks the mirror, the records and the level they allow.                *)
(***************************************************************************)

Mirror(record) ==
  [level |-> record.level, best |-> record.best, freshness |-> record.freshness,
   hosts |-> record.hosts, verified |-> record.verified, picker |-> record.picker,
   refs |-> record.refs]

\* A mutant: the level of the matrix is taken as it stands.
TrustsTheMatrix(lane, record) ==
  [lane EXCEPT !.verified = record.verified, !.level = record.level] = Mirror(record)
\* last_verified_at is the one mirrored field that is not compared.
MirrorHolds(lane, record) == [lane EXCEPT !.verified = record.verified] = Mirror(record)

LiveRecordHolds(l, lane, run) ==
  /\ run.lane = l
  /\ lane.level \in {"preview", "stable-tested"} => run.canonical
  /\ run.stale <= run.expire
  /\ run.verdict \in {"pass", "partial", "fail", "blocked", "unrecorded"}

LevelHolds(lane, record) ==
  LET rank == EvidenceRank(record.best) IN
  CASE lane.level = "stable-tested" ->
         rank = 2 /\ record.hosts >= 2 /\ record.freshness = "fresh"
    [] lane.level = "preview" ->
         rank >= 1 /\ record.picker = "pass" /\ record.freshness = "fresh"
    [] lane.level = "degraded" -> rank >= 0
    [] lane.level = "prep" -> rank < 1
    [] lane.level = "blocked" -> record.negative # <<>>

ValidateLiveRuntimeLaneRecord(l, lane, record) ==
  /\ MirrorHolds(lane, record)
  /\ record.caveat /\ record.scope # {} /\ record.refs \subseteq Present
  /\ \A i \in 1..Len(record.live) : LiveRecordHolds(l, lane, record.live[i])
  /\ \A i \in 1..Len(record.negative) : LiveRecordHolds(l, lane, record.negative[i])
  /\ LevelHolds(lane, record)

SnapshotLoads(texts) ==
  \A l \in Lanes : texts[l] # Torn /\ ValidateLiveRuntimeLaneRecord(l, texts["matrix"][l], texts[l])

SnapshotMaturity(texts) ==
  ResolveWorkflowMaturity(texts["manifest"], texts["matrix"], [l \in Lanes |-> texts[l]], "GO")

-----------------------------------------------------------------------------
(***************************************************************************)
(* The plan.                                                               *)
(***************************************************************************)

\* An incoming record of the lane; its entry point is not asked for here.
ValidateIncomingRecord(l, run) ==
  /\ run.stale <= run.expire
  /\ run.verdict \in {"pass", "partial", "fail", "blocked", "unrecorded", "not_recorded"}
  /\ run.lane = l /\ run.scope # {}

Merged(record, run) ==
  IF run = Missing THEN record
  ELSE [record EXCEPT !.live = IF run.negative THEN @ ELSE Append(@, run),
                      !.negative = IF run.negative THEN Append(@, run) ELSE @,
                      !.scope = @ \cup run.scope]

Runs(record) == {record.live[i] : i \in 1..Len(record.live)}
DerivedFreshness(record, at) ==
  IF record.live = <<>> THEN "none-recorded"
  ELSE LET newest == CHOOSE r \in Runs(record) : \A s \in Runs(record) : s.captured <= r.captured
       IN  IF at > newest.expire THEN "expired" ELSE IF at > newest.stale THEN "stale" ELSE "fresh"
DerivedLastVerifiedAt(record) ==
  IF record.live = <<>> THEN record.verified ELSE MaxOf({r.captured : r \in Runs(record)})

BestEvidenceRank(record) == MaxOf({EvidenceRank(r.class) : r \in Runs(record)} \cup {-1})

\* A bump may claim more than the records show, never less than they or the lane say.
BumpAllowed(record, merged, bump) ==
  bump # Missing =>
    EvidenceRank(bump) >= MaxOf({BestEvidenceRank(merged), EvidenceRank(record.best)})

Given(value, old) == IF value = Missing THEN old ELSE value
NextRecord(record, in, at) ==
  LET merged == Merged(record, in.run)
  IN  [merged EXCEPT !.best = Given(in.bump, @),
                     !.hosts = Cardinality({r.host : r \in Runs(merged)}),
                     !.verified = DerivedLastVerifiedAt(merged),
                     !.freshness = DerivedFreshness(merged, at),
                     !.refs = @ \cup in.refs,
                     !.picker = Given(in.picker, @)]

\* What promotion_rules and the freshness gate ask of a level.
MeetsPromotionRules(level, next) ==
  LET rank == EvidenceRank(next.best) IN
  CASE level = "blocked" -> next.negative # <<>>
    [] level = "degraded" -> rank >= 0 /\ next.caveat
    [] level = "prep" -> rank >= 1
    [] level = "preview" ->
         rank >= 1 /\ next.hosts >= 1 /\ next.picker = "pass" /\ next.freshness = "fresh"
    [] level = "stable-tested" ->
         rank >= 2 /\ next.hosts >= 2 /\ next.picker = "pass" /\ next.freshness = "fresh"

\* A degraded lane stands on the lowest rung.
RungRank(level) ==
  CASE level \in {"prep", "degraded"} -> 0
    [] level = "preview" -> 1
    [] level = "stable-tested" -> 2

\* Without a level asked for, new evidence moves a lane of the ladder up one rung.
TargetLevel(record, next, asked) ==
  CASE asked # Missing -> asked
    [] asked = Missing /\ record.level = "prep" /\ EvidenceRank(next.best) >= 1 -> "preview"
    [] asked = Missing /\ record.level = "preview" /\ EvidenceRank(next.best) = 2
         /\ next.hosts >= 2 /\ next.freshness = "fresh" -> "stable-tested"
    [] OTHER -> record.level

\* The ladder is climbed one rung at a time, and a blocked lane is not promoted here.
LadderHolds(from, to) ==
  to \notin {"degraded", "blocked"} =>
    from # "blocked" /\ RungRank(to) <= RungRank(from) + 1

PlanHolds(l, record, next, in, target) ==
  /\ in.run # Missing => ValidateIncomingRecord(l, in.run)
  /\ BumpAllowed(record, Merged(record, in.run), in.bump)
  /\ in.refs \subseteq Present
  /\ LadderHolds(record.level, target)
  /\ MeetsPromotionRules(target, next)

\* The published table shows the lanes as they will be and the maturity as it was.
Table(matrix, maturity) ==
  [lanes |-> [l \in Lanes |-> <<matrix[l].level, matrix[l].best, matrix[l].freshness,
                                matrix[l].verified, matrix[l].refs>>],
   maturity |-> maturity]

Op(path, after) == [path |-> path, after |-> after]

\* The record file is patched in place: an entry put under a list written as [] is not YAML.
Patched(next, run) ==
  IF run # Missing /\ (IF run.negative THEN "negative" ELSE "live") \in next.inline
    THEN Torn ELSE next

\* The pack names the record of a lane in its scope, whether it is judged by it or not.
Naming(manifest, l, next) ==
  [manifest EXCEPT !.refs[RuntimeOf[l]] = IF Pack \in next.scope THEN @ \cup {l} ELSE @]

\* The new texts in the order they are written, of the files that change.
FileOps(l, next, run, stamp) ==
  LET matrix == [files["matrix"] EXCEPT ![l] = Mirror(next)]
      all == <<Op(l, Patched(next, run)), Op("matrix", matrix),
               Op("table", Table(matrix, SnapshotMaturity(files).effective)),
               Op("manifest", Naming(files["manifest"], l, next)),
               Op("log", Append(files["log"], stamp)), Op(stamp, "pending")>>
  IN  SelectSeq(all, LAMBDA op : op.after # files[op.path])

Unused(stamp) ==
  \E i \in 1..Len(Minutes) :
    /\ stamp = Minutes[i] /\ journal[stamp] = Missing
    /\ \A j \in 1..(i - 1) : journal[Minutes[j]] # Missing

\* sync-truth up to its prompt; drawing the table throws when the snapshot does not load.
PlanSync(stamp, l, in) ==
  LET record == files[l]
      drawn == NextRecord(record, in, day)
      target == TargetLevel(record, drawn, in.level)
  IN  /\ SnapshotLoads(files)
      /\ in.run # Missing => in.run.captured <= day
      /\ Unused(stamp)
      /\ PlanHolds(l, record, drawn, in, target)
      /\ plans' = [plans EXCEPT ![stamp] =
                     FileOps(l, [drawn EXCEPT !.level = target], in.run, stamp)]
      /\ journal' = [journal EXCEPT ![stamp] = "planned"]
      /\ UNCHANGED <<files, sync, day, faults>>

\* The prompt is refused.
Decline(stamp) ==
  /\ plans[stamp] # Missing
  /\ plans' = [plans EXCEPT ![stamp] = Missing]
  /\ UNCHANGED <<files, sync, journal, day, faults>>

-----------------------------------------------------------------------------
(***************************************************************************)
(* The apply, which does not look again at what it was planned from.       *)
(***************************************************************************)

BeginApply(stamp) ==
  /\ plans[stamp] # Missing /\ sync = Missing
  /\ sync' = [stamp |-> stamp, ops |-> plans[stamp], backups |-> <<>>, phase |-> "write"]
  /\ plans' = [plans EXCEPT ![stamp] = Missing]
  /\ journal' = [journal EXCEPT ![stamp] = "started"]
  /\ UNCHANGED <<files, day, faults>>

Writing == sync # Missing /\ sync.phase = "write"
SavedPaths == {sync.backups[i].path : i \in DOMAIN sync.backups}

\* What a file was before its first write is kept, in the order of the writes.
Saved ==
  LET path == Head(sync.ops).path
  IN  IF path \in SavedPaths THEN sync.backups
      ELSE Append(sync.backups, Op(path, files[path]))

WriteText ==
  /\ Writing /\ sync.ops # <<>>
  /\ files' = [files EXCEPT ![Head(sync.ops).path] = Head(sync.ops).after]
  /\ sync' = [sync EXCEPT !.ops = Tail(@), !.backups = Saved]
  /\ UNCHANGED <<plans, journal, day, faults>>

\* A write throws: what was saved is written back.
WriteFails ==
  /\ Writing /\ sync.ops # <<>> /\ faults < MaxFaults
  /\ sync' = [sync EXCEPT !.backups = Saved, !.phase = "undo"]
  /\ faults' = faults + 1
  /\ UNCHANGED <<files, plans, journal, day>>

\* A mutant: the snapshot is not loaded again.
CommitsUnchecked ==
  /\ Writing /\ sync.ops = <<>>
  /\ sync' = Missing /\ journal' = [journal EXCEPT ![sync.stamp] = "committed"]
  /\ UNCHANGED <<files, plans, day, faults>>
Validate ==
  /\ Writing /\ sync.ops = <<>>
  /\ IF SnapshotLoads(files)
       THEN sync' = Missing /\ journal' = [journal EXCEPT ![sync.stamp] = "committed"]
       ELSE sync' = [sync EXCEPT !.phase = "undo"] /\ UNCHANGED journal
  /\ UNCHANGED <<files, plans, day, faults>>

Undoing == sync # Missing /\ sync.phase \in {"undo", "unrestored"}

\* The status written is rolled-back either way; "not-restored" stands for one whose
\* errors name a file that was not.
Undo ==
  /\ Undoing
  /\ IF sync.backups = <<>>
       THEN /\ sync' = Missing
            /\ journal' = [journal EXCEPT ![sync.stamp] =
                             IF sync.phase = "undo" THEN "rolled-back" ELSE "not-restored"]
            /\ UNCHANGED files
       ELSE /\ files' = [files EXCEPT ![Head(sync.backups).path] = Head(sync.backups).after]
            /\ sync' = [sync EXCEPT !.backups = Tail(@)]
            /\ UNCHANGED journal
  /\ UNCHANGED <<plans, day, faults>>

\* A file that cannot be written back is passed over, and the next one is tried.
UndoFails ==
  /\ Undoing /\ sync.backups # <<>> /\ faults < MaxFaults
  /\ sync' = [sync EXCEPT !.backups = Tail(@), !.phase = "unrestored"]
  /\ faults' = faults + 1
  /\ UNCHANGED <<files, plans, journal, day>>

\* The process dies; nothing reads its journal afterwards.
SyncDies ==
  /\ sync # Missing /\ faults < MaxFaults
  /\ sync' = Missing /\ faults' = faults + 1
  /\ UNCHANGED <<files, plans, journal, day>>

NextDay ==
  /\ day < MaxDays /\ sync = Missing
  /\ day' = day + 1
  /\ UNCHANGED <<files, plans, sync, journal, faults>>

-----------------------------------------------------------------------------
SyncInit(texts) ==
  /\ files = texts
  /\ plans = [s \in Stamps |-> Missing] /\ journal = [s \in Stamps |-> Missing]
  /\ sync = Missing /\ day = 0 /\ faults = 0

SyncNext ==
  \/ \E s \in Stamps, l \in Lanes, in \in Inputs : PlanSync(s, l, in)
  \/ \E s \in Stamps : Decline(s) \/ BeginApply(s)
  \/ WriteText \/ WriteFails \/ Validate \/ Undo \/ UndoFails \/ SyncDies \/ NextDay

SyncSpec(texts) == SyncInit(texts) /\ [][SyncNext]_syncVars

-----------------------------------------------------------------------------
(***************************************************************************)
(* The properties.                                                         *)
(***************************************************************************)

CutShort == \E s \in Stamps : journal[s] = "started" /\ (sync = Missing \/ sync.stamp # s)
Interrupted == CutShort \/ \E s \in Stamps : journal[s] = "not-restored"

\* However long a plan waited at its prompt and whatever was written meanwhile, an apply
\* that was not cut short, and whose rollback passed over no file, leaves a snapshot that
\* loads: records and matrix agree and each lane's level is one its record supports.
SnapshotSurvives == sync = Missing /\ ~Interrupted => SnapshotLoads(files)

\* In every state a reader may find the files in, between two writes and after a crash
\* too: a label above canary is only given while the record files themselves carry it for
\* every lane the pack is judged by.
CarriesLabel(record) ==
  /\ record.level \in {"preview", "stable-tested"}
  /\ record.freshness = "fresh" /\ VerifyingRuns(record) # {}
MaturityFollowsRecords ==
  SnapshotLoads(files) /\ SnapshotMaturity(files).effective \in {"preview", "beta", "stable"} =>
    \A r \in files["manifest"].runtimes :
      files["manifest"].claims[r].required =>
        \A l \in FindClaimedOrDefaultLanes(files["manifest"], r) : CarriesLabel(files[l])
=============================================================================
