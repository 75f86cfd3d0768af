---------------------------- MODULE MemoryWrite ----------------------------
(***************************************************************************)
(* Authoritative memory writes: packages/core/memory-engine and the        *)
(* command that drives it, handleMemoryWrite of packages/tools/cli.        *)
(*                                                                         *)
(* A request is previewed first: the engine looks for duplicates and       *)
(* conflicts in .pairslash/project-memory, picks the target file and       *)
(* stages an artifact that says whether the write is ready.  To apply, a   *)
(* session shows the staged artifact, waits for the user to approve, runs  *)
(* the analysis again, writes the record into the target file, updates     *)
(* 90-memory-index.yaml and appends an audit entry.  Nothing is locked or  *)
(* rolled back, and a staged artifact is never removed.                    *)
(*                                                                         *)
(* Several sessions share the repository.  What one does between reading   *)
(* its input and printing its result is synchronous; Overlap says whether  *)
(* these parts of two processes may interleave.  Prompts always do.        *)
(*                                                                         *)
(* A record is the request that wrote it: titles, statements and scopes    *)
(* (with their detail) are abstract values.  Evidence, confidence, tags,   *)
(* timestamps, warnings and results' wording are left out, and so are      *)
(* requests the schema refuses: they change nothing.                       *)
(***************************************************************************)
EXTENDS Naturals, Sequences

CONSTANTS
  Sessions,       \* the processes writing to the repository
  Requests,       \* the write requests, as records
  TaskRecords,    \* records in task memory and in session files
  DirectoryKinds, \* kinds that keep one file per title
  Norm,           \* Norm[t]: the title t in lower case, blanks collapsed
  Slug,           \* Slug[t]: the file name made of the title t
  FileOrder,      \* the record files in the order a walk visits them
  NoId,           \* the request names no record it supersedes
  None,           \* no artifact is staged, no index entry exists
  Unreadable,     \* the file does not parse
  Blank,          \* the file parses and holds nothing: it is empty, or one word
  Overlap,        \* may two processes apply at the same time
  MaxFaults       \* bound: crashes and I/O failures in a behaviour

Id(r) == <<r.kind, r.title>>
SameTitle(q, r) == Norm[q.title] = Norm[r.title]

\* Two records about the same thing.
SameClaim(q, r) == q.kind = r.kind /\ SameTitle(q, r) /\ q.scope = r.scope

RouteTargetFile(r) ==
  IF r.kind \in DirectoryKinds THEN <<r.kind, Slug[r.title]>> ELSE <<r.kind>>

Files == {RouteTargetFile(r) : r \in Requests}
Ids == {Id(r) : r \in Requests}

ASSUME RequestAssumption ==
  \A r \in Requests \cup TaskRecords :
    /\ DOMAIN r = {"kind", "title", "scope", "statement", "action", "supersedes"}
    /\ r.title \in DOMAIN Norm /\ r.title \in DOMAIN Slug
    /\ r.action \in {"append", "supersede", "reject-candidate-if-conflict"}
    /\ r.action = "supersede" => r.supersedes # NoId

ASSUME FileAssumption ==
  /\ \A t, u \in DOMAIN Norm : Norm[t] = Norm[u] => Slug[t] = Slug[u]
  /\ FileOrder \in Seq(Files)
  /\ \A f \in Files : \E i \in 1 .. Len(FileOrder) : FileOrder[i] = f

Artifact == [file : Files, ready : BOOLEAN]
IndexEntry == [file : Files, status : {"active", "superseded"}]

ASSUME SentinelAssumption ==
  /\ None \notin Artifact \cup IndexEntry
  /\ Unreadable \notin Artifact \cup {None} \cup [Ids -> IndexEntry \cup {None}]
  /\ Blank \notin {Unreadable} \cup [Ids -> IndexEntry \cup {None}]

\* An index file that holds no table.
NoTable == {Unreadable, Blank}

ASSUME BoundAssumption == Overlap \in BOOLEAN /\ MaxFaults \in Nat

VARIABLES
  store,    \* the records in each file of .pairslash/project-memory
  index,    \* 90-memory-index.yaml: the entry of each id, or no table
  staging,  \* the artifact staged for each request
  audit,    \* the audit log: the requests with a success entry, the last result
  sess,     \* what each session is doing
  faults    \* crashes and I/O failures so far

vars == <<store, index, staging, audit, sess, faults>>

Applying == {"write", "index", "audit", "auditFailure"}

Waiting == [phase |-> "idle"]

Records(f) == {store[f][i] : i \in DOMAIN store[f]}
Live == UNION {Records(f) : f \in Files}

Entry(i) == IF index \in NoTable THEN None ELSE index[i]

-----------------------------------------------------------------------------
(***************************************************************************)
(* The analysis, made at the preview and again at the apply.               *)
(***************************************************************************)

Duplicates(r) == {q \in Live : SameClaim(q, r) /\ q.statement = r.statement}

Conflicts(r) ==
  {q \in Live : /\ q.kind = r.kind /\ q.scope = r.scope
                /\ q.statement # r.statement
                /\ SameTitle(q, r) \/ Id(q) = r.supersedes}

\* What a supersede may stand in for.
Supersedes(r, q) == Id(q) = r.supersedes \/ (q.kind = r.kind /\ SameTitle(q, r))

SupersedeTargets(r) == {q \in Live : Supersedes(r, q)}

\* The records of the requests staged by others count as candidates, even those
\* that were committed or rejected long ago.
Candidates(r) ==
  TaskRecords \cup {q \in Requests \ {r} : staging[q] \notin {None, Unreadable}}

CandidateConflicts(r) ==
  {q \in Candidates(r) : /\ q.kind = r.kind
                         /\ SameTitle(q, r) \/ q.scope = r.scope
                         /\ q.statement # r.statement}

\* A supersede goes to the first file with a target, any other record to the file
\* of its kind and title.
FileOfTarget(r) ==
  LET hit(i) == \E q \in Records(FileOrder[i]) : Supersedes(r, q)
      first == CHOOSE i \in 1 .. Len(FileOrder) :
                 hit(i) /\ \A j \in 1 .. i - 1 : ~hit(j)
  IN FileOrder[first]

\* Slip: a supersede without a target is staged without a file.
StagesNoTarget(r) ==
  IF r.action # "supersede" THEN RouteTargetFile(r)
  ELSE IF SupersedeTargets(r) # {} THEN FileOfTarget(r) ELSE None

TargetFile(r) ==
  IF r.action = "supersede" /\ SupersedeTargets(r) # {}
    THEN FileOfTarget(r) ELSE RouteTargetFile(r)

\* evaluatePolicy denies a request with duplicates or conflicts.
PolicyDenies(r) == Duplicates(r) # {} \/ Conflicts(r) # {}

ReadyForApply(r) ==
  /\ ~PolicyDenies(r)
  /\ r.action = "supersede" => SupersedeTargets(r) # {}
  /\ r.action = "reject-candidate-if-conflict" => CandidateConflicts(r) # {}

-----------------------------------------------------------------------------
(***************************************************************************)
(* Commands.                                                               *)
(***************************************************************************)

\* The synchronous parts of two processes overlap only if Overlap says so.
Undisturbed(s) ==
  Overlap \/ \A t \in Sessions \ {s} : sess[t].phase \notin Applying

\* A new entry in the audit log.
Log(r, result) ==
  audit' = [success |-> audit.success \cup (IF result = "success" THEN {r} ELSE {}),
            last    |-> result]

\* What an apply that is refused says in its audit entry.
Refusal(r) == IF PolicyDenies(r) THEN "conflict" ELSE "failed"

PreviewMemoryWrite(s, r) ==
  /\ sess[s].phase = "idle" /\ Undisturbed(s)
  /\ staging' = [staging EXCEPT ![r] = [file |-> TargetFile(r), ready |-> ReadyForApply(r)]]
  /\ UNCHANGED <<store, index, audit, sess, faults>>

\* --apply with a staged artifact that is ready: show it and ask.
ShowStaged(s, r) ==
  /\ sess[s].phase = "idle" /\ Undisturbed(s)
  /\ staging[r] \notin {None, Unreadable} /\ staging[r].ready
  /\ sess' = [sess EXCEPT ![s] = [phase |-> "confirm", req |-> r, file |-> staging[r].file]]
  /\ UNCHANGED <<store, index, staging, audit, faults>>

\* --apply with an artifact that is not ready: refused without asking.  (With no
\* artifact the command fails closed and changes nothing at all.)
RefuseStaged(s, r) ==
  /\ sess[s].phase = "idle" /\ Undisturbed(s)
  /\ staging[r] \notin {None, Unreadable} /\ ~staging[r].ready
  /\ Log(r, Refusal(r))
  /\ UNCHANGED <<store, index, staging, sess, faults>>

RejectMemoryWrite(s) ==
  /\ sess[s].phase = "confirm" /\ Undisturbed(s)
  /\ staging[sess[s].req] # Unreadable
  /\ Log(sess[s].req, "rejected")
  /\ sess' = [sess EXCEPT ![s] = Waiting]
  /\ UNCHANGED <<store, index, staging, faults>>

\* The prompt cannot be answered (no terminal) or is interrupted, or the artifact
\* does not parse any more when it is read again after the answer.
GiveUp(s) ==
  /\ sess[s].phase = "confirm"
  /\ sess' = [sess EXCEPT ![s] = Waiting]
  /\ UNCHANGED <<store, index, staging, audit, faults>>

\* Slip: the verdict of the staged artifact is taken for today's.
TrustsStagedVerdict(s) ==
  LET r == sess[s].req IN
  /\ sess[s].phase = "confirm" /\ Undisturbed(s)
  /\ staging[r] # Unreadable
  /\ IF staging[r].ready
       THEN /\ sess' = [sess EXCEPT ![s] = [phase |-> "write", req |-> r,
                                            file |-> staging[r].file]]
            /\ UNCHANGED audit
       ELSE /\ Log(r, Refusal(r))
            /\ sess' = [sess EXCEPT ![s] = Waiting]
  /\ UNCHANGED <<store, index, staging, faults>>

\* The user approves: the artifact is read again, whatever it says by now, and
\* the analysis is made again.
ApplyMemoryWrite(s) ==
  LET r == sess[s].req IN
  /\ sess[s].phase = "confirm" /\ Undisturbed(s)
  /\ staging[r] # Unreadable
  /\ IF staging[r].ready /\ ~PolicyDenies(r)
       THEN /\ sess' = [sess EXCEPT ![s] = [phase |-> "write", req |-> r,
                                            file |-> staging[r].file]]
            /\ UNCHANGED audit
       ELSE /\ Log(r, Refusal(r))
            /\ sess' = [sess EXCEPT ![s] = Waiting]
  /\ UNCHANGED <<store, index, staging, faults>>

Goto(s, phase) == sess' = [sess EXCEPT ![s].phase = phase]

\* The records of file f that record r would take the place of there.
Matches(r, f) == {i \in DOMAIN store[f] : Supersedes(r, store[f][i])}

\* writeTextFile of a directory kind: the record becomes the whole file.  Of a
\* root kind: it replaces the first record it supersedes, or is added at the end.
Written(r, f) ==
  IF r.kind \in DirectoryKinds THEN <<r>>
  ELSE IF r.action = "supersede"
    THEN LET first == CHOOSE i \in Matches(r, f) : \A j \in Matches(r, f) : i <= j
         IN [store[f] EXCEPT ![first] = r]
    ELSE Append(store[f], r)

\* upsertMemoryDocument throws when there is nothing in the file to supersede.
NothingToSupersede(r, f) ==
  r.kind \notin DirectoryKinds /\ r.action = "supersede" /\ Matches(r, f) = {}

\* Slip: what the record supersedes is looked for after it was written.
WritesBeforeLookup(s) ==
  LET r == sess[s].req f == sess[s].file IN
  /\ sess[s].phase = "write"
  /\ IF NothingToSupersede(r, f)
       THEN store' = [store EXCEPT ![f] = Append(@, r)] /\ Goto(s, "auditFailure")
       ELSE store' = [store EXCEPT ![f] = Written(r, f)] /\ Goto(s, "index")
  /\ UNCHANGED <<index, staging, audit, faults>>

WriteRecord(s) ==
  LET r == sess[s].req f == sess[s].file IN
  /\ sess[s].phase = "write" /\ ~NothingToSupersede(r, f)
  /\ store' = [store EXCEPT ![f] = Written(r, f)]
  /\ Goto(s, "index")
  /\ UNCHANGED <<index, staging, audit, faults>>

\* Slip: an entry the index has already is not set again.
KeepsOldEntry(r, f) ==
  [i \in Ids |->
     CASE i = Id(r) /\ index[i] = None -> [file |-> f, status |-> "active"]
       [] i # Id(r) /\ r.action = "supersede" /\ i = r.supersedes /\ index[i] # None
            -> [index[i] EXCEPT !.status = "superseded"]
       [] OTHER -> index[i]]

\* The entry the record supersedes is marked, then the record's own entry is set.
IndexWith(r, f) ==
  [i \in Ids |->
     CASE i = Id(r) -> [file |-> f, status |-> "active"]
       [] i # Id(r) /\ r.action = "supersede" /\ i = r.supersedes /\ index[i] # None
            -> [index[i] EXCEPT !.status = "superseded"]
       [] OTHER -> index[i]]

UpdateMemoryIndex(s) ==
  /\ sess[s].phase = "index" /\ index \notin NoTable
  /\ index' = IndexWith(sess[s].req, sess[s].file)
  /\ Goto(s, "audit")
  /\ UNCHANGED <<store, staging, audit, faults>>

AppendAudit(s) ==
  /\ sess[s].phase = "audit"
  /\ Log(sess[s].req, "success")
  /\ sess' = [sess EXCEPT ![s] = Waiting]
  /\ UNCHANGED <<store, index, staging, faults>>

-----------------------------------------------------------------------------
(***************************************************************************)
(* Failures.  Nothing that was written is taken back.                      *)
(***************************************************************************)

\* A step throws because of what it finds, an index that does not parse or that is null
\* or a word where a table is expected: the error is caught and audited.
StepFails(s) ==
  /\ \/ sess[s].phase = "write" /\ NothingToSupersede(sess[s].req, sess[s].file)
     \/ sess[s].phase = "index" /\ index \in NoTable
  /\ Goto(s, "auditFailure")
  /\ UNCHANGED <<store, index, staging, audit, faults>>

AuditFailure(s) ==
  /\ sess[s].phase = "auditFailure"
  /\ Log(sess[s].req, "failed")
  /\ sess' = [sess EXCEPT ![s] = Waiting]
  /\ UNCHANGED <<store, index, staging, faults>>

\* The step under way is cut short: nothing is written yet, or the first records of
\* a file, or an index that lost entries, that does not parse, or that is left empty or
\* with a part of its first word.  (Cut right behind the dash of an entry the index is
\* one the next writer throws at, too: that one byte is left out.)
CutShort(s) ==
  LET r == sess[s].req f == sess[s].file IN
  /\ faults < MaxFaults /\ faults' = faults + 1
  /\ \/ UNCHANGED <<store, index>>
     \/ /\ sess[s].phase = "write" /\ ~NothingToSupersede(r, f)
        /\ \E n \in 0 .. Len(Written(r, f)) - 1 :
             store' = [store EXCEPT ![f] = SubSeq(Written(r, f), 1, n)]
        /\ UNCHANGED index
     \/ /\ sess[s].phase = "index" /\ index \notin NoTable
        /\ \/ index' \in NoTable
           \/ \E kept \in SUBSET Ids :
                index' = [i \in Ids |-> IF i \in kept THEN IndexWith(r, f)[i] ELSE None]
        /\ UNCHANGED store

\* The file system refuses a write.
IOFails(s) ==
  /\ sess[s].phase \in {"write", "index", "audit"}
  /\ CutShort(s)
  /\ Goto(s, "auditFailure")
  /\ UNCHANGED <<staging, audit>>

\* The process dies, or the audit entry of the failure cannot be written.
Crash(s) ==
  /\ sess[s].phase \in Applying
  /\ CutShort(s)
  /\ sess' = [sess EXCEPT ![s] = Waiting]
  /\ UNCHANGED <<staging, audit>>

\* A preview dies while it writes its artifact.
CrashInPreview(s, r) ==
  /\ sess[s].phase = "idle" /\ Undisturbed(s)
  /\ faults < MaxFaults /\ faults' = faults + 1
  /\ staging' = [staging EXCEPT ![r] = Unreadable]
  /\ UNCHANGED <<store, index, audit, sess>>

Init ==
  /\ store = [f \in Files |-> <<>>]
  /\ index = [i \in Ids |-> None]
  /\ staging = [r \in Requests |-> None]
  /\ audit = [success |-> {}, last |-> "none"]
  /\ sess = [s \in Sessions |-> Waiting]
  /\ faults = 0

Command(s) ==
  \/ \E r \in Requests :
       PreviewMemoryWrite(s, r) \/ ShowStaged(s, r) \/ RefuseStaged(s, r)
  \/ RejectMemoryWrite(s) \/ GiveUp(s) \/ ApplyMemoryWrite(s)
  \/ WriteRecord(s) \/ UpdateMemoryIndex(s) \/ AppendAudit(s)

Failure(s) ==
  \/ StepFails(s) \/ AuditFailure(s) \/ IOFails(s) \/ Crash(s)
  \/ \E r \in Requests : CrashInPreview(s, r)

Next == \E s \in Sessions : Command(s) \/ Failure(s)

Spec == Init /\ [][Next]_vars

-----------------------------------------------------------------------------
(***************************************************************************)
(* Properties.                                                             *)
(***************************************************************************)

Results == {"success", "conflict", "failed", "rejected"}

SessionType ==
  {Waiting} \cup
  [phase : {"confirm"} \cup Applying, req : Requests, file : Files]

TypeOK ==
  /\ store \in [Files -> Seq(Requests)]
  /\ index \in NoTable \/ index \in [Ids -> IndexEntry \cup {None}]
  /\ staging \in [Requests -> Artifact \cup {None, Unreadable}]
  /\ audit \in [success : SUBSET Requests, last : Results \cup {"none"}]
  /\ sess \in [Sessions -> SessionType]
  /\ faults \in 0 .. MaxFaults

\* Of all the records in project memory, no two speak about the same thing:
\* whatever was previewed, approved, superseded or cut short, and however long
\* a prompt waited, there is neither a duplicate nor a contradiction.
NoContradiction ==
  \A f, g \in Files : \A i \in DOMAIN store[f], j \in DOMAIN store[g] :
    SameClaim(store[f][i], store[g][j]) => f = g /\ i = j

Commits(s) == sess[s].phase = "audit" /\ sess'[s] = Waiting /\ faults' = faults

\* When a session reports a commit, all three parts of it are there: the record
\* in its file, an active index entry that points at it, and the audit entry.
CommitIsComplete ==
  [][\A s \in Sessions : Commits(s) =>
       LET r == sess[s].req f == sess[s].file IN
       /\ \E i \in DOMAIN store'[f] : store'[f][i] = r
       /\ index' \notin NoTable /\ index'[Id(r)] = [file |-> f, status |-> "active"]
       /\ r \in audit'.success /\ audit'.last = "success"]_vars

NoneApplying == \A s \in Sessions : sess[s].phase \notin Applying

\* As long as nothing fails, every record in project memory has a success entry
\* in the audit log, whatever refusals, rejections and failures are logged too.
TrailIsComplete ==
  faults = 0 /\ NoneApplying =>
    Live \subseteq audit.success

\* The steps of an apply are those of a store that takes records in one at a time:
\* where a claim is held already it takes in nothing, whatever was staged, approved and
\* written in between; only a failure loses what no record takes the place of; and what
\* the audit log calls a success is in its file when it says so.
Authority == INSTANCE AuthorityStore WITH
  Claim        <- [r \in Requests |-> <<r.kind, Norm[r.title], r.scope>>],
  held         <- [f \in Files |-> Records(f)],
  acknowledged <- audit.success,
  failures     <- faults
ImplementsAuthority == Authority!Spec

-----------------------------------------------------------------------------
(***************************************************************************)
(* What the documentation says and the code does not do.                   *)
(***************************************************************************)

\* .pairslash/project-memory/90-memory-index.yaml: "Enumerates all authoritative
\* records in project-memory/."  The index has one entry per kind and title, and
\* a supersede that renames a record leaves it in the file of its old title.
IndexCoversStore ==
  NoneApplying =>
    \A f \in Files : \A r \in Records(f) :
      Entry(Id(r)) # None /\ Entry(Id(r)).file = f

\* plans/CONSTRAINTS.md, C.4: "Preview output MUST show the actual durable change
\* (paths, diffs, operations)".  What the preview shows is a target file, a record
\* and how it is applied, so the approved write goes to that file and removes
\* nothing from it but what a supersede replaces.
PreviewShowsChange ==
  [][\A s \in Sessions :
       /\ sess[s].phase = "confirm" /\ sess'[s].phase = "write" =>
            sess'[s].file = sess[s].file
       /\ sess[s].phase = "write" /\ sess'[s].phase = "index" =>
            LET r == sess[s].req f == sess[s].file IN
            \A q \in Records(f) :
              \/ \E i \in DOMAIN store'[f] : store'[f][i] = q
              \/ r.action = "supersede" /\ Supersedes(r, q)]_vars
=============================================================================
