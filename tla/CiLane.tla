------------------------------- MODULE CiLane -------------------------------
(***************************************************************************)
(* The CI lane: packages/advanced/ci-engine.  runCiLane evaluates the      *)
(* policy of each action it takes, runs the declared checks, turns patch   *)
(* candidates into artifacts against the files as they are and stamps the  *)
(* result with its provenance; writeCiProposals puts the artifacts below   *)
(* .pairslash/staging/ci-proposals/<ci_run_id>/, each file through a       *)
(* temporary one, the index last.                                          *)
(*                                                                         *)
(* A job may be killed between two writes and run again, with the id of an *)
(* earlier run or another.  A file of the repository is the number of its  *)
(* last edit; a patch says what it was made from.  Artifacts keep the      *)
(* places of their candidates.  A run's id stands for the name of its      *)
(* directory.  The repository summary, trace hint and descriptions are     *)
(* left out.                                                               *)
(***************************************************************************)
EXTENDS Verdicts, Sentinels

CONSTANTS
  RunIds,       \* ci_run_id values a job may be given
  Jobs,         \* what jobs ask for: [flags, amiss, candidates, sha]
  Outside,      \* candidate paths that are not inside the repository
  NameOf,       \* sanitizeArtifactName: the file name an id gives, or Missing
  MaxEdits,     \* bound: edits of the repository
  MaxJobs       \* bound: jobs in a behaviour

VARIABLES
  edits,  \* the repository: number of edits so far, the content of its files
  dir,    \* staging: the files of each run's directory
  job,    \* the job that is running: step, result and what is left to write
  jobs    \* jobs so far

ciVars == <<edits, dir, job, jobs>>

Index == <<"proposals", "yaml">>
Patch(name) == <<name, "patch">>
NoJob == [pc |-> "idle"]

-----------------------------------------------------------------------------
(***************************************************************************)
(* The lane.                                                               *)
(***************************************************************************)

CiBaseline(action) ==
  CASE action \in {"read_repo", "run_checks", "generate_diff", "attach_artifact"} -> "allow"
    [] action = "open_pr_comment" -> "ask"
    [] action = "write_task_memory_candidate" -> "require-preview"
    [] OTHER -> "deny"

\* amiss: not explicit, or no explicit repo policy
EvaluateCiPolicy(action, j) ==
  PickOverallVerdict(
    {CiBaseline(action)}
    \cup (IF \/ j.amiss # {}
             \/ "ci_lane_enabled" \notin j.flags
             \/ action = "run_checks" /\ "ci_plan_only" \in j.flags
             \/ action = "generate_diff" /\ "ci_generate_patch_artifact" \notin j.flags
          THEN {"deny"} ELSE {}))

\* createPatchArtifacts: a candidate outside the repository, or one that changes
\* nothing, makes no artifact.
CreatePatchArtifacts(candidates) ==
  [i \in {k \in DOMAIN candidates :
            candidates[k].path \notin Outside /\ candidates[k].after # edits} |->
     [id |-> candidates[i].id, path |-> candidates[i].path,
      from |-> edits, to |-> candidates[i].after]]

Generates(j) == j.candidates # <<>> /\ EvaluateCiPolicy("generate_diff", j) = "allow"

Artifacts(j) ==
  IF Generates(j) /\ EvaluateCiPolicy("attach_artifact", j) = "allow"
  THEN CreatePatchArtifacts(j.candidates) ELSE <<>>

ActiveActions(j) ==
  {"read_repo", "run_checks"}
    \cup (IF j.candidates # <<>> THEN {"generate_diff"} ELSE {})
    \cup (IF Artifacts(j) # <<>> THEN {"attach_artifact"} ELSE {})

ReportStatus(j, failing) ==
  CASE \E a \in ActiveActions(j) : EvaluateCiPolicy(a, j) # "allow" -> "blocked"
    [] failing -> "fail"
    [] OTHER -> "pass"

\* createProvenance; validateProposalProvenance refuses what has no explicit run id
\* and no commit, known to the caller or to git.
Provenance(j, id) == [id |-> id, sha |-> j.sha, flags |-> j.flags]
ValidProvenance(p) == p.id # Missing /\ p.sha # Missing

\* What a job is given as candidates is a list.
ASSUME CandidatesAreLists == \A j \in Jobs : DOMAIN j.candidates \subseteq Nat

CiInit ==
  /\ edits = 0
  /\ dir = [r \in RunIds |-> <<>>]
  /\ job = NoJob
  /\ jobs = 0

EditRepository ==
  /\ edits < MaxEdits
  /\ edits' = edits + 1
  /\ UNCHANGED <<dir, job, jobs>>

\* runCiLane
RunCiLane(j, id, failing) ==
  /\ job.pc = "idle"
  /\ jobs < MaxJobs
  /\ jobs' = jobs + 1
  /\ job' = [pc |-> "ran", report |-> ReportStatus(j, failing),
             provenance |-> Provenance(j, id), artifacts |-> Artifacts(j),
             left |-> DOMAIN Artifacts(j), entries |-> <<>>]
  /\ UNCHANGED <<edits, dir>>

-----------------------------------------------------------------------------
(***************************************************************************)
(* writeCiProposals.                                                       *)
(***************************************************************************)

Final(file) == <<file, "final">>
Tmp(file) == <<file, "tmp">>

\* What is in a file: its content, or only the beginning of it.
Half == [whole |-> FALSE]
Whole(content) == [whole |-> TRUE, content |-> content]

With(f, x, y) == [z \in DOMAIN f \cup {x} |-> IF z = x THEN y ELSE f[z]]
Put(r, name, content) == dir' = [dir EXCEPT ![r] = With(@, name, content)]

\* The artifact whose turn it is.
IsNext(i) == i \in job.left /\ \A k \in job.left : i <= k
Name(i) == NameOf[job.artifacts[i].id]
Done == job.left = {} /\ DOMAIN job.entries = {}

\* Nothing to write, or no artifact that has a name, or the provenance is refused.
Refuse ==
  /\ job.pc = "ran"
  /\ Done \/ ~ValidProvenance(job.provenance)
  /\ job' = NoJob
  /\ UNCHANGED <<edits, dir, jobs>>

\* An id that gives no file name.
SkipPatch ==
  /\ job.pc = "ran" /\ ValidProvenance(job.provenance)
  /\ \E i \in job.left : /\ IsNext(i) /\ Name(i) = Missing
                         /\ job' = [job EXCEPT !.left = @ \ {i}]
  /\ UNCHANGED <<edits, dir, jobs>>

\* Mutant: the file itself is opened.
BeginsInPlace(file) ==
  /\ Put(job.provenance.id, Final(file), Half)
  /\ job' = [job EXCEPT !.pc = "writing"]

\* atomicWrite, first half
Begin(file) ==
  /\ Put(job.provenance.id, Tmp(file), Half)
  /\ job' = [job EXCEPT !.pc = "writing"]

\* atomicWrite, second half: the temporary file is there in full and takes the name.
Rename(file, content) ==
  dir' = [dir EXCEPT ![job.provenance.id] =
            With([f \in DOMAIN @ \ {Tmp(file)} |-> @[f]], Final(file), Whole(content))]

BeginWrite ==
  /\ job.pc = "ran" /\ ValidProvenance(job.provenance)
  /\ \/ \E i \in job.left : IsNext(i) /\ Name(i) # Missing /\ Begin(Patch(Name(i)))
     \/ job.left = {} /\ ~Done /\ Begin(Index)
  /\ UNCHANGED <<edits, jobs>>

\* Two ids may give one name: the later patch replaces the earlier.
WritePatch ==
  /\ job.pc = "writing"
  /\ \E i \in job.left :
       /\ IsNext(i)
       /\ Rename(Patch(Name(i)), job.artifacts[i])
       /\ job' = [job EXCEPT !.pc = "ran", !.left = @ \ {i},
                             !.entries = With(@, i, [id |-> job.artifacts[i].id,
                                                     path |-> job.artifacts[i].path,
                                                     file |-> Name(i)])]
  /\ UNCHANGED <<edits, jobs>>

WriteIndex ==
  /\ job.pc = "writing" /\ job.left = {}
  /\ Rename(Index, [sha |-> job.provenance.sha, flags |-> job.provenance.flags,
                    entries |-> job.entries])
  /\ job' = [job EXCEPT !.pc = "written"]
  /\ UNCHANGED <<edits, jobs>>

JobEnds ==
  /\ job.pc = "written"
  /\ job' = NoJob
  /\ UNCHANGED <<edits, dir, jobs>>

\* The job is killed.
JobDies ==
  /\ job.pc \in {"ran", "writing"}
  /\ job' = NoJob
  /\ UNCHANGED <<edits, dir, jobs>>

CiNext ==
  \/ EditRepository
  \/ \E j \in Jobs, id \in RunIds \cup {Missing}, failing \in BOOLEAN : RunCiLane(j, id, failing)
  \/ Refuse \/ SkipPatch \/ BeginWrite \/ WritePatch \/ WriteIndex \/ JobEnds \/ JobDies

CiSpec == CiInit /\ [][CiNext]_ciVars

-----------------------------------------------------------------------------
(***************************************************************************)
(* Properties.                                                             *)
(***************************************************************************)

\* A file that is there under its own name, and the entries of an index.
Stands(r, file) == Final(file) \in DOMAIN dir[r] /\ dir[r][Final(file)].whole
Content(r, file) == dir[r][Final(file)].content
Entries(r) == Content(r, Index).entries

\* Whatever was killed, and however often a run id was used again: an index that is
\* there is whole, comes from a run that may generate patches, and each patch it
\* lists is there in full.  When a run ends, its index lists its artifacts that have
\* a name, one for one, and a file is the last of them that has its name and not what
\* an earlier run left there.
ProposalsAreWhole ==
  /\ \A r \in RunIds : Final(Index) \in DOMAIN dir[r] =>
       /\ Stands(r, Index)
       /\ "ci_generate_patch_artifact" \in Content(r, Index).flags
       /\ \A i \in DOMAIN Entries(r) : Stands(r, Patch(Entries(r)[i].file))
  /\ job.pc = "written" =>
       LET r == job.provenance.id
           named == {i \in DOMAIN job.artifacts : Name(i) # Missing}
       IN  /\ Stands(r, Index) /\ DOMAIN Entries(r) = named
           /\ \A i \in named :
                /\ Entries(r)[i] = [id |-> job.artifacts[i].id, path |-> job.artifacts[i].path,
                                    file |-> Name(i)]
                /\ (\A k \in named : Name(k) = Name(i) => k <= i) =>
                     Content(r, Patch(Name(i))) = job.artifacts[i]
=============================================================================
