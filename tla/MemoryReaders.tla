--------------------------- MODULE MemoryReaders ---------------------------
(***************************************************************************)
(* What reads the memory that MemoryWrite writes: the read authority of    *)
(* spec-core, which settles for every workflow which layer speaks about a  *)
(* claim, and the two reports of the memory engine that stand on it, the   *)
(* audit and the candidate report.  They write nothing, so they are        *)
(* functions of the state; a report is made at one moment.  An index file  *)
(* that holds nothing is one without entries to them, not one that is lost.*)
(*                                                                         *)
(* Files are never removed: a file the index names exists.  Charter and    *)
(* stack profile, records the schema refuses, evidence, the audit's focus  *)
(* and how a report is worded are left out.  Task memory and session files *)
(* are one layer, as in MemoryWrite.                                       *)
(***************************************************************************)
EXTENDS MemoryWrite, FiniteSets

CONSTANTS
  Lower  \* Lower[t]: the title t in lower case, its blanks as they are

ASSUME LowerAssumption ==
  \A t, u \in DOMAIN Norm : Lower[t] = Lower[u] => Norm[t] = Norm[u]

-----------------------------------------------------------------------------
(***************************************************************************)
(* Read authority.                                                         *)
(***************************************************************************)

\* READ_WORKFLOW_PROFILES: a workflow reads what the index lists, or the root
\* files it names, and below them the supporting layers it names.
Indexed(layers) == [mode |-> "index", kinds |-> {}, supporting |-> layers]
Explicit(kinds, layers) == [mode |-> "explicit", kinds |-> kinds, supporting |-> layers]

Profiles ==
  [generic   |-> Indexed(<<>>),
   review    |-> Indexed(<<"task-memory">>),
   plan      |-> Explicit({"constraint"}, <<"task-memory">>),
   suggest   |-> Explicit({"command", "constraint"}, <<>>),
   candidate |-> Indexed(<<"task-memory", "staging">>),
   audit     |-> Indexed(<<"task-memory">>)]

IndexReaders == {p \in DOMAIN Profiles : Profiles[p].mode = "index"}

\* loadProjectMemoryIndex keeps the active entries; a blank index has none.
ActiveFiles ==
  {Entry(i).file : i \in {j \in Ids : Entry(j) # None /\ Entry(j).status = "active"}}

\* Without an index that parses, every file there is is scanned.
ResolvedFiles(p) ==
  CASE Profiles[p].mode = "explicit" -> Files \cap {<<k>> : k \in Profiles[p].kinds}
    [] Profiles[p].mode = "index" /\ index # Unreadable -> ActiveFiles
    [] OTHER -> Files

\* A warning of the global layer: the index was of no use.
FellBack(p) == Profiles[p].mode = "index" /\ index = Unreadable

ClaimKey(r) == <<r.kind, Lower[r.title], r.scope>>

Claim(layer, file, r) == [layer |-> layer, file |-> file, record |-> r]

\* extractLayerClaimRecords: all records of a file count, listed or not.
GlobalClaims(p) ==
  UNION {{Claim("global-project-memory", f, r) : r \in Records(f)} : f \in ResolvedFiles(p)}

Staged == {r \in Requests : staging[r] \notin {None, Unreadable}}

SupportingClaims(p) ==
  LET layers == {Profiles[p].supporting[i] : i \in DOMAIN Profiles[p].supporting} IN
  {c \in {Claim("task-memory", None, r) : r \in TaskRecords}
         \cup {Claim("staging", None, r) : r \in Staged} : c.layer \in layers}

Claims(p) == GlobalClaims(p) \cup SupportingClaims(p)

LayerPrecedence == <<"global-project-memory", "task-memory", "staging">>
Rank(c) == CHOOSE i \in DOMAIN LayerPrecedence : LayerPrecedence[i] = c.layer

\* The claims of one key that come first: what is selected is one of them.  Files
\* of one layer are ordered by name, which no property depends on.
Foremost(p, key) ==
  LET about == {c \in Claims(p) : ClaimKey(c.record) = key} IN
  {c \in about : \A d \in about : Rank(c) <= Rank(d)}

\* Two claims of one key that say different things.
ClaimConflicts(p) ==
  {c \in Claims(p) : \E s \in Foremost(p, ClaimKey(c.record)) :
     s.record.statement # c.record.statement}

-----------------------------------------------------------------------------
(***************************************************************************)
(* buildMemoryAuditReport.                                                 *)
(***************************************************************************)

DuplicateFindings ==
  LET places == UNION {{f} \X DOMAIN store[f] : f \in Files}
      at(x) == store[x[1]][x[2]]
  IN  {x \in places : \E y \in places \ {x} :
         SameClaim(at(x), at(y)) /\ at(x).statement = at(y).statement}

\* validateProjectMemoryIndex: an entry of any status covers its record.
Covers(r, f) == Entry(Id(r)) # None /\ Entry(Id(r)).file = f

\* Slip: an entry covers the record wherever it is.
CoversById ==
  IF index \in NoTable THEN {}
  ELSE {f \in Files : \E r \in Records(f) : Entry(Id(r)) = None}

\* buildIndexFindings looks for gaps in a table only: a blank index has none.
IndexGaps ==
  IF index \in NoTable THEN {}
  ELSE {f \in Files : \E r \in Records(f) : ~Covers(r, f)}

\* An index cut short may also lack fields of its own, which is schema drift, too: the
\* findings here are the least an audit has.
AuditFindings ==
  (IF ClaimConflicts("audit") # {} THEN {"conflict"} ELSE {})
  \cup (IF DuplicateFindings # {} THEN {"duplicate"} ELSE {})
  \cup (IF index = Unreadable THEN {"schema-drift"} ELSE {})
  \cup (IF IndexGaps # {} THEN {"index-gap"} ELSE {})

\* applyScopeAndFocus.
ScopeAllows(scope) ==
  CASE scope = "index-only" -> {"schema-drift", "index-gap"}
    [] scope = "project-memory-only" -> {"duplicate", "schema-drift", "index-gap"}
    [] OTHER -> {"conflict", "duplicate", "schema-drift", "index-gap"}

AuditReport(scope) == AuditFindings \cap ScopeAllows(scope)

AuditNextAction(scope) ==
  CASE AuditReport(scope) \cap {"conflict", "duplicate"} # {} -> "USE_PAIRSLASH_MEMORY_WRITE_GLOBAL"
    [] AuditReport(scope) # {} -> "FIX_INDEX_AND_RERUN"
    [] OTHER -> "KEEP_AS_REPORT"

-----------------------------------------------------------------------------
(***************************************************************************)
(* buildMemoryCandidateReport.                                             *)
(***************************************************************************)

\* collectLayerRecords and findGlobalMatch: the first global record of the claim,
\* whose blanks are collapsed here.
GlobalMatches(r) ==
  {c.record : c \in {d \in GlobalClaims("candidate") : SameClaim(d.record, r)}}

\* Slip: any record of the kind and title is a match.
MatchesOtherScopes(r) ==
  IF \E q \in Live : q.kind = r.kind /\ SameTitle(q, r) /\ q.statement = r.statement
    THEN "duplicate-existing"
  ELSE IF GlobalMatches(r) # {} THEN "needs-supersede-review"
  ELSE "keep-as-candidate"

\* classifyCandidate, for a candidate with evidence.
Classification(r) ==
  IF \E q \in GlobalMatches(r) : q.statement = r.statement THEN "duplicate-existing"
  ELSE IF GlobalMatches(r) # {} THEN "needs-supersede-review"
  ELSE "keep-as-candidate"

\* The report fails when no file of project memory is resolved: with the root
\* files of every repository that does not happen.
CandidateRecords == {c.record : c \in SupportingClaims("candidate")}

CandidateNextAction ==
  CASE CandidateRecords = {} -> "candidate-context-insufficient"
    [] \E r \in CandidateRecords :
         Classification(r) \in {"keep-as-candidate", "needs-supersede-review"}
         -> "USE_PAIRSLASH_MEMORY_WRITE_GLOBAL"
    [] OTHER -> "KEEP_IN_TASK_MEMORY"

-----------------------------------------------------------------------------
(***************************************************************************)
(* Properties.                                                             *)
(***************************************************************************)

Sees(p, q) ==
  LET said == Foremost(p, ClaimKey(q)) IN
  /\ said # {}
  /\ \A c \in said : /\ c.layer = "global-project-memory"
                      /\ c.record.statement = q.statement

\* The entry a supersede named, also when it took the place of another record.
Marked(q) == Entry(Id(q)) # None /\ Entry(Id(q)).status = "superseded"

VouchedFor == \A q \in Live, p \in IndexReaders : Sees(p, q) \/ Marked(q)

\* An audit that finds nothing vouches for what the workflows read, unless the index is
\* blank.  Each is told what project memory says of a claim, never what a task or a
\* staged request says, whatever else was cut short or lost from the index; all that may
\* be hidden from those that go by the index is a record whose entry a supersede has
\* marked, and not replaced.
AuditVouches ==
  NoneApplying /\ index # Blank /\ AuditReport("full") = {} => VouchedFor

\* The candidate report and the write pipeline look for matches in two pieces of
\* code.  After an audit without findings, of an index that is not blank, they agree,
\* but for records hidden by a supersede: what one calls a duplicate or sends to a review
\* the other refuses, and neither misses what the other sees.
CandidatesAgree ==
  NoneApplying /\ index # Blank /\ AuditReport("index-only") = {} =>
    \A r \in CandidateRecords :
      (\A q \in Live : SameClaim(q, r) => ~Marked(q)) =>
        /\ Classification(r) = "duplicate-existing" <=> Duplicates(r) # {}
        /\ Classification(r) = "needs-supersede-review" => Conflicts(r) # {}

-----------------------------------------------------------------------------
(***************************************************************************)
(* What the documentation says and the code does not do.                   *)
(***************************************************************************)

\* packs/core/pairslash-memory-audit/contract.md: "Schema uncertainty -> emit schema-drift
\* finding; do not fabricate pass."  An index a crash has left empty passes, and hides
\* every record from the workflows that go by it.
AuditNeverFabricatesPass ==
  NoneApplying /\ AuditReport("full") = {} => VouchedFor
=============================================================================
