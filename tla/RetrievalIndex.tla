--------------------------- MODULE RetrievalIndex ---------------------------
(***************************************************************************)
(* The retrieval index of packages/advanced/retrieval-index, built beside  *)
(* the memory that MemoryWrite writes.  A build lists the files of project *)
(* memory, reads them one by one while sessions go on writing, and puts    *)
(* what it has read in place with a rename; an assessment compares the     *)
(* index with the files as they are.                                       *)
(*                                                                         *)
(* A file is known by its content.  Task memory, sessions and staging are  *)
(* indexed the same way and left out.  One build runs at a time.           *)
(***************************************************************************)
EXTENDS MemoryReaders

CONSTANTS
  MaxBuilds  \* bound: builds that are begun

VARIABLES
  retrieval, \* retrieval-index.json: the content of each document, None, Unreadable
  builder,   \* the build under way
  builds     \* builds begun so far

retrievalVars == <<retrieval, builder, builds>>

MemoryIndexFile == <<"memory-index">>

\* The documents in the order a build reads them.
Documents == FileOrder \o <<MemoryIndexFile>>

Content(d) == IF d = MemoryIndexFile THEN index ELSE store[d]

Contents == Seq(Requests) \cup [Ids -> IndexEntry \cup {None}] \cup NoTable

ASSUME RetrievalAssumption ==
  /\ MemoryIndexFile \notin Files
  /\ None \notin Seq(Contents) /\ Unreadable \notin Seq(Contents)

Absent(d) == d # MemoryIndexFile /\ store[d] = <<>>

NotBuilding == [phase |-> "idle"]

\* listFilesRecursive: the list is made before the first file is read.
BeginBuild ==
  /\ builder.phase = "idle" /\ builds < MaxBuilds
  /\ builder' = [phase |-> "read", seen |-> <<>>,
                 listed |-> {d \in Files \cup {MemoryIndexFile} : ~Absent(d)}]
  /\ builds' = builds + 1
  /\ UNCHANGED retrieval

\* The content of an absent file is that of one without records.
ReadDocument ==
  LET d == Documents[Len(builder.seen) + 1] IN
  /\ builder.phase = "read" /\ Len(builder.seen) < Len(Documents)
  /\ builder' = [builder EXCEPT !.seen =
                   Append(@, IF d \in builder.listed THEN Content(d) ELSE <<>>)]
  /\ UNCHANGED <<retrieval, builds>>

\* The payload goes to retrieval-index.json.tmp, which no one else reads.
WriteTemporary ==
  /\ builder.phase = "read" /\ Len(builder.seen) = Len(Documents)
  /\ builder' = [builder EXCEPT !.phase = "rename"]
  /\ UNCHANGED <<retrieval, builds>>

RenameTemporary ==
  /\ builder.phase = "rename"
  /\ retrieval' = builder.seen
  /\ builder' = NotBuilding
  /\ UNCHANGED builds

\* The process dies; what is in the temporary file does not matter to the next.
CrashInBuild ==
  /\ builder.phase # "idle"
  /\ builder' = NotBuilding
  /\ UNCHANGED <<retrieval, builds>>

\* loadRetrievalIndex: an index that does not parse throws.
Loads == retrieval # Unreadable

\* Slip: only the names of the files are compared.
ComparesNames ==
  IF retrieval = None THEN "missing"
  ELSE IF \A i \in DOMAIN Documents :
            Documents[i] = MemoryIndexFile
            \/ (retrieval[i] = <<>> <=> Absent(Documents[i]))
    THEN "fresh" ELSE "stale"

\* assessIndexStaleness: files that changed, are new or are gone.
Staleness ==
  IF retrieval = None THEN "missing"
  ELSE IF \A i \in DOMAIN Documents : retrieval[i] = Content(Documents[i])
    THEN "fresh" ELSE "stale"

-----------------------------------------------------------------------------
RetrievalInit ==
  Init /\ retrieval = None /\ builder = NotBuilding /\ builds = 0

RetrievalNext ==
  \/ Next /\ UNCHANGED retrievalVars
  \/ /\ BeginBuild \/ ReadDocument \/ WriteTemporary \/ RenameTemporary \/ CrashInBuild
     /\ UNCHANGED vars

RetrievalSpec == RetrievalInit /\ [][RetrievalNext]_<<vars, retrievalVars>>

-----------------------------------------------------------------------------
(***************************************************************************)
(* Properties.                                                             *)
(***************************************************************************)

\* Wherever a build dies, the index in place parses, and one that is called fresh,
\* though it was read file by file while sessions wrote, never holds a record the
\* audit log knows nothing of, nor misses one that was committed.
FreshIsCommitted ==
  /\ Loads
  /\ faults = 0 /\ NoneApplying /\ Staleness = "fresh" =>
       LET held(i) == {retrieval[i][j] : j \in DOMAIN retrieval[i]}
           all == UNION {held(i) : i \in 1 .. Len(Documents) - 1}
       IN all \subseteq audit.success /\ Live \subseteq all
=============================================================================
