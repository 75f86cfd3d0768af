----------------------------- MODULE MCReaders -----------------------------
(***************************************************************************)
(* One session writes what readers and builds read: a supersede that names *)
(* one pattern and takes the place of another, two scopes, and a task with *)
(* a title that differs in its blanks only.                                *)
(***************************************************************************)
EXTENDS RetrievalIndex

CONSTANT NoRecord

Request(kind, title, scope, statement, action, supersedes) ==
  [kind |-> kind, title |-> title, scope |-> scope, statement |-> statement,
   action |-> action, supersedes |-> supersedes]

Pattern(title, scope, statement) ==
  Request("pattern", title, scope, statement, "append", NoRecord)

MCRequests ==
  {Pattern("a b", "whole", "yes"),
   Pattern("c", "whole", "yes"),
   Request("pattern", "a b", "part", "no", "supersede", <<"pattern", "c">>)}

MCTasks == {Pattern("a  b", "whole", "no")}
MCTitles == {"a b", "a  b", "c"}
MCNorm == [t \in MCTitles |-> IF t = "c" THEN "c" ELSE "a b"]
MCLower == [t \in MCTitles |-> t]
MCSlug == [t \in MCTitles |-> IF t = "c" THEN "c" ELSE "a-b"]
MCFiles == <<<<"pattern", "a-b">>, <<"pattern", "c">>>>

\* Bound: a behaviour has a failure of the session or a build, not both.
MCNext == RetrievalNext /\ faults' + builds' <= 1

MCSpec == RetrievalInit /\ [][MCNext]_<<vars, retrievalVars>>
=============================================================================
