--------------------------- MODULE MCMemoryWrite ---------------------------
(***************************************************************************)
(* Small sets of requests about two titles: constraints share one file,    *)
(* patterns have a file each.                                              *)
(***************************************************************************)
EXTENDS MemoryWrite, TLC

CONSTANT NoRecord

Request(kind, title, scope, statement, action, supersedes) ==
  [kind |-> kind, title |-> title, scope |-> scope, statement |-> statement,
   action |-> action, supersedes |-> supersedes]

Constraint(title, scope, statement) ==
  Request("constraint", title, scope, statement, "append", NoRecord)

\* Two that contradict each other, the second only if a candidate does not agree
\* with it; a supersede that renames and narrows the scope; and one that turns the
\* record into a pattern.
MCRequests ==
  {Constraint("T1", "whole", "yes"),
   Request("constraint", "T1", "whole", "no", "reject-candidate-if-conflict", NoRecord),
   Request("constraint", "T2", "part", "no", "supersede", <<"constraint", "T1">>),
   Request("pattern", "T1", "whole", "yes", "supersede", <<"constraint", "T1">>)}

Pattern(title, scope, statement) ==
  Request("pattern", title, scope, statement, "append", NoRecord)

\* One pattern, the same for another scope, and a second one that a supersede of
\* the first takes the title of.
MCPatterns ==
  {Pattern("T1", "whole", "yes"),
   Pattern("T1", "part", "yes"),
   Pattern("T2", "whole", "yes"),
   Request("pattern", "T2", "part", "no", "supersede", <<"pattern", "T1">>)}

Interchangeable == Permutations(Sessions)

MCTasks == {}
MCNorm == [t \in {"T1", "T2"} |-> t]
MCSlug == [t \in {"T1", "T2"} |-> t]
MCConstraintFiles == <<<<"constraint">>, <<"pattern", "T1">>>>
MCPatternFiles == <<<<"pattern", "T1">>, <<"pattern", "T2">>>>
=============================================================================
