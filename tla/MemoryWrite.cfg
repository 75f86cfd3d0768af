\* Two sessions, one failure: prompts interleave, applies do not.
CONSTANTS
  Sessions = {s1, s2}
  Requests <- MCRequests
  TaskRecords <- MCTasks
  DirectoryKinds = {"pattern"}
  Norm <- MCNorm
  Slug <- MCSlug
  FileOrder <- MCConstraintFiles
  NoId = NoRecord
  NoRecord = NoRecord
  None = None
  Unreadable = Unreadable
  Blank = Blank
  Overlap = FALSE
  MaxFaults = 1
SYMMETRY Interchangeable
SPECIFICATION Spec
INVARIANTS
  TypeOK
  NoContradiction
  TrailIsComplete
PROPERTIES
  CommitIsComplete
  ImplementsAuthority
