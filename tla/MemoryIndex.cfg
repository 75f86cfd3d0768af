\* A supersede takes over the title of another pattern.
CONSTANTS
  Sessions = {s1, s2}
  Requests <- MCPatterns
  TaskRecords <- MCTasks
  DirectoryKinds = {"pattern"}
  Norm <- MCNorm
  Slug <- MCSlug
  FileOrder <- MCPatternFiles
  NoId = NoRecord
  NoRecord = NoRecord
  None = None
  Unreadable = Unreadable
  Blank = Blank
  Overlap = FALSE
  MaxFaults = 0
SPECIFICATION Spec
INVARIANT IndexCoversStore
