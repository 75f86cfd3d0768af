\* One session that fails once, or one build beside it.
CONSTANTS
  Sessions = {s1}
  Requests <- MCRequests
  TaskRecords <- MCTasks
  DirectoryKinds = {"pattern"}
  Norm <- MCNorm
  Lower <- MCLower
  Slug <- MCSlug
  FileOrder <- MCFiles
  NoId = NoRecord
  NoRecord = NoRecord
  None = None
  Unreadable = Unreadable
  Blank = Blank
  Overlap = FALSE
  MaxFaults = 1
  MaxBuilds = 1
SPECIFICATION MCSpec
INVARIANTS
  AuditVouches
  CandidatesAgree
  FreshIsCommitted
