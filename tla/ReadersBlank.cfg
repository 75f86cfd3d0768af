\* One session that fails once: the index is cut to nothing.
CONSTANTS
  Sessions = {s1}
  Requests <- MCRequests
  TaskRecords <- MCTasks
  DirectoryKinds = {"pattern"}
  Norm <- MCNorm
  Lower <- MCLower
  Slug <- MCSlug
  FileOrder <- MCFiles
  NoId = NoRecord
  NoRecord = NoRecord
  None = None
  Unreadable = Unreadable
  Blank = Blank
  Overlap = FALSE
  MaxFaults = 1
  MaxBuilds = 0
SPECIFICATION MCSpec
INVARIANT AuditNeverFabricatesPass
