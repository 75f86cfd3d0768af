\* Three commands, three days, one crash.
CONSTANTS
  LastSession = 3
  MaxDays = 1
  MaxSessions = 1
  CommandsOf <- MCCommands
  StartEvents <- MCStart
  FinishEvents <- MCFinish
  Missing = Missing
  Torn = Torn
  LastDay = 3
  Overlapping = {2, 3}
  MaxFaults = 1
SPECIFICATION MCSpec
INVARIANTS
  TypeOK
  IndexMatchesEvents
  NoLostEventFile
  ReportNamesFailure
  BundleWasScanned
PROPERTIES
  PruneKeepsRecent
  PruneIsThorough
CHECK_DEADLOCK FALSE
