\* One user and one command at a time; files change only between commands.
CONSTANTS
  Core = Core
  Addon = Addon
  Paths <- MCPaths
  Packs = {Core, Addon}
  PackOf <- MCPackOf
  OwnershipFiles = {"own"}
  OverrideEligible = {"doc"}
  PairslashAssets = {"own", "doc", "ref", "addon"}
  Releases = {1, 2}
  Ships <- MCShips
  PackContent = {"v1", "v2"}
  UserContent = {"mine"}
  Absent = Absent
  Opaque = Opaque
  Torn = Torn
  Untracked = Untracked
  Missing = Missing
  Corrupt = Corrupt
  EditPhases = {"idle"}
  MaxEdits = 2
  MaxFaults = 1
SPECIFICATION Spec
INVARIANTS
  TouchesOnlyOwnedUnchanged
  ReceiptVouchesForNoEdit
  IInv
  DoctorForetells
PROPERTIES
  NonOverrideEditsSurvive
  RollbackRestores
  UninstallDetachesExactly
  ImplementsLedger
  InterruptionShows
