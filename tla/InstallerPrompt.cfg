\* Files also change while the prompt waits; steps fail on what they then find.
CONSTANTS
  Core = Core
  Addon = Addon
  Paths <- MCPaths
  Packs = {Core, Addon}
  PackOf <- MCPackOf
  OwnershipFiles = {"own"}
  OverrideEligible = {"doc"}
  PairslashAssets = {"own", "doc", "ref", "addon"}
  Releases = {1, 2}
  Ships <- MCShips
  PackContent = {"v1", "v2"}
  UserContent = {"mine"}
  Absent = Absent
  Opaque = Opaque
  Torn = Torn
  Untracked = Untracked
  Missing = Missing
  Corrupt = Corrupt
  EditPhases = {"idle", "confirm"}
  MaxEdits = 2
  MaxFaults = 0
SPECIFICATION FairSpec
INVARIANT TypeOK
PROPERTIES
  RollbackRestoresBackups
  CommittedReceiptIsTrue
  ConfirmedCommandEnds
