\* A release drops a document the user has overridden.
CONSTANTS
  Core = Core
  Addon = Addon
  Paths <- MCPaths
  Packs = {Core, Addon}
  PackOf <- MCPackOf
  OwnershipFiles = {"own"}
  OverrideEligible = {"doc"}
  PairslashAssets = {"own", "doc", "ref", "addon"}
  Releases = {1, 2}
  Ships <- MCShipsWithoutDoc
  PackContent = {"v1", "v2"}
  UserContent = {"mine"}
  Absent = Absent
  Opaque = Opaque
  Torn = Torn
  Untracked = Untracked
  Missing = Missing
  Corrupt = Corrupt
  EditPhases = {"idle"}
  MaxEdits = 2
  MaxFaults = 0
SPECIFICATION Spec
PROPERTY PreservedStaysTracked
