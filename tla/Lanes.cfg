\* Each lane on its own instance, see MCLanes; a lane of the CI ends with its last job.
SPECIFICATION Spec
CHECK_DEADLOCK FALSE
CONSTANTS
  Missing = Missing
  Torn = Torn
  Unparsed = Unparsed
  \* Runtime
  Manifests <- MCManifests
  Surfaces = {"canonical_skill", "hook"}
  Asked = {{}, {"memory_write_global"}}
  MaxFacts = 4
  \* Delegation
  Capabilities <- MCCaps
  Canonical <- MCCaps
  HighRiskNames <- MCHighRisk
  Paths <- MCPaths
  Within <- MCWithin
  CallerPacks = {"backend", "plan"}
  Grants <- MCGrants
  Callers <- MCCallers
  MaxReasons = 1
  \* CI
  RunIds = {"run1", "run2"}
  Jobs <- MCJobs
  Outside = {"../a"}
  NameOf <- MCNames
  MaxEdits = 1
  MaxJobs = 3
  \* Release
  Packs <- MCPacks
  FollowedPack = "p"
  Sources <- MCSources
  Keys = {"key"}
  Unsigned = Unsigned
  Publishers <- MCPublishers
  Strangers = {}
  Authority <- MCAuthority
  HighRisk <- MCHighRisk
  Legacy <- MCLegacy
  MaxReleases = 2
  \* Truth
  Lanes = {"mac", "win"}
  RuntimeOf <- MCRuntimeOf
  Promoted = {"mac"}
  Pack = "p"
  Inputs <- MCInputs
  Present = {"doc"}
  Minutes <- MCMinutes
  MaxDays = 1
  MaxFaults = 1
  \* Doctor
  Order <- MCOrder
  Sound <- MCSound
  Alternatives <- MCAlternatives
  MaxAmiss = 3
  \* Manifest
  Starts <- MCStarts
  DiskEdits <- MCDiskEdits
  MemoryEdits <- MCMemoryEdits
  Assets <- MCAssets
  MaxTouches = 3
INVARIANTS
  AppliesOnlyConfirmed
  DelegationNeverWidens
  ProposalsAreWhole
  PartialNeverVerifies
  VerifiedWasReleased
  AuthorityIsGranted
  UpdatesKeepTrust
  SnapshotSurvives
  MaturityFollowsRecords
  ReportCoheres
PROPERTIES
  RiskNeverOpens
  ManifestKeepsItsMeaning
