---------------------------- MODULE DoctorReport ----------------------------
(***************************************************************************)
(* The report of `pairslash doctor': its checks of the host, the manifests *)
(* and the receipts (packages/tools/doctor), and what it draws from them   *)
(* for the user, who is told what blocks an install and which command to   *)
(* run next.  The checks of the files on disk are in Doctor; here they are *)
(* one status of the host.                                                 *)
(*                                                                         *)
(* Doctor writes nothing.  A behaviour changes the host, one thing at a    *)
(* time, and the report is a function of the host.                         *)
(***************************************************************************)
EXTENDS Integers, FiniteSets, Sentinels

CONSTANTS
  Order,         \* the place of a pack id in the order of names
  Sound,         \* the hosts a behaviour starts from
  Alternatives,  \* for each field of a host, what it may change to
  MaxAmiss       \* bound: changes of the host

VARIABLES
  host,  \* what doctor looks at
  amiss  \* number of changes

hostVars == <<host, amiss>>

SupportedRuntimes == {"codex_cli", "copilot_cli"}
Systems == {"win32", "linux", "darwin"}
Shells == {"powershell", "pwsh", "cmd", "bash", "zsh", "sh"}
Phases == {"doctor", "install", "run", "update"}

-----------------------------------------------------------------------------
(***************************************************************************)
(* Which runtime is asked about, and the lane that is published for it.    *)
(***************************************************************************)

Only(S) == IF Cardinality(S) = 1 THEN CHOOSE r \in S : TRUE ELSE Missing
Available(h) == {r \in SupportedRuntimes : h.detected[r] # Missing}

\* A runtime with a receipt file goes before one that is detected; where both
\* runtimes have one doctor refuses to choose, and reports nothing.
ResolveDoctorRuntime(h) ==
  IF h.asked # "auto" THEN h.asked
  ELSE IF h.states # {} THEN Only(h.states)
  ELSE Only(Available(h))

Runtime(h) == ResolveDoctorRuntime(h)
Version(h) == h.detected[Runtime(h)]
IsDetected(h) == Version(h) # Missing

\* A version that does not parse only satisfies the range of every version.
SatisfiesRuntimeRange(version, range) ==
  IF version = Unparsed THEN range.least /\ range.version = 0
  ELSE IF range.least THEN version >= range.version
  ELSE version = range.version

\* publicSupportLevelToDoctorLaneStatus
LaneStatus(level) ==
  CASE level = "prep"                        -> "prep"
    [] level \in {"blocked", "known-broken"} -> "unsupported"
    [] OTHER                                 -> "supported"

TestedRange(lane, h) ==
  CASE lane.tested = Missing -> IF lane.level = "prep" THEN "prep_lane" ELSE "unrecorded"
    [] lane.tested # Missing /\ Version(h) \in {Missing, Unparsed} -> "unrecorded"
    [] OTHER -> IF SatisfiesRuntimeRange(Version(h), lane.tested)
                THEN "recorded" ELSE "outside_recorded"

ResolveSupportLane(h) ==
  LET lane == IF h.os \in Systems THEN h.lanes[Runtime(h)] ELSE Missing
  IN  IF lane # Missing
      THEN [status |-> LaneStatus(lane.level), range |-> TestedRange(lane, h),
            tested |-> lane.tested,
            blocks |-> lane.level \in {"blocked", "known-broken"}]
      ELSE [status |-> IF h.os \in Systems THEN "unverified" ELSE "unsupported",
            range |-> IF h.os \in Systems THEN "unrecorded" ELSE "unsupported",
            tested |-> Missing, blocks |-> h.os \notin Systems]

-----------------------------------------------------------------------------
(***************************************************************************)
(* The packs: what is requested, selected and installed.                   *)
(***************************************************************************)

\* Packs of the core: manifests of addons are not discovered.
Found(h) == DOMAIN h.packs
AskedAbout(h) == IF h.requested = {} THEN Found(h) ELSE h.requested \cap Found(h)
Selected(h) == {p \in AskedAbout(h) : h.packs[p].valid}
Invalid(h) == AskedAbout(h) \ Selected(h)
MissingRequested(h) == h.requested \ Found(h)
Installed(h) == DOMAIN h.installed

\* What the catalog says of a pack it may not know.
MaturityOf(h, p) ==
  IF p \in Found(h) THEN h.packs[p].maturity
  ELSE [assigned |-> 0, effective |-> 0, blocked |-> FALSE, legal |-> TRUE, default |-> FALSE]

\* compareRecommendationPriority
Precedes(h, p, q) ==
  LET a == MaturityOf(h, p)
      b == MaturityOf(h, q)
  IN  IF a.effective # b.effective THEN a.effective > b.effective
      ELSE IF a.blocked # b.blocked THEN b.blocked
      ELSE IF a.default # b.default THEN a.default
      ELSE IF a.assigned # b.assigned THEN a.assigned > b.assigned
      ELSE Order[p] < Order[q]

Foremost(h, S) ==
  IF S = {} THEN Missing ELSE CHOOSE p \in S : \A q \in S \ {p} : Precedes(h, p, q)

\* selectDefaultCatalogPack, of the packs the catalog may recommend by default.
SelectDefaultCatalogPack(h) ==
  Foremost(h, {p \in Found(h) : h.packs[p].valid /\ MaturityOf(h, p).effective >= 0
                                 /\ MaturityOf(h, p).assigned >= 0})

PreferredPackId(h) ==
  IF Selected(h) # {} THEN Foremost(h, Selected(h))
  ELSE IF Installed(h) # {} THEN Foremost(h, Installed(h))
  ELSE SelectDefaultCatalogPack(h)

-----------------------------------------------------------------------------
(***************************************************************************)
(* The checks.  Each has a status; most that fail block an install.        *)
(***************************************************************************)

Says(status) == [status |-> status, blocks |-> FALSE]
Blocks(status) == [status |-> status, blocks |-> TRUE]

\* These inform: whatever they find of runtimes, daemon and hooks, the status is the same.
RunRuntimePresenceMatrix(h) == Says("pass")
RunHooksState(h) == Says("pass")
RunCodexDaemonState(h) == Says(IF Runtime(h) = "codex_cli" THEN "pass" ELSE "skip")

RunRuntimeDetect(h) == IF IsDetected(h) THEN Says("pass") ELSE Blocks("fail")

OutOfRange(h) ==
  {p \in Selected(h) : ~SatisfiesRuntimeRange(Version(h), h.packs[p].ranges[Runtime(h)])}

RunRuntimeVersionRange(h) ==
  IF ~IsDetected(h) THEN Says("skip")
  ELSE IF OutOfRange(h) = {} THEN Says("pass")
  ELSE IF Version(h) = Unparsed THEN Says("warn")
  ELSE Blocks("fail")

RunRuntimeTestedRange(h) ==
  LET lane == ResolveSupportLane(h)
  IN  IF ~IsDetected(h) THEN Says("skip")
      ELSE IF lane.status = "unsupported" \/ lane.range \in {"unsupported", "prep_lane"}
           THEN Says("skip")
      ELSE IF lane.tested = Missing THEN Says("warn")
      ELSE Says(IF lane.range = "recorded" THEN "pass" ELSE "degraded")

RunSupportLane(h) ==
  LET lane == ResolveSupportLane(h)
  IN  [status |-> CASE lane.status = "supported"  -> "pass"
                    [] lane.status = "unverified" -> "warn"
                    [] lane.status = "prep"       -> "degraded"
                    [] OTHER                      -> "unsupported",
       blocks |-> lane.blocks]

RunPlatformSupport(h) ==
  IF h.os \notin Systems THEN Says("skip")
  ELSE Says(IF h.shell \in Shells THEN "pass" ELSE "warn")

\* The files a shell reads when it starts: none is known for some shells.
ProfileCandidates(h) == IF h.shell \in Shells \ {"cmd"} THEN h.profiles ELSE {}

RunShellProfileCandidates(h) ==
  IF h.shell = "cmd" THEN Says("pass")
  ELSE IF "directory" \in ProfileCandidates(h) \/ ProfileCandidates(h) = {} THEN Says("warn")
  ELSE Says("pass")

RunScopeRepoRoot(h) ==
  IF /\ h.target = "repo"
     /\ ~h.markers \/ (h.requested # {} /\ Found(h) = {})
  THEN Blocks("fail") ELSE Says("pass")

\* A directory that is missing is made by the install, a file in its place is not.
DirectoryCheck(kind) ==
  CASE kind = "absent" -> Says("warn")
    [] kind = "file"   -> Blocks("fail")
    [] OTHER           -> Says("pass")

RunConfigHomeCheck(h) == DirectoryCheck(h.configHome)

\* A plugin has no place of its own in the user's scope.
HasInstallRoot(h) == h.emit = "skill" \/ h.target = "repo"

RunInstallRootCheck(h) ==
  IF HasInstallRoot(h) THEN DirectoryCheck(h.installRoot) ELSE Blocks("unsupported")

Needed(h) == {"config", "state"} \cup IF HasInstallRoot(h) THEN {"root"} ELSE {}

\* Slip: the receipt is not among what is written.
NeedsNoReceipt(h) ==
  IF Needed(h) \cap (h.locked \ {"state"}) # {} THEN Blocks("fail") ELSE Says("pass")

RunWritePermissionCheck(h) ==
  IF Needed(h) \cap h.locked # {} THEN Blocks("fail") ELSE Says("pass")

RunManifestValidation(h) ==
  IF Invalid(h) # {} \/ MissingRequested(h) # {} THEN Blocks("fail")
  ELSE IF Found(h) = {} \/ \E p \in Selected(h) : h.packs[p].legacy THEN Says("warn")
  ELSE Says("pass")

RunManifestRuntimeTargets(h) ==
  IF Selected(h) = {} THEN Says("skip")
  ELSE IF \E p \in Selected(h) : \/ Runtime(h) \notin h.packs[p].runtimes
                                 \/ h.target \notin h.packs[p].targets
  THEN Blocks("fail") ELSE Says("pass")

\* Install directories are named after the pack ids, which differ.
RunManifestNamingConflicts(h) ==
  IF Selected(h) = {} THEN Says("skip")
  ELSE IF \E p, q \in Selected(h) :
            p # q /\ h.packs[p].invocation = h.packs[q].invocation
                  /\ h.packs[p].invocation # Missing
  THEN Blocks("fail") ELSE Says("pass")

Demoted(h) == {p \in Selected(h) : MaturityOf(h, p).assigned > MaturityOf(h, p).effective}

\* Labels that claim too much fail the check, and block nothing.
RunWorkflowMaturityAlignment(h) ==
  IF (\E p \in Selected(h) : ~MaturityOf(h, p).legal) \/ Demoted(h) # {} THEN Says("fail")
  ELSE IF \E p \in Selected(h) : MaturityOf(h, p).blocked THEN Says("degraded")
  ELSE Says("pass")

\* The tools whose check fails, each with the phases it is required for.
RunRequiredTools(h) ==
  LET lacking == {t \in Selected(h) \X SUBSET Phases :
                    t[2] \in h.packs[t[1]].lacking /\ t[2] \cap {"doctor", "install", "run"} # {}}
  IN  IF \E t \in lacking : t[2] \cap {"doctor", "install"} # {} \/ t[1] \in Installed(h)
      THEN Blocks("fail")
      ELSE Says(IF lacking = {} THEN "pass" ELSE "warn")

RunSharedSkillRootSupport(h) ==
  IF /\ h.emit = "skill" /\ h.shared
     /\ \/ Version(h) \in {Missing, Unparsed}
        \/ ~SatisfiesRuntimeRange(Version(h), h.floor)
  THEN Says("warn") ELSE Says("pass")

RunRequiredMcpServers(h) ==
  LET serving == {p \in Selected(h) : h.packs[p].servers # {}}
  IN  IF \E p \in serving \cap Installed(h) : p \notin h.mcpFiles THEN Blocks("fail")
      ELSE IF serving \subseteq Installed(h) /\ \A p \in serving : "legacy" \notin h.packs[p].servers
      THEN Says("pass") ELSE Says("warn")

LegacyReceipt == [class |-> "local-source", status |-> "legacy", action |-> "allow",
                  tier |-> "local-dev", level |-> "local-dev", blocking |-> FALSE]
NormalizePackTrustReceipt(receipt) == IF receipt = Missing THEN LegacyReceipt ELSE receipt

Distrusted(receipt) ==
  receipt.action = "deny" \/ receipt.class = "external-unverified" \/ receipt.blocking
NeedsReview(receipt) ==
  \/ receipt.status = "legacy" \/ receipt.action = "ask"
  \/ receipt.tier \in {"local-dev", "verified-external", "first-party-official"}
  \/ receipt.level \in {"official-preview", "publisher-verified"}

RunInstalledTrustPosture(h) ==
  LET receipts == {NormalizePackTrustReceipt(h.installed[p]) : p \in Installed(h)}
  IN  IF \E r \in receipts : Distrusted(r) THEN Blocks("fail")
      ELSE Says(IF \E r \in receipts : NeedsReview(r) THEN "warn" ELSE "pass")

\* Files of a receipt that this runtime would not look for where they are.
RunAssetPlacement(h) ==
  IF h.misplaced \cap Installed(h) # {} THEN Blocks("fail") ELSE Says("pass")

\* The checks of Doctor.
FileStatus(h) == [status |-> h.files, blocks |-> h.files = "fail"]

Checks(h) ==
  {RunRuntimePresenceMatrix(h), RunCodexDaemonState(h), RunHooksState(h),
   RunRuntimeDetect(h), RunRuntimeVersionRange(h), RunRuntimeTestedRange(h),
   RunSupportLane(h), RunPlatformSupport(h), RunShellProfileCandidates(h), RunScopeRepoRoot(h),
   RunConfigHomeCheck(h), RunInstallRootCheck(h), RunWritePermissionCheck(h),
   RunManifestValidation(h), RunManifestRuntimeTargets(h), RunManifestNamingConflicts(h),
   RunWorkflowMaturityAlignment(h), RunRequiredTools(h), RunSharedSkillRootSupport(h),
   RunRequiredMcpServers(h), RunInstalledTrustPosture(h), RunAssetPlacement(h), FileStatus(h)}

-----------------------------------------------------------------------------
(***************************************************************************)
(* The report.                                                             *)
(***************************************************************************)

\* The directories of the target that was asked for, judged a second time for the
\* summary of scopes.  The other target is only ever warned of, and left out here.
BuildScopeProbe(h) ==
  LET issues ==
        {i \in {"plugin_scope", "config_home", "install_root", "write_permission"} :
           CASE i = "plugin_scope"  -> ~HasInstallRoot(h)
             [] i = "config_home"   -> h.configHome = "file"
             [] i = "install_root"  -> HasInstallRoot(h) /\ h.installRoot = "file"
             [] OTHER               -> Needed(h) \cap h.locked # {}}
  IN  [verdict |-> IF "plugin_scope" \in issues THEN "unsupported"
                   ELSE IF issues # {} THEN "fail" ELSE "pass",
       blocks |-> issues # {}]

IssueStatuses == {"warn", "degraded", "fail", "unsupported"}
Issues(h) == {c \in Checks(h) : c.status \in IssueStatuses}
InstallBlocked(h) == \E c \in Issues(h) : c.blocks

AggregateVerdict(h) ==
  LET statuses == {c.status : c \in Checks(h)}
  IN  CASE "unsupported" \in statuses                                   -> "unsupported"
        [] "unsupported" \notin statuses /\ "fail" \in statuses          -> "fail"
        [] statuses \cap {"unsupported", "fail"} = {}
             /\ "degraded" \in statuses                                 -> "degraded"
        [] statuses \cap {"unsupported", "fail", "degraded"} = {}
             /\ "warn" \in statuses                                     -> "warn"
        [] OTHER                                                       -> "pass"

\* remediationDecisionForReasonCodes, of the codes the file checks gave.
RemediationDecision(codes) ==
  IF codes \cap {"unmanaged-conflict", "ownership-conflict"} # {} THEN "abort"
  ELSE IF codes \cap {"reconcile-identical", "reconcile-override", "managed-override",
                      "managed-orphan-override", "preserve-unmanaged"} # {} THEN "reconcile"
  ELSE "repair"

BuildDoctorRemediation(h) ==
  [status |-> IF InstallBlocked(h) THEN "blocked"
              ELSE IF h.codes # {} \/ Issues(h) # {} THEN "advisory" ELSE "none",
   decisions |-> {RemediationDecision({c}) : c \in h.codes}]

\* Commands, the fixes of the issues, or that nothing is to be done.
BuildNextActions(h) ==
  IF h.codes # {} THEN "commands" ELSE IF Issues(h) # {} THEN "fixes" ELSE "nothing"

BuildRuntimeCompatibility(h) ==
  LET check == RunRuntimeVersionRange(h)
  IN  [status |-> CASE check.status = "fail" -> "mismatch"
                    [] check.status \in {"warn", "skip"} -> "unknown"
                    [] OTHER -> "supported",
       compatible |-> Cardinality(Selected(h))
                      - IF check.status = "fail" THEN Cardinality(OutOfRange(h)) ELSE 0]

\* What to run first: nothing while an install is blocked, the pack that is there, or
\* the install of the pack that comes first.
BuildFirstWorkflowGuidance(h) ==
  IF InstallBlocked(h) THEN [ready |-> FALSE, install |-> Missing]
  ELSE IF Installed(h) # {} THEN [ready |-> TRUE, install |-> Missing]
  ELSE [ready |-> FALSE, install |-> PreferredPackId(h)]

-----------------------------------------------------------------------------
(***************************************************************************)
(* What planInstall makes of the same host, before it looks at files: the  *)
(* errors of the plan for the packs of S.                                  *)
(***************************************************************************)

\* Of one pack.
PackErrors(h, p) ==
  LET m == h.packs[p] IN
  (IF m.valid THEN {} ELSE {"manifest-invalid"})
  \cup (IF h.target \in m.targets THEN {} ELSE {"target-unsupported"})
  \cup (IF Runtime(h) \in m.runtimes THEN {} ELSE {"runtime-mismatch"})
  \cup (IF IsDetected(h) /\ ~SatisfiesRuntimeRange(Version(h), m.ranges[Runtime(h)])
        THEN {"runtime-version-unsupported"} ELSE {})
  \cup (IF \E phases \in m.lacking : "install" \in phases THEN {"missing-tool"} ELSE {})

PlanErrors(h, S) ==
  (IF IsDetected(h) THEN {} ELSE {"runtime-unavailable"})
  \cup (IF HasInstallRoot(h) THEN {} ELSE {"emit-plugin-user-scope"})
  \cup (IF h.locked \cap ((Needed(h) \ {"config"}) \cup {"journal"}) = {}
        THEN {} ELSE {"permission-denied"})
  \cup UNION {PackErrors(h, p) : p \in S \cap Found(h)}
  \cup (IF S \subseteq Found(h) THEN {} ELSE {"pack-not-found"})

-----------------------------------------------------------------------------
HostInit == host \in Sound /\ amiss = 0

Change(field) ==
  /\ amiss < MaxAmiss
  /\ host' \in {[host EXCEPT ![field] = v] : v \in Alternatives[field] \ {host[field]}}
  /\ amiss' = amiss + 1

HostNext == \E field \in DOMAIN Alternatives : Change(field)

HostSpec == HostInit /\ [][HostNext]_hostVars

-----------------------------------------------------------------------------
(***************************************************************************)
(* The hosts that are meant: of two packs one comes first by name, a label *)
(* has a rank, from deprecated to stable, and a tool is required for       *)
(* phases there are.                                                       *)
(***************************************************************************)

CatalogIsTyped(packs) ==
  /\ \A p \in DOMAIN packs :
       /\ Order[p] \in Nat
       /\ packs[p].lacking \subseteq SUBSET Phases
       /\ packs[p].maturity.effective \in -1..3 /\ packs[p].maturity.assigned \in -1..3
       /\ packs[p].maturity.blocked \in BOOLEAN /\ packs[p].maturity.default \in BOOLEAN
  /\ \A p, q \in DOMAIN packs : Order[p] = Order[q] => p = q

ASSUME HostsAreTyped ==
  /\ \A h \in Sound : "packs" \in DOMAIN h /\ CatalogIsTyped(h.packs)
  /\ "packs" \in DOMAIN Alternatives => \A packs \in Alternatives["packs"] : CatalogIsTyped(packs)

-----------------------------------------------------------------------------
(***************************************************************************)
(* Properties.                                                             *)
(***************************************************************************)

Reports(h) == Runtime(h) # Missing

\* The parts of a report agree: an install is only blocked by what the verdict shows,
\* the scope that was asked for blocks exactly when the checks of its directories do,
\* and nothing is left to do only where nothing was found.
PartsAgree(h) ==
  /\ InstallBlocked(h) => AggregateVerdict(h) \in {"fail", "unsupported"}
  /\ BuildScopeProbe(h).blocks <=>
       \E c \in {RunConfigHomeCheck(h), RunInstallRootCheck(h), RunWritePermissionCheck(h)} : c.blocks
  /\ BuildNextActions(h) = "nothing" <=> BuildDoctorRemediation(h).status = "none"
  /\ BuildNextActions(h) = "nothing" => AggregateVerdict(h) = "pass"

\* What doctor lets through, an install of the packs it was asked about or of the one
\* it recommends does not refuse for a reason doctor could see: a version that does not
\* parse is a warning to doctor and an error to the plan, and the directory of the
\* journal is not looked at.
Foreseen(h, S) ==
  /\ "journal" \notin h.locked
  /\ Version(h) = Unparsed => S \cap OutOfRange(h) = {}

ReportCoheres ==
  Reports(host) =>
    /\ PartsAgree(host)
    /\ ~InstallBlocked(host) =>
         \A S \in {host.requested, {BuildFirstWorkflowGuidance(host).install} \ {Missing}} \ {{}} :
           Foreseen(host, S) => PlanErrors(host, S) = {}
=============================================================================
