-------------------------- MODULE DoctorReportProofs --------------------------
(***************************************************************************)
(* The report of doctor coheres, for every host, every catalog and all     *)
(* changes of a host: what blocks an install shows in the verdict, and     *)
(* what doctor lets through, or recommends, the plan of an install does    *)
(* not refuse.  The one hypothesis is that the catalogs are typed.         *)
(***************************************************************************)
EXTENDS DoctorReport, WellFoundedInduction, TLAPS

-----------------------------------------------------------------------------
(***************************************************************************)
(* The pack that is recommended is one of those it is picked from.         *)
(***************************************************************************)

\* A set of natural numbers has a least element.
LEMMA LeastNumber ==
  ASSUME NEW S \in SUBSET Nat, S # {}
  PROVE  \E n \in S : \A m \in S : n <= m
<1>1. PICK n \in S : \A m \in S : ~(<<m, n>> \in OpToRel(<, Nat))
  BY WFMin, NatLessThanWellFounded, Zenon
<1>2. ASSUME NEW m \in S PROVE n <= m
  <2>1. ~(m < n)
    BY <1>1, <1>2, Zenon DEF OpToRel
  <2> QED BY <2>1
<1> QED BY <1>2

\* Of what is ranked something has the highest rank.
LEMMA HighestRank ==
  ASSUME NEW S, S # {}, NEW rank, \A p \in S : rank[p] \in -1..3
  PROVE  \E p \in S : \A q \in S : rank[q] <= rank[p]
<1> DEFINE below == {3 - rank[p] : p \in S}
<1>1. below \in SUBSET Nat /\ below # {}
  OBVIOUS
<1>2. PICK n \in below : \A m \in below : n <= m
  <2> HIDE DEF below
  <2> QED BY <1>1, LeastNumber
<1>3. PICK p \in S : n = 3 - rank[p]
  BY <1>2
<1>4. ASSUME NEW q \in S PROVE rank[q] <= rank[p]
  <2>1. 3 - rank[q] \in below
    OBVIOUS
  <2>2. 3 - rank[p] <= 3 - rank[q]
    BY <1>2, <1>3, <2>1
  <2> QED BY <2>2
<1> QED BY <1>4

\* Of what a flag is raised for or not, something goes first.
LEMMA FlagFirst ==
  ASSUME NEW S, S # {}, NEW flag, \A p \in S : flag[p] \in BOOLEAN
  PROVE  \E p \in S : \A q \in S : flag[q] => flag[p]
<1>1. CASE \E p \in S : flag[p]
  BY <1>1
<1>2. CASE \A p \in S : ~flag[p]
  BY <1>2
<1> QED BY <1>1, <1>2

LEMMA ForemostIsOfThem ==
  ASSUME NEW h, CatalogIsTyped(h.packs), NEW S \in SUBSET Found(h), S # {}
  PROVE  Foremost(h, S) \in S
<1> DEFINE effective == [p \in S |-> MaturityOf(h, p).effective]
           open == [p \in S |-> ~MaturityOf(h, p).blocked]
           default == [p \in S |-> MaturityOf(h, p).default]
           assigned == [p \in S |-> MaturityOf(h, p).assigned]
<1>1. \A p \in S : /\ effective[p] \in -1..3 /\ open[p] \in BOOLEAN
                   /\ default[p] \in BOOLEAN /\ assigned[p] \in -1..3 /\ Order[p] \in Nat
  BY DEF CatalogIsTyped, Found, MaturityOf
<1>2. \A p, q \in S : Order[p] = Order[q] => p = q
  BY DEF CatalogIsTyped, Found
<1>3. \A p, q \in S :
        (/\ effective[q] <= effective[p]
         /\ effective[q] = effective[p] => (open[q] => open[p])
         /\ effective[q] = effective[p] /\ open[q] = open[p] => (default[q] => default[p])
         /\ effective[q] = effective[p] /\ open[q] = open[p] /\ default[q] = default[p] =>
              /\ assigned[q] <= assigned[p]
              /\ assigned[q] = assigned[p] => Order[p] < Order[q])
        => Precedes(h, p, q)
  <2> SUFFICES ASSUME NEW p \in S, NEW q \in S,
                      effective[q] <= effective[p],
                      effective[q] = effective[p] => (open[q] => open[p]),
                      effective[q] = effective[p] /\ open[q] = open[p] => (default[q] => default[p]),
                      effective[q] = effective[p] /\ open[q] = open[p] /\ default[q] = default[p] =>
                         /\ assigned[q] <= assigned[p]
                         /\ assigned[q] = assigned[p] => Order[p] < Order[q]
               PROVE  Precedes(h, p, q)
    OBVIOUS
  <2>1. PICK a, b : a = MaturityOf(h, p) /\ b = MaturityOf(h, q)
    OBVIOUS
  <2>2. /\ a.effective \in -1..3 /\ b.effective \in -1..3
        /\ a.assigned \in -1..3 /\ b.assigned \in -1..3
        /\ a.blocked \in BOOLEAN /\ b.blocked \in BOOLEAN
        /\ a.default \in BOOLEAN /\ b.default \in BOOLEAN
    BY <2>1 DEF CatalogIsTyped, Found, MaturityOf
  <2>3. /\ effective[p] = a.effective /\ effective[q] = b.effective
        /\ assigned[p] = a.assigned /\ assigned[q] = b.assigned
        /\ default[p] = a.default /\ default[q] = b.default
    BY <2>1
  <2>4. (open[p] <=> ~a.blocked) /\ (open[q] <=> ~b.blocked)
    BY <2>1
  <2>5. open[p] = open[q] <=> a.blocked = b.blocked
    BY <1>1, <2>2, <2>4
  <2> HIDE DEF effective, open, default, assigned
  <2>6. a.effective # b.effective => a.effective > b.effective
    BY <2>2, <2>3
  <2>7. a.effective = b.effective /\ a.blocked # b.blocked => b.blocked
    BY <1>1, <2>2, <2>3, <2>4
  <2>8. a.effective = b.effective /\ a.blocked = b.blocked /\ a.default # b.default => a.default
    BY <1>1, <2>2, <2>3, <2>5
  <2>9. a.effective = b.effective /\ a.blocked = b.blocked /\ a.default = b.default =>
          /\ a.assigned # b.assigned => a.assigned > b.assigned
          /\ a.assigned = b.assigned => Order[p] < Order[q]
    BY <1>1, <2>2, <2>3, <2>5
  <2>10. Precedes(h, p, q) <=>
           IF a.effective # b.effective THEN a.effective > b.effective
           ELSE IF a.blocked # b.blocked THEN b.blocked
           ELSE IF a.default # b.default THEN a.default
           ELSE IF a.assigned # b.assigned THEN a.assigned > b.assigned
           ELSE Order[p] < Order[q]
    BY <2>1, Zenon DEF Precedes
  <2> QED BY <2>6, <2>7, <2>8, <2>9, <2>10, Zenon
<1> HIDE DEF effective, open, default, assigned
<1>4. PICK p1 \in S : \A q \in S : effective[q] <= effective[p1]
  BY <1>1, HighestRank
<1> DEFINE S1 == {p \in S : effective[p] = effective[p1]}
<1>5. PICK p2 \in S1 : \A q \in S1 : open[q] => open[p2]
  <2>1. S1 # {} /\ \A p \in S1 : open[p] \in BOOLEAN
    BY <1>1
  <2> HIDE DEF S1
  <2> QED BY <2>1, FlagFirst
<1> DEFINE S2 == {p \in S1 : open[p] = open[p2]}
<1>6. PICK p3 \in S2 : \A q \in S2 : default[q] => default[p3]
  <2>1. S2 # {} /\ \A p \in S2 : default[p] \in BOOLEAN
    BY <1>1
  <2> HIDE DEF S2
  <2> QED BY <2>1, FlagFirst
<1> DEFINE S3 == {p \in S2 : default[p] = default[p3]}
<1>7. PICK p4 \in S3 : \A q \in S3 : assigned[q] <= assigned[p4]
  <2>1. S3 # {} /\ \A p \in S3 : assigned[p] \in -1..3
    BY <1>1
  <2> HIDE DEF S3
  <2> QED BY <2>1, HighestRank
<1> DEFINE S4 == {p \in S3 : assigned[p] = assigned[p4]}
           places == {Order[p] : p \in S4}
<1>8. places \in SUBSET Nat /\ places # {}
  BY <1>1
<1>9. PICK n \in places : \A m \in places : n <= m
  <2> HIDE DEF places
  <2> QED BY <1>8, LeastNumber
<1>10. PICK p \in S4 : n = Order[p]
  BY <1>9
<1>11. ASSUME NEW q \in S \ {p} PROVE Precedes(h, p, q)
  <2>1. effective[q] <= effective[p]
    BY <1>4, <1>10
  <2>2. ASSUME effective[q] = effective[p] PROVE q \in S1 /\ (open[q] => open[p])
    BY <1>1, <1>5, <1>10, <2>2
  <2>3. ASSUME q \in S1, open[q] = open[p] PROVE q \in S2 /\ (default[q] => default[p])
    BY <1>1, <1>6, <1>10, <2>3
  <2>4. ASSUME q \in S2, default[q] = default[p] PROVE q \in S3 /\ assigned[q] <= assigned[p]
    BY <1>7, <1>10, <2>4
  <2>5. ASSUME q \in S3, assigned[q] = assigned[p] PROVE Order[p] < Order[q]
    <3>1. Order[q] \in places
      BY <1>10, <2>5
    <3>2. Order[p] <= Order[q]
      BY <1>9, <1>10, <3>1
    <3> QED BY <1>1, <1>2, <1>10, <3>2
  <2>6. /\ effective[q] = effective[p] => (open[q] => open[p])
        /\ effective[q] = effective[p] /\ open[q] = open[p] => (default[q] => default[p])
        /\ effective[q] = effective[p] /\ open[q] = open[p] /\ default[q] = default[p] =>
              /\ assigned[q] <= assigned[p]
              /\ assigned[q] = assigned[p] => Order[p] < Order[q]
    <3> HIDE DEF S1, S2, S3, S4
    <3> QED BY <2>2, <2>3, <2>4, <2>5, Zenon
  <2> QED BY <1>3, <1>10, <2>1, <2>6
<1>12. p \in S
  BY <1>10
<1> QED BY <1>11, <1>12 DEF Foremost

-----------------------------------------------------------------------------
(***************************************************************************)
(* A check that blocks an install fails, or finds it unsupported.          *)
(***************************************************************************)

Honest(c) == c.blocks => c.status \in {"fail", "unsupported"}

LEMMA SaysHonest ==
  ASSUME NEW status
  PROVE  /\ Honest(Says(status)) /\ ~Says(status).blocks /\ Says(status).status = status
         /\ Blocks(status).blocks /\ Blocks(status).status = status
         /\ Honest(Blocks("fail")) /\ Honest(Blocks("unsupported"))
BY DEF Says, Blocks, Honest

LEMMA LaneHonest == ASSUME NEW h PROVE Honest(RunSupportLane(h))
<1> DEFINE lane == IF h.os \in Systems THEN h.lanes[Runtime(h)] ELSE Missing
           blocked == lane.level \in {"blocked", "known-broken"}
           out == h.os \notin Systems
<1>1. CASE lane # Missing
  <2>1. ResolveSupportLane(h) = [status |-> LaneStatus(lane.level), range |-> TestedRange(lane, h),
                                 tested |-> lane.tested, blocks |-> blocked]
    BY <1>1, Zenon DEF ResolveSupportLane
  <2>2. blocked \in BOOLEAN /\ (blocked => LaneStatus(lane.level) = "unsupported")
    BY DEF LaneStatus
  <2> HIDE DEF lane, blocked
  <2>3. /\ ResolveSupportLane(h).status = LaneStatus(lane.level)
        /\ ResolveSupportLane(h).blocks = blocked
    BY <2>1
  <2>4. RunSupportLane(h).blocks = blocked
    BY <2>3 DEF RunSupportLane
  <2>5. blocked => RunSupportLane(h).status = "unsupported"
    BY <2>2, <2>3 DEF RunSupportLane
  <2> QED BY <2>2, <2>4, <2>5 DEF Honest
<1>2. CASE lane = Missing
  <2>1. /\ ResolveSupportLane(h).status = (IF out THEN "unsupported" ELSE "unverified")
        /\ ResolveSupportLane(h).blocks = out
    <3> HIDE DEF lane
    <3>1. ResolveSupportLane(h) =
            [status |-> IF h.os \in Systems THEN "unverified" ELSE "unsupported",
             range |-> IF h.os \in Systems THEN "unrecorded" ELSE "unsupported",
             tested |-> Missing, blocks |-> out]
      BY <1>2, Zenon DEF ResolveSupportLane, lane
    <3> HIDE DEF out
    <3>2. ResolveSupportLane(h).blocks = out
      BY <3>1
    <3>3. ResolveSupportLane(h).status = IF h.os \in Systems THEN "unverified" ELSE "unsupported"
      BY <3>1
    <3> QED BY <3>2, <3>3 DEF out
  <2>2. out \in BOOLEAN
    OBVIOUS
  <2> HIDE DEF out
  <2>3. RunSupportLane(h).blocks = out
    BY <2>1 DEF RunSupportLane
  <2>4. out => RunSupportLane(h).status = "unsupported"
    BY <2>1 DEF RunSupportLane
  <2> QED BY <2>2, <2>3, <2>4 DEF Honest
<1> QED BY <1>1, <1>2

LEMMA DirectoryHonest ==
  ASSUME NEW kind
  PROVE  Honest(DirectoryCheck(kind)) /\ DirectoryCheck(kind).blocks = (kind = "file")
BY SaysHonest DEF DirectoryCheck, Says, Blocks, Honest

LEMMA FilesHonest == ASSUME NEW h PROVE Honest(FileStatus(h))
<1> DEFINE fail == h.files = "fail"
<1>1. fail \in BOOLEAN
  OBVIOUS
<1>2. FileStatus(h) = [status |-> h.files, blocks |-> fail]
  BY Zenon DEF FileStatus
<1> HIDE DEF fail
<1>3. FileStatus(h).status = h.files /\ FileStatus(h).blocks = fail
  BY <1>2
<1> QED BY <1>1, <1>3 DEF Honest, fail

LEMMA ChecksAreHonest ==
  ASSUME NEW h, NEW c \in Checks(h)
  PROVE  Honest(c)
<1>1. /\ Honest(RunRuntimePresenceMatrix(h)) /\ Honest(RunCodexDaemonState(h))
      /\ Honest(RunHooksState(h))
  BY SaysHonest DEF RunRuntimePresenceMatrix, RunCodexDaemonState, RunHooksState
<1>2. /\ Honest(RunRuntimeDetect(h)) /\ Honest(RunRuntimeVersionRange(h))
      /\ Honest(RunRuntimeTestedRange(h))
  BY SaysHonest, Zenon DEF RunRuntimeDetect, RunRuntimeVersionRange, RunRuntimeTestedRange
<1>3. /\ Honest(RunPlatformSupport(h)) /\ Honest(RunShellProfileCandidates(h))
      /\ Honest(RunScopeRepoRoot(h))
  BY SaysHonest, Zenon DEF RunPlatformSupport, RunShellProfileCandidates, RunScopeRepoRoot
<1>4. /\ Honest(RunConfigHomeCheck(h)) /\ Honest(RunInstallRootCheck(h))
      /\ Honest(RunWritePermissionCheck(h))
  BY SaysHonest, DirectoryHonest, Zenon
     DEF RunConfigHomeCheck, RunInstallRootCheck, RunWritePermissionCheck
<1>5. /\ Honest(RunManifestValidation(h)) /\ Honest(RunManifestRuntimeTargets(h))
      /\ Honest(RunManifestNamingConflicts(h))
  BY SaysHonest, Zenon
     DEF RunManifestValidation, RunManifestRuntimeTargets, RunManifestNamingConflicts
<1>6. /\ Honest(RunWorkflowMaturityAlignment(h)) /\ Honest(RunRequiredTools(h))
      /\ Honest(RunSharedSkillRootSupport(h))
  BY SaysHonest, Zenon
     DEF RunWorkflowMaturityAlignment, RunRequiredTools, RunSharedSkillRootSupport
<1>7. /\ Honest(RunRequiredMcpServers(h)) /\ Honest(RunInstalledTrustPosture(h))
      /\ Honest(RunAssetPlacement(h))
  BY SaysHonest, Zenon DEF RunRequiredMcpServers, RunInstalledTrustPosture, RunAssetPlacement
<1> QED
  BY <1>1, <1>2, <1>3, <1>4, <1>5, <1>6, <1>7, LaneHonest, FilesHonest, Zenon DEF Checks

-----------------------------------------------------------------------------
(***************************************************************************)
(* The parts of a report agree, whatever the host.                         *)
(***************************************************************************)

LEMMA VerdictShowsBlock ==
  ASSUME NEW h, InstallBlocked(h)
  PROVE  AggregateVerdict(h) \in {"fail", "unsupported"}
<1>1. PICK c \in Checks(h) : c.blocks
  BY DEF InstallBlocked, Issues
<1>2. c.status \in {"fail", "unsupported"}
  BY <1>1, ChecksAreHonest DEF Honest
<1> DEFINE statuses == {d.status : d \in Checks(h)}
<1>3. statuses \cap {"fail", "unsupported"} # {}
  BY <1>1, <1>2
<1> HIDE DEF statuses
<1>4. CASE "unsupported" \in statuses
  BY <1>4 DEF AggregateVerdict, statuses
<1>5. CASE "unsupported" \notin statuses
  <2>1. "fail" \in statuses
    BY <1>3, <1>5
  <2> QED BY <1>5, <2>1 DEF AggregateVerdict, statuses
<1> QED BY <1>4, <1>5

LEMMA NothingFoundPasses ==
  ASSUME NEW h, Issues(h) = {}
  PROVE  AggregateVerdict(h) = "pass"
<1>1. {d.status : d \in Checks(h)} \cap IssueStatuses = {}
  BY DEF Issues
<1> QED BY <1>1 DEF AggregateVerdict, IssueStatuses

\* The summary of the scope says of its directories what their checks say.
LEMMA ScopeAgrees ==
  ASSUME NEW h
  PROVE  BuildScopeProbe(h).blocks <=>
           \E c \in {RunConfigHomeCheck(h), RunInstallRootCheck(h), RunWritePermissionCheck(h)} :
             c.blocks
<1> DEFINE config == h.configHome = "file"
           root == HasInstallRoot(h) => h.installRoot = "file"
           denied == Needed(h) \cap h.locked # {}
<1>1. RunConfigHomeCheck(h).blocks <=> config
  BY DirectoryHonest DEF RunConfigHomeCheck
<1>2. RunInstallRootCheck(h).blocks <=> root
  <2>1. CASE HasInstallRoot(h)
    BY <2>1, DirectoryHonest DEF RunInstallRootCheck
  <2>2. CASE ~HasInstallRoot(h)
    <3>1. RunInstallRootCheck(h) = Blocks("unsupported")
      BY <2>2, Zenon DEF RunInstallRootCheck
    <3>2. Blocks("unsupported").blocks
      BY SaysHonest
    <3> QED BY <2>2, <3>1, <3>2
  <2> QED BY <2>1, <2>2
<1>3. RunWritePermissionCheck(h).blocks <=> denied
  BY SaysHonest, Zenon DEF RunWritePermissionCheck
<1> DEFINE raised ==
             {i \in {"plugin_scope", "config_home", "install_root", "write_permission"} :
                CASE i = "plugin_scope"  -> ~HasInstallRoot(h)
                  [] i = "config_home"   -> h.configHome = "file"
                  [] i = "install_root"  -> HasInstallRoot(h) /\ h.installRoot = "file"
                  [] OTHER               -> Needed(h) \cap h.locked # {}}
           some == raised # {}
<1>4. some <=> config \/ root \/ denied
  <2>1. /\ "plugin_scope" \in raised <=> ~HasInstallRoot(h)
        /\ "config_home" \in raised <=> h.configHome = "file"
        /\ "install_root" \in raised <=> HasInstallRoot(h) /\ h.installRoot = "file"
        /\ "write_permission" \in raised <=> denied
    OBVIOUS
  <2>2. raised \subseteq {"plugin_scope", "config_home", "install_root", "write_permission"}
    OBVIOUS
  <2> HIDE DEF raised, denied
  <2> QED BY <2>1, <2>2
<1>5. BuildScopeProbe(h).blocks <=> some
  <2> DEFINE verdict == IF "plugin_scope" \in raised THEN "unsupported"
                        ELSE IF raised # {} THEN "fail" ELSE "pass"
  <2>1. BuildScopeProbe(h) = [verdict |-> verdict, blocks |-> some]
    BY Zenon DEF BuildScopeProbe
  <2>2. some \in BOOLEAN
    OBVIOUS
  <2> HIDE DEF some, verdict
  <2>3. BuildScopeProbe(h).blocks = some
    BY <2>1
  <2> QED BY <2>2, <2>3
<1> HIDE DEF config, root, denied, some
<1> QED BY <1>1, <1>2, <1>3, <1>4, <1>5, Zenon

LEMMA ReportPartsAgree == ASSUME NEW h PROVE PartsAgree(h)
<1>1. Issues(h) = {} => ~InstallBlocked(h)
  BY DEF InstallBlocked
<1>2. BuildNextActions(h) = "nothing" <=> h.codes = {} /\ Issues(h) = {}
  BY DEF BuildNextActions
<1>3. BuildDoctorRemediation(h).status = "none" <=>
        ~InstallBlocked(h) /\ h.codes = {} /\ Issues(h) = {}
  <2>1. BuildDoctorRemediation(h).status =
          IF InstallBlocked(h) THEN "blocked"
          ELSE IF h.codes # {} \/ Issues(h) # {} THEN "advisory" ELSE "none"
    BY DEF BuildDoctorRemediation
  <2> QED BY <2>1
<1> QED
  BY <1>1, <1>2, <1>3, VerdictShowsBlock, NothingFoundPasses, ScopeAgrees, Zenon DEF PartsAgree

-----------------------------------------------------------------------------
(***************************************************************************)
(* What doctor lets through the plan does not refuse.                      *)
(***************************************************************************)

\* No check blocks an install that is let through.
LEMMA NothingBlocks ==
  ASSUME NEW h, ~InstallBlocked(h), NEW c \in Checks(h)
  PROVE  ~c.blocks
<1> SUFFICES ASSUME c.blocks PROVE FALSE
  OBVIOUS
<1>1. c.status \in IssueStatuses
  BY ChecksAreHonest DEF Honest, IssueStatuses
<1> QED BY <1>1 DEF InstallBlocked, Issues

\* A check that says one of two things says the one that does not block.
LEMMA NotBlocked ==
  ASSUME NEW h, ~InstallBlocked(h), NEW c \in Checks(h), NEW status
  PROVE  c # Blocks(status)
BY NothingBlocks, SaysHonest

\* The runtime is detected, its install root and its directories are there.
LEMMA HostIsReady ==
  ASSUME NEW h, ~InstallBlocked(h)
  PROVE  /\ IsDetected(h) /\ HasInstallRoot(h)
         /\ Needed(h) \cap h.locked = {}
<1>1. /\ RunRuntimeDetect(h) \in Checks(h) /\ RunInstallRootCheck(h) \in Checks(h)
      /\ RunWritePermissionCheck(h) \in Checks(h)
  BY Zenon DEF Checks
<1>2. IsDetected(h)
  BY <1>1, NotBlocked, Zenon DEF RunRuntimeDetect
<1>3. HasInstallRoot(h)
  BY <1>1, NotBlocked, Zenon DEF RunInstallRootCheck
<1>4. Needed(h) \cap h.locked = {}
  BY <1>1, NotBlocked, Zenon DEF RunWritePermissionCheck
<1> QED BY <1>2, <1>3, <1>4

\* Every pack that was asked about is there, and valid.
LEMMA AskedAreSelected ==
  ASSUME NEW h, ~InstallBlocked(h)
  PROVE  Invalid(h) = {} /\ MissingRequested(h) = {} /\ Selected(h) = AskedAbout(h)
<1>1. RunManifestValidation(h) \in Checks(h)
  BY Zenon DEF Checks
<1>2. Invalid(h) = {} /\ MissingRequested(h) = {}
  BY <1>1, NotBlocked, Zenon DEF RunManifestValidation
<1> QED BY <1>2 DEF Invalid, Selected

\* A pack that is selected suits the runtime and the target, and lacks no tool.
LEMMA SelectedAreSuited ==
  ASSUME NEW h, CatalogIsTyped(h.packs), ~InstallBlocked(h), NEW p \in Selected(h)
  PROVE  /\ h.packs[p].valid
         /\ h.target \in h.packs[p].targets /\ Runtime(h) \in h.packs[p].runtimes
         /\ ~(\E phases \in h.packs[p].lacking : "install" \in phases)
         /\ OutOfRange(h) = {} \/ Version(h) = Unparsed
<1>1. /\ RunManifestRuntimeTargets(h) \in Checks(h) /\ RunRequiredTools(h) \in Checks(h)
      /\ RunRuntimeVersionRange(h) \in Checks(h)
  BY Zenon DEF Checks
<1>2. h.packs[p].valid /\ p \in Found(h)
  BY DEF Selected, AskedAbout
<1>3. h.target \in h.packs[p].targets /\ Runtime(h) \in h.packs[p].runtimes
  <2>1. Selected(h) # {}
    OBVIOUS
  <2>2. ~(\E q \in Selected(h) : \/ Runtime(h) \notin h.packs[q].runtimes
                                 \/ h.target \notin h.packs[q].targets)
    BY <1>1, <2>1, NotBlocked, Zenon DEF RunManifestRuntimeTargets
  <2> QED BY <2>2
<1>4. ~(\E phases \in h.packs[p].lacking : "install" \in phases)
  <2> DEFINE lacking == {t \in Selected(h) \X SUBSET Phases :
                           /\ t[2] \in h.packs[t[1]].lacking
                           /\ t[2] \cap {"doctor", "install", "run"} # {}}
  <2>1. ~(\E t \in lacking : t[2] \cap {"doctor", "install"} # {} \/ t[1] \in Installed(h))
    BY <1>1, NotBlocked, Zenon DEF RunRequiredTools
  <2> SUFFICES ASSUME NEW phases \in h.packs[p].lacking, "install" \in phases PROVE FALSE
    OBVIOUS
  <2>2. phases \in SUBSET Phases
    BY <1>2 DEF CatalogIsTyped, Found
  <2>3. <<p, phases>> \in lacking
    BY <2>2
  <2>4. <<p, phases>>[2] \cap {"doctor", "install"} # {}
    OBVIOUS
  <2> HIDE DEF lacking
  <2> QED BY <2>1, <2>3, <2>4
<1>5. OutOfRange(h) = {} \/ Version(h) = Unparsed
  BY <1>1, HostIsReady, NotBlocked, Zenon DEF RunRuntimeVersionRange
<1> QED BY <1>2, <1>3, <1>4, <1>5

\* The pack that is to be installed first is a selected one: where none is selected none
\* was asked for and none is found.
LEMMA RecommendedIsSelected ==
  ASSUME NEW h, CatalogIsTyped(h.packs), ~InstallBlocked(h),
         BuildFirstWorkflowGuidance(h).install # Missing
  PROVE  BuildFirstWorkflowGuidance(h).install \in Selected(h)
<1>1. Installed(h) = {} /\ BuildFirstWorkflowGuidance(h).install = PreferredPackId(h)
  BY DEF BuildFirstWorkflowGuidance
<1>2. Selected(h) \subseteq Found(h)
  BY DEF Selected, AskedAbout
<1>3. Selected(h) # {}
  <2> SUFFICES ASSUME Selected(h) = {} PROVE FALSE
    OBVIOUS
  <2>1. AskedAbout(h) = {} /\ MissingRequested(h) = {}
    BY AskedAreSelected
  <2>2. Found(h) = {}
    BY <2>1 DEF AskedAbout, MissingRequested
  <2>3. PreferredPackId(h) = Missing
    BY <1>1, <2>2 DEF PreferredPackId, SelectDefaultCatalogPack, Foremost
  <2> QED BY <1>1, <2>3
<1>4. PreferredPackId(h) = Foremost(h, Selected(h))
  BY <1>3 DEF PreferredPackId
<1> QED BY <1>1, <1>2, <1>3, <1>4, ForemostIsOfThem

LEMMA PlanOfSelected ==
  ASSUME NEW h, CatalogIsTyped(h.packs), ~InstallBlocked(h), NEW S \in SUBSET Selected(h),
         Foreseen(h, S)
  PROVE  PlanErrors(h, S) = {}
<1>1. ASSUME NEW p \in S PROVE PackErrors(h, p) = {}
  <2>1. p \in Selected(h)
    OBVIOUS
  <2>2. SatisfiesRuntimeRange(Version(h), h.packs[p].ranges[Runtime(h)])
    <3>1. p \notin OutOfRange(h)
      BY <2>1, SelectedAreSuited DEF Foreseen
    <3> QED BY <2>1, <3>1 DEF OutOfRange
  <2> QED BY <2>1, <2>2, SelectedAreSuited DEF PackErrors
<1>2. UNION {PackErrors(h, p) : p \in S \cap Found(h)} = {}
  BY <1>1
<1>3. S \subseteq Found(h)
  BY DEF Selected, AskedAbout
<1>4. h.locked \cap ((Needed(h) \ {"config"}) \cup {"journal"}) = {}
  BY HostIsReady DEF Foreseen
<1> QED BY <1>2, <1>3, <1>4, HostIsReady DEF PlanErrors

LEMMA ReportOfHostCoheres ==
  ASSUME CatalogIsTyped(host.packs)
  PROVE  ReportCoheres
<1> DEFINE install == BuildFirstWorkflowGuidance(host).install
<1> SUFFICES ASSUME ~InstallBlocked(host),
                    NEW S \in {host.requested, {install} \ {Missing}} \ {{}}, Foreseen(host, S)
             PROVE  PlanErrors(host, S) = {}
  BY ReportPartsAgree, Zenon DEF ReportCoheres
<1>1. CASE S = host.requested
  <2>1. S \subseteq Selected(host)
    BY <1>1, AskedAreSelected DEF AskedAbout, MissingRequested
  <2> QED BY <2>1, PlanOfSelected
<1>2. CASE S = {install} \ {Missing}
  <2> HIDE DEF install
  <2>1. install # Missing /\ S = {install}
    BY <1>2
  <2>2. install \in Selected(host)
    BY <2>1, RecommendedIsSelected DEF install
  <2> QED BY <2>1, <2>2, PlanOfSelected
<1> QED BY <1>1, <1>2

\* DoctorReport: whatever changes on a host, the parts of its report agree, and neither
\* the packs doctor was asked about nor the one it recommends are refused by the plan of
\* their install once doctor lets them through.
THEOREM ReportsCohere ==
  HostSpec => []ReportCoheres
<1> DEFINE Inv == "packs" \in DOMAIN host /\ CatalogIsTyped(host.packs)
<1>1. HostInit => Inv
  BY HostsAreTyped DEF HostInit
<1>2. Inv /\ [HostNext]_hostVars => Inv'
  <2> SUFFICES ASSUME Inv, [HostNext]_hostVars PROVE Inv'
    OBVIOUS
  <2>1. CASE HostNext
    <3>1. PICK field \in DOMAIN Alternatives : Change(field)
      BY <2>1 DEF HostNext
    <3>2. PICK v \in Alternatives[field] : host' = [host EXCEPT ![field] = v]
      BY <3>1 DEF Change
    <3>3. "packs" \in DOMAIN host'
      BY <3>2
    <3>4. host'.packs = IF field = "packs" THEN v ELSE host.packs
      BY <3>2
    <3> QED BY HostsAreTyped, <3>2, <3>3, <3>4 DEF CatalogIsTyped
  <2>2. CASE UNCHANGED hostVars
    BY <2>2 DEF hostVars, CatalogIsTyped
  <2> QED BY <2>1, <2>2
<1>3. Inv => ReportCoheres
  BY ReportOfHostCoheres
<1> QED BY <1>1, <1>2, <1>3, PTL DEF HostSpec
=============================================================================
