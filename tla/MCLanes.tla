------------------------------ MODULE MCLanes ------------------------------
(***************************************************************************)
(* The lanes that decide who may do what, one per behaviour: a workflow in *)
(* front of a runtime, a chain of delegations, jobs of the CI lane,        *)
(* releases that are written, assessed and installed, the truth that is    *)
(* published of runtimes and workflows, the manifest of a pack, and what   *)
(* doctor reports of a host.                                               *)
(* They share no state in the code, so a behaviour is a behaviour of one   *)
(* of them and the others stay where they are.                             *)
(***************************************************************************)
EXTENDS RuntimeGate, Delegation, CiLane, ReleaseTrust, TruthSync, DoctorReport,
        ManifestShape

VARIABLE lane   \* the part that moves

-----------------------------------------------------------------------------
(***************************************************************************)
(* Runtime: a writer of the global memory, a pack that edits files and     *)
(* touches secrets, and a reader that one runtime blocks.                  *)
(***************************************************************************)

Bindings(codex, copilot) == [codex_cli |-> codex, copilot_cli |-> copilot]

Writer ==
  [class |-> "write-authority", global |-> "write", task |-> "read",
   authority |-> "write-authority", risk |-> "critical",
   caps |-> {"memory_write_global", "preview_emit"}, tools |-> {"binary"}, mcp |-> FALSE,
   runtimes |-> {"codex_cli", "copilot_cli"}, picker |-> Bindings("supported", "supported"),
   direct |-> Bindings("blocked", "unverified"), hooks |-> {"codex_cli", "copilot_cli"}]
Editor ==
  [Writer EXCEPT !.class = "dual-mode", !.global = "read", !.authority = "read-only",
                 !.risk = "high", !.caps = {"repo_write"}, !.tools = {"env_var"},
                 !.direct = Bindings("supported", "supported")]
Reader ==
  [Writer EXCEPT !.class = "read-oriented", !.global = "read", !.authority = "read-only",
                 !.risk = "low", !.caps = {"repo_read"}, !.runtimes = {"copilot_cli"},
                 !.direct = Bindings("supported", "supported"), !.hooks = {}]

MCManifests == {Writer, [Writer EXCEPT !.direct = Bindings("supported", "supported")],
                Editor, Reader}

ASSUME ManifestsLoad == \A m \in MCManifests : ManifestLoads(m)

-----------------------------------------------------------------------------
(***************************************************************************)
(* Delegation: what pack-authority.yaml grants to the pack of one caller   *)
(* and not of the other.                                                   *)
(***************************************************************************)

MCCaps == {"repo_read", "shell_exec", "memory_write_global"}
MCPaths == {"src", "src/core", "docs"}
MCCallers ==
  {[pack |-> "backend", caps |-> {"repo_read", "shell_exec"}, paths |-> {"src"}],
   [pack |-> "plan", caps |-> {"shell_exec", "memory_write_global"}, paths |-> {"src/core", "docs"}]}

MCWithin == [p \in MCPaths |-> IF p = "src/core" THEN {"src", "src/core"} ELSE {p}]
MCGrants == [c \in MCCaps |-> IF c = "shell_exec" THEN {"backend"} ELSE {}]

-----------------------------------------------------------------------------
(***************************************************************************)
(* CI: a job with two candidates, one of them outside, the same without    *)
(* leave to generate patches, one that may only plan, and one without a    *)
(* commit.                                                                 *)
(***************************************************************************)

Suggest(id, path, after) == [id |-> id, path |-> path, after |-> after]
Patches == [flags |-> {"ci_lane_enabled", "ci_generate_patch_artifact"}, amiss |-> {},
            candidates |-> <<Suggest("one", "src/a", 1), Suggest("out", "../a", 1),
                             Suggest("two", "src/b", 9)>>,
            sha |-> "head"]
MCJobs == {Patches, [Patches EXCEPT !.flags = {"ci_lane_enabled"}],
           [Patches EXCEPT !.flags = @ \cup {"ci_plan_only"}],
           [Patches EXCEPT !.candidates = <<Suggest("two", "src/b", 1)>>, !.sha = Missing],
           [Patches EXCEPT !.candidates = <<Suggest("two!", "src/b", 1), Suggest("..", "src/c", 9),
                                            Suggest("two-", "src/d", 9)>>]}
MCNames == [id \in {"one", "out", "two", "two-", "two!", ".."} |->
              CASE id = "two!" -> "two-" [] id = ".." -> Missing [] OTHER -> id]

-----------------------------------------------------------------------------
(***************************************************************************)
(* Release: a first-party pack beside another.  Of its four sources two    *)
(* differ only in their assets, one holds a capability it is not granted,  *)
(* and one has a version that does not parse and writes the global memory. *)
(***************************************************************************)

Manifest(caps, global, version) ==
  [caps |-> caps, memory |-> global, version |-> version, publisher |-> "pairslash",
   claim |-> "core-maintained", picker |-> "supported", direct |-> "unverified",
   declared |-> "partial", evidence |-> TRUE, described |-> TRUE]
Plain == Manifest({"repo_read"}, "read", <<0, 4, 1>>)
OfPlain(assets) == [manifest |-> Plain, assets |-> assets]
PlainSources == {OfPlain(1), OfPlain(2)}
FollowedSources ==
  PlainSources \cup
  {[manifest |-> m, assets |-> 1] :
     m \in {Manifest({"repo_read", "shell_exec"}, "read", <<0, 4, 0>>),
            Manifest({"repo_read", "memory_write_global"}, "write", Unparsed)}}
MCSources == [p |-> FollowedSources, q |-> {OfPlain(1)}]
MCPacks == <<"p", "q">>
MCLegacy == {<<0, 4, 0>>, <<0, 4, 2>>}
MCPublishers == [pairslash |-> [class |-> "first-party-release", keys |-> {"key"}]]
MCAuthority == [core |-> {"p"}, allowed |-> [memory_write_global |-> {"p"}, shell_exec |-> {}]]
MCHighRisk == {"memory_write_global", "shell_exec"}

-----------------------------------------------------------------------------
(***************************************************************************)
(* Truth: a lane a pack is judged by and one it is not, records that       *)
(* promote, that go against a lane and that do not use the entry point;    *)
(* the lane starts degraded, or published as preview.                      *)
(***************************************************************************)

Run(l, machine, class, captured, canonical, negative) ==
  [lane |-> l, host |-> machine, class |-> class, captured |-> captured, stale |-> captured,
   expire |-> captured + 1, verdict |-> "pass", canonical |-> canonical,
   freshness |-> "fresh", scope |-> {"p"}, negative |-> negative]
Seen == Run("mac", "h1", "live_verification", 0, TRUE, FALSE)
Enter(run, bump, level) ==
  [run |-> run, bump |-> bump, level |-> level, picker |-> "pass", refs |-> {}]
MCInputs ==
  {Enter(Seen, "live_verification", Missing), Enter(Seen, "live_verification", "preview"),
   Enter(Run("mac", "h2", "repeated_live_verification", 1, TRUE, FALSE),
         "repeated_live_verification", Missing),
   Enter(Run("mac", "h2", "live_verification", 0, FALSE, FALSE), "live_verification", "preview"),
   Enter(Run("win", "h1", "live_verification", 0, TRUE, FALSE), "live_verification", Missing),
   Enter(Run("mac", "h1", "live_smoke", 0, TRUE, TRUE), Missing, "degraded"),
   Enter(Run("mac", "h1", "live_smoke", 1, TRUE, TRUE), Missing, "blocked"),
   [Enter(Missing, Missing, Missing) EXCEPT !.refs = {"doc"}]}

Degraded ==
  [level |-> "degraded", best |-> "live_smoke", freshness |-> "none-recorded", hosts |-> 0,
   verified |-> Missing, picker |-> "partial", caveat |-> TRUE, scope |-> {"p"}, refs |-> {},
   live |-> <<>>, negative |-> <<>>, inline |-> {"negative"}]
Preview ==
  [Degraded EXCEPT !.level = "preview", !.best = "live_verification", !.freshness = "fresh",
                   !.hosts = 1, !.verified = 0, !.picker = "pass", !.live = <<Seen>>, !.inline = {}]
MCPack ==
  [canonical |-> TRUE, status |-> "active", core |-> TRUE, tested |-> TRUE,
   runtimes |-> {"codex"}, smoke |-> {"codex"}, claimed |-> [codex |-> {}],
   refs |-> [codex |-> {}], writes |-> FALSE, safety |-> {},
   claims |-> [codex |-> [required |-> TRUE, declared |-> "supported", live |-> TRUE,
                          evidence |-> TRUE]],
   checklist |-> {"entrypoint", "docs", "wording"}, retired |-> FALSE, successor |-> FALSE,
   assigned |-> "beta", from |-> "preview", label |-> "beta"]

MCRuntimeOf == [mac |-> "codex", win |-> "codex"]
MCMinutes == <<"s1", "s2">>

TextsOf(mac, named) ==
  LET win == [Degraded EXCEPT !.level = "prep"]
  IN  [mac |-> mac, win |-> win, s1 |-> Missing, s2 |-> Missing, table |-> Missing, log |-> <<>>,
       matrix |-> [mac |-> Mirror(mac), win |-> Mirror(win)],
       manifest |-> [MCPack EXCEPT !.refs.codex = named]]

ASSUME SnapshotsLoad ==
  /\ SnapshotLoads(TextsOf(Degraded, {})) /\ SnapshotLoads(TextsOf(Preview, {"mac"}))
  /\ Missing \notin {"started", "not-restored"}

-----------------------------------------------------------------------------
(***************************************************************************)
(* Doctor: a host where nothing is amiss but that the pack is not          *)
(* installed, one pack of two requested.                                   *)
(***************************************************************************)

Label(assigned, effective) ==
  [assigned |-> assigned, effective |-> effective, blocked |-> FALSE, legal |-> TRUE,
   default |-> TRUE]
AnyVersion == [least |-> TRUE, version |-> 0]
From1 == [least |-> TRUE, version |-> 1]
FirstPack ==
  [valid |-> TRUE, legacy |-> FALSE, runtimes |-> {"codex_cli", "copilot_cli"},
   targets |-> {"repo", "user"}, ranges |-> [codex_cli |-> From1, copilot_cli |-> AnyVersion],
   invocation |-> "plan", lacking |-> {}, servers |-> {}, maturity |-> Label(1, 1)]
OtherPack == [FirstPack EXCEPT !.invocation = "review", !.targets = {"repo"},
                               !.maturity.default = FALSE]
BothPacks(first) == [p |-> first, q |-> OtherPack]

CoreReceipt == [class |-> "core-release", status |-> "verified", action |-> "allow",
                tier |-> "core-maintained", level |-> "core-supported", blocking |-> FALSE]
Stable == [level |-> "stable-tested", tested |-> From1]
LaneOf(l) == [codex_cli |-> l, copilot_cli |-> Missing]

SoundHost ==
  [target |-> "repo", emit |-> "skill", shared |-> FALSE, asked |-> "auto", states |-> {},
   detected |-> [codex_cli |-> 1, copilot_cli |-> Missing], floor |-> AnyVersion, os |-> "linux",
   shell |-> "bash", profiles |-> {"file"}, lanes |-> LaneOf(Stable), markers |-> TRUE,
   configHome |-> "dir", installRoot |-> "dir", locked |-> {}, requested |-> {"p"},
   packs |-> BothPacks(FirstPack), installed |-> <<>>, mcpFiles |-> {}, misplaced |-> {},
   files |-> "pass", codes |-> {}]
MCAlternatives ==
  [target |-> {"user"}, emit |-> {"plugin"}, shared |-> {TRUE}, asked |-> {"copilot_cli"},
   states |-> {{"codex_cli"}, {"codex_cli", "copilot_cli"}},
   detected |-> {[codex_cli |-> c, copilot_cli |-> 0] : c \in {0, Missing, Unparsed}},
   floor |-> {From1}, os |-> {"aix"}, shell |-> {"fish", "cmd"}, profiles |-> {{"directory"}},
   lanes |-> {LaneOf(l) : l \in {Missing, [level |-> "prep", tested |-> Missing],
                                 [level |-> "blocked", tested |-> AnyVersion]}},
   markers |-> {FALSE}, configHome |-> {"absent", "file"}, installRoot |-> {"absent", "file"},
   locked |-> {{l} : l \in {"config", "root", "state", "journal"}},
   requested |-> {{}, {"p", "q"}, {"none"}},
   packs |-> {BothPacks(m) :
                m \in {[FirstPack EXCEPT !.valid = FALSE], [FirstPack EXCEPT !.legacy = TRUE],
                       [FirstPack EXCEPT !.runtimes = {"codex_cli"}],
                       [FirstPack EXCEPT !.targets = {"user"}],
                       [FirstPack EXCEPT !.invocation = "review"],
                       [FirstPack EXCEPT !.lacking = {{"run"}}],
                       [FirstPack EXCEPT !.lacking = {{"install"}}],
                       [FirstPack EXCEPT !.servers = {"dual"}],
                       [FirstPack EXCEPT !.maturity = Label(2, 1)],
                       [FirstPack EXCEPT !.maturity = Label(1, 0)],
                       [FirstPack EXCEPT !.maturity.blocked = TRUE]}},
   installed |-> {[p |-> r] : r \in {Missing, CoreReceipt, [CoreReceipt EXCEPT !.action = "deny"]}},
   mcpFiles |-> {{"p"}}, misplaced |-> {{"p"}},
   files |-> {"warn", "degraded", "fail"}, codes |-> {{"unmanaged-conflict"}}]

MCOrder == [p |-> 1, q |-> 2, none |-> 3]
MCSound == {SoundHost}

-----------------------------------------------------------------------------
(***************************************************************************)
(* Manifest: a pack in the legacy shape, the same in the canonical shape   *)
(* and in both, and one whose policy and entries do not agree.  An edit    *)
(* makes it a writer, a preview or a retired pack, claims too much for it, *)
(* changes what it is called, or changes its assets.                       *)
(***************************************************************************)

Claims(kind, ref) ==
  [r \in PackRuntimes |->
     [status |-> Missing, ref |-> ref, kind |-> kind, required |-> Missing]]
Canary == [NoSupport EXCEPT !.claims = Claims(Missing, "matrix")]
Live(refs) == [r \in PackRuntimes |-> refs]
Call(name, direct) ==
  [call |-> name, dir |-> name, picker |-> "supported", direct |-> direct]

LegacyPack ==
  [f \in Fields |->
     CASE f = "pack"    -> [id |-> "plan", class |-> "read-oriented", status |-> "active"]
       [] f = "assets"  -> [include |-> {"SKILL.md", "contract.md"}, docs |-> "contract.md"]
       [] f = "targets" -> Bindings(Call("plan", "supported"), Call("plan", Missing))
       [] f = "paths"   -> {"contract.md"}
       [] f = "support" -> Canary
       [] OTHER         -> Missing]
CanonicalPack == Serialize(LegacyPack)
Misplaced == [Generated("codex-config") EXCEPT !.at = "elsewhere"]
MCAssets ==
  {[NewSource(path) EXCEPT !.eligible = eligible] :
     path \in {"SKILL.md", "contract.md", "extra.md"}, eligible \in BOOLEAN}
  \cup {Generated(id) : id \in GeneratedIds} \cup {Misplaced}
WithSupport(support) ==
  DeriveSupport([LegacyPack EXCEPT !.support = support], "plan", CanonicalPack.bindings)
MCStarts ==
  {LegacyPack, CanonicalPack, AttachCompatibilityAliases(CanonicalPack),
   [CanonicalPack EXCEPT !.eligible = {"skill", "codex-config"}]}

Edit(field, value) == [field |-> field, value |-> value]
Supports ==
  {WithSupport(s) : s \in
     {[Canary EXCEPT !.maturity = "preview", !.live = Live({"live-1"})],
      [Canary EXCEPT !.maturity = "preview", !.live = Live({"live-1"}), !.safety = {"live-2"}],
      [Canary EXCEPT !.maturity = "deprecated", !.migration = {"doc"}],
      [Canary EXCEPT !.tier = "verified-external"],
      [Canary EXCEPT !.claims = Claims("pack-runtime-live", "matrix")]}}
MCDiskEdits ==
  {Edit("support", s) : s \in Supports \cup {Canary, [Canary EXCEPT !.maturity = "other"]}}
  \cup {Edit("catalog", [CanonicalPack.catalog EXCEPT !.deprecation = "archived"]),
        Edit("status", "deprecated"), Edit("class", "write-authority"), Edit("hook", TRUE),
        Edit("channel", "canary"), Edit("smoke", {}), Edit("agent", TRUE),
        Edit("eligible", {}), Edit("runtimes", {"codex_cli"}),
        Edit("paths", {"SKILL.md"}),
        Edit("entries", (CanonicalPack.entries \ {Generated("codex-config")}) \cup {Misplaced}),
        Edit("pack", [id |-> "plan", class |-> "write-authority", status |-> "active"])}
MCMemoryEdits ==
  {Edit("support", s) : s \in Supports}
  \cup {Edit("pack", [id |-> "plan", class |-> "write-authority", status |-> "active"]),
        Edit("pack", [id |-> "other", class |-> "read-oriented", status |-> "active"]),
        Edit("pack", [id |-> "plan", class |-> "read-oriented", status |-> "deprecated"]),
        Edit("targets", Bindings(Call("other", "supported"), Call("other", "unverified"))),
        Edit("assets", [include |-> {"SKILL.md", "extra.md"}, docs |-> "extra.md"]),
        Edit("assets", [include |-> {"contract.md"}, docs |-> "contract.md"]),
        Edit("paths", {}), Edit("paths", {"SKILL.md"}),
        Edit("servers", TRUE), Edit("class", "write-authority"),
        Edit("entries", {NewSource("SKILL.md"), [NewSource("contract.md") EXCEPT !.eligible = TRUE]})}

-----------------------------------------------------------------------------
Anyone == CHOOSE c \in MCCallers : TRUE
SomeCall == [manifest |-> Reader, runtime |-> "copilot_cli",
             request |-> [facts |-> {}, surface |-> "hook", caps |-> {}]]

\* A sync that died when the text it left does not parse, and a host with two runtimes
\* of which doctor chooses neither: the reports about the snapshot and the host are
\* judged in their own lanes.
DiedInSync == [TextsOf(Degraded, {}) EXCEPT !.mac = Torn]
Undecided == [SoundHost EXCEPT !.detected = [codex_cli |-> 1, copilot_cli |-> 1]]

GateAtRest == call = SomeCall /\ outcome = Answer(call)
DelegationAtRest == root = Anyone /\ holder = Anyone /\ result = NoEnvelope
ReleaseAtRest ==
  /\ source = [p |-> OfPlain(1), q |-> OfPlain(1)]
  /\ bundle = <<>> /\ writer = NoRelease /\ releases = 0 /\ finished = {}
  /\ revoked = {} /\ planned = Missing /\ installed = Missing /\ since = Missing
SyncAtRest ==
  /\ files = DiedInSync /\ plans = [s \in Stamps |-> Missing] /\ sync = Missing
  /\ journal = [s1 |-> "started", s2 |-> Missing] /\ day = 0 /\ faults = 1
HostAtRest == host = Undecided /\ amiss = 1
ManifestAtRest == disk = LegacyPack /\ memory = Missing /\ edited = <<>> /\ touches = 0

\* Bounds: the key is revoked when what was begun was written, and nothing is released
\* after; the first release is signed and asks for nothing out of the ordinary.
TrustBounded ==
  /\ revoked # {} => Cardinality(finished) = releases
  /\ writer # NoRelease /\ releases = 1 =>
       /\ writer.release.key # Unsigned
       /\ writer.release.sources["p"] \in PlainSources

OthersAtRest(l) ==
  /\ l # "runtime" => GateAtRest
  /\ l # "delegation" => DelegationAtRest
  /\ l # "ci" => CiInit
  /\ l # "release" => ReleaseAtRest
  /\ l # "truth" => SyncAtRest
  /\ l # "doctor" => HostAtRest
  /\ l # "manifest" => ManifestAtRest

Init ==
  /\ \/ lane = "runtime" /\ GateInit
     \/ lane = "delegation" /\ DelegationInit
     \/ lane = "ci" /\ CiInit
     \/ lane = "release" /\ TrustInit
     \/ lane = "truth" /\ (SyncInit(TextsOf(Degraded, {})) \/ SyncInit(TextsOf(Preview, {"mac"})))
     \/ lane = "doctor" /\ HostInit
     \/ lane = "manifest" /\ ShapeInit
  /\ OthersAtRest(lane)

Next ==
  /\ UNCHANGED lane
  /\ \/ /\ lane = "runtime" /\ GateNext
        /\ UNCHANGED <<delegationVars, ciVars, trustVars, syncVars, hostVars, shapeVars>>
     \/ /\ lane = "delegation" /\ DelegationNext
        /\ UNCHANGED <<gateVars, ciVars, trustVars, syncVars, hostVars, shapeVars>>
     \/ /\ lane = "ci" /\ CiNext
        /\ UNCHANGED <<gateVars, delegationVars, trustVars, syncVars, hostVars, shapeVars>>
     \/ /\ lane = "release" /\ TrustNext /\ TrustBounded'
        /\ UNCHANGED <<gateVars, delegationVars, ciVars, syncVars, hostVars, shapeVars>>
     \/ /\ lane = "truth" /\ SyncNext
        /\ UNCHANGED <<gateVars, delegationVars, ciVars, trustVars, hostVars, shapeVars>>
     \/ /\ lane = "doctor" /\ HostNext
        /\ UNCHANGED <<gateVars, delegationVars, ciVars, trustVars, syncVars, shapeVars>>
     \/ /\ lane = "manifest" /\ ShapeNext
        /\ UNCHANGED <<gateVars, delegationVars, ciVars, trustVars, syncVars, hostVars>>

Spec ==
  /\ Init
  /\ [][Next]_<<lane, gateVars, delegationVars, ciVars, trustVars, syncVars, hostVars, shapeVars>>
=============================================================================
