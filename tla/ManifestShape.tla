--------------------------- MODULE ManifestShape ---------------------------
(***************************************************************************)
(* The manifest of a pack: how a record that is written in the legacy      *)
(* shape, in the canonical one or in both is brought into the canonical    *)
(* shape (spec-core, manifest-v2.normalize.ts), what makes it valid        *)
(* (validate/canonical.ts), and the aliases of the legacy shape that it    *)
(* carries in memory, by which a caller may edit it before it is written   *)
(* again.                                                                  *)
(*                                                                         *)
(* A record has every field of both shapes; a field that is not given is   *)
(* Missing.  Fields that are passed on as they are and that one constant   *)
(* or one fixed list decides (tools, permissions, marker files, strategies)*)
(* are left out; the kind of an asset stands for its runtime, its surface  *)
(* and its generator.                                                      *)
(***************************************************************************)
EXTENDS Integers, FiniteSets, Sequences, Sentinels

CONSTANTS
  Starts,       \* the records a manifest may start as
  DiskEdits,    \* what the author of the pack may change in the file
  MemoryEdits,  \* what a caller may change in the manifest it loaded
  Assets,       \* the entries that a manifest may list, or be given
  MaxTouches    \* bound: edits of either kind

VARIABLES
  disk,    \* the record in pack.manifest.yaml
  memory,  \* the manifest that was loaded from it, or Missing
  edited,  \* what the caller has changed in it: a function of fields
  touches  \* number of edits

shapeVars == <<disk, memory, edited, touches>>

PackRuntimes == {"codex_cli", "copilot_cli"}
Targets == {"repo", "user"}
Statuses == {"supported", "unverified", "blocked"}
Classes == {"read-oriented", "dual-mode", "write-authority"}
Channels == {"stable", "preview", "canary"}
Tiers == {"core-maintained", "first-party-official", "verified-external", "local-dev",
          "unverified-external"}
Levels == {"core-supported", "official-preview", "publisher-verified", "local-dev", "unsupported"}
EvidenceKinds == {"lane-matrix", "pack-runtime-live", "deterministic", "docs-only"}
Behaviors == {"remove_if_unmodified", "detach_if_modified", "preserve_unmanaged"}

Labels == INSTANCE WorkflowMaturity WITH
            Lanes <- {}, RuntimeOf <- <<>>, Promoted <- {}, Pack <- Missing
Maturities == DOMAIN Labels!MaturityRank

First(a, b) == IF a # Missing THEN a ELSE b
Clamp(value, S, default) == IF value \in S THEN value ELSE default
IsGiven(S) == S # Missing /\ S # {}
Listed(S) == IF S = Missing THEN {} ELSE S

\* What f says, and g where f says nothing.
Overlay(f, g) == [x \in DOMAIN f \cup DOMAIN g |-> IF x \in DOMAIN f THEN f[x] ELSE g[x]]

\* The fields of the canonical shape.  The aliases are pack, assets, targets and paths.
CanonicalFields ==
  {"name", "class", "status", "channel", "runtimes", "bindings", "agent", "installs", "memory",
   "caps", "servers", "hook", "entries", "owners", "eligible", "smoke", "docs", "catalog",
   "support"}
Aliases == {"pack", "assets", "targets", "paths"}
Fields == CanonicalFields \cup Aliases

-----------------------------------------------------------------------------
(***************************************************************************)
(* Which shape a record has, and which of two shapes speaks first.         *)
(***************************************************************************)

\* detectPackManifestShape; records of neither shape are not modelled.
Shape(r) ==
  IF r.name # Missing \/ r.entries # Missing \/ r.owners # Missing
  THEN "canonical" ELSE "legacy"
HasAliases(r) == \E f \in {"pack", "assets", "targets"} : r[f] # Missing

\* The canonical field first, or its alias.
Prefer(canonical, field, alias) == IF canonical THEN First(field, alias) ELSE First(alias, field)

OfPack(r, part) == IF r.pack = Missing THEN Missing ELSE r.pack[part]

PackName(r) == First(OfPack(r, "id"), r.name)

-----------------------------------------------------------------------------
(***************************************************************************)
(* The runtimes, and how a pack is called from each.                       *)
(***************************************************************************)

DeriveSupportedRuntimes(r) ==
  LET keys == Listed(r.runtimes) \cup UNION {DOMAIN b : b \in {r.bindings, r.targets} \ {Missing}}
  IN  IF keys \cap PackRuntimes # {} THEN keys \cap PackRuntimes ELSE PackRuntimes

NormalizeCompatibility(binding, runtime) ==
  [picker |-> Clamp(binding.picker, Statuses, "supported"),
   direct |-> Clamp(binding.direct, Statuses,
                    IF runtime = "codex_cli" THEN "supported" ELSE "unverified")]

Unbound == [call |-> Missing, dir |-> Missing, picker |-> Missing, direct |-> Missing]
BindingOf(bindings, runtime) ==
  IF bindings = Missing THEN Unbound
  ELSE IF runtime \in DOMAIN bindings THEN bindings[runtime] ELSE Unbound

\* The two judgements of a binding come from one shape, the names from either.
NormalizeRuntimeBindings(r, canonical) ==
  [runtime \in PackRuntimes |->
     LET here == BindingOf(r.bindings, runtime)
         there == BindingOf(r.targets, runtime)
         \* the compatibility is one object, given or not
         judged(b) == b.picker # Missing \/ b.direct # Missing
         lead == IF canonical THEN here ELSE there
         compatibility == NormalizeCompatibility(
                            IF judged(lead) THEN lead ELSE IF canonical THEN there ELSE here, runtime)
     IN  [call |-> First(Prefer(canonical, here.call, there.call), PackName(r)),
          dir |-> First(Prefer(canonical, here.dir, there.dir), PackName(r)),
          picker |-> compatibility.picker, direct |-> compatibility.direct]]

\* deriveRuntimeSupportStatus, deriveCanonicalRuntimeSupportStatus
RuntimeSupportStatus(binding) ==
  CASE binding.picker = "blocked"                                  -> "blocked"
    [] binding.picker = "supported" /\ binding.direct = "supported"   -> "supported"
    [] binding.picker = "unverified" /\ binding.direct = "unverified" -> "unverified"
    [] OTHER                                                       -> "partial"

ValidateCanonicalRuntimeBindings(m) ==
  /\ DOMAIN m.bindings = PackRuntimes
  /\ \A runtime \in PackRuntimes :
       LET b == m.bindings[runtime] IN
         b.call = m.name /\ b.dir = m.name /\ {b.picker, b.direct} \subseteq Statuses

-----------------------------------------------------------------------------
(***************************************************************************)
(* The assets, who owns them and which of them a user may override.        *)
(***************************************************************************)

Include(r) == IF r.assets = Missing THEN {} ELSE r.assets.include
SourceEntries(entries) == {e \in Listed(entries) : ~e.made}
Made(entries) == {e \in Listed(entries) : e.made}
PathsOf(entries) == {e.at : e \in entries}

SourceAssetId(path) == IF path = "SKILL.md" THEN "skill" ELSE "source:" \o path
NewSource(path) ==
  [id |-> SourceAssetId(path), at |-> path, made |-> FALSE, eligible |-> FALSE,
   kind |-> IF path = "SKILL.md" THEN "skill_markdown" ELSE "support_doc"]

\* The entry of a path is kept if there is one.
EntryAt(r, path) ==
  LET known == {e \in SourceEntries(r.entries) : e.at = path}
  IN  IF known = {} THEN NewSource(path) ELSE CHOOSE e \in known : TRUE

\* A path of the aliases makes it eligible.
BuildSourceEntries(r, canonical) ==
  LET listed == PathsOf(SourceEntries(r.entries))
      paths == IF (canonical /\ listed # {}) \/ Include(r) = {} THEN listed ELSE Include(r)
  IN  {[EntryAt(r, path) EXCEPT !.eligible = @ \/ path \in Listed(r.paths)] : path \in paths}

Generated(id) == [id |-> id, at |-> id, made |-> TRUE, eligible |-> FALSE, kind |-> id]

\* The class is read from the canonical field first, whichever shape is preferred.
DefaultGeneratedEntries(r) ==
  LET writes == First(r.class, OfPack(r, "class")) = "write-authority"
      serves == r.servers = TRUE
      profile == r.agent = TRUE /\ PackName(r) # Missing
  IN  {Generated(id) : id \in
         {"ownership-receipt", "codex-metadata", "codex-config", "copilot-package"}
         \cup (IF writes THEN {"codex-write-authority"} ELSE {})
         \cup (IF writes \/ serves \/ r.hook = TRUE THEN {"codex-preflight"} ELSE {})
         \cup (IF profile THEN {"copilot-agent-profile"} ELSE {})
         \cup (IF serves THEN {"codex-mcp"} ELSE {})}

\* What is listed already stays, wanted or not.
BuildGeneratedEntries(r) ==
  LET listed == {e.id : e \in Made(r.entries)}
  IN  Made(r.entries) \cup {e \in DefaultGeneratedEntries(r) : e.id \notin listed}

BuildEligibleAssetIds(r, sources, canonical) ==
  LET derived == {e.id : e \in {s \in sources : s.at \in Listed(r.paths)}}
  IN  IF canonical THEN IF IsGiven(r.eligible) THEN r.eligible ELSE derived
      ELSE IF r.paths # Missing THEN derived ELSE Listed(r.eligible)

DefaultOwner(entry) ==
  [owner |-> "pairslash", leave |-> IF entry.id = "ownership-receipt" THEN "remove_if_unmodified"
                                    ELSE "detach_if_modified"]
BuildAssetOwnership(r, entries) ==
  LET known == IF r.owners = Missing THEN {} ELSE DOMAIN r.owners
      entry(id) == CHOOSE e \in entries : e.id = id
  IN  [id \in {e.id : e \in entries} |-> IF id \in known THEN r.owners[id] ELSE DefaultOwner(entry(id))]

\* strict: what the manifest would be given in this shape it must list itself.  It is
\* compared with what is built from it, so an asset that is listed is as it should be.
ValidateCanonicalRuntimeAssets(m, strict) ==
  /\ m.entries # {}
  /\ \A e, f \in m.entries : (e.id = f.id \/ (e.made = f.made /\ e.at = f.at)) => e = f
  /\ \E e \in SourceEntries(m.entries) : e.at = "SKILL.md" /\ e.kind = "skill_markdown"
  /\ strict => \A e \in DefaultGeneratedEntries(m) :
                 \E f \in Made(m.entries) : f.id = e.id

ValidateCanonicalAssetOwnership(m) ==
  /\ DOMAIN m.owners = {e.id : e \in m.entries}
  /\ \A id \in DOMAIN m.owners : /\ m.owners[id].owner \in {"pairslash", "user", "system"}
                                 /\ m.owners[id].leave \in Behaviors
  /\ "ownership-receipt" \in DOMAIN m.owners
  /\ m.owners["ownership-receipt"] = [owner |-> "pairslash", leave |-> "remove_if_unmodified"]

ValidateCanonicalOverridePolicy(m) ==
  m.eligible \subseteq {e.id : e \in m.entries} \ {"ownership-receipt"}

-----------------------------------------------------------------------------
(***************************************************************************)
(* Smoke checks, the entry of the catalog, and what is claimed of support. *)
(***************************************************************************)

PreferredTarget(runtime, installs) ==
  LET wish == IF runtime = "codex_cli" THEN "repo" ELSE "user"
  IN  IF wish \in installs THEN {wish} ELSE installs

BuildSmokeChecks(r, runtimes, installs) ==
  IF IsGiven(r.smoke) THEN r.smoke
  ELSE UNION {PreferredTarget(runtime, installs) \X {runtime} \X {"preview_install", "doctor"} :
                runtime \in runtimes}

ValidateCanonicalSmokeChecks(m) ==
  /\ m.smoke # {}
  /\ \A check \in m.smoke : check[1] \in m.installs /\ check[2] \in m.runtimes

NoCatalog == [maturity |-> Missing, discovered |-> Missing, recommended |-> Missing,
              release |-> Missing, deprecation |-> Missing, replacement |-> Missing]

DeriveCatalog(r, name, channel, status) ==
  LET given == First(r.catalog, NoCatalog)
  IN  [maturity |-> First(given.maturity, channel),
       discovered |-> First(given.discovered, TRUE),
       recommended |-> First(given.recommended, name = "pairslash-plan"),
       release |-> Clamp(First(given.release, IF channel = "canary" THEN "appendix" ELSE "public"),
                         {"public", "appendix", "hidden"}, "public"),
       deprecation |-> Clamp(First(given.deprecation,
                                   IF status = "deprecated" THEN "deprecated" ELSE "active"),
                             {"active", "deprecated", "archived"}, "active"),
       replacement |-> given.replacement]

ValidateCanonicalCatalog(m) ==
  /\ m.catalog.maturity = m.channel /\ m.channel \in Channels
  /\ m.catalog.release \in {"public", "appendix", "hidden"}
  /\ m.catalog.deprecation \in {"active", "deprecated", "archived"}
  /\ m.catalog.recommended => m.catalog.discovered /\ m.catalog.deprecation = "active"
  /\ m.catalog.deprecation = "archived" => m.status = "deprecated"

\* Evidence: the matrix, records of live lanes, other files and what is elsewhere.
IsLiveRecord(ref) == ref \in {"live-1", "live-2"}
IsRepoLocal(ref) == ref # "remote"

NoSupport ==
  [publisher |-> Missing, tier |-> Missing, level |-> Missing, maturity |-> Missing,
   from |-> Missing, claims |-> Missing, deterministic |-> Missing, live |-> Missing,
   safety |-> Missing, migration |-> Missing, label |-> Missing, entrypoint |-> Missing,
   docs |-> Missing, wording |-> Missing, fallback |-> Missing]
NoClaim == [status |-> Missing, ref |-> Missing, kind |-> Missing, required |-> Missing]

DeriveRuntimeSupport(given, bindings) ==
  [runtime \in PackRuntimes |->
     LET c == IF given.claims = Missing THEN NoClaim ELSE given.claims[runtime]
     IN  [status |-> Clamp(First(c.status, RuntimeSupportStatus(bindings[runtime])),
                           Statuses \cup {"partial"}, "unverified"),
          ref |-> c.ref,
          kind |-> Clamp(First(c.kind, IF c.ref # Missing THEN "lane-matrix" ELSE "docs-only"),
                         EvidenceKinds, "lane-matrix"),
          required |-> First(c.required, TRUE)]]

DeriveSupport(r, name, bindings) ==
  LET given == First(r.support, NoSupport)
      core == r.memory = "write" \/ name = "pairslash-plan"
      maturity == Clamp(First(given.maturity, IF name = "pairslash-plan" THEN "preview" ELSE "canary"),
                        Maturities, "canary")
  IN  [publisher |-> First(given.publisher, "pairslash"),
       tier |-> Clamp(First(given.tier, IF core THEN "core-maintained" ELSE "first-party-official"),
                      Tiers, "first-party-official"),
       level |-> Clamp(First(given.level, IF name = "pairslash-plan" THEN "core-supported"
                                          ELSE "official-preview"), Levels, "official-preview"),
       maturity |-> maturity,
       claims |-> DeriveRuntimeSupport(given, bindings),
       from |-> IF given.from = Missing THEN maturity ELSE Clamp(given.from, Maturities, "canary"),
       deterministic |-> First(given.deterministic, {"matrix"}),
       live |-> First(given.live, [runtime \in PackRuntimes |-> {}]),
       safety |-> Listed(given.safety), migration |-> Listed(given.migration),
       label |-> Clamp(given.label, Maturities, maturity),
       entrypoint |-> First(given.entrypoint, TRUE),
       docs |-> First(given.docs, FALSE), wording |-> First(given.wording, FALSE),
       fallback |-> Clamp(given.fallback, Maturities, "canary")]

\* A claim rests on evidence of its kind, and goes no further than the binding.
ValidRuntimeSupport(claim, binding) ==
  LET surface == RuntimeSupportStatus(binding)
  IN  /\ claim.status \in Statuses \cup {"partial"} /\ claim.kind \in EvidenceKinds
      /\ claim.ref # Missing => IsRepoLocal(claim.ref)
      /\ claim.status \in {"supported", "partial"} => claim.ref # Missing
      /\ claim.kind = "lane-matrix" => claim.ref = "matrix"
      /\ claim.kind = "pack-runtime-live" => claim.ref # Missing /\ IsLiveRecord(claim.ref)
      /\ surface = "blocked" => claim.status = "blocked"
      /\ surface = "unverified" => claim.status # "supported"

ValidTransition(s) ==
  s.maturity \in Labels!WorkflowTransitionMap[First(s.from, s.maturity)]

ValidEvidence(s) ==
  /\ s.deterministic # {}
  /\ \A ref \in UNION {s.live[runtime] : runtime \in PackRuntimes} \cup s.safety : IsLiveRecord(ref)
  /\ \A ref \in s.migration : IsRepoLocal(ref)
  /\ \A runtime \in PackRuntimes :
       /\ s.maturity \in {"preview", "beta", "stable"} => s.live[runtime] # {}
       /\ s.maturity \in {"beta", "stable"} => Cardinality(s.live[runtime]) >= 2

ValidPromotionChecklist(s) ==
  /\ s.label = s.maturity
  /\ s.maturity \in {"preview", "beta", "stable"} => s.entrypoint
  /\ s.maturity \in {"beta", "stable"} => s.docs
  /\ s.maturity = "stable" => s.wording

ValidDemotionPolicy(s) ==
  s.maturity # "deprecated" => Labels!MaturityRank[s.fallback] <= Labels!MaturityRank[s.maturity]

\* One of the three that says a pack is retired requires the others.
ValidDeprecation(m) ==
  LET retired == m.support.maturity = "deprecated"
  IN  /\ retired <=> m.status = "deprecated"
      /\ retired <=> m.catalog.deprecation # "active"
      /\ retired => /\ m.catalog.replacement # Missing \/ m.support.migration # {}
                    /\ ~m.catalog.recommended

WritesMemory(m) ==
  m.class = "write-authority" \/ m.memory = "write" \/ "memory_write_global" \in m.caps

ValidWriteAuthority(m) ==
  LET s == m.support
  IN  WritesMemory(m) =>
        /\ s.maturity \in {"preview", "beta", "stable"} => s.safety # {}
        /\ s.maturity = "stable" =>
             /\ Cardinality(s.safety) >= 2
             /\ \A runtime \in PackRuntimes : s.claims[runtime].required =>
                  /\ s.claims[runtime].kind = "pack-runtime-live"
                  /\ s.claims[runtime].status \in {"supported", "partial"}

ValidPublisherClaims(m) ==
  LET s == m.support
  IN  /\ s.tier \in Tiers /\ s.level \in Levels
      /\ m.memory = "write" \/ "memory_write_global" \in m.caps \/ s.level = "core-supported"
           => s.tier = "core-maintained"
      /\ s.level = "publisher-verified" => s.tier = "verified-external"
      /\ IF s.publisher = "pairslash" THEN s.tier # "verified-external"
         ELSE s.tier \notin {"core-maintained", "first-party-official"}

ValidateCanonicalSupport(m) ==
  /\ m.support.maturity \in Maturities /\ m.support.fallback \in Maturities
  /\ \A runtime \in PackRuntimes : ValidRuntimeSupport(m.support.claims[runtime], m.bindings[runtime])
  /\ ValidTransition(m.support) /\ ValidEvidence(m.support)
  /\ ValidPromotionChecklist(m.support) /\ ValidDemotionPolicy(m.support)
  /\ ValidDeprecation(m) /\ ValidWriteAuthority(m) /\ ValidPublisherClaims(m)

-----------------------------------------------------------------------------
(***************************************************************************)
(* The whole manifest.                                                     *)
(***************************************************************************)

NoAliases == [f \in Aliases |-> Missing]

\* The docs and the ownership are read from the canonical fields first in any case.
ToCanonicalManifest(r, canonical) ==
  LET name == First(PackName(r), "unknown-pack")
      class == First(OfPack(r, "class"), r.class)
      status == First(First(OfPack(r, "status"), r.status), "active")
      channel == First(r.channel, "stable")
      bindings == NormalizeRuntimeBindings(r, canonical)
      runtimes == DeriveSupportedRuntimes(r)
      installs == IF IsGiven(r.installs) THEN r.installs ELSE Targets
      sources == BuildSourceEntries(r, canonical)
      entries == sources \cup BuildGeneratedEntries(r)
  IN  [name |-> name, class |-> Clamp(class, Classes, "read-oriented"),
       status |-> Clamp(status, {"active", "draft", "deprecated"}, "active"),
       channel |-> Clamp(channel, Channels, "stable"),
       runtimes |-> runtimes, bindings |-> bindings, agent |-> r.agent, installs |-> installs,
       memory |-> First(r.memory, "read"), caps |-> First(r.caps, {"repo_read", "memory_read"}),
       servers |-> r.servers = TRUE, hook |-> r.hook, entries |-> entries,
       owners |-> BuildAssetOwnership(r, entries),
       eligible |-> BuildEligibleAssetIds(r, sources, canonical),
       smoke |-> BuildSmokeChecks(r, runtimes, installs),
       docs |-> First(First(r.docs, IF r.assets = Missing THEN Missing ELSE r.assets.docs), "default"),
       catalog |-> DeriveCatalog(r, name, channel, status),
       support |-> DeriveSupport(r, name, bindings)]

\* Slip: every source may be overridden.
OffersEverySource(m) == PathsOf(SourceEntries(m.entries))

\* The paths that a user may override name sources alone.
LegacyLocalOverridePolicy(m) == {e.at : e \in {s \in SourceEntries(m.entries) : s.id \in m.eligible}}

AttachCompatibilityAliases(m) ==
  [f \in Fields |->
     CASE f = "pack"    -> [id |-> m.name, class |-> m.class, status |-> m.status]
       [] f = "assets"  -> [include |-> PathsOf(SourceEntries(m.entries)), docs |-> m.docs]
       [] f = "targets" -> m.bindings
       [] f = "paths"   -> LegacyLocalOverridePolicy(m)
       [] OTHER         -> m[f]]

\* The shape speaks first, and canonical where a record has both.
ByShape(r) == ToCanonicalManifest(r, Shape(r) = "canonical")

\* What manifest-v2.schema.ts asks of a record; that there are entries is asked with the
\* assets.
Complete(m) ==
  /\ \A f \in CanonicalFields \ {"agent", "hook", "entries"} : m[f] # Missing
  /\ \A f \in DOMAIN m.catalog \ {"replacement"} : m.catalog[f] # Missing
  /\ \A f \in DOMAIN m.support \ {"from"} : m.support[f] # Missing
  /\ \A runtime \in PackRuntimes : m.support.claims[runtime].required # Missing
  /\ m.support.from \in Maturities \cup {Missing}
  /\ m.class \in Classes /\ m.status \in {"active", "draft", "deprecated"}

ValidateCanonical(m, strict) ==
  /\ Complete(m)
  /\ m.runtimes = PackRuntimes /\ m.installs \subseteq Targets
  /\ ValidateCanonicalRuntimeBindings(m)
  /\ ValidateCanonicalRuntimeAssets(m, strict)
  /\ ValidateCanonicalAssetOwnership(m)
  /\ ValidateCanonicalOverridePolicy(m)
  /\ ValidateCanonicalSmokeChecks(m)
  /\ ValidateCanonicalCatalog(m)
  /\ ValidateCanonicalSupport(m)

\* A record in the canonical shape alone is judged as it is written, any other as it is
\* normalized.
ValidatePackManifestV2(r) ==
  LET strict == Shape(r) = "canonical" /\ ~HasAliases(r)
  IN  ValidateCanonical(IF strict THEN r ELSE ByShape(r), strict)

LoadPackManifest(r) == AttachCompatibilityAliases(ByShape(r))

\* serializePackManifestV2: where there are aliases they speak first.
Serialize(m) ==
  LET canonical == IF HasAliases(m) THEN FALSE ELSE Shape(m) = "canonical"
  IN  Overlay(ToCanonicalManifest(m, canonical), NoAliases)

-----------------------------------------------------------------------------
(***************************************************************************)
(* The records and edits that are meant.  Assets has all that is made of a *)
(* path or generated, and any source also as an eligible one.              *)
(***************************************************************************)

SourcePaths == PathsOf({e \in Assets : ~e.made})
Documents == SourcePaths \cup {"default"}
AssetIds == {e.id : e \in Assets}
GeneratedIds ==
  {"ownership-receipt", "codex-metadata", "codex-config", "copilot-package",
   "codex-write-authority", "codex-preflight", "copilot-agent-profile", "codex-mcp"}

IsTyped(field, value) ==
  value # Missing =>
    /\ field = "entries" => value \subseteq Assets
    /\ field = "assets" => /\ value.include \subseteq SourcePaths
                           /\ value.docs \in Documents \/ value.docs = Missing
    /\ field = "docs" => value \in Documents
    /\ field \in {"bindings", "targets"} =>
         value = [runtime \in DOMAIN value |-> [f \in DOMAIN Unbound |-> value[runtime][f]]]
    /\ field = "owners" => value = [id \in DOMAIN value |-> value[id]]
    /\ field = "catalog" => value = [f \in DOMAIN NoCatalog |-> value[f]]
    /\ field = "support" =>
         /\ value = [f \in DOMAIN NoSupport |-> value[f]]
         /\ value.claims # Missing =>
              value.claims = [runtime \in PackRuntimes |->
                                [f \in DOMAIN NoClaim |-> value.claims[runtime][f]]]
         /\ value.from = Missing => [value EXCEPT !.from = value.maturity] # Missing

ASSUME AssetsAreEntries ==
  /\ Assets \subseteq [id : STRING, at : STRING, made : BOOLEAN, eligible : BOOLEAN, kind : STRING]
  /\ \A e \in Assets : ~e.made => [e EXCEPT !.eligible = TRUE] \in Assets
  /\ \A path \in SourcePaths : NewSource(path) \in Assets
  /\ \A id \in GeneratedIds : Generated(id) \in Assets

\* Nothing that a manifest says is Missing.
ASSUME MissingIsNothing ==
  /\ Missing \notin BOOLEAN
  /\ Missing \notin Statuses \cup {"partial"} \cup EvidenceKinds \cup Maturities
  /\ Missing \notin [include : SUBSET SourcePaths, docs : Documents]
  /\ \A S \in SUBSET SourcePaths : S # Missing
  /\ \A S \in SUBSET AssetIds : S # Missing
  /\ \A S \in SUBSET Assets : S # Missing

ASSUME ManifestsAreTyped ==
  /\ \A r \in Starts : DOMAIN r = Fields /\ \A f \in Fields : IsTyped(f, r[f])
  /\ \A e \in DiskEdits \cup MemoryEdits : e.field \in Fields /\ IsTyped(e.field, e.value)

-----------------------------------------------------------------------------
ShapeInit == disk \in Starts /\ memory = Missing /\ edited = <<>> /\ touches = 0

EditFile ==
  /\ memory = Missing /\ touches < MaxTouches
  /\ \E e \in DiskEdits : disk' = [disk EXCEPT ![e.field] = e.value]
  /\ touches' = touches + 1
  /\ UNCHANGED <<memory, edited>>

Load ==
  /\ memory = Missing
  /\ ValidatePackManifestV2(disk)
  /\ memory' = LoadPackManifest(disk)
  /\ UNCHANGED <<disk, edited, touches>>

EditManifest ==
  /\ memory # Missing /\ touches < MaxTouches
  /\ \E e \in MemoryEdits : edited' = Overlay([f \in {e.field} |-> e.value], edited)
  /\ touches' = touches + 1
  /\ UNCHANGED <<disk, memory>>

Rewrite ==
  /\ memory # Missing
  /\ disk' = Serialize(Overlay(edited, memory))
  /\ memory' = Missing /\ edited' = <<>>
  /\ UNCHANGED touches

ShapeNext == EditFile \/ Load \/ EditManifest \/ Rewrite

ShapeSpec == ShapeInit /\ [][ShapeNext]_shapeVars

-----------------------------------------------------------------------------
(***************************************************************************)
(* Properties.                                                             *)
(***************************************************************************)

\* What a manifest that is read a second time becomes: an asset the policy names is
\* eligible in its entry too.  Written by its aliases it loses a generated asset that
\* the policy names.
Reread(m) ==
  [m EXCEPT !.entries = {[e EXCEPT !.eligible = @ \/ (~e.made /\ e.id \in m.eligible)] : e \in @}]
Rewritten(m) ==
  [Reread(m) EXCEPT !.eligible = @ \cap {e.id : e \in SourceEntries(m.entries)}]

\* The fields that an edit reaches.
Reach(field) ==
  CASE field = "pack"    -> {"name", "class", "status"}
    [] field \in {"assets", "entries"} -> {"entries", "owners", "eligible"}
    [] field = "targets" -> {"bindings"}
    [] field = "paths"   -> {"entries", "eligible"}
    [] field \in {"class", "servers", "agent", "hook"} -> {field, "entries", "owners"}
    [] OTHER             -> {field}

EligibleAt(entries) == {e.at : e \in {s \in Listed(entries) : s.eligible}}
Same(m, n, S) == \A f \in S : m[f] = n[f]

\* The pack has a name, and its class is not write-authority in the alias alone: the
\* class is read from the alias, but the generated assets from the canonical field.
Agrees(r) ==
  /\ PackName(r) # Missing
  /\ OfPack(r, "class") = "write-authority" => r.class \in {Missing, "write-authority"}

\* A manifest that loads is valid when it is validated again, and means the same to the
\* resolver, which normalizes it once more.
LoadsSettled ==
  memory = Missing /\ memory' # Missing /\ Agrees(disk) =>
    /\ ValidatePackManifestV2(memory')
    /\ Same(ByShape(memory'), Reread(memory'), CanonicalFields)

\* A rewrite leaves what was not edited as it was, and as valid.
RewritesOnlyEdits ==
  memory # Missing /\ memory' = Missing /\ Agrees(disk) =>
    /\ Same(disk', Rewritten(memory),
            CanonicalFields \ UNION {Reach(f) : f \in DOMAIN edited})
    /\ DOMAIN edited = {} => ValidatePackManifestV2(disk')

\* No asset of what is written may be overridden that neither the manifest nor the edit
\* names.
EditOf(f) == IF f \in DOMAIN edited THEN edited[f] ELSE Missing
RewriteOffersNothing ==
  memory # Missing /\ memory' = Missing =>
    EligibleAt(disk'.entries) \subseteq
      EligibleAt(memory.entries) \cup EligibleAt(EditOf("entries"))
      \cup memory.paths \cup Listed(EditOf("paths"))

KeepsItsMeaning == LoadsSettled /\ RewritesOnlyEdits /\ RewriteOffersNothing
ManifestKeepsItsMeaning == [][KeepsItsMeaning]_shapeVars
=============================================================================
