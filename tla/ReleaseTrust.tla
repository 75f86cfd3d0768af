---------------------------- MODULE ReleaseTrust ----------------------------
(***************************************************************************)
(* Release trust: packages/core/spec-core/src/release-trust.ts, written by *)
(* scripts/build-release-trust.mjs and read by the installer, which        *)
(* assesses each pack it selects, refuses what the assessment or the       *)
(* change since the installed receipt blocks, and keeps the receipt.       *)
(*                                                                         *)
(* One pack is followed.  A pack's source is its manifest and the content  *)
(* of its assets; a digest is what it is the digest of; a signature is the *)
(* key and what was signed.  A release is written file by file and may be  *)
(* interrupted anywhere, leaving the file it was writing torn.  The        *)
(* authority and policy files do not change; keys may be revoked.          *)
(*                                                                         *)
(* An install or update decides before its prompt: what it assessed then   *)
(* is what it applies, whatever was edited, released or revoked while the  *)
(* prompt waited.  One command at a time installs or uninstalls, and an    *)
(* assessment reads the trust directory at one moment.                     *)
(***************************************************************************)
EXTENDS Naturals, FiniteSets, SequencesExt, Sentinels

CONSTANTS
  Packs,          \* the packs of a release, in the order they are written
  FollowedPack,   \* the one that is installed
  Sources,        \* Sources[p]: the sources p may have
  Keys,           \* signing keys
  Unsigned,       \* no key
  Publishers,     \* Publishers[b]: source class and keys of each publisher of trust-policy.yaml
  Strangers,      \* publishers it does not name
  Authority,      \* trust/pack-authority.yaml: core, the packs; allowed[c], the packs of each
  HighRisk,       \* HIGH_RISK_CAPABILITIES
  Legacy,         \* versions that may be installed without a receipt
  MaxReleases     \* bound: releases written

VARIABLES
  source,     \* each pack's source
  bundle,     \* the files of the trust directory
  writer,     \* the release that is being written, and its next file
  releases,   \* releases begun
  finished,   \* history: those that were written to the last file
  revoked,    \* keys that were revoked
  planned,    \* the receipt of the plan at the prompt, and the keys revoked by then
  installed,  \* the receipt the pack is installed with
  since       \* history: what it was installed as, whether since then it was ever a
              \* release and every version parsed, and the keys that were revoked
              \* when what is installed now was planned

bundleVars == <<bundle, writer, releases, finished>>
installVars == <<planned, installed, since>>
trustVars == <<source, revoked, bundleVars, installVars>>

NoRelease == [pc |-> "idle"]

\* A file of the directory: metadata and signature of each pack and of the release.
Release == "release"
File(kind, of) == IF <<kind, of>> \in DOMAIN bundle THEN bundle[<<kind, of>>] ELSE Missing
Without(f) == [g \in DOMAIN bundle \ {f} |-> bundle[g]]

-----------------------------------------------------------------------------
(***************************************************************************)
(* Writing a release.                                                      *)
(***************************************************************************)

\* buildPackMetadataEnvelope
Metadata(p, src) == [pack |-> p, manifest |-> src.manifest, assets |-> src.assets]

Signature(key, payload) == [key |-> key, payload |-> payload]

\* buildReleaseManifest, of a release r
ReleaseManifest(r) ==
  [release |-> r.number, publisher |-> r.publisher,
   packs |-> [p \in ToSet(Packs) |->
                [metadata |-> Metadata(p, r.sources[p]), signed |-> r.key # Unsigned]]]

\* The files in the order they are written: of each pack and then of the release its
\* metadata and, where there is a key, its signature; the checksums last.
Kinds(r) == IF r.key = Unsigned THEN <<"metadata">> ELSE <<"metadata", "signature">>
FilesOf(r) ==
  LET owners == Append(Packs, Release)
      n == Len(Kinds(r))
  IN  Append([i \in 1 .. Len(owners) * n |->
                <<Kinds(r)[((i - 1) % n) + 1], owners[((i - 1) \div n) + 1]>>],
             <<"checksums", Release>>)

Payload(r, of) == IF of = Release THEN ReleaseManifest(r) ELSE Metadata(of, r.sources[of])
ContentOf(r, f) ==
  CASE f[1] = "metadata"  -> Payload(r, f[2])
    [] f[1] = "signature" -> Signature(r.key, Payload(r, f[2]))
    [] f[1] = "checksums" -> bundle

\* What a release may be, and what its files but the checksums hold.
PackSources == {s \in [ToSet(Packs) -> UNION {Sources[p] : p \in ToSet(Packs)}] :
                  \A p \in ToSet(Packs) : s[p] \in Sources[p]}
Releases == [number : 1 .. MaxReleases, key : Keys \cup {Unsigned},
             publisher : DOMAIN Publishers \cup Strangers, sources : PackSources]
Owners == ToSet(Packs) \cup {Release}
Payloads == {Payload(r, of) : r \in Releases, of \in Owners}
Contents == Payloads \cup {Signature(k, payload) : k \in Keys \cup {Unsigned}, payload \in Payloads}
FileNames == ({"metadata", "signature"} \X Owners) \cup {<<"checksums", Release>>}

\* The pack is one of the release, whose own files have other names than those of any
\* pack; and a file that is gone or torn is read as nothing that is ever written.
ASSUME BundleAssumption ==
  /\ MaxReleases \in Nat
  /\ Packs \in Seq(ToSet(Packs)) /\ FollowedPack \in ToSet(Packs) /\ Release \notin ToSet(Packs)
  /\ Missing # Torn /\ {Missing, Torn} \cap Contents = {}
  /\ \A names \in SUBSET FileNames :
       {Missing, Torn} \cap [names -> Contents \cup {Torn}] = {}

LowTiers == {"local-dev", "unverified-external"}

Plan(receipt) == [receipt |-> receipt, revoked |-> revoked]

Begins(plan) ==
  [caps |-> plan.receipt.caps, memory |-> plan.receipt.memory, version |-> plan.receipt.version,
   released |-> plan.receipt.tier \notin LowTiers, parsed |-> plan.receipt.version # Unparsed,
   revoked |-> plan.revoked]
Continues(plan) ==
  [since EXCEPT !.released = @ \/ plan.receipt.tier \notin LowTiers,
                !.parsed = @ /\ plan.receipt.version # Unparsed,
                !.revoked = plan.revoked]

TrustInit ==
  /\ source \in PackSources
  /\ bundle = <<>>
  /\ writer = NoRelease
  /\ releases = 0 /\ finished = {}
  /\ revoked = {}
  /\ planned = Missing
  /\ installed \in {Missing} \cup
       {[tier |-> "local-dev", verified |-> FALSE, key |-> Unsigned, caps |-> {},
         memory |-> "none", version |-> v, content |-> Missing] : v \in Legacy}
  /\ since = IF installed = Missing THEN Missing ELSE Begins(Plan(installed))

\* build-release-trust.mjs compiles the packs, then writeReleaseTrustBundle runs.
BeginRelease(key, publisher) ==
  /\ writer = NoRelease
  /\ releases < MaxReleases
  /\ releases' = releases + 1
  /\ writer' = [pc |-> "clear", next |-> 1,
                release |-> [number |-> releases', key |-> key, publisher |-> publisher,
                             sources |-> source]]
  /\ UNCHANGED <<source, revoked, bundle, finished, installVars>>

\* clearReleaseTrustOutputDir: the packs directory, in any order, then these.
PackFiles == {f \in DOMAIN bundle : f[2] # Release}
Cleared == <<<<"metadata", Release>>, <<"signature", Release>>, <<"checksums", Release>>>>
NextToClear ==
  IF PackFiles # {} THEN PackFiles
  ELSE {Cleared[i] : i \in {j \in DOMAIN Cleared :
                             /\ Cleared[j] \in DOMAIN bundle
                             /\ \A h \in 1 .. j - 1 : Cleared[h] \notin DOMAIN bundle}}

ClearFile ==
  /\ writer.pc = "clear"
  /\ \E f \in NextToClear : bundle' = Without(f)
  /\ UNCHANGED <<source, revoked, writer, releases, finished, installVars>>

BeginWriting ==
  /\ writer.pc = "clear" /\ NextToClear = {}
  /\ writer' = [writer EXCEPT !.pc = "write"]
  /\ UNCHANGED <<source, revoked, bundle, releases, finished, installVars>>

WriteBundleFile ==
  /\ writer.pc = "write"
  /\ LET f == FilesOf(writer.release)[writer.next]
     IN  bundle' = [g \in DOMAIN bundle \cup {f} |->
                      IF g = f THEN ContentOf(writer.release, f) ELSE bundle[g]]
  /\ IF writer.next = Len(FilesOf(writer.release))
     THEN writer' = NoRelease /\ finished' = finished \cup {writer.release}
     ELSE writer' = [writer EXCEPT !.next = @ + 1] /\ UNCHANGED finished
  /\ UNCHANGED <<source, revoked, releases, installVars>>

\* The writer is interrupted, in the middle of a file or between two.
ReleaseDies ==
  /\ writer # NoRelease
  /\ writer' = NoRelease
  /\ \/ UNCHANGED bundle
     \/ /\ writer.pc = "write"
        /\ LET f == FilesOf(writer.release)[writer.next]
           IN  bundle' = [g \in DOMAIN bundle \cup {f} |-> IF g = f THEN Torn ELSE bundle[g]]
  /\ UNCHANGED <<source, revoked, releases, finished, installVars>>

-----------------------------------------------------------------------------
(***************************************************************************)
(* Verifying one.                                                          *)
(***************************************************************************)

\* Mutant: without a checksum set there is nothing to compare.
ChecksumsIfAny ==
  File("checksums", Release) # Missing =>
    File("checksums", Release) = Without(<<"checksums", Release>>)

\* validateTrustBundleChecksums: listed and there, the same files of the same content.
ChecksumsHold == File("checksums", Release) = Without(<<"checksums", Release>>)

ReadableManifest == File("metadata", Release) \notin {Missing, Torn}

\* verifyDetachedSignature under a key of the publisher that was not revoked
SignedBy(keys, of) ==
  LET sig == File("signature", of)
  IN  /\ sig \notin {Missing, Torn}
      /\ sig.key \in keys \ revoked
      /\ sig.payload = File("metadata", of)

\* Mutant: the manifest is compared, what it compiles to is not.
MatchesManifestOnly(p, src) == File("metadata", p).manifest = src.manifest

\* The digests of verifyReleaseBundleForPack
MatchesSource(p, src) == File("metadata", p) = Metadata(p, src)

\* verifyReleaseBundleForPack
VerifiesPack(p, src) ==
  /\ ReadableManifest
  /\ File("signature", Release) # Missing
  /\ ChecksumsHold
  /\ LET manifest == File("metadata", Release)
     IN  /\ manifest.publisher \in DOMAIN Publishers
         /\ SignedBy(Publishers[manifest.publisher].keys, Release)
         /\ p \in DOMAIN manifest.packs
         /\ File("metadata", p) # Missing
         /\ manifest.packs[p].signed
         /\ SignedBy(Publishers[manifest.publisher].keys, p)
         /\ MatchesSource(p, src)

\* verifyReleaseTrustBundle
VerifyReleaseTrustBundle ==
  /\ ReadableManifest
  /\ File("signature", Release) # Missing
  /\ ChecksumsHold
  /\ LET manifest == File("metadata", Release)
     IN  /\ manifest.publisher \in DOMAIN Publishers
         /\ SignedBy(Publishers[manifest.publisher].keys, Release)
         /\ \A p \in DOMAIN manifest.packs :
              /\ File("metadata", p) = manifest.packs[p].metadata
              /\ manifest.packs[p].signed
              /\ SignedBy(Publishers[manifest.publisher].keys, p)

\* verifyReleaseTrustBundleStructure: no key is looked at.
VerifyReleaseTrustBundleStructure ==
  /\ ReadableManifest
  /\ ChecksumsHold
  /\ LET packs == File("metadata", Release).packs
         signed == {p \in DOMAIN packs : packs[p].signed}
         expected == IF signed = {} THEN {} ELSE signed \cup {Release}
     IN  /\ signed \in {{}, DOMAIN packs}
         /\ \A p \in DOMAIN packs : File("metadata", p) = packs[p].metadata
         /\ {f[2] : f \in {g \in DOMAIN bundle : g[1] = "signature"}} = expected

-----------------------------------------------------------------------------
(***************************************************************************)
(* Assessing a pack.                                                       *)
(***************************************************************************)

Actions == <<"allow", "ask", "deny">>
MergeAction(actions) ==
  Actions[CHOOSE i \in DOMAIN Actions :
            /\ Actions[i] \in actions
            /\ \A j \in DOMAIN Actions : Actions[j] \in actions => j <= i]

\* deriveManifestRuntimeSupportStatus
ManifestSupport(m) ==
  CASE m.picker = "blocked" -> "blocked"
    [] {m.picker, m.direct} = {"supported"} -> "supported"
    [] {m.picker, m.direct} = {"unverified"} -> "unverified"
    [] OTHER -> "partial"

\* evaluateRuntimeSupportClaim
RuntimeSupportActions(m) ==
  (IF ManifestSupport(m) = "blocked" /\ m.declared # "blocked" THEN {"deny"} ELSE {})
  \cup (IF \/ ManifestSupport(m) = "unverified" /\ m.declared = "supported"
           \/ m.declared \in {"supported", "partial"} /\ ~m.evidence
        THEN {"ask"} ELSE {})

\* evaluatePackTrustAuthority
AuthorizedTier(m) ==
  IF m.claim # "core-maintained" THEN m.claim
  ELSE IF m.publisher # "pairslash" THEN "verified-external"
  ELSE IF FollowedPack \in Authority.core THEN m.claim ELSE "first-party-official"

AuthorityErrors(m) ==
  \/ m.publisher = "pairslash" /\ (m.claim = "core-maintained" <=> FollowedPack \notin Authority.core)
  \/ m.publisher # "pairslash" /\ m.claim = "core-maintained"
  \/ m.memory = "write" /\ FollowedPack \notin Authority.allowed["memory_write_global"]
  \/ \E c \in m.caps \cap HighRisk : FollowedPack \notin Authority.allowed[c]

\* Mutant: the authority file is only asked about releases.
TrustsLocalSources(m, class) ==
  IF class # "local-source" /\ AuthorityErrors(m) THEN {"deny"} ELSE {}

AuthorityActions(m, class) ==
  IF \/ AuthorityErrors(m)
     \/ /\ \/ m.memory = "write"
           \/ "memory_write_global" \in m.caps
        /\ AuthorizedTier(m) # "core-maintained"
  THEN {"deny"} ELSE {}

\* resolveTrustTier
TrustTier(m, class) ==
  CASE class = "local-source" -> "local-dev"
    [] class = "external-unverified" -> "unverified-external"
    [] OTHER -> AuthorizedTier(m)

\* resolveBasePolicyAction, with the defaults of trust-policy.yaml
BaseAction(tier, class) ==
  CASE tier = "core-maintained" -> "allow"
    [] tier # "unverified-external" -> "ask"
    [] class \in {"first-party-release", "local-source"} -> "allow"
    [] class = "external-trusted" -> "ask"
    [] class = "external-unverified" -> "deny"

DescriptorActions(m, class) ==
  IF m.described THEN {} ELSE {IF class = "local-source" THEN "ask" ELSE "deny"}

\* assessPackTrust, of the pack where it was released or of a copy elsewhere
SourceClass(verified, inRepo) ==
  IF verified THEN Publishers[File("metadata", Release).publisher].class
  ELSE IF inRepo THEN "local-source" ELSE "external-unverified"

AssessPackTrust(src, inRepo) ==
  LET m == src.manifest
      verified == VerifiesPack(FollowedPack, src)
      class == SourceClass(verified, inRepo)
      tier == TrustTier(m, class)
  IN  [action |-> MergeAction({"allow", BaseAction(tier, class)} \cup RuntimeSupportActions(m)
                                \cup DescriptorActions(m, class) \cup AuthorityActions(m, class)),
       receipt |-> [tier |-> tier, verified |-> verified,
                    key |-> IF verified THEN File("signature", Release).key ELSE Unsigned,
                    caps |-> m.caps, memory |-> m.memory, version |-> m.version,
                    content |-> Metadata(FollowedPack, src)]]

-----------------------------------------------------------------------------
(***************************************************************************)
(* Installing it.                                                          *)
(***************************************************************************)

\* What compareSemver compares, where a version parses.
Versions == Nat \X Nat \X Nat
ASSUME VersionsParse ==
  /\ Legacy \subseteq Versions \cup {Unparsed}
  /\ \A src \in Sources[FollowedPack] : src.manifest.version \in Versions \cup {Unparsed}

Before(v, w) == \E i \in 1 .. 3 : v[i] < w[i] /\ \A j \in 1 .. i - 1 : v[j] = w[j]

\* zero_major_lane: same-minor; stable_lane: same-major.  parseSemver drops what
\* follows the patch number.
SameLane(v, w) == v[1] = w[1] /\ (0 \in {v[1], w[1]} => v[2] = w[2])

\* evaluateVersionPolicy: a version it cannot parse only warns.
VersionBlocks(current, candidate) ==
  /\ Unparsed \notin {current, candidate}
  /\ Before(candidate, current) \/ ~SameLane(current, candidate)

\* Mutant: what the installed receipt could do is not compared.
IgnoresExpansion(candidate) ==
  /\ candidate.memory = "write" /\ installed.memory # "write"
  /\ candidate.tier # installed.tier

\* buildTrustDelta
DeltaBlocks(candidate) ==
  \/ ~(candidate.caps \subseteq installed.caps)
  \/ candidate.memory = "write" /\ installed.memory # "write"
  \/ candidate.tier # installed.tier /\ candidate.tier \in LowTiers

\* A checksum set that cannot be parsed makes the assessment throw.
Assessable == File("signature", Release) # Missing => File("checksums", Release) # Torn

\* Planning an install, also over what is installed, or an update: what deny or a
\* blocking change put among the errors of the plan stops it.  The plan holds the
\* receipt and the files compiled for it while the prompt waits.
PlanInstall(inRepo) ==
  LET assessed == AssessPackTrust(source[FollowedPack], inRepo)
  IN  /\ planned = Missing
      /\ Assessable
      /\ assessed.action # "deny"
      /\ installed # Missing =>
           /\ ~VersionBlocks(installed.version, assessed.receipt.version)
           /\ ~DeltaBlocks(assessed.receipt)
      /\ planned' = Plan(assessed.receipt)
      /\ UNCHANGED <<source, revoked, bundleVars, installed, since>>

\* Confirmed, it is applied as planned: nothing is assessed again.
ApplyInstall ==
  /\ planned # Missing
  /\ installed' = planned.receipt
  /\ since' = IF installed = Missing THEN Begins(planned) ELSE Continues(planned)
  /\ planned' = Missing
  /\ UNCHANGED <<source, revoked, bundleVars>>

\* Refused at the prompt, or rolled back by an apply that fails.
DeclineInstall ==
  /\ planned # Missing
  /\ planned' = Missing
  /\ UNCHANGED <<source, revoked, bundleVars, installed, since>>

Uninstall ==
  /\ planned = Missing
  /\ installed # Missing
  /\ installed' = Missing
  /\ since' = Missing
  /\ UNCHANGED <<source, revoked, bundleVars, planned>>

EditSource ==
  /\ \E src \in Sources[FollowedPack] \ {source[FollowedPack]} :
       source' = [source EXCEPT ![FollowedPack] = src]
  /\ UNCHANGED <<revoked, bundleVars, installVars>>

RevokeKey ==
  /\ \E k \in Keys \ revoked : revoked' = revoked \cup {k}
  /\ UNCHANGED <<source, bundleVars, installVars>>

TrustNext ==
  \/ \E k \in Keys \cup {Unsigned}, b \in DOMAIN Publishers \cup Strangers : BeginRelease(k, b)
  \/ ClearFile \/ BeginWriting \/ WriteBundleFile \/ ReleaseDies
  \/ \E inRepo \in BOOLEAN : PlanInstall(inRepo)
  \/ ApplyInstall \/ DeclineInstall
  \/ Uninstall \/ EditSource \/ RevokeKey

TrustSpec == TrustInit /\ [][TrustNext]_trustVars

-----------------------------------------------------------------------------
(***************************************************************************)
(* Properties.                                                             *)
(***************************************************************************)

\* A pack installed as verified is the pack that was released: one release, written
\* to the end and signed with a key that its publisher holds, holds this manifest and
\* these assets, and that key was not revoked when the install was planned.  What was
\* edited, released, interrupted or revoked at the prompt or since then changes nothing.
VerifiedWasReleased ==
  (installed # Missing /\ installed.verified) =>
    /\ installed.key \notin since.revoked
    /\ \E r \in finished :
         /\ r.publisher \in DOMAIN Publishers
         /\ r.key = installed.key /\ r.key \in Publishers[r.publisher].keys
         /\ installed.content = Metadata(FollowedPack, r.sources[FollowedPack])

\* What passes a verification, of structure or of signatures, is one whole release:
\* its files are all there in full, and come from the same writing.  Interrupted
\* releases, and the remains of earlier ones, never pass.
PartialNeverVerifies ==
  (VerifyReleaseTrustBundleStructure \/ VerifyReleaseTrustBundle) =>
    LET manifest == File("metadata", Release)
        signed == manifest.packs[FollowedPack].signed
        of == ToSet(Packs) \cup {Release}
    IN  /\ DOMAIN bundle = ({"metadata"} \cup (IF signed THEN {"signature"} ELSE {})) \X of
                             \cup {<<"checksums", Release>>}
        /\ Torn \notin {bundle[f] : f \in DOMAIN bundle}
        /\ \A p \in ToSet(Packs) : File("metadata", p) = manifest.packs[p].metadata
        /\ signed => \A o \in of : /\ File("signature", o).payload = File("metadata", o)
                                   /\ File("signature", o).key = File("signature", Release).key

\* An installed pack that may write the global memory or holds a risky capability is
\* one that pack-authority.yaml lets hold it, released or not, and only a pack it
\* names core-maintained writes.
AuthorityIsGranted ==
  installed # Missing =>
    /\ "write" = installed.memory =>
         FollowedPack \in Authority.core \cap Authority.allowed["memory_write_global"]
    /\ \A c \in installed.caps \cap HighRisk : FollowedPack \in Authority.allowed[c]

\* However many updates: a pack never holds more than it did when it was installed,
\* never falls from a release back to a local or unverified source, and stays on the
\* line of its version, at or above where it was, for as long as its versions parse.
UpdatesKeepTrust ==
  installed # Missing =>
    /\ installed.caps \subseteq since.caps
    /\ installed.memory = "write" => since.memory = "write"
    /\ since.released => installed.tier \notin LowTiers
    /\ since.parsed => /\ ~Before(installed.version, since.version)
                      /\ SameLane(installed.version, since.version)
=============================================================================
