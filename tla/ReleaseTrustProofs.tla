------------------------- MODULE ReleaseTrustProofs -------------------------
(***************************************************************************)
(* Release trust, for every set of packs, keys, publishers and sources:    *)
(* what an installed pack may do was granted to it, updates add nothing,   *)
(* and what passes a verification is one whole release.                    *)
(***************************************************************************)
EXTENDS ReleaseTrust, TLAPS

LEMMA DenyWins ==
  ASSUME NEW actions, "deny" \in actions
  PROVE  MergeAction(actions) = "deny"
<1> DEFINE Best(i) == /\ Actions[i] \in actions
                      /\ \A j \in DOMAIN Actions : Actions[j] \in actions => j <= i
<1>1. DOMAIN Actions = 1 .. 3 /\ Actions[3] = "deny"
  BY DEF Actions
<1>2. Best(3) /\ \A i \in DOMAIN Actions : Best(i) => i = 3
  BY <1>1
<1>3. (CHOOSE i \in DOMAIN Actions : Best(i)) = 3
  BY <1>1, <1>2
<1> QED BY <1>1, <1>3 DEF MergeAction

-----------------------------------------------------------------------------
(***************************************************************************)
(* Authority.                                                              *)
(***************************************************************************)

Granted(receipt) ==
  /\ "write" = receipt.memory =>
       FollowedPack \in Authority.core \cap Authority.allowed["memory_write_global"]
  /\ \A c \in receipt.caps \cap HighRisk : FollowedPack \in Authority.allowed[c]

\* An assessment that does not deny grants no more than pack-authority.yaml does.
LEMMA AssessedIsGranted ==
  ASSUME NEW src, NEW inRepo, AssessPackTrust(src, inRepo).action # "deny"
  PROVE  Granted(AssessPackTrust(src, inRepo).receipt)
<1> DEFINE m == src.manifest
           class == SourceClass(VerifiesPack(FollowedPack, src), inRepo)
<1>1. "deny" \notin AuthorityActions(m, class)
  BY DenyWins DEF AssessPackTrust
<1>2. /\ AssessPackTrust(src, inRepo).receipt.memory = m.memory
      /\ AssessPackTrust(src, inRepo).receipt.caps = m.caps
  BY DEF AssessPackTrust
<1>3. ~AuthorityErrors(m)
      /\ (m.memory = "write" => AuthorizedTier(m) = "core-maintained")
  BY <1>1 DEF AuthorityActions
<1>4. \A c \in m.caps \cap HighRisk : FollowedPack \in Authority.allowed[c]
  BY <1>3 DEF AuthorityErrors
<1>5. m.memory = "write" => /\ FollowedPack \in Authority.allowed["memory_write_global"]
                            /\ m.claim = "core-maintained" /\ m.publisher = "pairslash"
                            /\ FollowedPack \in Authority.core
  BY <1>3 DEF AuthorityErrors, AuthorizedTier
<1> HIDE DEF m
<1> QED BY <1>2, <1>4, <1>5 DEF Granted

\* ReleaseTrust: what an installed pack may do, pack-authority.yaml lets it, also when
\* it is applied long after it was assessed.
THEOREM InstalledIsGranted == TrustSpec => []AuthorityIsGranted
<1> DEFINE Inv == /\ installed # Missing => Granted(installed)
                  /\ planned # Missing => Granted(planned.receipt)
<1>1. TrustInit => Inv
  BY DEF TrustInit, Granted
<1>2. Inv /\ [TrustNext]_trustVars => Inv'
  <2> SUFFICES ASSUME Inv, [TrustNext]_trustVars PROVE Inv'
    OBVIOUS
  <2>1. CASE UNCHANGED installVars
    BY <2>1 DEF installVars, Granted
  <2>2. ASSUME NEW inRepo \in BOOLEAN, PlanInstall(inRepo) PROVE Inv'
    <3> DEFINE receipt == AssessPackTrust(source[FollowedPack], inRepo).receipt
    <3>1. Granted(receipt)
      BY <2>2, AssessedIsGranted DEF PlanInstall
    <3>2. planned' = Plan(receipt) /\ installed' = installed
      BY <2>2 DEF PlanInstall
    <3> HIDE DEF receipt
    <3>3. planned'.receipt = receipt
      BY <3>2 DEF Plan
    <3> QED BY <3>1, <3>2, <3>3 DEF Granted
  <2>3. CASE ApplyInstall
    BY <2>3 DEF ApplyInstall, Granted
  <2>4. CASE DeclineInstall \/ Uninstall
    BY <2>4 DEF DeclineInstall, Uninstall, Granted
  <2> QED BY <2>1, <2>2, <2>3, <2>4
          DEF TrustNext, BeginRelease, ClearFile, BeginWriting, WriteBundleFile, ReleaseDies,
              EditSource, RevokeKey, trustVars
<1>3. Inv => AuthorityIsGranted
  BY DEF AuthorityIsGranted, Granted
<1> QED BY <1>1, <1>2, <1>3, PTL DEF TrustSpec

-----------------------------------------------------------------------------
(***************************************************************************)
(* Updates.                                                                *)
(***************************************************************************)

\* Versions that do not go back are in the same order as the first and the last.
LEMMA VersionsOnward ==
  ASSUME NEW u \in Versions, NEW v \in Versions, NEW w \in Versions,
         ~Before(v, u), SameLane(v, u), ~Before(w, v), SameLane(v, w)
  PROVE  ~Before(w, u) /\ SameLane(w, u)
<1>1. ASSUME NEW a \in Versions, NEW b \in Versions
      PROVE  Before(a, b) <=> \/ a[1] < b[1]
                              \/ a[1] = b[1] /\ a[2] < b[2]
                              \/ a[1] = b[1] /\ a[2] = b[2] /\ a[3] < b[3]
  BY DEF Before, Versions
<1>2. \A i \in 1 .. 3 : u[i] \in Nat /\ v[i] \in Nat /\ w[i] \in Nat
  BY DEF Versions
<1> QED BY <1>1, <1>2 DEF SameLane

\* What an installed pack has kept since it was installed.
Kept ==
  installed # Missing =>
    /\ since = [caps |-> since.caps, memory |-> since.memory, version |-> since.version,
                released |-> since.released, parsed |-> since.parsed, revoked |-> since.revoked]
    /\ since.released \in BOOLEAN /\ since.parsed \in BOOLEAN
    /\ installed.caps \subseteq since.caps
    /\ installed.memory = "write" => since.memory = "write"
    /\ since.released => installed.tier \notin LowTiers
    /\ {installed.version, since.version} \subseteq Versions \cup {Unparsed}
    /\ since.parsed => /\ Unparsed \notin {installed.version, since.version}
                       /\ ~Before(installed.version, since.version)
                       /\ SameLane(installed.version, since.version)

LEMMA VersionItself ==
  ASSUME NEW v \in Versions
  PROVE  ~Before(v, v) /\ SameLane(v, v)
BY DEF Versions, Before, SameLane

\* The plan at the prompt goes on from what is installed.
Onward ==
  planned # Missing =>
    /\ planned.receipt.version \in Versions \cup {Unparsed}
    /\ installed # Missing => /\ ~VersionBlocks(installed.version, planned.receipt.version)
                              /\ ~DeltaBlocks(planned.receipt)

LEMMA KeptAtFirst ==
  ASSUME NEW plan, plan.receipt.version \in Versions \cup {Unparsed},
         installed' = plan.receipt, since' = Begins(plan)
  PROVE  Kept'
BY VersionItself DEF Kept, Begins

LEMMA KeptByUpdate ==
  ASSUME Kept, installed # Missing,
         NEW plan, plan.receipt.version \in Versions \cup {Unparsed},
         ~VersionBlocks(installed.version, plan.receipt.version), ~DeltaBlocks(plan.receipt),
         installed' = plan.receipt, since' = Continues(plan)
  PROVE  Kept'
<1> DEFINE receipt == plan.receipt
<1>1. /\ since' = [caps |-> since.caps, memory |-> since.memory, version |-> since.version,
                   released |-> since.released \/ receipt.tier \notin LowTiers,
                   parsed |-> since.parsed /\ receipt.version # Unparsed,
                   revoked |-> plan.revoked]
      /\ since'.parsed => since.parsed /\ receipt.version # Unparsed
  <2> DEFINE released == since.released \/ receipt.tier \notin LowTiers
             parsed == since.parsed /\ receipt.version # Unparsed
  <2>1. since' = [since EXCEPT !.released = released, !.parsed = parsed, !.revoked = plan.revoked]
    BY DEF Continues
  <2> HIDE DEF released, parsed
  <2>2. since' = [caps |-> since.caps, memory |-> since.memory, version |-> since.version,
                  released |-> released, parsed |-> parsed, revoked |-> plan.revoked]
    BY <2>1 DEF Kept
  <2>3. since'.parsed = parsed
    BY <2>2
  <2> QED BY <2>2, <2>3 DEF released, parsed
<1>2. /\ receipt.caps \subseteq installed.caps
      /\ receipt.memory = "write" => installed.memory = "write"
      /\ receipt.tier # installed.tier => receipt.tier \notin LowTiers
  BY DEF DeltaBlocks
<1>3. since'.parsed => /\ Unparsed \notin {receipt.version, since.version}
                       /\ ~Before(receipt.version, since.version)
                       /\ SameLane(receipt.version, since.version)
  <2> SUFFICES ASSUME since.parsed, receipt.version # Unparsed
               PROVE  /\ Unparsed \notin {receipt.version, since.version}
                      /\ ~Before(receipt.version, since.version)
                      /\ SameLane(receipt.version, since.version)
    BY <1>1
  <2>1. /\ Unparsed \notin {installed.version, since.version}
        /\ {installed.version, since.version, receipt.version} \subseteq Versions
        /\ ~Before(installed.version, since.version)
        /\ SameLane(installed.version, since.version)
    BY DEF Kept
  <2>2. ~Before(receipt.version, installed.version) /\ SameLane(installed.version, receipt.version)
    BY <2>1 DEF VersionBlocks
  <2> QED BY <2>1, <2>2, VersionsOnward
<1> QED BY <1>1, <1>2, <1>3 DEF Kept

KeptInv == source \in PackSources /\ Kept /\ Onward

LEMMA KeptInductive ==
  /\ TrustInit => KeptInv
  /\ KeptInv /\ [TrustNext]_trustVars => KeptInv'
<1>1. FollowedPack \in ToSet(Packs)
  BY BundleAssumption
<1>2. TrustInit => KeptInv
  <2> SUFFICES ASSUME TrustInit PROVE Kept
    BY DEF TrustInit, KeptInv, Onward
  <2> SUFFICES ASSUME installed # Missing PROVE Kept
    BY DEF Kept
  <2>1. installed.version \in Legacy /\ since = Begins(Plan(installed))
    BY DEF TrustInit
  <2> QED BY VersionsParse, <2>1, VersionItself DEF Kept, Begins, Plan
<1>3. ASSUME KeptInv, [TrustNext]_trustVars PROVE KeptInv'
  <2>0. source \in PackSources /\ Kept /\ Onward
    BY <1>3 DEF KeptInv
  <2>1. CASE UNCHANGED <<source, installVars>>
    BY <2>0, <2>1 DEF KeptInv, Kept, Onward, installVars, VersionBlocks, DeltaBlocks
  <2>2. ASSUME NEW inRepo \in BOOLEAN, PlanInstall(inRepo) PROVE KeptInv'
    <3> DEFINE assessed == AssessPackTrust(source[FollowedPack], inRepo)
    <3>1. assessed.receipt.version \in Versions \cup {Unparsed}
      <4>1. source[FollowedPack] \in Sources[FollowedPack]
        BY <1>1, <2>0 DEF PackSources
      <4>2. assessed.receipt.version = source[FollowedPack].manifest.version
        BY DEF AssessPackTrust
      <4> QED BY VersionsParse, <4>1, <4>2
    <3>2. /\ planned' = Plan(assessed.receipt)
          /\ installed # Missing => /\ ~VersionBlocks(installed.version, assessed.receipt.version)
                                    /\ ~DeltaBlocks(assessed.receipt)
          /\ UNCHANGED <<source, installed, since>>
      BY <2>2 DEF PlanInstall
    <3> HIDE DEF assessed
    <3>3. planned'.receipt = assessed.receipt
      BY <3>2 DEF Plan
    <3>4. Onward'
      BY <3>1, <3>2, <3>3 DEF Onward, VersionBlocks, DeltaBlocks
    <3> QED BY <2>0, <3>2, <3>4 DEF KeptInv, Kept
  <2>3. CASE ApplyInstall
    <3>1. /\ planned # Missing /\ installed' = planned.receipt /\ planned' = Missing
          /\ source' = source
          /\ since' = IF installed = Missing THEN Begins(planned) ELSE Continues(planned)
      BY <2>3 DEF ApplyInstall
    <3>2. Kept'
      BY <2>0, <3>1, KeptAtFirst, KeptByUpdate DEF Onward
    <3> QED BY <2>0, <3>1, <3>2 DEF KeptInv, Onward
  <2>4. CASE DeclineInstall
    BY <2>0, <2>4 DEF DeclineInstall, KeptInv, Kept, Onward
  <2>5. CASE Uninstall
    BY <2>0, <2>5 DEF Uninstall, KeptInv, Kept, Onward
  <2>6. CASE EditSource
    <3>1. PICK src \in Sources[FollowedPack] : source' = [source EXCEPT ![FollowedPack] = src]
      BY <2>6 DEF EditSource
    <3>2. source' \in PackSources
      BY <1>1, <2>0, <3>1 DEF PackSources
    <3>3. UNCHANGED installVars
      BY <2>6 DEF EditSource
    <3>4. Kept' /\ Onward'
      BY <2>0, <3>3 DEF Kept, Onward, installVars, VersionBlocks, DeltaBlocks
    <3> QED BY <3>2, <3>4 DEF KeptInv
  <2> QED BY <1>3, <2>1, <2>2, <2>3, <2>4, <2>5, <2>6
          DEF TrustNext, BeginRelease, ClearFile, BeginWriting, WriteBundleFile, ReleaseDies,
              RevokeKey, trustVars
<1> QED BY <1>2, <1>3

\* ReleaseTrust: however many updates, a pack never holds more than when it was
\* installed, stays a release once it is one, and on the line of its version.
THEOREM UpdatesAddNothing ==
  TrustSpec => []UpdatesKeepTrust
<1>1. TrustInit => KeptInv
  BY KeptInductive
<1>2. KeptInv /\ [TrustNext]_trustVars => KeptInv'
  BY KeptInductive
<1>3. KeptInv => UpdatesKeepTrust
  BY DEF KeptInv, Kept, UpdatesKeepTrust
<1> QED BY <1>1, <1>2, <1>3, PTL DEF TrustSpec

-----------------------------------------------------------------------------
(***************************************************************************)
(* The files of a release.                                                 *)
(***************************************************************************)

Sums == <<"checksums", Release>>
Body(r) == (IF r.key = Unsigned THEN {"metadata"} ELSE {"metadata", "signature"}) \X Owners
Held(r, f) == IF f[1] = "metadata" THEN Payload(r, f[2]) ELSE Signature(r.key, Payload(r, f[2]))
Image(r) == [f \in Body(r) |-> Held(r, f)]
Written(r, n) == {FilesOf(r)[i] : i \in 1 .. n}

LEMMA Owned ==
  /\ Len(Packs) \in Nat /\ Append(Packs, Release) \in Seq(Owners)
  /\ Len(Append(Packs, Release)) = Len(Packs) + 1
  /\ \A i \in 1 .. Len(Packs) + 1 : Append(Packs, Release)[i] \in Owners
  /\ \A o \in Owners : \E i \in 1 .. Len(Packs) + 1 : Append(Packs, Release)[i] = o
<1>1. Packs \in Seq(ToSet(Packs)) /\ ToSet(Packs) \subseteq Owners
  BY BundleAssumption DEF Owners
<1>2. /\ Len(Packs) \in Nat /\ DOMAIN Packs = 1 .. Len(Packs)
      /\ Len(Append(Packs, Release)) = Len(Packs) + 1
      /\ Append(Packs, Release)[Len(Packs) + 1] = Release
      /\ \A i \in 1 .. Len(Packs) : Append(Packs, Release)[i] = Packs[i]
  BY <1>1
<1>3. \A i \in 1 .. Len(Packs) : Packs[i] \in ToSet(Packs)
  BY <1>1
<1>4. \A o \in ToSet(Packs) : \E i \in 1 .. Len(Packs) : Packs[i] = o
  BY <1>2 DEF ToSet
<1>5. Append(Packs, Release) \in Seq(Owners)
  BY <1>1 DEF Owners
<1>6. \A i \in 1 .. Len(Packs) + 1 : Append(Packs, Release)[i] \in Owners
  BY <1>2, <1>3 DEF Owners
<1>7. \A o \in Owners : \E i \in 1 .. Len(Packs) + 1 : Append(Packs, Release)[i] = o
  BY <1>2, <1>4 DEF Owners
<1> QED BY <1>2, <1>5, <1>6, <1>7

\* The files of a release: all but the checksums, and the checksums last.
LEMMA FilesAre ==
  ASSUME NEW r \in Releases
  PROVE  LET last == Len(FilesOf(r)) IN
         /\ last \in Nat \ {0} /\ FilesOf(r)[last] = Sums
         /\ \A i \in 1 .. last - 1 : FilesOf(r)[i] \in Body(r)
         /\ Written(r, last - 1) = Body(r)
<1> DEFINE owners == Append(Packs, Release)
           m == Len(Packs) + 1
           n == Len(Kinds(r))
           body == [i \in 1 .. m * n |-> <<Kinds(r)[((i - 1) % n) + 1], owners[((i - 1) \div n) + 1]>>]
<1>1. /\ m \in Nat \ {0} /\ Len(owners) = m
      /\ \A i \in 1 .. m : owners[i] \in Owners
      /\ \A o \in Owners : \E i \in 1 .. m : owners[i] = o
  BY Owned
<1>2. FilesOf(r) = Append(body, Sums)
  BY <1>1 DEF FilesOf, Sums
<1> HIDE DEF owners, m
<1>3. /\ m * n \in Nat
      /\ \A i \in 1 .. m * n : body[i] \in Body(r)
      /\ \A f \in Body(r) : \E i \in 1 .. m * n : body[i] = f
  <2>1. CASE r.key = Unsigned
    <3>1. n = 1 /\ Kinds(r)[1] = "metadata" /\ Body(r) = {"metadata"} \X Owners
      BY <2>1 DEF Kinds, Body
    <3>2. m * n = m /\ m \in Nat
      BY <1>1, <3>1
    <3>3. \A i \in 1 .. m : body[i] = <<"metadata", owners[i]>>
      <4> TAKE i \in 1 .. m
      <4>1. ((i - 1) % 1) + 1 = 1 /\ ((i - 1) \div 1) + 1 = i
        BY <3>2
      <4> QED BY <3>1, <3>2, <4>1
    <3> HIDE DEF n, body
    <3>4. \A i \in 1 .. m : body[i] \in Body(r)
      <4> TAKE i \in 1 .. m
      <4>1. owners[i] \in Owners
        BY <1>1
      <4> QED BY <3>1, <3>3, <4>1
    <3>5. ASSUME NEW f \in Body(r) PROVE \E i \in 1 .. m : body[i] = f
      <4>1. PICK o \in Owners : f = <<"metadata", o>>
        BY <3>1
      <4>2. PICK i \in 1 .. m : owners[i] = o
        BY <1>1
      <4> QED BY <3>3, <4>1, <4>2
    <3> QED BY <3>2, <3>4, <3>5
  <2>2. CASE r.key # Unsigned
    <3>1. /\ n = 2 /\ Kinds(r)[1] = "metadata" /\ Kinds(r)[2] = "signature"
          /\ Body(r) = {"metadata", "signature"} \X Owners
      BY <2>2 DEF Kinds, Body
    <3>2. m * n = 2 * m /\ m \in Nat
      BY <1>1, <3>1
    <3>3. \A j \in 1 .. m : /\ 2 * j - 1 \in 1 .. 2 * m /\ 2 * j \in 1 .. 2 * m
                            /\ body[2 * j - 1] = <<"metadata", owners[j]>>
                            /\ body[2 * j] = <<"signature", owners[j]>>
      <4> TAKE j \in 1 .. m
      <4>1. /\ ((2 * j - 1 - 1) % 2) + 1 = 1 /\ ((2 * j - 1 - 1) \div 2) + 1 = j
            /\ ((2 * j - 1) % 2) + 1 = 2 /\ ((2 * j - 1) \div 2) + 1 = j
            /\ 2 * j - 1 \in 1 .. 2 * m /\ 2 * j \in 1 .. 2 * m
        BY <3>2
      <4>2. /\ body[2 * j - 1] = <<Kinds(r)[((2 * j - 1 - 1) % 2) + 1], owners[((2 * j - 1 - 1) \div 2) + 1]>>
            /\ body[2 * j] = <<Kinds(r)[((2 * j - 1) % 2) + 1], owners[((2 * j - 1) \div 2) + 1]>>
        BY <3>1, <3>2, <4>1
      <4> QED BY <3>1, <4>1, <4>2
    <3>4. \A i \in 1 .. 2 * m : \E j \in 1 .. m : i = 2 * j - 1 \/ i = 2 * j
      <4> TAKE i \in 1 .. 2 * m
      <4>1. (i + 1) \div 2 \in 1 .. m /\ (i = 2 * ((i + 1) \div 2) - 1 \/ i = 2 * ((i + 1) \div 2))
        BY <3>2
      <4> QED BY <4>1
    <3> HIDE DEF n, body
    <3>5. \A i \in 1 .. 2 * m : body[i] \in Body(r)
      <4> TAKE i \in 1 .. 2 * m
      <4>1. PICK j \in 1 .. m : i = 2 * j - 1 \/ i = 2 * j
        BY <3>4
      <4>2. owners[j] \in Owners
        BY <1>1
      <4>3. body[i] = <<"metadata", owners[j]>> \/ body[i] = <<"signature", owners[j]>>
        BY <3>3, <4>1
      <4> QED BY <3>1, <4>2, <4>3
    <3>6. ASSUME NEW f \in Body(r) PROVE \E i \in 1 .. 2 * m : body[i] = f
      <4>1. PICK k \in {"metadata", "signature"}, o \in Owners : f = <<k, o>>
        BY <3>1
      <4>2. PICK j \in 1 .. m : owners[j] = o
        BY <1>1
      <4> QED BY <3>3, <4>1, <4>2
    <3> QED BY <3>2, <3>5, <3>6
  <2> QED BY <2>1, <2>2
<1>4. /\ body \in Seq(Body(r)) /\ Len(body) = m * n
  BY <1>3
<1> HIDE DEF n, body
<1>5. /\ Len(FilesOf(r)) = m * n + 1 /\ FilesOf(r)[m * n + 1] = Sums
      /\ \A i \in 1 .. m * n : FilesOf(r)[i] = body[i]
  BY <1>2, <1>4
<1> DEFINE k == m * n
<1>6. k \in Nat /\ Len(FilesOf(r)) = k + 1 /\ (k + 1) - 1 = k
  BY <1>3, <1>5
<1> HIDE DEF k
<1>7. Written(r, k) = Body(r)
  BY <1>3, <1>5 DEF Written, k
<1> QED BY <1>3, <1>5, <1>6, <1>7 DEF k

LEMMA BodyHolds ==
  ASSUME NEW r \in Releases
  PROVE  /\ Sums \notin Body(r) /\ Body(r) \cup {Sums} \subseteq FileNames
         /\ \A f \in Body(r) : /\ Held(r, f) \in Contents /\ ContentOf(r, f) = Held(r, f)
                               /\ Held(r, f) # Torn
         /\ ContentOf(r, Sums) = bundle
<1>1. Sums \notin Body(r) /\ Body(r) \cup {Sums} \subseteq FileNames
  BY DEF Sums, Body, FileNames
<1>2. ContentOf(r, Sums) = bundle
  BY DEF ContentOf, Sums
<1>3. ASSUME NEW f \in Body(r) PROVE Held(r, f) \in Contents /\ ContentOf(r, f) = Held(r, f)
  <2>1. PICK k \in {"metadata", "signature"}, o \in Owners : f = <<k, o>>
    BY DEF Body
  <2>2. Payload(r, o) \in Payloads /\ r.key \in Keys \cup {Unsigned}
    BY DEF Payloads, Releases
  <2> QED BY <2>1, <2>2 DEF Held, ContentOf, Contents
<1> QED BY BundleAssumption, <1>1, <1>2, <1>3

-----------------------------------------------------------------------------
(***************************************************************************)
(* The trust directory, whatever was written and interrupted: a file holds *)
(* what some release writes or is torn, the checksums those of a release   *)
(* that was finished, and while a release is written the directory holds   *)
(* the files written so far and nothing else.                              *)
(***************************************************************************)

FilesSound ==
  /\ bundle = [f \in DOMAIN bundle |-> bundle[f]] /\ DOMAIN bundle \subseteq FileNames
  /\ \A f \in DOMAIN bundle \ {Sums} : bundle[f] \in Contents \cup {Torn}
  /\ Sums \in DOMAIN bundle => bundle[Sums] = Torn \/ \E r \in finished : bundle[Sums] = Image(r)

Clearing == writer \in [pc : {"clear"}, next : {1}, release : Releases]

Writing ==
  /\ writer \in [pc : {"write"}, next : Nat, release : Releases]
  /\ LET r == writer.release
     IN  /\ writer.next \in 1 .. Len(FilesOf(r))
         /\ DOMAIN bundle = Written(r, writer.next - 1)
         /\ \A f \in DOMAIN bundle : bundle[f] = Held(r, f)

BundleInv ==
  /\ source \in PackSources /\ releases \in 0 .. MaxReleases /\ finished \subseteq Releases
  /\ FilesSound
  /\ writer = NoRelease \/ Clearing \/ Writing

\* Writing one file, in full or torn, keeps the files sound.
LEMMA FilePut ==
  ASSUME FilesSound, NEW f \in FileNames, NEW c,
         bundle' = [g \in DOMAIN bundle \cup {f} |-> IF g = f THEN c ELSE bundle[g]],
         f # Sums => c \in Contents \cup {Torn},
         finished \subseteq finished',
         f = Sums => c = Torn \/ \E r \in finished' : c = Image(r)
  PROVE  /\ FilesSound'
         /\ DOMAIN bundle' = DOMAIN bundle \cup {f} /\ bundle'[f] = c
         /\ \A g \in DOMAIN bundle \ {f} : bundle'[g] = bundle[g]
<1>1. /\ DOMAIN bundle' = DOMAIN bundle \cup {f} /\ bundle'[f] = c
      /\ \A g \in DOMAIN bundle \ {f} : bundle'[g] = bundle[g]
      /\ bundle' = [g \in DOMAIN bundle' |-> bundle'[g]]
  OBVIOUS
<1>2. DOMAIN bundle' \subseteq FileNames
  BY <1>1 DEF FilesSound
<1>3. \A g \in DOMAIN bundle' \ {Sums} : bundle'[g] \in Contents \cup {Torn}
  BY <1>1 DEF FilesSound
<1>4. Sums \in DOMAIN bundle' =>
        bundle'[Sums] = Torn \/ \E r \in finished' : bundle'[Sums] = Image(r)
  BY <1>1 DEF FilesSound
<1> QED BY <1>1, <1>2, <1>3, <1>4 DEF FilesSound

\* Nothing is left to clear only when the directory is empty.
LEMMA AllCleared ==
  ASSUME FilesSound, NextToClear = {}
  PROVE  DOMAIN bundle = {}
<1>1. PackFiles = {}
  BY DEF NextToClear
<1>2. \A i \in 1 .. 3 : Cleared[i] \notin DOMAIN bundle
  <2>1. DOMAIN Cleared = 1 .. 3
    BY DEF Cleared
  <2>2. ~ \E j \in 1 .. 3 : /\ Cleared[j] \in DOMAIN bundle
                           /\ \A h \in 1 .. j - 1 : Cleared[h] \notin DOMAIN bundle
    BY <1>1, <2>1 DEF NextToClear
  <2>3. Cleared[1] \notin DOMAIN bundle
    BY <2>2
  <2>4. Cleared[2] \notin DOMAIN bundle
    BY <2>2, <2>3
  <2> QED BY <2>2, <2>3, <2>4
<1>3. /\ <<"metadata", Release>> \notin DOMAIN bundle /\ <<"signature", Release>> \notin DOMAIN bundle
      /\ <<"checksums", Release>> \notin DOMAIN bundle
  <2>1. /\ Cleared[1] = <<"metadata", Release>> /\ Cleared[2] = <<"signature", Release>>
        /\ Cleared[3] = <<"checksums", Release>>
    BY DEF Cleared
  <2> QED BY <1>2, <2>1
<1>4. ASSUME NEW f \in DOMAIN bundle PROVE FALSE
  <2>1. f[2] = Release
    BY <1>1 DEF PackFiles
  <2>2. f \in FileNames
    BY DEF FilesSound
  <2> QED BY <1>3, <2>1, <2>2 DEF FileNames
<1> QED BY <1>4

LEMMA WrittenNext ==
  ASSUME NEW r, NEW n \in Nat \ {0}
  PROVE  Written(r, n) = Written(r, n - 1) \cup {FilesOf(r)[n]}
BY DEF Written

\* The file a release writes next is one of its own, the last its checksums.
LEMMA NextFile ==
  ASSUME Writing
  PROVE  LET r == writer.release
             f == FilesOf(r)[writer.next]
         IN  /\ r \in Releases /\ f \in FileNames
             /\ writer.next < Len(FilesOf(r)) => f \in Body(r)
             /\ writer.next = Len(FilesOf(r)) => f = Sums /\ DOMAIN bundle = Body(r)
<1> DEFINE r == writer.release
           f == FilesOf(r)[writer.next]
           last == Len(FilesOf(r))
<1>1. r \in Releases /\ writer.next \in 1 .. last /\ DOMAIN bundle = Written(r, writer.next - 1)
  BY DEF Writing
<1>2. /\ last \in Nat \ {0} /\ FilesOf(r)[last] = Sums
      /\ \A i \in 1 .. last - 1 : FilesOf(r)[i] \in Body(r)
      /\ Written(r, last - 1) = Body(r)
  BY <1>1, FilesAre
<1>3. Body(r) \cup {Sums} \subseteq FileNames
  BY <1>1, BodyHolds
<1>4. writer.next < last => f \in Body(r)
  BY <1>1, <1>2
<1>5. writer.next = last => f = Sums /\ DOMAIN bundle = Body(r)
  BY <1>1, <1>2
<1>6. f \in FileNames
  BY <1>1, <1>2, <1>3, <1>4, <1>5
<1> QED BY <1>1, <1>4, <1>5, <1>6

LEMMA WriteFileKeeps ==
  ASSUME BundleInv, WriteBundleFile
  PROVE  FilesSound' /\ (writer' = NoRelease \/ Writing') /\ finished' \subseteq Releases
<1> DEFINE r == writer.release
           f == FilesOf(r)[writer.next]
           c == ContentOf(r, f)
<1>1. Writing
  BY DEF BundleInv, WriteBundleFile, NoRelease, Clearing
<1>2. /\ r \in Releases /\ f \in FileNames
      /\ writer.next < Len(FilesOf(r)) => f \in Body(r)
      /\ writer.next = Len(FilesOf(r)) => f = Sums /\ DOMAIN bundle = Body(r)
  BY <1>1, NextFile
<1>3. /\ writer \in [pc : {"write"}, next : Nat, release : Releases]
      /\ writer.next \in 1 .. Len(FilesOf(r))
      /\ DOMAIN bundle = Written(r, writer.next - 1)
      /\ \A g \in DOMAIN bundle : bundle[g] = Held(r, g)
  BY <1>1 DEF Writing
<1>4. Len(FilesOf(r)) \in Nat
  BY <1>2, FilesAre
<1>5. /\ bundle' = [g \in DOMAIN bundle \cup {f} |-> IF g = f THEN c ELSE bundle[g]]
      /\ IF writer.next = Len(FilesOf(r))
         THEN writer' = NoRelease /\ finished' = finished \cup {r}
         ELSE writer' = [writer EXCEPT !.next = @ + 1] /\ finished' = finished
  BY DEF WriteBundleFile
<1>6. FilesSound /\ finished \subseteq Releases
  BY DEF BundleInv
<1>7. CASE writer.next = Len(FilesOf(r))
  <2>1. f = Sums /\ DOMAIN bundle = Body(r) /\ c = bundle
    BY <1>2, <1>7, BodyHolds
  <2>2. bundle = Image(r)
    BY <1>3, <1>6, <2>1 DEF Image, FilesSound
  <2> HIDE DEF c, f, r
  <2>3. finished' = finished \cup {r} /\ writer' = NoRelease
    BY <1>5, <1>7
  <2>4. FilesSound'
    BY <1>2, <1>5, <1>6, <2>1, <2>2, <2>3, FilePut
  <2> QED BY <1>2, <1>6, <2>3, <2>4
<1>8. CASE writer.next # Len(FilesOf(r))
  <2>1. f \in Body(r)
    BY <1>2, <1>3, <1>4, <1>8
  <2>2. f # Sums /\ c \in Contents /\ c = Held(r, f)
    BY <1>2, <2>1, BodyHolds
  <2>3. /\ writer' \in [pc : {"write"}, next : Nat, release : Releases]
        /\ writer'.release = r /\ writer'.next = writer.next + 1
        /\ writer'.next \in 1 .. Len(FilesOf(r))
    BY <1>3, <1>4, <1>5, <1>8
  <2>4. finished' = finished
    BY <1>5, <1>8
  <2>5. Written(r, writer'.next - 1) = Written(r, writer.next - 1) \cup {f}
    <3>1. Written(r, writer.next) = Written(r, writer.next - 1) \cup {f}
      BY <1>3, WrittenNext
    <3> QED BY <1>3, <2>3, <3>1
  <2> HIDE DEF c, f
  <2>6. /\ FilesSound'
        /\ DOMAIN bundle' = DOMAIN bundle \cup {f} /\ bundle'[f] = c
        /\ \A g \in DOMAIN bundle \ {f} : bundle'[g] = bundle[g]
    BY <1>2, <1>5, <1>6, <2>2, <2>4, FilePut
  <2>7. /\ DOMAIN bundle' = Written(r, writer'.next - 1)
        /\ \A g \in DOMAIN bundle' : bundle'[g] = Held(r, g)
    BY <1>3, <2>2, <2>5, <2>6
  <2> QED BY <1>6, <2>3, <2>6, <2>7, <2>4 DEF Writing
<1> QED BY <1>7, <1>8

LEMMA CrashKeeps ==
  ASSUME BundleInv, ReleaseDies
  PROVE  FilesSound' /\ writer' = NoRelease
<1> DEFINE f == FilesOf(writer.release)[writer.next]
<1>1. FilesSound /\ writer' = NoRelease /\ finished' = finished
  BY DEF BundleInv, ReleaseDies
<1>2. CASE UNCHANGED bundle
  BY <1>1, <1>2 DEF FilesSound
<1>3. CASE /\ writer.pc = "write"
           /\ bundle' = [g \in DOMAIN bundle \cup {f} |-> IF g = f THEN Torn ELSE bundle[g]]
  <2>1. Writing
    BY <1>3 DEF BundleInv, ReleaseDies, Clearing
  <2>2. f \in FileNames
    BY <2>1, NextFile
  <2> HIDE DEF f
  <2> QED BY <1>1, <1>3, <2>2, FilePut
<1> QED BY <1>1, <1>2, <1>3 DEF ReleaseDies

LEMMA BundleInductive ==
  /\ TrustInit => BundleInv
  /\ BundleInv /\ [TrustNext]_trustVars => BundleInv'
<1>1. TrustInit => BundleInv
  <2> SUFFICES ASSUME TrustInit PROVE BundleInv
    OBVIOUS
  <2>1. bundle = [f \in DOMAIN bundle |-> bundle[f]] /\ DOMAIN bundle = {}
    BY DEF TrustInit
  <2>2. source \in PackSources /\ releases \in 0 .. MaxReleases /\ writer = NoRelease
       /\ finished = {}
    BY BundleAssumption DEF TrustInit
  <2> QED BY <2>1, <2>2 DEF BundleInv, FilesSound
<1>2. ASSUME BundleInv, [TrustNext]_trustVars PROVE BundleInv'
  <2>1. /\ source \in PackSources /\ releases \in 0 .. MaxReleases /\ finished \subseteq Releases
        /\ FilesSound /\ MaxReleases \in Nat
    BY BundleAssumption, <1>2 DEF BundleInv
  <2>2. CASE UNCHANGED <<source, bundleVars>>
    <3>1. FilesSound' /\ (Clearing <=> Clearing') /\ (Writing <=> Writing')
      BY <2>1, <2>2 DEF FilesSound, Clearing, Writing, bundleVars
    <3> QED BY <1>2, <2>1, <2>2, <3>1 DEF BundleInv, bundleVars
  <2>3. ASSUME NEW k \in Keys \cup {Unsigned}, NEW b \in DOMAIN Publishers \cup Strangers,
               BeginRelease(k, b)
        PROVE  BundleInv'
    <3>1. releases' \in 0 .. MaxReleases /\ releases' \in 1 .. MaxReleases
      BY <2>1, <2>3 DEF BeginRelease
    <3>2. [number |-> releases', key |-> k, publisher |-> b, sources |-> source] \in Releases
      BY <2>1, <3>1 DEF Releases
    <3>3. Clearing'
      BY <2>3, <3>2 DEF BeginRelease, Clearing
    <3>4. FilesSound' /\ source' \in PackSources /\ finished' = finished
      BY <2>1, <2>3 DEF BeginRelease, FilesSound
    <3> QED BY <2>1, <3>1, <3>3, <3>4 DEF BundleInv
  <2>4. CASE ClearFile
    <3>1. Clearing /\ UNCHANGED <<source, writer, releases, finished>>
      BY <1>2, <2>4 DEF ClearFile, BundleInv, NoRelease, Writing
    <3>2. PICK f : bundle' = Without(f)
      BY <2>4 DEF ClearFile
    <3>3. /\ bundle' = [g \in DOMAIN bundle' |-> bundle'[g]]
          /\ DOMAIN bundle' \subseteq DOMAIN bundle
          /\ \A g \in DOMAIN bundle' : bundle'[g] = bundle[g]
      BY <3>2 DEF Without
    <3>4. FilesSound'
      BY <2>1, <3>1, <3>3 DEF FilesSound
    <3> QED BY <2>1, <3>1, <3>4 DEF BundleInv, Clearing
  <2>5. CASE BeginWriting
    <3>1. Clearing /\ NextToClear = {} /\ writer' = [writer EXCEPT !.pc = "write"]
          /\ UNCHANGED <<source, bundle, releases, finished>>
      BY <1>2, <2>5 DEF BeginWriting, BundleInv, NoRelease, Writing
    <3>2. DOMAIN bundle = {}
      BY <2>1, <3>1, AllCleared
    <3>3. /\ writer' \in [pc : {"write"}, next : Nat, release : Releases]
          /\ writer'.next = 1 /\ writer'.release \in Releases
      BY <3>1 DEF Clearing
    <3>4. Len(FilesOf(writer'.release)) \in Nat \ {0}
      BY <3>3, FilesAre
    <3>5. Written(writer'.release, 0) = {}
      BY DEF Written
    <3>6. Writing'
      BY <3>1, <3>2, <3>3, <3>4, <3>5 DEF Writing
    <3>7. FilesSound'
      BY <2>1, <3>1 DEF FilesSound
    <3> QED BY <2>1, <3>1, <3>6, <3>7 DEF BundleInv
  <2>6. CASE WriteBundleFile
    BY <1>2, <2>1, <2>6, WriteFileKeeps DEF BundleInv, WriteBundleFile
  <2>7. CASE ReleaseDies
    BY <1>2, <2>1, <2>7, CrashKeeps DEF BundleInv, ReleaseDies
  <2>8. CASE EditSource
    <3>1. PICK src \in Sources[FollowedPack] : source' = [source EXCEPT ![FollowedPack] = src]
      BY <2>8 DEF EditSource
    <3>2. source' \in PackSources
      BY BundleAssumption, <2>1, <3>1 DEF PackSources
    <3>3. UNCHANGED bundleVars
      BY <2>8 DEF EditSource
    <3>4. FilesSound' /\ (Clearing <=> Clearing') /\ (Writing <=> Writing')
      BY <2>1, <3>3 DEF FilesSound, Clearing, Writing, bundleVars
    <3> QED BY <1>2, <2>1, <3>2, <3>3, <3>4 DEF BundleInv, bundleVars
  <2> QED BY <1>2, <2>2, <2>3, <2>4, <2>5, <2>6, <2>7, <2>8
          DEF TrustNext, PlanInstall, ApplyInstall, DeclineInstall, Uninstall, RevokeKey, trustVars
<1> QED BY <1>1, <1>2

-----------------------------------------------------------------------------
(***************************************************************************)
(* What verifies is one whole release.                                     *)
(***************************************************************************)

\* A checksum set that matches the directory is that of a finished release, and the
\* directory holds that release and nothing else.
LEMMA Whole ==
  ASSUME FilesSound, ChecksumsHold
  PROVE  \E r \in finished :
           /\ DOMAIN bundle = Body(r) \cup {Sums} /\ bundle[Sums] # Torn
           /\ \A f \in Body(r) : bundle[f] = Held(r, f)
<1> DEFINE others == DOMAIN bundle \ {Sums}
<1>1. File("checksums", Release) = [f \in others |-> bundle[f]]
  BY DEF ChecksumsHold, Without, Sums
<1>2. /\ [f \in others |-> bundle[f]] \in [others -> Contents \cup {Torn}]
      /\ others \in SUBSET FileNames
  BY DEF FilesSound
<1>3. File("checksums", Release) \notin {Missing, Torn}
  BY BundleAssumption, <1>1, <1>2
<1>4. Sums \in DOMAIN bundle /\ File("checksums", Release) = bundle[Sums]
  BY <1>3 DEF File, Sums
<1>5. PICK r \in finished : bundle[Sums] = Image(r)
  BY <1>3, <1>4 DEF FilesSound
<1>6. [f \in others |-> bundle[f]] = [f \in Body(r) |-> Held(r, f)]
  BY <1>1, <1>4, <1>5 DEF Image
<1> HIDE DEF others
<1>7. others = Body(r)
  <2>1. DOMAIN [f \in others |-> bundle[f]] = DOMAIN [f \in Body(r) |-> Held(r, f)]
    BY <1>6
  <2> QED BY <2>1
<1>8. \A f \in Body(r) : bundle[f] = Held(r, f)
  <2> TAKE f \in Body(r)
  <2>1. [g \in others |-> bundle[g]][f] = [g \in Body(r) |-> Held(r, g)][f]
    BY <1>6
  <2> QED BY <1>7, <2>1
<1>9. DOMAIN bundle = Body(r) \cup {Sums}
  BY <1>4, <1>7 DEF others
<1> QED BY <1>3, <1>4, <1>8, <1>9

\* Read file by file: the manifest names each pack as it is there, and a signature is
\* of the file beside it, under the one key of the release.
LEMMA ReadWhole ==
  ASSUME FilesSound, finished \subseteq Releases, ChecksumsHold
  PROVE  LET manifest == File("metadata", Release)
             signed == manifest.packs[FollowedPack].signed
         IN  /\ DOMAIN bundle = ({"metadata"} \cup (IF signed THEN {"signature"} ELSE {})) \X Owners
                                  \cup {Sums}
             /\ Torn \notin {bundle[f] : f \in DOMAIN bundle}
             /\ DOMAIN manifest.packs = ToSet(Packs)
             /\ \A p \in ToSet(Packs) : /\ File("metadata", p) = manifest.packs[p].metadata
                                        /\ manifest.packs[p].signed = signed
             /\ signed => \A o \in Owners : /\ File("signature", o).payload = File("metadata", o)
                                            /\ File("signature", o).key = File("signature", Release).key
                                            /\ File("signature", o) \notin {Missing, Torn}
<1>1. PICK r \in Releases :
        /\ DOMAIN bundle = Body(r) \cup {Sums} /\ bundle[Sums] # Torn
        /\ \A f \in Body(r) : bundle[f] = Held(r, f)
  BY Whole
<1> DEFINE manifest == File("metadata", Release)
           signed == manifest.packs[FollowedPack].signed
<1>2. Release \in Owners /\ FollowedPack \in ToSet(Packs) /\ ToSet(Packs) \subseteq Owners
      /\ Release \notin ToSet(Packs)
  BY BundleAssumption DEF Owners
<1>3. \A o \in Owners : File("metadata", o) = Payload(r, o)
  <2> TAKE o \in Owners
  <2>1. <<"metadata", o>> \in Body(r) /\ Held(r, <<"metadata", o>>) = Payload(r, o)
    BY DEF Body, Held
  <2> QED BY <1>1, <2>1 DEF File
<1>4. manifest = ReleaseManifest(r)
  BY <1>2, <1>3 DEF Payload
<1>5. /\ DOMAIN manifest.packs = ToSet(Packs)
      /\ \A p \in ToSet(Packs) : /\ manifest.packs[p].metadata = Metadata(p, r.sources[p])
                                 /\ manifest.packs[p].signed = (r.key # Unsigned)
  BY <1>4 DEF ReleaseManifest
<1>6. signed = (r.key # Unsigned)
  BY <1>2, <1>5
<1>7. \A p \in ToSet(Packs) : File("metadata", p) = manifest.packs[p].metadata
  <2> TAKE p \in ToSet(Packs)
  <2>1. File("metadata", p) = Metadata(p, r.sources[p])
    BY <1>2, <1>3 DEF Payload
  <2> QED BY <1>5, <2>1
<1> HIDE DEF manifest, signed
<1>8. DOMAIN bundle = ({"metadata"} \cup (IF signed THEN {"signature"} ELSE {})) \X Owners \cup {Sums}
  BY <1>1, <1>6 DEF Body
<1>9. Torn \notin {bundle[f] : f \in DOMAIN bundle}
  <2>1. \A f \in Body(r) : Held(r, f) # Torn
    BY BodyHolds
  <2> QED BY <1>1, <2>1
<1>10. ASSUME signed, NEW o \in Owners
       PROVE  File("signature", o) = Signature(r.key, File("metadata", o))
  <2>1. <<"signature", o>> \in Body(r)
    BY <1>6, <1>10 DEF Body
  <2>2. Held(r, <<"signature", o>>) = Signature(r.key, Payload(r, o))
    BY DEF Held
  <2> QED BY <1>1, <1>3, <2>1, <2>2 DEF File
<1>11. ASSUME signed, NEW o \in Owners
       PROVE  /\ File("signature", o).payload = File("metadata", o)
              /\ File("signature", o).key = r.key
              /\ File("signature", o) \notin {Missing, Torn}
  <2>1. File("signature", o) = Signature(r.key, File("metadata", o))
    BY <1>10, <1>11
  <2>2. Signature(r.key, Payload(r, o)) \in Contents
    BY DEF Contents, Payloads, Releases
  <2>3. File("signature", o) \in Contents
    BY <1>3, <2>1, <2>2
  <2> QED BY BundleAssumption, <2>1, <2>3 DEF Signature
<1>12. ASSUME signed, NEW o \in Owners
       PROVE  File("signature", o).key = File("signature", Release).key
  BY <1>2, <1>11, <1>12
<1>13. \A p \in ToSet(Packs) : manifest.packs[p].signed = signed
  BY <1>5, <1>6
<1> QED BY <1>5, <1>7, <1>8, <1>9, <1>11, <1>12, <1>13 DEF manifest, signed

\* What passes a verification, of structure or of signatures, is one whole release,
\* for any packs, keys and publishers and however many releases were written or
\* interrupted.
THEOREM InterruptedNeverVerifies ==
  TrustSpec => []PartialNeverVerifies
<1>1. TrustInit => BundleInv
  BY BundleInductive
<1>2. BundleInv /\ [TrustNext]_trustVars => BundleInv'
  BY BundleInductive
<1>3. BundleInv => PartialNeverVerifies
  <2> SUFFICES ASSUME BundleInv, VerifyReleaseTrustBundleStructure \/ VerifyReleaseTrustBundle
               PROVE  PartialNeverVerifies
    BY DEF PartialNeverVerifies
  <2>1. ChecksumsHold
    BY DEF VerifyReleaseTrustBundleStructure, VerifyReleaseTrustBundle
  <2>2. FilesSound /\ finished \subseteq Releases
    BY DEF BundleInv
  <2> QED BY <2>1, <2>2, ReadWhole DEF PartialNeverVerifies, Owners, Sums
<1> QED BY <1>1, <1>2, <1>3, PTL DEF TrustSpec

-----------------------------------------------------------------------------
(***************************************************************************)
(* What was verified was released.                                         *)
(***************************************************************************)

\* What VerifiedWasReleased says of a receipt, planned when these keys were revoked.
Released(receipt, then) ==
  receipt.verified =>
    /\ receipt.key \notin then
    /\ \E r \in finished :
         /\ r.publisher \in DOMAIN Publishers
         /\ r.key = receipt.key /\ r.key \in Publishers[r.publisher].keys
         /\ receipt.content = Metadata(FollowedPack, r.sources[FollowedPack])

\* Though the installer looks at the signatures of the release and of the one pack only,
\* what it verifies is the pack of a finished release, under the key of that release.
LEMMA AssessedIsReleased ==
  ASSUME FilesSound, finished \subseteq Releases, NEW src, NEW inRepo
  PROVE  Released(AssessPackTrust(src, inRepo).receipt, revoked)
<1> DEFINE receipt == AssessPackTrust(src, inRepo).receipt
<1> SUFFICES ASSUME receipt.verified PROVE Released(receipt, revoked)
  BY DEF Released
<1>1. VerifiesPack(FollowedPack, src)
  BY DEF AssessPackTrust
<1>2. /\ receipt.key = File("signature", Release).key
      /\ receipt.content = Metadata(FollowedPack, src)
  BY <1>1 DEF AssessPackTrust
<1> HIDE DEF receipt
<1> DEFINE manifest == File("metadata", Release)
           keys == Publishers[manifest.publisher].keys
<1>3. /\ ChecksumsHold /\ manifest.publisher \in DOMAIN Publishers /\ SignedBy(keys, Release)
      /\ File("metadata", FollowedPack) = Metadata(FollowedPack, src)
  BY <1>1 DEF VerifiesPack, MatchesSource
<1>4. File("signature", Release) \notin {Missing, Torn} /\ receipt.key \in keys \ revoked
  BY <1>2, <1>3 DEF SignedBy
<1>5. PICK r \in finished :
        /\ DOMAIN bundle = Body(r) \cup {Sums} /\ bundle[Sums] # Torn
        /\ \A f \in Body(r) : bundle[f] = Held(r, f)
  BY <1>3, Whole
<1>6. /\ Release \in Owners /\ FollowedPack \in Owners /\ FollowedPack # Release
      /\ FollowedPack \in ToSet(Packs)
  BY BundleAssumption DEF Owners
<1>7. \A o \in Owners : File("metadata", o) = Payload(r, o)
  <2> TAKE o \in Owners
  <2>1. <<"metadata", o>> \in Body(r) /\ Held(r, <<"metadata", o>>) = Payload(r, o)
    BY DEF Body, Held
  <2> QED BY <1>5, <2>1 DEF File
<1>8. manifest.publisher = r.publisher
  BY <1>6, <1>7 DEF Payload, ReleaseManifest
<1>9. Metadata(FollowedPack, r.sources[FollowedPack]) = receipt.content
  BY <1>2, <1>3, <1>6, <1>7 DEF Payload
<1>10. receipt.key = r.key
  <2>1. <<"signature", Release>> \in DOMAIN bundle
    BY <1>4 DEF File
  <2>2. <<"signature", Release>> \in Body(r)
    BY <1>5, <2>1 DEF Sums
  <2>3. Held(r, <<"signature", Release>>) = Signature(r.key, Payload(r, Release))
    BY DEF Held
  <2>4. File("signature", Release) = Signature(r.key, Payload(r, Release))
    BY <1>5, <2>2, <2>3 DEF File
  <2> QED BY <1>2, <2>4 DEF Signature
<1> QED BY <1>3, <1>4, <1>8, <1>9, <1>10 DEF Released

\* A pack installed as verified is the pack of a finished release, under a key its
\* publisher holds and which was not revoked when the install was planned, whatever
\* happened at the prompt and since then.
THEOREM VerifiedIsReleased ==
  TrustSpec => []VerifiedWasReleased
<1> DEFINE Inv == /\ planned # Missing => Released(planned.receipt, planned.revoked)
                  /\ installed # Missing => Released(installed, since.revoked)
<1>1. TrustInit => Inv
  BY DEF TrustInit, Released
<1>2. BundleInv /\ KeptInv /\ Inv /\ [TrustNext]_trustVars => Inv'
  <2> SUFFICES ASSUME BundleInv, KeptInv, Inv, [TrustNext]_trustVars PROVE Inv'
    OBVIOUS
  <2>1. CASE UNCHANGED installVars /\ finished \subseteq finished'
    <3>1. planned' = planned /\ installed' = installed /\ since' = since
      BY <2>1 DEF installVars
    <3> QED BY <2>1, <3>1 DEF Released
  <2>2. ASSUME NEW inRepo \in BOOLEAN, PlanInstall(inRepo) PROVE Inv'
    <3> DEFINE receipt == AssessPackTrust(source[FollowedPack], inRepo).receipt
    <3>1. Released(receipt, revoked)
      BY AssessedIsReleased DEF BundleInv
    <3>2. /\ planned' = Plan(receipt) /\ finished' = finished
          /\ installed' = installed /\ since' = since
      BY <2>2 DEF PlanInstall, bundleVars
    <3> HIDE DEF receipt
    <3>3. planned'.receipt = receipt /\ planned'.revoked = revoked
      BY <3>2 DEF Plan
    <3> QED BY <3>1, <3>2, <3>3 DEF Released
  <2>3. CASE ApplyInstall
    <3>1. /\ planned # Missing /\ installed' = planned.receipt /\ planned' = Missing
          /\ since' = IF installed = Missing THEN Begins(planned) ELSE Continues(planned)
          /\ finished' = finished
      BY <2>3 DEF ApplyInstall, bundleVars
    <3>2. since'.revoked = planned.revoked
      <4>1. CASE installed = Missing
        BY <3>1, <4>1 DEF Begins
      <4>2. CASE installed # Missing
        <5>1. since = [caps |-> since.caps, memory |-> since.memory, version |-> since.version,
                       released |-> since.released, parsed |-> since.parsed,
                       revoked |-> since.revoked]
          BY <4>2 DEF KeptInv, Kept
        <5>2. since' = [since EXCEPT !.released = @ \/ planned.receipt.tier \notin LowTiers,
                                     !.parsed = @ /\ planned.receipt.version # Unparsed,
                                     !.revoked = planned.revoked]
          BY <3>1, <4>2 DEF Continues
        <5> QED BY <5>1, <5>2
      <4> QED BY <4>1, <4>2
    <3>3. Released(planned.receipt, planned.revoked)
      BY <3>1
    <3> QED BY <3>1, <3>2, <3>3 DEF Released
  <2>4. CASE DeclineInstall \/ Uninstall
    <3>1. finished' = finished
      BY <2>4 DEF DeclineInstall, Uninstall, bundleVars
    <3> QED BY <2>4, <3>1 DEF DeclineInstall, Uninstall, Released
  <2>5. CASE WriteBundleFile
    <3>1. UNCHANGED installVars /\ finished \subseteq finished'
      BY <2>5 DEF WriteBundleFile
    <3> QED BY <2>1, <3>1
  <2> QED BY <2>1, <2>2, <2>3, <2>4, <2>5
          DEF TrustNext, BeginRelease, ClearFile, BeginWriting, ReleaseDies, EditSource, RevokeKey,
              trustVars, bundleVars
<1>3. Inv => VerifiedWasReleased
  BY DEF VerifiedWasReleased, Released
<1> QED BY <1>1, <1>2, <1>3, BundleInductive, KeptInductive, PTL DEF TrustSpec
=============================================================================
