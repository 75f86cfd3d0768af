------------------------ MODULE ManifestShapeProofs ------------------------
(***************************************************************************)
(* A manifest keeps its meaning: it is as valid as it was when it is       *)
(* normalized again, and a rewrite leaves what was not edited.             *)
(*                                                                         *)
(* The argument goes field by field.  A manifest that was built and found  *)
(* valid, the whole, is a fixed point of normalization but for the entries *)
(* that its policy makes eligible; a record that says of a field what the  *)
(* whole says, and whose aliases say nothing else, is built into the same  *)
(* field, whatever was edited of the others.                               *)
(***************************************************************************)
EXTENDS ManifestShape, TLAPS

-----------------------------------------------------------------------------
(***************************************************************************)
(* Entries: what makes one eligible, and the rest of it.                   *)
(***************************************************************************)

\* An entry and its likeness: the rest of an entry stays when a source is made eligible.
Alike(e, f) == e.id = f.id /\ e.at = f.at /\ e.made = f.made /\ e.kind = f.kind

LEMMA EntryEdited ==
  ASSUME NEW e \in Assets, NEW S, NEW a, ~e.made \/ a \notin S
  PROVE  /\ [e EXCEPT !.eligible = @ \/ a \in S] \in Assets
         /\ Alike([e EXCEPT !.eligible = @ \/ a \in S], e)
         /\ [e EXCEPT !.eligible = @ \/ a \in S].eligible <=> (e.eligible \/ a \in S)
         /\ a \notin S => [e EXCEPT !.eligible = @ \/ a \in S] = e
<1>1. e \in [id : STRING, at : STRING, made : BOOLEAN, eligible : BOOLEAN, kind : STRING]
  BY AssetsAreEntries
<1>2. CASE a \notin S
  <2>1. (e.eligible \/ a \in S) = e.eligible
    BY <1>1, <1>2
  <2>2. [e EXCEPT !.eligible = @ \/ a \in S] = e
    BY <1>1, <2>1
  <2> QED BY <1>2, <2>2 DEF Alike
<1>3. CASE a \in S
  <2>1. [e EXCEPT !.eligible = TRUE] \in Assets
    BY <1>3, AssetsAreEntries
  <2>2. (e.eligible \/ a \in S) = TRUE
    BY <1>3
  <2>3. [e EXCEPT !.eligible = @ \/ a \in S] = [e EXCEPT !.eligible = TRUE]
    BY <2>2
  <2>4. PICK f : f = [e EXCEPT !.eligible = TRUE]
    OBVIOUS
  <2>5. Alike(f, e) /\ f.eligible = TRUE
    BY <1>1, <2>4 DEF Alike
  <2> QED BY <1>3, <2>1, <2>3, <2>4, <2>5
<1> QED BY <1>2, <1>3

\* What the sources and the generated entries of a set of entries are.
LEMMA Partition ==
  ASSUME NEW E, E # Missing => E \subseteq Assets
  PROVE  /\ \A e \in SourceEntries(E) : e \in Assets /\ ~e.made /\ e \in Listed(E)
         /\ \A e \in Made(E) : e \in Assets /\ e.made /\ e \in Listed(E)
         /\ E # Missing => E = SourceEntries(E) \cup Made(E)
  BY AssetsAreEntries DEF SourceEntries, Made, Listed

\* What is made for a path, and what is generated, are entries.
LEMMA NewEntries ==
  /\ \A path \in SourcePaths :
       /\ NewSource(path) \in Assets /\ ~NewSource(path).made
       /\ ~NewSource(path).eligible /\ NewSource(path).at = path
  /\ \A id \in GeneratedIds : Generated(id) \in Assets
  /\ \A id : /\ Generated(id).id = id /\ Generated(id).at = id /\ Generated(id).kind = id
             /\ Generated(id).made /\ ~Generated(id).eligible
  BY AssetsAreEntries DEF NewSource, Generated

\* The paths of the sources that are built, and what is built for one.
SourcePathsOf(r, canonical) ==
  IF (canonical /\ PathsOf(SourceEntries(r.entries)) # {}) \/ Include(r) = {}
  THEN PathsOf(SourceEntries(r.entries)) ELSE Include(r)
SourceOf(r, path) == [EntryAt(r, path) EXCEPT !.eligible = @ \/ path \in Listed(r.paths)]

LEMMA SourcesAre ==
  ASSUME NEW r, NEW c
  PROVE  BuildSourceEntries(r, c) = {SourceOf(r, path) : path \in SourcePathsOf(r, c)}
  BY DEF BuildSourceEntries, SourcePathsOf, SourceOf

\* A source that is built is at the path it is built for, and eligible when the entry was
\* or the aliases offer the path.
LEMMA SourceBuilt ==
  ASSUME NEW r, r.entries # Missing => r.entries \subseteq Assets, NEW path,
         path \in SourcePaths \/ \E e \in SourceEntries(r.entries) : e.at = path
  PROVE  /\ SourceOf(r, path) \in Assets /\ ~SourceOf(r, path).made
         /\ SourceOf(r, path).at = path
         /\ SourceOf(r, path).eligible <=> (EntryAt(r, path).eligible \/ path \in Listed(r.paths))
         /\ EntryAt(r, path).eligible => EntryAt(r, path) \in Listed(r.entries)
         /\ EntryAt(r, path).at = path /\ SourceOf(r, path).id = EntryAt(r, path).id
<1>1. PICK e : e = EntryAt(r, path)
  OBVIOUS
<1>2. e \in Assets /\ ~e.made /\ e.at = path /\ (e.eligible => e \in Listed(r.entries))
  <2>1. CASE \E f \in SourceEntries(r.entries) : f.at = path
    <3>1. e \in {f \in SourceEntries(r.entries) : f.at = path}
      BY <1>1, <2>1 DEF EntryAt
    <3> QED BY <3>1, Partition
  <2>2. CASE ~\E f \in SourceEntries(r.entries) : f.at = path
    BY <1>1, <2>2, NewEntries DEF EntryAt
  <2> QED BY <2>1, <2>2
<1>3. PICK s : s = [e EXCEPT !.eligible = @ \/ path \in Listed(r.paths)]
  OBVIOUS
<1>4. s = SourceOf(r, path)
  BY <1>1, <1>3 DEF SourceOf
<1>5. s \in Assets /\ Alike(s, e) /\ (s.eligible <=> (e.eligible \/ path \in Listed(r.paths)))
  BY <1>2, <1>3, EntryEdited
<1> QED BY <1>1, <1>2, <1>4, <1>5 DEF Alike

\* What a record is given because nothing was listed.
LEMMA DefaultsAreGenerated ==
  ASSUME NEW r
  PROVE  \A e \in DefaultGeneratedEntries(r) : \E id \in GeneratedIds : e = Generated(id)
  BY DEF DefaultGeneratedEntries, GeneratedIds

LEMMA GeneratedBuilt ==
  ASSUME NEW r, r.entries # Missing => r.entries \subseteq Assets
  PROVE  \A e \in BuildGeneratedEntries(r) :
           /\ e \in Assets /\ e.made
           /\ e.eligible => e \in Listed(r.entries)
<1> SUFFICES ASSUME NEW e \in BuildGeneratedEntries(r)
             PROVE  /\ e \in Assets /\ e.made
                    /\ e.eligible => e \in Listed(r.entries)
  OBVIOUS
<1>1. CASE e \in Made(r.entries)
  BY <1>1, Partition
<1>2. CASE e \in DefaultGeneratedEntries(r)
  BY <1>2, DefaultsAreGenerated, NewEntries
<1> QED BY <1>1, <1>2 DEF BuildGeneratedEntries

\* The entries that are built: those of the paths, and those generated.
LEMMA EntriesBuilt ==
  ASSUME NEW r, NEW c, r.entries # Missing => r.entries \subseteq Assets,
         Include(r) \subseteq SourcePaths,
         NEW E, E = BuildSourceEntries(r, c) \cup BuildGeneratedEntries(r)
  PROVE  /\ E \subseteq Assets
         /\ SourceEntries(E) = BuildSourceEntries(r, c)
         /\ Made(E) = BuildGeneratedEntries(r)
         /\ EligibleAt(E) \subseteq EligibleAt(r.entries) \cup Listed(r.paths)
<1>1. ASSUME NEW path \in SourcePathsOf(r, c)
      PROVE  path \in SourcePaths \/ \E e \in SourceEntries(r.entries) : e.at = path
  BY DEF SourcePathsOf, PathsOf
<1>2. \A e \in BuildSourceEntries(r, c) :
        \E path \in SourcePathsOf(r, c) : e = SourceOf(r, path)
  BY SourcesAre
<1>3. \A e \in BuildSourceEntries(r, c) : e \in Assets /\ ~e.made
  BY <1>1, <1>2, SourceBuilt
<1>4. E \subseteq Assets
  BY <1>3, GeneratedBuilt
<1>5. E # Missing
  BY <1>4, MissingIsNothing
<1>6. SourceEntries(E) = BuildSourceEntries(r, c) /\ Made(E) = BuildGeneratedEntries(r)
  BY <1>3, <1>5, GeneratedBuilt DEF SourceEntries, Made, Listed
<1>7. ASSUME NEW e \in E, e.eligible
      PROVE  e.at \in EligibleAt(r.entries) \cup Listed(r.paths)
  <2>1. CASE e \in BuildGeneratedEntries(r)
    BY <1>7, <2>1, GeneratedBuilt DEF EligibleAt
  <2>2. CASE e \in BuildSourceEntries(r, c)
    <3>1. PICK path \in SourcePathsOf(r, c) : e = SourceOf(r, path)
      BY <1>2, <2>2
    <3>2. EntryAt(r, path).eligible \/ path \in Listed(r.paths)
      BY <1>1, <1>7, <3>1, SourceBuilt
    <3> QED BY <1>1, <3>1, <3>2, SourceBuilt DEF EligibleAt
  <2> QED BY <2>1, <2>2
<1>8. EligibleAt(E) \subseteq EligibleAt(r.entries) \cup Listed(r.paths)
  <2> SUFFICES ASSUME NEW a \in EligibleAt(E)
               PROVE  a \in EligibleAt(r.entries) \cup Listed(r.paths)
    OBVIOUS
  <2>1. PICK e \in E : e.eligible /\ a = e.at
    BY <1>5 DEF EligibleAt, Listed
  <2>2. e.at \in EligibleAt(r.entries) \cup Listed(r.paths)
    BY <1>7, <2>1
  <2> QED BY <2>1, <2>2
<1> QED BY <1>4, <1>6, <1>8

-----------------------------------------------------------------------------
(***************************************************************************)
(* What is built, and its types.                                           *)
(***************************************************************************)

IsRecord(r) == DOMAIN r = Fields /\ \A f \in Fields : IsTyped(f, r[f])

\* The fields of what is built, for a leaf that needs some of them.
LEMMA CanonicalParts ==
  ASSUME NEW r, NEW c, NEW n, n = ToCanonicalManifest(r, c)
  PROVE  /\ DOMAIN n = CanonicalFields
         /\ n.name = First(PackName(r), "unknown-pack")
         /\ n.class = Clamp(First(OfPack(r, "class"), r.class), Classes, "read-oriented")
         /\ n.status = Clamp(First(First(OfPack(r, "status"), r.status), "active"),
                             {"active", "draft", "deprecated"}, "active")
         /\ n.channel = Clamp(First(r.channel, "stable"), Channels, "stable")
         /\ n.runtimes = DeriveSupportedRuntimes(r)
         /\ n.bindings = NormalizeRuntimeBindings(r, c)
         /\ n.agent = r.agent /\ n.hook = r.hook
         /\ n.installs = IF IsGiven(r.installs) THEN r.installs ELSE Targets
         /\ n.memory = First(r.memory, "read")
         /\ n.caps = First(r.caps, {"repo_read", "memory_read"})
         /\ n.entries = BuildSourceEntries(r, c) \cup BuildGeneratedEntries(r)
         /\ n.owners = BuildAssetOwnership(r, n.entries)
         /\ n.eligible = BuildEligibleAssetIds(r, BuildSourceEntries(r, c), c)
         /\ n.smoke = BuildSmokeChecks(r, n.runtimes, n.installs)
         /\ n.docs = First(First(r.docs, IF r.assets = Missing THEN Missing ELSE r.assets.docs),
                           "default")
         /\ n.support = DeriveSupport(r, n.name, n.bindings)
         /\ n.catalog = DeriveCatalog(r, n.name, First(r.channel, "stable"),
                                      First(First(OfPack(r, "status"), r.status), "active"))
  BY DEF ToCanonicalManifest, CanonicalFields

LEMMA ServersBuilt ==
  ASSUME NEW r, NEW c, NEW n, n = ToCanonicalManifest(r, c)
  PROVE  /\ n.servers = TRUE \/ n.servers = FALSE
         /\ n.servers = TRUE <=> r.servers = TRUE
<1>1. CASE r.servers = TRUE
  BY <1>1 DEF ToCanonicalManifest
<1>2. CASE r.servers # TRUE
  BY <1>2 DEF ToCanonicalManifest
<1> QED BY <1>1, <1>2

LEMMA FieldsOfRecord ==
  ASSUME NEW r, IsRecord(r)
  PROVE  /\ r.entries # Missing => r.entries \subseteq Assets
         /\ Include(r) \subseteq SourcePaths
         /\ r.assets # Missing => r.assets.docs \in Documents \/ r.assets.docs = Missing
         /\ r.docs # Missing => r.docs \in Documents
  BY DEF IsRecord, IsTyped, Fields, CanonicalFields, Aliases, Include

LEMMA SupportIsRecord ==
  ASSUME NEW r, NEW name, NEW bindings, NEW t, t = DeriveSupport(r, name, bindings)
  PROVE  t = [f \in DOMAIN NoSupport |-> t[f]]
  BY DEF DeriveSupport, NoSupport

LEMMA BuiltIsTyped ==
  ASSUME NEW r, IsRecord(r), NEW c, NEW n, n = ToCanonicalManifest(r, c)
  PROVE  /\ DOMAIN n = CanonicalFields
         /\ \A f \in CanonicalFields : IsTyped(f, n[f])
         /\ n.entries \subseteq Assets /\ n.entries # Missing
         /\ n.docs \in Documents
         /\ n.support.from # Missing
<1> DEFINE B == BuildSourceEntries(r, c) \cup BuildGeneratedEntries(r)
<1>1. /\ n.entries = B
      /\ n.docs = First(First(r.docs, IF r.assets = Missing THEN Missing ELSE r.assets.docs),
                        "default")
      /\ n.support = DeriveSupport(r, n.name, n.bindings)
      /\ n.catalog = DeriveCatalog(r, n.name, First(r.channel, "stable"),
                                   First(First(OfPack(r, "status"), r.status), "active"))
  BY CanonicalParts
<1>2. n.entries \subseteq Assets /\ n.entries # Missing
  <2>1. /\ r.entries # Missing => r.entries \subseteq Assets
        /\ Include(r) \subseteq SourcePaths
    BY FieldsOfRecord
  <2>2. B \subseteq Assets
    BY <2>1, EntriesBuilt
  <2> QED BY <1>1, <2>2, MissingIsNothing
<1>3. n.docs \in Documents
  <2>1. /\ r.assets # Missing => r.assets.docs \in Documents \/ r.assets.docs = Missing
        /\ r.docs # Missing => r.docs \in Documents
    BY FieldsOfRecord
  <2> QED BY <1>1, <2>1 DEF First, Documents
<1>4. n.catalog = [f \in DOMAIN NoCatalog |-> n.catalog[f]]
  BY <1>1 DEF DeriveCatalog, NoCatalog
<1>5. /\ n.support = [f \in DOMAIN NoSupport |-> n.support[f]]
      /\ n.support.from # Missing
      /\ n.support.claims = [runtime \in PackRuntimes |->
                               [f \in DOMAIN NoClaim |-> n.support.claims[runtime][f]]]
  <2>1. n.support = [f \in DOMAIN NoSupport |-> n.support[f]]
    <3>1. PICK name, bindings, t : t = n.support /\ t = DeriveSupport(r, name, bindings)
      BY <1>1
    <3>2. t = [f \in DOMAIN NoSupport |-> t[f]]
      BY <3>1, SupportIsRecord
    <3> QED BY <3>1, <3>2
  <2>2. \A v : Clamp(v, Maturities, "canary") \in Maturities
    BY DEF Clamp, Maturities, Labels!MaturityRank
  <2>3. n.support.from \in Maturities
    BY <1>1, <2>2 DEF DeriveSupport
  <2>4. PICK g, b, claims : claims = n.support.claims /\ claims = DeriveRuntimeSupport(g, b)
    BY <1>1 DEF DeriveSupport
  <2>5. claims = [runtime \in PackRuntimes |-> claims[runtime]]
    BY <2>4 DEF DeriveRuntimeSupport
  <2>6. ASSUME NEW runtime \in PackRuntimes
        PROVE  claims[runtime] = [f \in DOMAIN NoClaim |-> claims[runtime][f]]
    <3>1. claims[runtime] = [status |-> claims[runtime].status, ref |-> claims[runtime].ref,
                             kind |-> claims[runtime].kind, required |-> claims[runtime].required]
      BY <2>4 DEF DeriveRuntimeSupport
    <3>2. PICK e : e = claims[runtime]
      OBVIOUS
    <3>3. e = [f \in DOMAIN NoClaim |-> e[f]]
      BY <3>1, <3>2 DEF NoClaim
    <3> QED BY <3>2, <3>3
  <2> QED BY <2>1, <2>3, <2>4, <2>5, <2>6, MissingIsNothing
<1>6. n.bindings = [runtime \in DOMAIN n.bindings |->
                      [f \in DOMAIN Unbound |-> n.bindings[runtime][f]]]
  <2>1. PICK b : b = n.bindings /\ b = NormalizeRuntimeBindings(r, c)
    BY CanonicalParts
  <2>2. b = [runtime \in PackRuntimes |-> b[runtime]]
    BY <2>1 DEF NormalizeRuntimeBindings
  <2>3. ASSUME NEW runtime \in PackRuntimes
        PROVE  b[runtime] = [f \in DOMAIN Unbound |-> b[runtime][f]]
    <3>1. PICK here, there : /\ here = BindingOf(r.bindings, runtime)
                             /\ there = BindingOf(r.targets, runtime)
      OBVIOUS
    <3>2. PICK lead : lead = IF c THEN here ELSE there
      OBVIOUS
    <3>3. PICK said : said = IF lead.picker # Missing \/ lead.direct # Missing THEN lead
                             ELSE IF c THEN there ELSE here
      OBVIOUS
    <3>4. PICK call, dir, judged : /\ call = First(Prefer(c, here.call, there.call), PackName(r))
                                   /\ dir = First(Prefer(c, here.dir, there.dir), PackName(r))
                                   /\ judged = NormalizeCompatibility(said, runtime)
      OBVIOUS
    <3>5. b[runtime] = [call |-> call, dir |-> dir,
                        picker |-> judged.picker, direct |-> judged.direct]
      BY <2>1, <3>1, <3>2, <3>3, <3>4 DEF NormalizeRuntimeBindings
    <3>6. PICK e : e = b[runtime]
      OBVIOUS
    <3>7. e = [f \in DOMAIN Unbound |-> e[f]]
      BY <3>5, <3>6 DEF Unbound
    <3> QED BY <3>6, <3>7
  <2> QED BY <2>1, <2>2, <2>3
<1>7. n.owners = [id \in DOMAIN n.owners |-> n.owners[id]]
  <2>1. n.owners = BuildAssetOwnership(r, n.entries)
    BY CanonicalParts
  <2> QED BY <2>1 DEF BuildAssetOwnership
<1>8. DOMAIN n = CanonicalFields
  BY CanonicalParts
<1>9. \A f \in CanonicalFields : IsTyped(f, n[f])
  BY <1>2, <1>3, <1>4, <1>5, <1>6, <1>7 DEF IsTyped, CanonicalFields
<1> QED BY <1>2, <1>3, <1>5, <1>8, <1>9

\* What is written, and what is loaded, is a record.
LEMMA SerializedIsRecord ==
  ASSUME NEW r, IsRecord(r), NEW w, w = Serialize(r)
  PROVE  /\ IsRecord(w)
         /\ \E c \in BOOLEAN :
              /\ \A f \in CanonicalFields : w[f] = ToCanonicalManifest(r, c)[f]
              /\ HasAliases(r) => ~c
         /\ \A f \in Aliases : w[f] = Missing
<1>1. PICK c \in BOOLEAN : /\ c = IF HasAliases(r) THEN FALSE ELSE Shape(r) = "canonical"
                           /\ HasAliases(r) => ~c
  BY DEF HasAliases
<1>2. PICK n : n = ToCanonicalManifest(r, c)
  OBVIOUS
<1>3. w = Overlay(n, NoAliases)
  BY <1>1, <1>2 DEF Serialize
<1>4. DOMAIN n = CanonicalFields /\ \A f \in CanonicalFields : IsTyped(f, n[f])
  BY <1>2, BuiltIsTyped
<1>5. \A f \in Aliases : f \notin CanonicalFields
  BY DEF Aliases, CanonicalFields
<1>6. /\ DOMAIN w = Fields
      /\ \A f \in CanonicalFields : w[f] = n[f]
      /\ \A f \in Aliases : w[f] = Missing
  BY <1>3, <1>4, <1>5 DEF Overlay, NoAliases, Fields
<1>7. \A f \in Fields : IsTyped(f, w[f])
  BY <1>4, <1>6 DEF Fields, IsTyped
<1> QED BY <1>1, <1>2, <1>6, <1>7 DEF IsRecord

LEMMA LoadedIsRecord ==
  ASSUME NEW r, IsRecord(r), NEW m, m = LoadPackManifest(r),
         NEW n, n = ByShape(r)
  PROVE  /\ IsRecord(m)
         /\ \A f \in CanonicalFields : m[f] = n[f]
         /\ m.pack = [id |-> n.name, class |-> n.class, status |-> n.status]
         /\ m.assets = [include |-> PathsOf(SourceEntries(n.entries)), docs |-> n.docs]
         /\ m.assets # Missing
         /\ m.targets = n.bindings
         /\ m.paths = {e.at : e \in {s \in SourceEntries(n.entries) : s.id \in n.eligible}}
         /\ m.paths # Missing
<1>1. PICK c : n = ToCanonicalManifest(r, c)
  BY DEF ByShape
<1>2. /\ DOMAIN m = Fields
      /\ \A f \in CanonicalFields : m[f] = n[f]
      /\ m.pack = [id |-> n.name, class |-> n.class, status |-> n.status]
      /\ m.assets = [include |-> PathsOf(SourceEntries(n.entries)), docs |-> n.docs]
      /\ m.targets = n.bindings
      /\ m.paths = LegacyLocalOverridePolicy(n)
  BY DEF LoadPackManifest, AttachCompatibilityAliases, Fields, Aliases, CanonicalFields
<1>3. /\ \A f \in CanonicalFields : IsTyped(f, n[f])
      /\ n.entries \subseteq Assets /\ n.docs \in Documents
  BY <1>1, BuiltIsTyped
<1>4. \A e \in SourceEntries(n.entries) : e.at \in SourcePaths
  BY <1>3, Partition DEF SourcePaths, PathsOf
<1>5. PathsOf(SourceEntries(n.entries)) \subseteq SourcePaths /\ m.paths \subseteq SourcePaths
  BY <1>2, <1>4 DEF PathsOf, LegacyLocalOverridePolicy
<1>6. m.paths # Missing
  BY <1>5, MissingIsNothing
<1>7. m.assets # Missing
  BY <1>2, <1>3, <1>5, MissingIsNothing
<1>8. \A f \in Aliases : IsTyped(f, m[f])
  <2>1. /\ m.assets.include \subseteq SourcePaths /\ m.assets.docs \in Documents
    BY <1>2, <1>3, <1>5
  <2>2. IsTyped("targets", m.targets)
    <3>1. IsTyped("bindings", n.bindings)
      BY <1>3 DEF CanonicalFields
    <3> QED BY <1>2, <3>1 DEF IsTyped
  <2>3. IsTyped("pack", m.pack) /\ IsTyped("paths", m.paths) /\ IsTyped("assets", m.assets)
    BY <2>1 DEF IsTyped
  <2> QED BY <2>2, <2>3 DEF Aliases
<1>9. IsRecord(m)
  BY <1>2, <1>3, <1>8 DEF IsRecord, Fields
<1> QED BY <1>2, <1>6, <1>7, <1>9 DEF LegacyLocalOverridePolicy

-----------------------------------------------------------------------------
(***************************************************************************)
(* Entries that are built again: each stays, and is eligible from then on  *)
(* if it is a source that the policy names.                                *)
(***************************************************************************)

Distinct(E) ==
  \A e, f \in E : (e.id = f.id \/ (e.made = f.made /\ e.at = f.at)) => e = f

Offered(e, X) == [e EXCEPT !.eligible = @ \/ (~e.made /\ e.id \in X)]
Offer(E, X) == {Offered(e, X) : e \in E}

LEMMA EntryOffered ==
  ASSUME NEW e \in Assets, NEW X
  PROVE  /\ Offered(e, X) \in Assets /\ Alike(Offered(e, X), e)
         /\ e.made \/ e.id \notin X => Offered(e, X) = e
         /\ ~e.made /\ e.id \in X => Offered(e, X) = [e EXCEPT !.eligible = TRUE]
<1>1. e \in [id : STRING, at : STRING, made : BOOLEAN, eligible : BOOLEAN, kind : STRING]
  BY AssetsAreEntries
<1>2. CASE e.made \/ e.id \notin X
  <2>1. (e.eligible \/ (~e.made /\ e.id \in X)) = e.eligible
    BY <1>1, <1>2
  <2>2. Offered(e, X) = e
    BY <1>1, <2>1 DEF Offered
  <2> QED BY <1>2, <2>2 DEF Alike
<1>3. CASE ~e.made /\ e.id \in X
  <2>1. (e.eligible \/ (~e.made /\ e.id \in X)) = TRUE
    BY <1>3
  <2>2. PICK f : f = [e EXCEPT !.eligible = TRUE]
    OBVIOUS
  <2>3. Offered(e, X) = f
    BY <2>1, <2>2 DEF Offered
  <2>4. f \in Assets /\ Alike(f, e)
    BY <1>1, <1>3, <2>2, AssetsAreEntries DEF Alike
  <2> QED BY <1>3, <2>2, <2>3, <2>4
<1> QED BY <1>1, <1>2, <1>3

LEMMA SetOffered ==
  ASSUME NEW E \in SUBSET Assets, NEW X, NEW F, F = Offer(E, X)
  PROVE  /\ F \subseteq Assets
         /\ \A f \in F : \E e \in E : Alike(f, e)
         /\ \A e \in E : \E f \in F : Alike(f, e)
         /\ SourceEntries(F) = {Offered(e, X) : e \in SourceEntries(E)}
         /\ Made(F) = Made(E)
         /\ F = SourceEntries(F) \cup Made(F)
         /\ Distinct(E) => Distinct(F)
         /\ {f.id : f \in F} = {e.id : e \in E}
<1>1. \A e \in E : Offered(e, X) \in Assets /\ Alike(Offered(e, X), e)
                   /\ (e.made => Offered(e, X) = e)
  BY EntryOffered
<1>2. F \subseteq Assets
  BY <1>1 DEF Offer
<1>3. E # Missing /\ F # Missing
  BY <1>2, MissingIsNothing
<1>4. /\ \A f \in F : \E e \in E : f = Offered(e, X)
      /\ \A e \in E : Offered(e, X) \in F
  BY DEF Offer
<1>5. /\ \A f \in F : \E e \in E : Alike(f, e)
      /\ \A e \in E : \E f \in F : Alike(f, e)
  BY <1>1, <1>4
<1>6. SourceEntries(F) = {Offered(e, X) : e \in SourceEntries(E)}
  BY <1>1, <1>3, <1>4 DEF SourceEntries, Listed, Alike
<1>7. Made(F) = Made(E)
  BY <1>1, <1>3, <1>4 DEF Made, Listed, Alike
<1>8. F = SourceEntries(F) \cup Made(F)
  BY <1>2, <1>3, Partition
<1>9. ASSUME Distinct(E)
      PROVE  Distinct(F)
  <2> SUFFICES ASSUME NEW f \in F, NEW g \in F,
                      f.id = g.id \/ (f.made = g.made /\ f.at = g.at)
               PROVE  f = g
    BY DEF Distinct
  <2>1. PICK d \in E, e \in E : f = Offered(d, X) /\ g = Offered(e, X)
    BY <1>4
  <2>2. d.id = e.id \/ (d.made = e.made /\ d.at = e.at)
    BY <1>1, <2>1 DEF Alike
  <2>3. d = e
    BY <1>9, <2>2 DEF Distinct
  <2> QED BY <2>1, <2>3
<1>10. {f.id : f \in F} = {e.id : e \in E}
  BY <1>5 DEF Alike
<1> QED BY <1>2, <1>5, <1>6, <1>7, <1>8, <1>9, <1>10

\* What the paths of the aliases offer, by the ids of its entries.
OffersOf(E, paths) == {s.id : s \in {e \in SourceEntries(E) : e.at \in Listed(paths)}}

\* The aliases name the sources that are listed, or none.
LEMMA SourcesStay ==
  ASSUME NEW E \in SUBSET Assets, Distinct(E), NEW y, y.entries = E, NEW c,
         Include(y) = {} \/ Include(y) = PathsOf(SourceEntries(E)),
         NEW X, X = OffersOf(E, y.paths)
  PROVE  BuildSourceEntries(y, c) = {Offered(e, X) : e \in SourceEntries(E)}
<1>1. E # Missing
  BY MissingIsNothing
<1>2. \A e \in SourceEntries(E) : e \in E /\ e \in Assets /\ ~e.made
  BY <1>1, Partition DEF Listed
<1>3. SourcePathsOf(y, c) = PathsOf(SourceEntries(E))
  BY DEF SourcePathsOf
<1>4. ASSUME NEW e \in SourceEntries(E)
      PROVE  SourceOf(y, e.at) = Offered(e, X)
  <2>1. \A f \in SourceEntries(E) : f.at = e.at => f = e
    <3>1. \A f \in SourceEntries(E) : f \in E /\ f.made = FALSE
      BY <1>2, AssetsAreEntries
    <3> QED BY <3>1 DEF Distinct
  <2>2. {f \in SourceEntries(E) : f.at = e.at} = {e}
    BY <2>1
  <2>3. EntryAt(y, e.at) = e
    BY <2>2 DEF EntryAt
  <2>4. SourceOf(y, e.at) = [e EXCEPT !.eligible = @ \/ e.at \in Listed(y.paths)]
    BY <2>3 DEF SourceOf
  <2>5. e.id \in X <=> e.at \in Listed(y.paths)
    BY <1>2 DEF OffersOf, Distinct
  <2>6. CASE e.at \in Listed(y.paths)
    <3>1. (e.eligible \/ e.at \in Listed(y.paths)) = TRUE
      BY <2>6
    <3>2. SourceOf(y, e.at) = [e EXCEPT !.eligible = TRUE]
      BY <2>4, <3>1
    <3> QED BY <1>2, <2>5, <2>6, <3>2, EntryOffered
  <2>7. CASE e.at \notin Listed(y.paths)
    BY <1>2, <2>4, <2>5, <2>7, EntryEdited, EntryOffered
  <2> QED BY <2>6, <2>7
<1>5. BuildSourceEntries(y, c) = {SourceOf(y, path) : path \in PathsOf(SourceEntries(E))}
  BY <1>3, SourcesAre
<1> QED BY <1>4, <1>5 DEF PathsOf

-----------------------------------------------------------------------------
(***************************************************************************)
(* The fields that are built again from a record that has them: each is as *)
(* the record says.                                                        *)
(***************************************************************************)

Covers(y, E) == \A d \in DefaultGeneratedEntries(y) : \E e \in Made(E) : e.id = d.id

\* Nothing is generated that is listed.
LEMMA EntriesStay ==
  ASSUME NEW E \in SUBSET Assets, Distinct(E), NEW y, y.entries = E, NEW c,
         Include(y) = {} \/ Include(y) = PathsOf(SourceEntries(E)),
         Covers(y, E)
  PROVE  BuildSourceEntries(y, c) \cup BuildGeneratedEntries(y)
           = Offer(E, OffersOf(E, y.paths))
<1>1. BuildGeneratedEntries(y) = Made(E)
  BY DEF BuildGeneratedEntries, Covers
<1>2. PICK X : X = OffersOf(E, y.paths)
  OBVIOUS
<1>3. PICK F : F = Offer(E, X)
  OBVIOUS
<1>4. BuildSourceEntries(y, c) = SourceEntries(F)
  <2>1. BuildSourceEntries(y, c) = {Offered(e, X) : e \in SourceEntries(E)}
    BY <1>2, SourcesStay
  <2>2. SourceEntries(F) = {Offered(e, X) : e \in SourceEntries(E)}
    BY <1>3, SetOffered
  <2> QED BY <2>1, <2>2
<1>5. F = SourceEntries(F) \cup Made(E)
  BY <1>3, SetOffered
<1> QED BY <1>1, <1>2, <1>3, <1>4, <1>5

LEMMA OwnersStay ==
  ASSUME NEW y, y.owners # Missing, NEW F, {f.id : f \in F} = DOMAIN y.owners,
         IsTyped("owners", y.owners)
  PROVE  BuildAssetOwnership(y, F) = y.owners
<1>1. PICK owners : owners = y.owners
  OBVIOUS
<1>2. owners = [id \in DOMAIN owners |-> owners[id]]
  BY <1>1 DEF IsTyped
<1>3. BuildAssetOwnership(y, F) = [id \in DOMAIN owners |-> owners[id]]
  BY <1>1 DEF BuildAssetOwnership
<1> QED BY <1>1, <1>2, <1>3

LEMMA SmokeStays ==
  ASSUME NEW y, IsGiven(y.smoke), NEW runtimes, NEW installs
  PROVE  BuildSmokeChecks(y, runtimes, installs) = y.smoke
  BY DEF BuildSmokeChecks

LEMMA RuntimesStay ==
  ASSUME NEW y, y.runtimes = PackRuntimes, y.runtimes # Missing
  PROVE  DeriveSupportedRuntimes(y) = PackRuntimes
<1>1. PICK S : S = UNION {DOMAIN b : b \in {y.bindings, y.targets} \ {Missing}}
  OBVIOUS
<1>2. (PackRuntimes \cup S) \cap PackRuntimes = PackRuntimes
  OBVIOUS
<1>3. PackRuntimes # {}
  BY DEF PackRuntimes
<1> QED BY <1>1, <1>2, <1>3 DEF DeriveSupportedRuntimes, Listed

\* What a catalog must say to stay as it is.
GivenCatalog(g) ==
  /\ g # Missing /\ g.maturity # Missing /\ g.discovered # Missing /\ g.recommended # Missing
  /\ g.release # Missing /\ g.release \in {"public", "appendix", "hidden"}
  /\ g.deprecation # Missing /\ g.deprecation \in {"active", "deprecated", "archived"}

LEMMA CatalogStays ==
  ASSUME NEW y, GivenCatalog(y.catalog), IsTyped("catalog", y.catalog),
         NEW name, NEW channel, NEW status
  PROVE  DeriveCatalog(y, name, channel, status) = y.catalog
<1>1. PICK g : g = y.catalog
  OBVIOUS
<1>2. PICK h : h = DeriveCatalog(y, name, channel, status)
  OBVIOUS
<1>3. /\ h.maturity = g.maturity /\ h.discovered = g.discovered
      /\ h.recommended = g.recommended /\ h.release = g.release
      /\ h.deprecation = g.deprecation /\ h.replacement = g.replacement
  BY <1>1, <1>2 DEF DeriveCatalog, GivenCatalog, First, Clamp
<1>4. g = [f \in DOMAIN NoCatalog |-> g[f]]
  BY <1>1 DEF IsTyped, GivenCatalog
<1>5. h = [f \in DOMAIN NoCatalog |-> h[f]]
  BY <1>2 DEF DeriveCatalog, NoCatalog
<1>6. \A f \in DOMAIN NoCatalog : h[f] = g[f]
  BY <1>3 DEF NoCatalog
<1> QED BY <1>1, <1>2, <1>4, <1>5, <1>6

\* What is claimed of a runtime that must be said to stay as it is.
GivenClaim(c) ==
  /\ c.status # Missing /\ c.status \in Statuses \cup {"partial"}
  /\ c.kind # Missing /\ c.kind \in EvidenceKinds
  /\ c.required # Missing

AreClaims(claims) ==
  claims = [runtime \in PackRuntimes |-> [f \in DOMAIN NoClaim |-> claims[runtime][f]]]

LEMMA ClaimsStay ==
  ASSUME NEW given, given.claims # Missing, NEW bindings, AreClaims(given.claims),
         \A runtime \in PackRuntimes : GivenClaim(given.claims[runtime])
  PROVE  DeriveRuntimeSupport(given, bindings) = given.claims
<1>1. PICK said, claims : said = given.claims /\ claims = DeriveRuntimeSupport(given, bindings)
  OBVIOUS
<1>2. claims = [runtime \in PackRuntimes |-> claims[runtime]]
  BY <1>1 DEF DeriveRuntimeSupport
<1>3. said = [runtime \in PackRuntimes |-> [f \in DOMAIN NoClaim |-> said[runtime][f]]]
  BY <1>1 DEF AreClaims
<1>4. ASSUME NEW runtime \in PackRuntimes
      PROVE  claims[runtime] = said[runtime]
  <2>1. PICK c : c = said[runtime]
    OBVIOUS
  <2>2. GivenClaim(c)
    BY <1>1, <2>1
  <2>3. claims[runtime] =
          [status |-> Clamp(First(c.status, RuntimeSupportStatus(bindings[runtime])),
                            Statuses \cup {"partial"}, "unverified"),
           ref |-> c.ref,
           kind |-> Clamp(First(c.kind, IF c.ref # Missing THEN "lane-matrix" ELSE "docs-only"),
                          EvidenceKinds, "lane-matrix"),
           required |-> First(c.required, TRUE)]
    BY <1>1, <2>1 DEF DeriveRuntimeSupport
  <2>4. claims[runtime] =
          [status |-> c.status, ref |-> c.ref, kind |-> c.kind, required |-> c.required]
    BY <2>2, <2>3 DEF GivenClaim, First, Clamp
  <2>5. c = [f \in DOMAIN NoClaim |-> c[f]]
    BY <1>3, <2>1
  <2> QED BY <2>1, <2>4, <2>5 DEF NoClaim
<1>5. said = [runtime \in PackRuntimes |-> said[runtime]]
  BY <1>3
<1> QED BY <1>1, <1>2, <1>4, <1>5

\* What is said of support that must be said to stay as it is; where a workflow comes
\* from need not be.
GivenSupport(s) ==
  /\ s # Missing /\ s.publisher # Missing /\ s.claims # Missing /\ s.deterministic # Missing
  /\ s.live # Missing /\ s.safety # Missing /\ s.migration # Missing
  /\ s.entrypoint # Missing /\ s.docs # Missing /\ s.wording # Missing
  /\ s.tier # Missing /\ s.tier \in Tiers
  /\ s.level # Missing /\ s.level \in Levels
  /\ s.maturity # Missing /\ s.maturity \in Maturities
  /\ s.label \in Maturities /\ s.fallback \in Maturities
  /\ s.from # Missing => s.from \in Maturities
  /\ \A runtime \in PackRuntimes : GivenClaim(s.claims[runtime])

LEMMA SupportStays ==
  ASSUME NEW y, NEW s, y.support = s, GivenSupport(s), IsTyped("support", s),
         NEW name, NEW bindings
  PROVE  DeriveSupport(y, name, bindings) = [s EXCEPT !.from = First(@, s.maturity)]
<1>1. PICK t : t = DeriveSupport(y, name, bindings)
  OBVIOUS
<1>2. /\ t.claims = DeriveRuntimeSupport(s, bindings)
      /\ t.publisher = s.publisher /\ t.deterministic = s.deterministic /\ t.live = s.live
      /\ t.safety = s.safety /\ t.migration = s.migration /\ t.entrypoint = s.entrypoint
      /\ t.docs = s.docs /\ t.wording = s.wording
  BY <1>1 DEF DeriveSupport, GivenSupport, First, Listed
<1>3. t.tier = s.tier /\ t.level = s.level
  BY <1>1 DEF DeriveSupport, GivenSupport, First, Clamp
<1>4. /\ t.maturity = s.maturity /\ t.label = s.label /\ t.fallback = s.fallback
      /\ t.from = First(s.from, s.maturity)
  BY <1>1 DEF DeriveSupport, GivenSupport, First, Clamp
<1>5. t.claims = s.claims
  <2>1. /\ s.claims # Missing /\ AreClaims(s.claims)
        /\ \A runtime \in PackRuntimes : GivenClaim(s.claims[runtime])
    BY DEF GivenSupport, IsTyped, AreClaims
  <2> QED BY <1>2, <2>1, ClaimsStay
<1>6. s = [f \in DOMAIN NoSupport |-> s[f]]
  BY DEF IsTyped, GivenSupport
<1>7. t = [f \in DOMAIN NoSupport |-> t[f]]
  BY <1>1, SupportIsRecord
<1>8. \A f \in DOMAIN NoSupport : t[f] = IF f = "from" THEN First(s.from, s.maturity) ELSE s[f]
  BY <1>2, <1>3, <1>4, <1>5 DEF NoSupport
<1>9. PICK from : from = First(s.from, s.maturity)
  OBVIOUS
<1>10. t = [f \in DOMAIN NoSupport |-> IF f = "from" THEN from ELSE s[f]]
  BY <1>7, <1>8, <1>9
<1>11. [s EXCEPT !.from = from] = [f \in DOMAIN NoSupport |-> IF f = "from" THEN from ELSE s[f]]
  BY <1>6
<1> QED BY <1>1, <1>9, <1>10, <1>11

\* What is said of a binding that must be said to stay as it is.
GivenBindings(b) ==
  /\ b # Missing /\ DOMAIN b = PackRuntimes
  /\ \A runtime \in PackRuntimes :
       /\ b[runtime].call # Missing /\ b[runtime].dir # Missing
       /\ b[runtime].picker \in Statuses /\ b[runtime].direct \in Statuses

LEMMA BindingsStay ==
  ASSUME NEW y, NEW b, y.bindings = b, GivenBindings(b), IsTyped("bindings", b),
         y.targets = Missing \/ y.targets = b, NEW c \in BOOLEAN,
         NEW t, t = NormalizeRuntimeBindings(y, c)
  PROVE  t = b
<1>1. /\ t = [runtime \in PackRuntimes |-> t[runtime]]
      /\ b = [runtime \in PackRuntimes |-> [f \in DOMAIN Unbound |-> b[runtime][f]]]
  BY DEF NormalizeRuntimeBindings, IsTyped, GivenBindings
<1>2. ASSUME NEW runtime \in PackRuntimes
      PROVE  t[runtime] = b[runtime]
  <2>1. PICK here : here = b[runtime]
    OBVIOUS
  <2>2. PICK there : there = BindingOf(y.targets, runtime)
    OBVIOUS
  <2>3. BindingOf(y.bindings, runtime) = here
    BY <2>1 DEF BindingOf, GivenBindings
  <2>4. there = Unbound \/ there = here
    BY <2>1, <2>2 DEF BindingOf, GivenBindings
  <2>5. /\ here.call # Missing /\ here.dir # Missing
        /\ here.picker \in Statuses /\ here.direct \in Statuses
        /\ here.picker # Missing
    BY <2>1, MissingIsNothing DEF GivenBindings
  <2>6. PICK lead : lead = IF c THEN here ELSE there
    OBVIOUS
  <2>7. PICK said : said = IF lead.picker # Missing \/ lead.direct # Missing THEN lead
                           ELSE IF c THEN there ELSE here
    OBVIOUS
  <2>8. said = here
    BY <2>4, <2>5, <2>6, <2>7 DEF Unbound
  <2>9. t[runtime] =
          [call |-> First(Prefer(c, here.call, there.call), PackName(y)),
           dir |-> First(Prefer(c, here.dir, there.dir), PackName(y)),
           picker |-> NormalizeCompatibility(said, runtime).picker,
           direct |-> NormalizeCompatibility(said, runtime).direct]
    BY <2>2, <2>3, <2>6, <2>7 DEF NormalizeRuntimeBindings
  <2>10. /\ First(Prefer(c, here.call, there.call), PackName(y)) = here.call
         /\ First(Prefer(c, here.dir, there.dir), PackName(y)) = here.dir
    BY <2>4, <2>5 DEF Prefer, First, Unbound
  <2>11. /\ NormalizeCompatibility(said, runtime).picker = here.picker
         /\ NormalizeCompatibility(said, runtime).direct = here.direct
    BY <2>5, <2>8 DEF NormalizeCompatibility, Clamp
  <2>12. t[runtime] = [call |-> here.call, dir |-> here.dir,
                       picker |-> here.picker, direct |-> here.direct]
    BY <2>9, <2>10, <2>11
  <2>13. here = [f \in DOMAIN Unbound |-> here[f]]
    BY <1>1, <2>1
  <2> QED BY <2>1, <2>12, <2>13 DEF Unbound
<1>3. b = [runtime \in PackRuntimes |-> b[runtime]]
  BY <1>1
<1> QED BY <1>1, <1>2, <1>3

\* The ids that the policy names, and those that the paths of the aliases stand for.
LEMMA EligibleStays ==
  ASSUME NEW E \in SUBSET Assets, Distinct(E), NEW y, y.entries = E, NEW c \in BOOLEAN,
         Include(y) = {} \/ Include(y) = PathsOf(SourceEntries(E)),
         NEW ids, ids = BuildEligibleAssetIds(y, BuildSourceEntries(y, c), c)
  PROVE  /\ c /\ IsGiven(y.eligible) => ids = y.eligible
         /\ (c /\ ~IsGiven(y.eligible)) \/ (~c /\ y.paths # Missing) => ids = OffersOf(E, y.paths)
<1>1. PICK X : X = OffersOf(E, y.paths)
  OBVIOUS
<1>2. PICK S : S = BuildSourceEntries(y, c)
  OBVIOUS
<1>3. S = {Offered(e, X) : e \in SourceEntries(E)}
  BY <1>1, <1>2, SourcesStay
<1>4. \A e \in SourceEntries(E) : Alike(Offered(e, X), e)
  BY MissingIsNothing, Partition, EntryOffered
<1>5. {e.id : e \in {s \in S : s.at \in Listed(y.paths)}} = X
  <2>1. ASSUME NEW e \in SourceEntries(E)
        PROVE  e.at \in Listed(y.paths) <=> e.id \in X
    <3>1. \A f \in SourceEntries(E) : f \in E
      BY MissingIsNothing DEF SourceEntries, Listed
    <3> QED BY <1>1, <3>1 DEF OffersOf, Distinct
  <2>2. \A s \in S : \E e \in SourceEntries(E) : s.id = e.id /\ s.at = e.at
    BY <1>3, <1>4 DEF Alike
  <2>3. \A e \in SourceEntries(E) : \E s \in S : s.id = e.id /\ s.at = e.at
    BY <1>3, <1>4 DEF Alike
  <2>4. \A i \in X : \E e \in SourceEntries(E) : i = e.id /\ e.at \in Listed(y.paths)
    BY <1>1 DEF OffersOf
  <2> QED BY <2>1, <2>2, <2>3, <2>4
<1> QED BY <1>1, <1>2, <1>5 DEF BuildEligibleAssetIds

-----------------------------------------------------------------------------
(***************************************************************************)
(* What a valid manifest says, and what is built from a record that says   *)
(* the same.                                                               *)
(***************************************************************************)

AreTyped(w) == \A f \in CanonicalFields : IsTyped(f, w[f])

LEMMA ValidIsGiven ==
  ASSUME NEW w, AreTyped(w), NEW strict, ValidateCanonical(w, strict)
  PROVE  /\ \A f \in CanonicalFields \ {"agent", "hook", "entries"} : w[f] # Missing
         /\ GivenBindings(w.bindings) /\ IsTyped("bindings", w.bindings)
         /\ GivenCatalog(w.catalog) /\ IsTyped("catalog", w.catalog)
         /\ GivenSupport(w.support) /\ IsTyped("support", w.support)
         /\ w.entries # Missing /\ w.entries \in SUBSET Assets /\ Distinct(w.entries)
         /\ DOMAIN w.owners = {e.id : e \in w.entries} /\ IsTyped("owners", w.owners)
         /\ IsGiven(w.smoke) /\ IsGiven(w.installs) /\ w.runtimes = PackRuntimes
         /\ w.class \in Classes /\ w.status \in {"active", "draft", "deprecated"}
         /\ w.channel \in Channels
<1>1. /\ \A f \in CanonicalFields \ {"agent", "hook", "entries"} : w[f] # Missing
      /\ \A f \in DOMAIN w.catalog \ {"replacement"} : w.catalog[f] # Missing
      /\ \A f \in DOMAIN w.support \ {"from"} : w.support[f] # Missing
      /\ \A runtime \in PackRuntimes : w.support.claims[runtime].required # Missing
      /\ w.support.from \in Maturities \cup {Missing}
      /\ w.class \in Classes /\ w.status \in {"active", "draft", "deprecated"}
  BY DEF ValidateCanonical, Complete
<1>2. /\ IsTyped("bindings", w.bindings) /\ IsTyped("catalog", w.catalog)
      /\ IsTyped("owners", w.owners) /\ IsTyped("support", w.support)
      /\ IsTyped("entries", w.entries)
  BY DEF AreTyped, CanonicalFields
<1>3. /\ w.name # Missing /\ w.bindings # Missing /\ w.catalog # Missing
      /\ w.support # Missing /\ w.smoke # Missing /\ w.installs # Missing
  BY <1>1 DEF CanonicalFields
<1>4. GivenBindings(w.bindings)
  <2>1. ValidateCanonicalRuntimeBindings(w)
    BY DEF ValidateCanonical
  <2> QED BY <1>3, <2>1 DEF ValidateCanonicalRuntimeBindings, GivenBindings
<1>5. GivenCatalog(w.catalog) /\ w.channel \in Channels
  <2>1. ValidateCanonicalCatalog(w)
    BY DEF ValidateCanonical
  <2>2. DOMAIN w.catalog = DOMAIN NoCatalog
    BY <1>2, <1>3 DEF IsTyped
  <2>3. \A f \in {"maturity", "discovered", "recommended", "release", "deprecation"} :
          w.catalog[f] # Missing
    BY <1>1, <2>2 DEF NoCatalog
  <2> QED BY <1>3, <2>1, <2>3 DEF ValidateCanonicalCatalog, GivenCatalog
<1>6. GivenSupport(w.support)
  <2>1. ValidateCanonicalSupport(w)
    BY DEF ValidateCanonical
  <2>2. PICK s : s = w.support
    OBVIOUS
  <2>3. DOMAIN s = DOMAIN NoSupport
    BY <1>2, <1>3, <2>2 DEF IsTyped
  <2>4. \A f \in DOMAIN NoSupport \ {"from"} : s[f] # Missing
    BY <1>1, <2>2, <2>3
  <2>5. /\ s.publisher # Missing /\ s.claims # Missing /\ s.deterministic # Missing
        /\ s.live # Missing /\ s.safety # Missing /\ s.migration # Missing
        /\ s.entrypoint # Missing /\ s.docs # Missing /\ s.wording # Missing
        /\ s.tier # Missing /\ s.level # Missing /\ s.maturity # Missing
    BY <2>4 DEF NoSupport
  <2>6. s.tier \in Tiers /\ s.level \in Levels
    BY <2>1, <2>2 DEF ValidateCanonicalSupport, ValidPublisherClaims
  <2>7. s.maturity \in Maturities /\ s.label \in Maturities /\ s.fallback \in Maturities
    BY <2>1, <2>2 DEF ValidateCanonicalSupport, ValidPromotionChecklist
  <2>8. ASSUME NEW runtime \in PackRuntimes
        PROVE  GivenClaim(s.claims[runtime])
    <3>1. PICK c : c = s.claims[runtime]
      OBVIOUS
    <3>2. ValidRuntimeSupport(c, w.bindings[runtime])
      BY <2>1, <2>2, <3>1 DEF ValidateCanonicalSupport
    <3>3. c.status \in Statuses \cup {"partial"} /\ c.kind \in EvidenceKinds
      BY <3>2 DEF ValidRuntimeSupport
    <3>4. c.required # Missing
      BY <1>1, <2>2, <3>1
    <3> QED BY <3>1, <3>3, <3>4, MissingIsNothing DEF GivenClaim
  <2>9. s.from # Missing => s.from \in Maturities
    BY <1>1, <2>2
  <2> QED BY <1>3, <2>2, <2>5, <2>6, <2>7, <2>8, <2>9 DEF GivenSupport
<1>7. w.entries # Missing /\ w.entries \in SUBSET Assets /\ Distinct(w.entries)
  <2>1. ValidateCanonicalRuntimeAssets(w, strict)
    BY DEF ValidateCanonical
  <2>2. SourceEntries(w.entries) # {} /\ Distinct(w.entries)
    BY <2>1 DEF ValidateCanonicalRuntimeAssets, Distinct
  <2>3. w.entries # Missing
    BY <2>2 DEF SourceEntries, Listed
  <2> QED BY <1>2, <2>2, <2>3 DEF IsTyped
<1>8. DOMAIN w.owners = {e.id : e \in w.entries}
  BY DEF ValidateCanonical, ValidateCanonicalAssetOwnership
<1>9. IsGiven(w.smoke) /\ IsGiven(w.installs) /\ w.runtimes = PackRuntimes
  <2>1. ValidateCanonicalSmokeChecks(w) /\ w.runtimes = PackRuntimes
    BY DEF ValidateCanonical
  <2>2. w.smoke # {} /\ w.installs # {}
    BY <2>1 DEF ValidateCanonicalSmokeChecks
  <2> QED BY <1>3, <2>1, <2>2 DEF IsGiven
<1> QED BY <1>1, <1>2, <1>4, <1>5, <1>6, <1>7, <1>8, <1>9

\* A record that says of a field what a valid manifest says, and whose aliases say nothing
\* else of it, is built into the same.
LEMMA FieldsStay ==
  ASSUME NEW w, AreTyped(w), NEW strict, ValidateCanonical(w, strict),
         NEW y, NEW c \in BOOLEAN, NEW n, n = ToCanonicalManifest(y, c)
  PROVE  /\ y.name = w.name /\ (y.pack # Missing => y.pack.id = w.name) => n.name = w.name
         /\ y.class = w.class /\ (y.pack # Missing => y.pack.class = w.class)
              => n.class = w.class
         /\ y.status = w.status /\ (y.pack # Missing => y.pack.status = w.status)
              => n.status = w.status
         /\ y.channel = w.channel => n.channel = w.channel
         /\ y.runtimes = w.runtimes => n.runtimes = w.runtimes
         /\ y.bindings = w.bindings /\ (y.targets # Missing => y.targets = w.bindings)
              => n.bindings = w.bindings
         /\ y.agent = w.agent => n.agent = w.agent
         /\ y.installs = w.installs => n.installs = w.installs
         /\ y.memory = w.memory => n.memory = w.memory
         /\ y.caps = w.caps => n.caps = w.caps
         /\ y.hook = w.hook => n.hook = w.hook
         /\ y.smoke = w.smoke => n.smoke = w.smoke
         /\ y.docs = w.docs => n.docs = w.docs
         /\ y.catalog = w.catalog => n.catalog = w.catalog
<1>1. /\ w.name # Missing /\ w.class # Missing /\ w.status # Missing /\ w.channel # Missing
      /\ w.runtimes # Missing /\ w.memory # Missing /\ w.caps # Missing /\ w.docs # Missing
  <2>1. \A f \in CanonicalFields \ {"agent", "hook", "entries"} : w[f] # Missing
    BY ValidIsGiven
  <2> QED BY <2>1 DEF CanonicalFields
<1>2. y.name = w.name /\ (y.pack # Missing => y.pack.id = w.name) => n.name = w.name
  <2>1. n.name = First(PackName(y), "unknown-pack")
    BY CanonicalParts
  <2> QED BY <1>1, <2>1 DEF PackName, OfPack, First
<1>3. /\ y.class = w.class /\ (y.pack # Missing => y.pack.class = w.class)
           => n.class = w.class
      /\ y.status = w.status /\ (y.pack # Missing => y.pack.status = w.status)
           => n.status = w.status
  <2>1. /\ n.class = Clamp(First(OfPack(y, "class"), y.class), Classes, "read-oriented")
        /\ n.status = Clamp(First(First(OfPack(y, "status"), y.status), "active"),
                            {"active", "draft", "deprecated"}, "active")
    BY CanonicalParts
  <2>2. w.class \in Classes /\ w.status \in {"active", "draft", "deprecated"}
    BY ValidIsGiven
  <2> QED BY <1>1, <2>1, <2>2 DEF OfPack, First, Clamp
<1>4. y.channel = w.channel => n.channel = w.channel
  <2>1. n.channel = Clamp(First(y.channel, "stable"), Channels, "stable")
    BY CanonicalParts
  <2>2. w.channel \in Channels
    BY ValidIsGiven
  <2> QED BY <1>1, <2>1, <2>2 DEF First, Clamp
<1>5. y.runtimes = w.runtimes => n.runtimes = w.runtimes
  <2>1. n.runtimes = DeriveSupportedRuntimes(y)
    BY CanonicalParts
  <2>2. w.runtimes = PackRuntimes
    BY ValidIsGiven
  <2> QED BY <1>1, <2>1, <2>2, RuntimesStay
<1>6. y.bindings = w.bindings /\ (y.targets # Missing => y.targets = w.bindings)
        => n.bindings = w.bindings
  <2>1. n.bindings = NormalizeRuntimeBindings(y, c)
    BY CanonicalParts
  <2>2. GivenBindings(w.bindings) /\ IsTyped("bindings", w.bindings)
    BY ValidIsGiven
  <2> QED BY <2>1, <2>2, BindingsStay
<1>7. (y.agent = w.agent => n.agent = w.agent) /\ (y.hook = w.hook => n.hook = w.hook)
  BY CanonicalParts
<1>8. y.installs = w.installs => n.installs = w.installs
  <2>1. n.installs = IF IsGiven(y.installs) THEN y.installs ELSE Targets
    BY CanonicalParts
  <2>2. IsGiven(w.installs)
    BY ValidIsGiven
  <2> QED BY <2>1, <2>2
<1>9. (y.memory = w.memory => n.memory = w.memory) /\ (y.caps = w.caps => n.caps = w.caps)
  <2>1. /\ n.memory = First(y.memory, "read")
        /\ n.caps = First(y.caps, {"repo_read", "memory_read"})
    BY CanonicalParts
  <2> QED BY <1>1, <2>1 DEF First
<1>10. y.smoke = w.smoke => n.smoke = w.smoke
  <2>1. n.smoke = BuildSmokeChecks(y, n.runtimes, n.installs)
    BY CanonicalParts
  <2>2. IsGiven(w.smoke)
    BY ValidIsGiven
  <2> QED BY <2>1, <2>2, SmokeStays
<1>11. y.docs = w.docs => n.docs = w.docs
  <2>1. n.docs = First(First(y.docs, IF y.assets = Missing THEN Missing ELSE y.assets.docs),
                       "default")
    BY CanonicalParts
  <2> QED BY <1>1, <2>1 DEF First
<1>12. y.catalog = w.catalog => n.catalog = w.catalog
  <2>1. PICK channel, status : n.catalog = DeriveCatalog(y, n.name, channel, status)
    BY CanonicalParts
  <2>2. GivenCatalog(w.catalog) /\ IsTyped("catalog", w.catalog)
    BY ValidIsGiven
  <2> QED BY <2>1, <2>2, CatalogStays
<1> QED BY <1>2, <1>3, <1>4, <1>5, <1>6, <1>7, <1>8, <1>9, <1>10, <1>11, <1>12

\* The same of its assets, when nothing is generated that it does not list.
LEMMA AssetsStay ==
  ASSUME NEW w, AreTyped(w), NEW strict, ValidateCanonical(w, strict),
         NEW y, NEW c \in BOOLEAN, NEW n, n = ToCanonicalManifest(y, c),
         y.entries = w.entries,
         Include(y) = {} \/ Include(y) = PathsOf(SourceEntries(w.entries)),
         Covers(y, w.entries)
  PROVE  /\ n.entries = Offer(w.entries, OffersOf(w.entries, y.paths))
         /\ y.owners = w.owners => n.owners = w.owners
         /\ c /\ IsGiven(y.eligible) => n.eligible = y.eligible
         /\ (c /\ ~IsGiven(y.eligible)) \/ (~c /\ y.paths # Missing)
              => n.eligible = OffersOf(w.entries, y.paths)
<1>1. PICK E : E = w.entries
  OBVIOUS
<1>2. E \in SUBSET Assets /\ Distinct(E)
  BY <1>1, ValidIsGiven
<1>3. /\ n.entries = BuildSourceEntries(y, c) \cup BuildGeneratedEntries(y)
      /\ n.owners = BuildAssetOwnership(y, n.entries)
      /\ n.eligible = BuildEligibleAssetIds(y, BuildSourceEntries(y, c), c)
  BY CanonicalParts
<1>4. n.entries = Offer(E, OffersOf(E, y.paths))
  BY <1>1, <1>2, <1>3, EntriesStay
<1>5. y.owners = w.owners => n.owners = w.owners
  <2>1. DOMAIN w.owners = {e.id : e \in E} /\ IsTyped("owners", w.owners)
    BY <1>1, ValidIsGiven
  <2>2. {f.id : f \in n.entries} = {e.id : e \in E}
    BY <1>2, <1>4, SetOffered
  <2>3. w.owners # Missing
    BY ValidIsGiven DEF CanonicalFields
  <2> QED BY <1>3, <2>1, <2>2, <2>3, OwnersStay
<1>6. /\ c /\ IsGiven(y.eligible) => n.eligible = y.eligible
      /\ (c /\ ~IsGiven(y.eligible)) \/ (~c /\ y.paths # Missing)
           => n.eligible = OffersOf(E, y.paths)
  BY <1>1, <1>2, <1>3, EligibleStays
<1> QED BY <1>1, <1>4, <1>5, <1>6

-----------------------------------------------------------------------------
(***************************************************************************)
(* A manifest that says what a valid one says is valid.                    *)
(***************************************************************************)

\* Where a workflow comes from is where it is, when nothing is said.
Placed(s) == [s EXCEPT !.from = First(@, s.maturity)]

LEMMA PlacedParts ==
  ASSUME NEW s, s = [f \in DOMAIN NoSupport |-> s[f]], NEW t, t = Placed(s)
  PROVE  /\ DOMAIN t = DOMAIN s
         /\ \A f \in DOMAIN NoSupport \ {"from"} : t[f] = s[f]
         /\ t.from = First(s.from, s.maturity)
         /\ t.publisher = s.publisher /\ t.tier = s.tier /\ t.level = s.level
         /\ t.maturity = s.maturity /\ t.deterministic = s.deterministic /\ t.live = s.live
         /\ t.safety = s.safety /\ t.migration = s.migration /\ t.label = s.label
         /\ t.entrypoint = s.entrypoint /\ t.docs = s.docs /\ t.wording = s.wording
         /\ t.fallback = s.fallback /\ t.claims = s.claims
         /\ s.from # Missing => t = s
<1>1. PICK from : from = First(s.from, s.maturity)
  OBVIOUS
<1>2. t = [s EXCEPT !.from = from]
  BY <1>1 DEF Placed
<1>3. "from" \in DOMAIN NoSupport /\ DOMAIN s = DOMAIN NoSupport
  BY DEF NoSupport
<1>4. /\ DOMAIN t = DOMAIN s /\ t.from = from
      /\ \A f \in DOMAIN NoSupport \ {"from"} : t[f] = s[f]
  BY <1>2, <1>3
<1>5. s.from # Missing => t = s
  <2>1. s.from # Missing => from = s.from
    BY <1>1 DEF First
  <2>2. from = s.from => \A f \in DOMAIN NoSupport : t[f] = s[f]
    BY <1>4
  <2>3. t = [f \in DOMAIN NoSupport |-> t[f]]
    BY <1>2, <1>3
  <2> QED BY <2>1, <2>2, <2>3
<1> QED BY <1>1, <1>4, <1>5 DEF NoSupport

LEMMA SupportStaysValid ==
  ASSUME NEW w, ValidateCanonicalSupport(w), NEW n,
         w.support = [f \in DOMAIN NoSupport |-> w.support[f]],
         n.support = Placed(w.support), w.support.maturity # Missing,
         n.bindings = w.bindings, n.status = w.status, n.catalog = w.catalog,
         n.class = w.class, n.memory = w.memory, n.caps = w.caps
  PROVE  ValidateCanonicalSupport(n)
<1>0. PICK s, t : s = w.support /\ t = n.support
  OBVIOUS
<1>1. /\ t.from = First(s.from, s.maturity)
      /\ t.publisher = s.publisher /\ t.tier = s.tier /\ t.level = s.level
      /\ t.maturity = s.maturity /\ t.deterministic = s.deterministic /\ t.live = s.live
      /\ t.safety = s.safety /\ t.migration = s.migration /\ t.label = s.label
      /\ t.entrypoint = s.entrypoint /\ t.docs = s.docs /\ t.wording = s.wording
      /\ t.fallback = s.fallback /\ t.claims = s.claims
  BY <1>0, PlacedParts
<1>2. /\ t.maturity \in Maturities /\ t.fallback \in Maturities
      /\ \A runtime \in PackRuntimes :
           ValidRuntimeSupport(t.claims[runtime], n.bindings[runtime])
  BY <1>0, <1>1 DEF ValidateCanonicalSupport
<1>3. ValidTransition(t)
  BY <1>0, <1>1 DEF ValidateCanonicalSupport, ValidTransition, First
<1>4. ValidEvidence(t)
  <2>1. ValidEvidence(s)
    BY <1>0 DEF ValidateCanonicalSupport
  <2>2. UNION {t.live[runtime] : runtime \in PackRuntimes}
          = UNION {s.live[runtime] : runtime \in PackRuntimes}
    BY <1>1
  <2> QED BY <1>1, <2>1, <2>2 DEF ValidEvidence
<1>5. ValidPromotionChecklist(t) /\ ValidDemotionPolicy(t)
  BY <1>0, <1>1 DEF ValidateCanonicalSupport, ValidPromotionChecklist, ValidDemotionPolicy
<1>6. ValidDeprecation(n)
  BY <1>0, <1>1 DEF ValidateCanonicalSupport, ValidDeprecation
<1>7. ValidWriteAuthority(n)
  <2>1. ValidWriteAuthority(w)
    BY DEF ValidateCanonicalSupport
  <2>2. WritesMemory(n) <=> WritesMemory(w)
    BY DEF WritesMemory
  <2>3. WritesMemory(w) =>
          /\ s.maturity \in {"preview", "beta", "stable"} => s.safety # {}
          /\ s.maturity = "stable" =>
               /\ Cardinality(s.safety) >= 2
               /\ \A runtime \in PackRuntimes : s.claims[runtime].required =>
                    /\ s.claims[runtime].kind = "pack-runtime-live"
                    /\ s.claims[runtime].status \in {"supported", "partial"}
    BY <1>0, <2>1, Zenon DEF ValidWriteAuthority
  <2>4. s.maturity = t.maturity /\ s.safety = t.safety /\ s.claims = t.claims
    BY <1>1
  <2>5. WritesMemory(n) =>
          /\ t.maturity \in {"preview", "beta", "stable"} => t.safety # {}
          /\ t.maturity = "stable" =>
               /\ Cardinality(t.safety) >= 2
               /\ \A runtime \in PackRuntimes : t.claims[runtime].required =>
                    /\ t.claims[runtime].kind = "pack-runtime-live"
                    /\ t.claims[runtime].status \in {"supported", "partial"}
    BY <2>2, <2>3, <2>4, Zenon
  <2> QED BY <1>0, <2>5, Zenon DEF ValidWriteAuthority
<1>8. ValidPublisherClaims(n)
  BY <1>0, <1>1 DEF ValidateCanonicalSupport, ValidPublisherClaims
<1> QED BY <1>0, <1>2, <1>3, <1>4, <1>5, <1>6, <1>7, <1>8 DEF ValidateCanonicalSupport

LEMMA AssetsStayValid ==
  ASSUME NEW w, NEW strict, ValidateCanonicalRuntimeAssets(w, strict),
         NEW E, E = w.entries, E \in SUBSET Assets,
         NEW n, NEW X, n.entries = Offer(E, X), NEW again,
         again => Covers(n, E)
  PROVE  ValidateCanonicalRuntimeAssets(n, again)
<1>1. PICK F : F = n.entries
  OBVIOUS
<1>2. /\ F \subseteq Assets
      /\ \A e \in E : \E f \in F : Alike(f, e)
      /\ SourceEntries(F) = {Offered(e, X) : e \in SourceEntries(E)}
      /\ Made(F) = Made(E)
      /\ Distinct(E) => Distinct(F)
  BY <1>1, SetOffered
<1>3. Distinct(E) /\ E # {}
  BY DEF ValidateCanonicalRuntimeAssets, Distinct
<1>4. F # {}
  BY <1>2, <1>3
<1>5. \E f \in SourceEntries(F) : f.at = "SKILL.md" /\ f.kind = "skill_markdown"
  <2>1. PICK e \in SourceEntries(E) : e.at = "SKILL.md" /\ e.kind = "skill_markdown"
    BY DEF ValidateCanonicalRuntimeAssets
  <2>2. e \in Assets
    BY Partition
  <2>3. Alike(Offered(e, X), e)
    BY <2>2, EntryOffered
  <2> QED BY <1>2, <2>1, <2>3 DEF Alike
<1>6. again => \A d \in DefaultGeneratedEntries(n) : \E f \in Made(F) : f.id = d.id
  BY <1>2 DEF Covers
<1> QED BY <1>1, <1>2, <1>3, <1>4, <1>5, <1>6 DEF ValidateCanonicalRuntimeAssets, Distinct

LEMMA StaysValid ==
  ASSUME NEW w, AreTyped(w), NEW strict, ValidateCanonical(w, strict), NEW n,
         n.name = w.name, n.class = w.class, n.status = w.status, n.channel = w.channel,
         n.runtimes = w.runtimes, n.bindings = w.bindings, n.installs = w.installs,
         n.memory = w.memory, n.caps = w.caps, n.owners = w.owners, n.smoke = w.smoke,
         n.docs = w.docs, n.catalog = w.catalog,
         n.servers # Missing, n.support = Placed(w.support),
         NEW X, n.entries = Offer(w.entries, X),
         n.eligible \subseteq {e.id : e \in w.entries} \ {"ownership-receipt"},
         NEW again, again => Covers(n, w.entries)
  PROVE  ValidateCanonical(n, again)
<1>1. w.entries \in SUBSET Assets
  BY ValidIsGiven
<1>2. {f.id : f \in n.entries} = {e.id : e \in w.entries}
  <2>1. PICK E, F : E = w.entries /\ F = n.entries
    OBVIOUS
  <2>2. E \in SUBSET Assets /\ F = Offer(E, X)
    BY <1>1, <2>1
  <2>3. {f.id : f \in F} = {e.id : e \in E}
    BY <2>2, SetOffered
  <2> QED BY <2>1, <2>3
<1>3. n.eligible # Missing
  <2>1. n.eligible \subseteq AssetIds
    BY <1>1 DEF AssetIds
  <2> QED BY <2>1, MissingIsNothing
<1>4. PICK s, t : s = w.support /\ t = n.support
  OBVIOUS
<1>5. GivenSupport(s) /\ IsTyped("support", s)
  BY <1>4, ValidIsGiven
<1>6. s # Missing /\ s.maturity # Missing /\ s.maturity \in Maturities
  BY <1>5 DEF GivenSupport
<1>7. s = [f \in DOMAIN NoSupport |-> s[f]] /\ (s.from = Missing => Placed(s) # Missing)
  BY <1>5, <1>6 DEF IsTyped, Placed, First
<1>8. /\ DOMAIN t = DOMAIN s
      /\ \A f \in DOMAIN NoSupport \ {"from"} : t[f] = s[f]
      /\ t.from = First(s.from, s.maturity) /\ t.claims = s.claims
      /\ s.from # Missing => t = s
  BY <1>4, <1>7, PlacedParts
<1>9. t # Missing
  BY <1>4, <1>6, <1>7, <1>8
<1>10. Complete(n)
  <2>1. Complete(w)
    BY DEF ValidateCanonical
  <2>2. \A f \in CanonicalFields \ {"agent", "hook", "entries"} : n[f] # Missing
    BY <1>3, <1>4, <1>9, <2>1 DEF Complete, CanonicalFields
  <2>3. \A f \in DOMAIN n.catalog \ {"replacement"} : n.catalog[f] # Missing
    BY <2>1 DEF Complete
  <2>4. \A f \in DOMAIN t \ {"from"} : t[f] # Missing
    BY <1>4, <1>7, <1>8, <2>1 DEF Complete
  <2>5. \A runtime \in PackRuntimes : t.claims[runtime].required # Missing
    BY <1>4, <1>8, <2>1 DEF Complete
  <2>6. t.from \in Maturities \cup {Missing}
    BY <1>4, <1>6, <1>8, <2>1 DEF Complete, First
  <2> QED BY <1>4, <2>1, <2>2, <2>3, <2>4, <2>5, <2>6 DEF Complete
<1>11. ValidateCanonicalRuntimeBindings(n)
  BY DEF ValidateCanonical, ValidateCanonicalRuntimeBindings
<1>12. ValidateCanonicalRuntimeAssets(n, again)
  <2>1. ValidateCanonicalRuntimeAssets(w, strict)
    BY DEF ValidateCanonical
  <2> QED BY <1>1, <2>1, AssetsStayValid
<1>13. ValidateCanonicalAssetOwnership(n)
  BY <1>2 DEF ValidateCanonical, ValidateCanonicalAssetOwnership
<1>14. ValidateCanonicalOverridePolicy(n)
  BY <1>2 DEF ValidateCanonicalOverridePolicy
<1>15. ValidateCanonicalSmokeChecks(n)
  BY DEF ValidateCanonical, ValidateCanonicalSmokeChecks
<1>16. ValidateCanonicalCatalog(n)
  BY DEF ValidateCanonical, ValidateCanonicalCatalog
<1>17. ValidateCanonicalSupport(n)
  <2>1. ValidateCanonicalSupport(w)
    BY DEF ValidateCanonical
  <2>2. /\ w.support = [f \in DOMAIN NoSupport |-> w.support[f]]
        /\ w.support.maturity # Missing
    BY <1>4, <1>6, <1>7
  <2> QED BY <2>1, <2>2, SupportStaysValid
<1> QED BY <1>10, <1>11, <1>12, <1>13, <1>14, <1>15, <1>16, <1>17 DEF ValidateCanonical

-----------------------------------------------------------------------------
(***************************************************************************)
(* What is loaded is whole: a valid record is normalized to a valid        *)
(* manifest, which covers all it would be given.                           *)
(***************************************************************************)

LEMMA SupportBuilt ==
  ASSUME NEW w, AreTyped(w), NEW strict, ValidateCanonical(w, strict),
         NEW y, y.support = w.support, NEW c, NEW n, n = ToCanonicalManifest(y, c)
  PROVE  n.support = Placed(w.support)
<1>1. n.support = DeriveSupport(y, n.name, n.bindings)
  BY CanonicalParts
<1>2. GivenSupport(w.support) /\ IsTyped("support", w.support)
  BY ValidIsGiven
<1> QED BY <1>1, <1>2, SupportStays DEF Placed

\* The receipt is no source.
LEMMA OffersAreAllowed ==
  ASSUME NEW w, AreTyped(w), NEW strict, ValidateCanonical(w, strict), NEW paths,
         \E e \in Made(w.entries) : e.id = "ownership-receipt"
  PROVE  OffersOf(w.entries, paths) \subseteq {e.id : e \in w.entries} \ {"ownership-receipt"}
<1>1. w.entries \in SUBSET Assets /\ Distinct(w.entries) /\ w.entries # Missing
  BY ValidIsGiven
<1>2. PICK e \in Made(w.entries) : e.id = "ownership-receipt"
  OBVIOUS
<1>3. e \in w.entries /\ e.made
  BY <1>1, Partition DEF Listed
<1>4. ASSUME NEW s \in SourceEntries(w.entries)
      PROVE  s \in w.entries /\ s.id # "ownership-receipt"
  <2>1. s \in w.entries /\ ~s.made
    BY <1>1, Partition DEF Listed
  <2>2. s # e
    BY <1>3, <2>1
  <2> QED BY <1>1, <1>2, <1>3, <2>1, <2>2 DEF Distinct
<1>5. \A i \in OffersOf(w.entries, paths) : \E s \in SourceEntries(w.entries) : i = s.id
  BY DEF OffersOf
<1> QED BY <1>4, <1>5

LEMMA StrictNormalizes ==
  ASSUME NEW x, IsRecord(x), NEW strict, ValidateCanonical(x, strict), Covers(x, x.entries),
         ~HasAliases(x), NEW c \in BOOLEAN, NEW n, n = ToCanonicalManifest(x, c),
         NEW again \in BOOLEAN, ~again
  PROVE  c => ValidateCanonical(n, again)
<1>1. AreTyped(x)
  BY DEF IsRecord, AreTyped, Fields
<1>2. x.pack = Missing /\ x.assets = Missing /\ x.targets = Missing
  BY DEF HasAliases
<1>3. Include(x) = {}
  BY <1>2 DEF Include
<1>4. /\ n.name = x.name /\ n.class = x.class /\ n.status = x.status /\ n.channel = x.channel
      /\ n.runtimes = x.runtimes /\ n.bindings = x.bindings /\ n.installs = x.installs
      /\ n.memory = x.memory /\ n.caps = x.caps /\ n.smoke = x.smoke /\ n.docs = x.docs
      /\ n.catalog = x.catalog
  BY <1>1, <1>2, FieldsStay
<1>5. /\ n.entries = Offer(x.entries, OffersOf(x.entries, x.paths))
      /\ n.owners = x.owners
      /\ c => n.eligible = x.eligible \/ n.eligible = OffersOf(x.entries, x.paths)
  <2>1. n.eligible = BuildEligibleAssetIds(x, BuildSourceEntries(x, c), c)
    BY CanonicalParts
  <2>2. PICK E : E = x.entries /\ E \in SUBSET Assets /\ Distinct(E)
    BY <1>1, ValidIsGiven
  <2>3. PICK ids : ids = n.eligible
    OBVIOUS
  <2>4. /\ c /\ IsGiven(x.eligible) => ids = x.eligible
        /\ c /\ ~IsGiven(x.eligible) => ids = OffersOf(E, x.paths)
    BY <1>3, <2>1, <2>2, <2>3, EligibleStays
  <2>5. /\ n.entries = Offer(x.entries, OffersOf(x.entries, x.paths))
        /\ n.owners = x.owners
    BY <1>1, <1>3, AssetsStay
  <2> QED BY <2>2, <2>3, <2>4, <2>5
<1>6. n.support = Placed(x.support)
  BY <1>1, SupportBuilt
<1>7. n.servers # Missing
  BY ServersBuilt, MissingIsNothing
<1>8. c => n.eligible \subseteq {e.id : e \in x.entries} \ {"ownership-receipt"}
  <2>1. x.eligible \subseteq {e.id : e \in x.entries} \ {"ownership-receipt"}
    BY DEF ValidateCanonical, ValidateCanonicalOverridePolicy
  <2>2. \E e \in Made(x.entries) : e.id = "ownership-receipt"
    <3>1. PICK d : d = Generated("ownership-receipt")
      OBVIOUS
    <3>2. d \in DefaultGeneratedEntries(x)
      BY <3>1 DEF DefaultGeneratedEntries
    <3>3. d.id = "ownership-receipt"
      BY <3>1, NewEntries
    <3> QED BY <3>2, <3>3 DEF Covers
  <2>3. OffersOf(x.entries, x.paths) \subseteq {e.id : e \in x.entries} \ {"ownership-receipt"}
    BY <1>1, <2>2, OffersAreAllowed
  <2> QED BY <1>5, <2>1, <2>3
<1> QED BY <1>1, <1>4, <1>5, <1>6, <1>7, <1>8, StaysValid

LEMMA ValidNormalizes ==
  ASSUME NEW x, IsRecord(x), ValidatePackManifestV2(x), NEW n, n = ByShape(x),
         NEW again \in BOOLEAN, ~again
  PROVE  /\ ValidateCanonical(n, again)
         /\ AreTyped(n)
         /\ n.support.from # Missing
         /\ n.servers = TRUE \/ n.servers = FALSE
<1>1. PICK c \in BOOLEAN : n = ToCanonicalManifest(x, c) /\ (c <=> Shape(x) = "canonical")
  BY DEF ByShape
<1>2. AreTyped(n) /\ n.support.from # Missing
  BY <1>1, BuiltIsTyped DEF AreTyped
<1>3. n.servers = TRUE \/ n.servers = FALSE
  BY <1>1, ServersBuilt
<1>4. PICK strict \in BOOLEAN : /\ strict <=> (Shape(x) = "canonical" /\ ~HasAliases(x))
                              /\ ValidateCanonical(IF strict THEN x ELSE ByShape(x), strict)
  BY DEF ValidatePackManifestV2
<1>5. CASE strict
  <2>1. c = strict /\ ~HasAliases(x)
    BY <1>1, <1>4, <1>5
  <2>2. ValidateCanonical(x, strict)
    BY <1>4, <1>5
  <2>3. Covers(x, x.entries)
    BY <1>5, <2>2 DEF ValidateCanonical, ValidateCanonicalRuntimeAssets, Covers
  <2>4. c => ValidateCanonical(n, again)
    BY <1>1, <2>1, <2>2, <2>3, StrictNormalizes
  <2> QED BY <1>2, <1>3, <1>5, <2>1, <2>4
<1>6. CASE ~strict
  <2>1. again = strict
    BY <1>6
  <2> QED BY <1>2, <1>3, <1>4, <1>6, <2>1
<1> QED BY <1>5, <1>6

\* What it is built from agrees, so nothing more is generated of it.
LEMMA BuiltCovers ==
  ASSUME NEW x, IsRecord(x), Agrees(x), NEW c, NEW w, w = ToCanonicalManifest(x, c),
         NEW y, y.class = w.class, w.class # Missing, y.servers = w.servers,
         y.agent = w.agent, y.hook = w.hook
  PROVE  Covers(y, w.entries)
<1>1. Made(w.entries) = BuildGeneratedEntries(x)
  <2>1. w.entries = BuildSourceEntries(x, c) \cup BuildGeneratedEntries(x)
    BY CanonicalParts
  <2>2. (x.entries # Missing => x.entries \subseteq Assets) /\ Include(x) \subseteq SourcePaths
    BY FieldsOfRecord
  <2> QED BY <2>1, <2>2, EntriesBuilt
<1>2. \A d \in DefaultGeneratedEntries(x) : \E e \in Made(w.entries) : e.id = d.id
  BY <1>1 DEF BuildGeneratedEntries
<1>3. /\ w.class = Clamp(First(OfPack(x, "class"), x.class), Classes, "read-oriented")
      /\ w.agent = x.agent /\ w.hook = x.hook /\ (w.servers = TRUE <=> x.servers = TRUE)
  <2>1. w.servers = TRUE <=> x.servers = TRUE
    BY ServersBuilt
  <2>2. /\ w.class = Clamp(First(OfPack(x, "class"), x.class), Classes, "read-oriented")
        /\ w.agent = x.agent /\ w.hook = x.hook
    BY CanonicalParts
  <2> QED BY <2>1, <2>2
<1>4. First(y.class, OfPack(y, "class")) = "write-authority"
        => First(x.class, OfPack(x, "class")) = "write-authority"
  <2>1. First(y.class, OfPack(y, "class")) = w.class
    BY DEF First
  <2>2. w.class = "write-authority" => First(OfPack(x, "class"), x.class) = "write-authority"
    BY <1>3 DEF Clamp
  <2>3. First(OfPack(x, "class"), x.class) = "write-authority"
          => First(x.class, OfPack(x, "class")) = "write-authority"
    BY DEF First, Agrees
  <2> QED BY <2>1, <2>2, <2>3
<1>5. y.agent = TRUE /\ PackName(y) # Missing => x.agent = TRUE /\ PackName(x) # Missing
  BY <1>3 DEF Agrees
<1>6. (y.servers = TRUE => x.servers = TRUE) /\ (y.hook = TRUE => x.hook = TRUE)
  BY <1>3
<1>7. DefaultGeneratedEntries(y) \subseteq DefaultGeneratedEntries(x)
  BY <1>4, <1>5, <1>6 DEF DefaultGeneratedEntries
<1> QED BY <1>2, <1>7 DEF Covers

-----------------------------------------------------------------------------
(***************************************************************************)
(* Loading.                                                                *)
(***************************************************************************)

\* The paths of the aliases stand for the sources that the policy names.
LEMMA PathsAreOffers ==
  ASSUME NEW E \in SUBSET Assets, Distinct(E), NEW ids, NEW paths, paths # Missing,
         paths = {e.at : e \in {s \in SourceEntries(E) : s.id \in ids}},
         NEW X, X = OffersOf(E, paths)
  PROVE  /\ X = {e.id : e \in SourceEntries(E)} \cap ids
         /\ Offer(E, X) = Offer(E, ids)
<1>1. E # Missing
  BY MissingIsNothing
<1>2. \A e \in SourceEntries(E) : e \in E /\ e.made = FALSE
  BY <1>1, Partition, AssetsAreEntries DEF Listed
<1>3. \A e, f \in SourceEntries(E) : e.at = f.at => e = f
  BY <1>2 DEF Distinct
<1>4. \A e \in SourceEntries(E) : e.at \in paths <=> e.id \in ids
  BY <1>3
<1>5. X = {e.id : e \in SourceEntries(E)} \cap ids
  <2>1. X = {s.id : s \in {e \in SourceEntries(E) : e.id \in ids}}
    BY <1>4 DEF OffersOf, Listed
  <2> QED BY <2>1
<1>6. ASSUME NEW e \in E
      PROVE  Offered(e, X) = Offered(e, ids)
  <2>1. ~e.made => e \in SourceEntries(E)
    BY <1>1 DEF SourceEntries, Listed
  <2>2. e.made \/ (e.id \in X <=> e.id \in ids)
    BY <1>5, <2>1
  <2> QED BY <2>2, EntryOffered
<1> QED BY <1>5, <1>6 DEF Offer

LEMMA LoadSettles ==
  ASSUME NEW x, IsRecord(x), ValidatePackManifestV2(x), Agrees(x),
         NEW m, m = LoadPackManifest(x)
  PROVE  /\ ValidatePackManifestV2(m)
         /\ Same(ByShape(m), Reread(m), CanonicalFields)
<1>1. PICK again \in BOOLEAN : ~again
  OBVIOUS
<1>2. PICK w : w = ByShape(x)
  OBVIOUS
<1>3. /\ ValidateCanonical(w, again) /\ AreTyped(w) /\ w.support.from # Missing
      /\ w.servers = TRUE \/ w.servers = FALSE
  BY <1>1, <1>2, ValidNormalizes
<1>4. /\ \A f \in CanonicalFields : m[f] = w[f]
      /\ m.pack = [id |-> w.name, class |-> w.class, status |-> w.status]
      /\ m.assets = [include |-> PathsOf(SourceEntries(w.entries)), docs |-> w.docs]
      /\ m.assets # Missing /\ m.targets = w.bindings /\ m.paths # Missing
      /\ m.paths = {e.at : e \in {s \in SourceEntries(w.entries) : s.id \in w.eligible}}
      /\ IsRecord(m)
  BY <1>2, LoadedIsRecord
<1>5. PICK n : n = ByShape(m)
  OBVIOUS
<1>6. PICK c \in BOOLEAN : n = ToCanonicalManifest(m, c) /\ (c <=> Shape(m) = "canonical")
  BY <1>5 DEF ByShape
<1>7. /\ w.entries \in SUBSET Assets /\ Distinct(w.entries)
      /\ \A f \in CanonicalFields \ {"agent", "hook", "entries"} : w[f] # Missing
  BY <1>3, ValidIsGiven
<1>8. /\ n.name = w.name /\ n.class = w.class /\ n.status = w.status /\ n.channel = w.channel
      /\ n.runtimes = w.runtimes /\ n.bindings = w.bindings /\ n.agent = w.agent
      /\ n.installs = w.installs /\ n.memory = w.memory /\ n.caps = w.caps
      /\ n.hook = w.hook /\ n.smoke = w.smoke /\ n.docs = w.docs /\ n.catalog = w.catalog
  <2>1. /\ m.name = w.name /\ m.class = w.class /\ m.status = w.status
        /\ m.channel = w.channel /\ m.runtimes = w.runtimes /\ m.bindings = w.bindings
        /\ m.agent = w.agent /\ m.installs = w.installs /\ m.memory = w.memory
        /\ m.caps = w.caps /\ m.hook = w.hook /\ m.smoke = w.smoke /\ m.docs = w.docs
        /\ m.catalog = w.catalog
    BY <1>4 DEF CanonicalFields
  <2>2. m.pack.id = w.name /\ m.pack.class = w.class /\ m.pack.status = w.status
    BY <1>4
  <2> QED BY <1>3, <1>4, <1>6, <2>1, <2>2, FieldsStay
<1>9. Covers(m, w.entries)
  <2>1. PICK d : w = ToCanonicalManifest(x, d)
    BY <1>2 DEF ByShape
  <2>2. /\ m.class = w.class /\ w.class # Missing /\ m.servers = w.servers
        /\ m.agent = w.agent /\ m.hook = w.hook
    BY <1>4, <1>7 DEF CanonicalFields
  <2> QED BY <2>1, <2>2, BuiltCovers
<1>10. PICK X : X = OffersOf(w.entries, m.paths)
  OBVIOUS
<1>11. /\ X = {e.id : e \in SourceEntries(w.entries)} \cap w.eligible
      /\ Offer(w.entries, X) = Offer(w.entries, w.eligible)
  <2>1. PICK E, ids, paths : E = w.entries /\ ids = w.eligible /\ paths = m.paths
    OBVIOUS
  <2>2. /\ E \in SUBSET Assets /\ Distinct(E) /\ paths # Missing /\ X = OffersOf(E, paths)
        /\ paths = {e.at : e \in {s \in SourceEntries(E) : s.id \in ids}}
    BY <1>4, <1>7, <1>10, <2>1
  <2>3. /\ X = {e.id : e \in SourceEntries(E)} \cap ids
        /\ Offer(E, X) = Offer(E, ids)
    BY <2>2, PathsAreOffers, SMTT(30)
  <2> QED BY <2>1, <2>3
<1>12. m.entries = w.entries /\ m.owners = w.owners /\ m.eligible = w.eligible
  BY <1>4 DEF CanonicalFields
<1>13. Include(m) = PathsOf(SourceEntries(w.entries))
  BY <1>4 DEF Include
<1>14. n.entries = Offer(w.entries, X) /\ n.owners = w.owners
  BY <1>3, <1>6, <1>9, <1>10, <1>12, <1>13, AssetsStay
<1>15. n.eligible = w.eligible
  <2>1. n.eligible = BuildEligibleAssetIds(m, BuildSourceEntries(m, c), c)
    BY <1>6, CanonicalParts
  <2>2. PICK E, ids : E = w.entries /\ ids = n.eligible
    OBVIOUS
  <2>3. /\ c /\ IsGiven(m.eligible) => ids = m.eligible
        /\ c /\ ~IsGiven(m.eligible) => ids = OffersOf(E, m.paths)
    BY <1>7, <1>12, <1>13, <2>1, <2>2, EligibleStays
  <2>4. c
    <3>1. m.name # Missing
      BY <1>4, <1>7 DEF CanonicalFields
    <3> QED BY <1>6, <3>1 DEF Shape
  <2>5. ~IsGiven(m.eligible) => w.eligible = {}
    BY <1>7, <1>12 DEF IsGiven, CanonicalFields
  <2> QED BY <1>10, <1>11, <1>12, <2>2, <2>3, <2>4, <2>5
<1>16. n.servers = w.servers /\ n.servers # Missing
  <2>1. n.servers = TRUE \/ n.servers = FALSE
    BY <1>6, ServersBuilt
  <2>2. n.servers = TRUE <=> m.servers = TRUE
    BY <1>6, ServersBuilt
  <2>3. m.servers = w.servers
    BY <1>4 DEF CanonicalFields
  <2> QED BY <1>3, <2>1, <2>2, <2>3, MissingIsNothing
<1>17. n.support = Placed(w.support) /\ Placed(w.support) = w.support
  <2>1. m.support = w.support
    BY <1>4 DEF CanonicalFields
  <2>2. w.support = [f \in DOMAIN NoSupport |-> w.support[f]]
    BY <1>3, ValidIsGiven DEF IsTyped, GivenSupport
  <2> QED BY <1>3, <1>6, <2>1, <2>2, SupportBuilt, PlacedParts
<1>18. Same(n, Reread(m), CanonicalFields)
  <2>1. PICK y : y = Reread(m)
    OBVIOUS
  <2>2. y.entries = Offer(w.entries, w.eligible)
    BY <1>4, <1>12, <2>1 DEF Reread, Offer, Offered, IsRecord, Fields, CanonicalFields
  <2>3. \A f \in CanonicalFields \ {"entries"} : y[f] = w[f]
    BY <1>4, <2>1 DEF Reread, IsRecord, Fields
  <2>4. n.entries = y.entries
    BY <1>11, <1>14, <2>2
  <2>5. \A f \in CanonicalFields \ {"entries"} : n[f] = w[f]
    BY <1>8, <1>14, <1>15, <1>16, <1>17 DEF CanonicalFields
  <2> QED BY <2>1, <2>3, <2>4, <2>5 DEF Same
<1>19. ValidateCanonical(n, again)
  <2>1. ValidateCanonicalOverridePolicy(w)
    BY <1>3 DEF ValidateCanonical
  <2>2. n.eligible \subseteq {e.id : e \in w.entries} \ {"ownership-receipt"}
    BY <1>15, <2>1 DEF ValidateCanonicalOverridePolicy
  <2> QED BY <1>1, <1>3, <1>8, <1>14, <1>16, <1>17, <2>2, StaysValid
<1>20. ValidatePackManifestV2(m)
  <2>1. PICK strict \in BOOLEAN :
          /\ strict <=> (Shape(m) = "canonical" /\ ~HasAliases(m))
          /\ ValidatePackManifestV2(m)
               <=> ValidateCanonical(IF strict THEN m ELSE ByShape(m), strict)
    BY DEF ValidatePackManifestV2
  <2>2. HasAliases(m)
    BY <1>4 DEF HasAliases
  <2>3. ~strict
    BY <2>1, <2>2
  <2>4. again = strict
    BY <1>1, <2>3
  <2> QED BY <1>5, <1>19, <2>1, <2>3, <2>4
<1> QED BY <1>5, <1>18, <1>20

-----------------------------------------------------------------------------
(***************************************************************************)
(* Rewriting.                                                              *)
(***************************************************************************)

AreEdits(ed) == DOMAIN ed \subseteq Fields /\ \A f \in DOMAIN ed : IsTyped(f, ed[f])

LEMMA EditedIsRecord ==
  ASSUME NEW m, IsRecord(m), NEW ed, AreEdits(ed), NEW y, y = Overlay(ed, m)
  PROVE  /\ IsRecord(y)
         /\ \A f \in Fields : y[f] = IF f \in DOMAIN ed THEN ed[f] ELSE m[f]
<1>1. /\ DOMAIN y = Fields
      /\ \A f \in Fields : y[f] = IF f \in DOMAIN ed THEN ed[f] ELSE m[f]
  BY DEF Overlay, IsRecord, AreEdits
<1>2. \A f \in Fields : IsTyped(f, y[f])
  BY <1>1 DEF IsRecord, AreEdits
<1> QED BY <1>1, <1>2 DEF IsRecord

LEMMA RewriteOffers ==
  ASSUME NEW m, IsRecord(m), NEW ed, AreEdits(ed), NEW y, y = Overlay(ed, m),
         NEW d, d = Serialize(y),
         NEW E, E = (IF "entries" \in DOMAIN ed THEN ed["entries"] ELSE Missing),
         NEW P, P = (IF "paths" \in DOMAIN ed THEN ed["paths"] ELSE Missing)
  PROVE  EligibleAt(d.entries) \subseteq
           EligibleAt(m.entries) \cup EligibleAt(E) \cup Listed(m.paths) \cup Listed(P)
<1>1. IsRecord(y)
  BY EditedIsRecord
<1>2. "entries" \in Fields /\ "paths" \in Fields /\ "entries" \in CanonicalFields
  BY DEF Fields, CanonicalFields, Aliases
<1>3. (y.entries = m.entries \/ y.entries = E) /\ (y.paths = m.paths \/ y.paths = P)
  BY <1>2, EditedIsRecord
<1>4. PICK c \in BOOLEAN : \A f \in CanonicalFields : d[f] = ToCanonicalManifest(y, c)[f]
  BY <1>1, SerializedIsRecord
<1>5. PICK n : n = ToCanonicalManifest(y, c)
  OBVIOUS
<1>6. d.entries = n.entries
  BY <1>2, <1>4, <1>5
<1>7. n.entries = BuildSourceEntries(y, c) \cup BuildGeneratedEntries(y)
  BY <1>5, CanonicalParts
<1>8. (y.entries # Missing => y.entries \subseteq Assets) /\ Include(y) \subseteq SourcePaths
  BY <1>1, FieldsOfRecord
<1>9. EligibleAt(n.entries) \subseteq EligibleAt(y.entries) \cup Listed(y.paths)
  BY <1>7, <1>8, EntriesBuilt
<1> QED BY <1>3, <1>6, <1>9

\* What an edit reaches, of the field and of those built from it.
LEMMA ReachParts ==
  /\ \A f \in CanonicalFields : f \in Reach(f)
  /\ {"name", "class", "status"} \subseteq Reach("pack")
  /\ "bindings" \in Reach("targets")
  /\ {"entries", "owners", "eligible"} \subseteq Reach("assets")
  /\ {"entries", "owners", "eligible"} \subseteq Reach("entries")
  /\ {"entries", "eligible"} \subseteq Reach("paths")
  /\ \A f \in {"class", "servers", "agent", "hook"} : {"entries", "owners"} \subseteq Reach(f)
  BY DEF Reach, CanonicalFields

LEMMA RewriteKeeps ==
  ASSUME NEW x, IsRecord(x), ValidatePackManifestV2(x), Agrees(x),
         NEW m, m = LoadPackManifest(x), NEW ed, AreEdits(ed),
         NEW U, U = UNION {Reach(f) : f \in DOMAIN ed},
         NEW y, y = Overlay(ed, m), NEW c \in BOOLEAN, HasAliases(y) => ~c,
         NEW n, n = ToCanonicalManifest(y, c)
  PROVE  Same(n, Rewritten(m), CanonicalFields \ U)
<1>1. PICK again \in BOOLEAN : ~again
  OBVIOUS
<1>2. PICK w : w = ByShape(x)
  OBVIOUS
<1>3. /\ ValidateCanonical(w, again) /\ AreTyped(w) /\ w.support.from # Missing
      /\ w.servers = TRUE \/ w.servers = FALSE
  BY <1>1, <1>2, ValidNormalizes
<1>4. /\ \A f \in CanonicalFields : m[f] = w[f]
      /\ m.pack = [id |-> w.name, class |-> w.class, status |-> w.status]
      /\ m.assets = [include |-> PathsOf(SourceEntries(w.entries)), docs |-> w.docs]
      /\ m.assets # Missing /\ m.targets = w.bindings /\ m.paths # Missing
      /\ m.paths = {e.at : e \in {s \in SourceEntries(w.entries) : s.id \in w.eligible}}
      /\ IsRecord(m)
  BY <1>2, LoadedIsRecord
<1>5. /\ w.entries \in SUBSET Assets /\ Distinct(w.entries)
      /\ \A f \in CanonicalFields \ {"agent", "hook", "entries"} : w[f] # Missing
  BY <1>3, ValidIsGiven
<1>6. \A f \in CanonicalFields \ U : \A g \in Fields : f \in Reach(g) => y[g] = m[g]
  BY <1>4, EditedIsRecord
<1>7. \A f \in CanonicalFields \ U : y[f] = w[f]
  BY <1>4, <1>6, ReachParts DEF Fields
<1>8. PICK X : X = OffersOf(w.entries, m.paths)
  OBVIOUS
<1>9. /\ X = {e.id : e \in SourceEntries(w.entries)} \cap w.eligible
      /\ Offer(w.entries, X) = Offer(w.entries, w.eligible)
  <2>1. PICK E, ids, paths : E = w.entries /\ ids = w.eligible /\ paths = m.paths
    OBVIOUS
  <2>2. /\ E \in SUBSET Assets /\ Distinct(E) /\ paths # Missing /\ X = OffersOf(E, paths)
        /\ paths = {e.at : e \in {s \in SourceEntries(E) : s.id \in ids}}
    BY <1>4, <1>5, <1>8, <2>1
  <2>3. /\ X = {e.id : e \in SourceEntries(E)} \cap ids
        /\ Offer(E, X) = Offer(E, ids)
    BY <2>2, PathsAreOffers, SMTT(30)
  <2> QED BY <2>1, <2>3
<1>10. PICK v : v = Rewritten(m)
  OBVIOUS
<1>11. /\ v.entries = Offer(w.entries, w.eligible) /\ v.eligible = X
       /\ \A f \in CanonicalFields \ {"entries", "eligible"} : v[f] = w[f]
  <2>1. PICK r : r = Reread(m)
    OBVIOUS
  <2>2. /\ DOMAIN r = DOMAIN m /\ \A f \in CanonicalFields \ {"entries"} : r[f] = w[f]
    BY <1>4, <2>1 DEF Reread, IsRecord, Fields
  <2>3. r.entries = Offer(w.entries, w.eligible)
    BY <1>4, <2>1 DEF Reread, Offer, Offered, IsRecord, Fields, CanonicalFields
  <2>4. v.eligible = r.eligible \cap {e.id : e \in SourceEntries(m.entries)}
    BY <1>4, <1>10, <2>1, <2>2 DEF Rewritten, IsRecord, Fields, CanonicalFields
  <2>5. \A f \in CanonicalFields \ {"eligible"} : v[f] = r[f]
    BY <1>4, <1>10, <2>1, <2>2 DEF Rewritten, IsRecord, Fields
  <2>6. r.eligible = w.eligible /\ m.entries = w.entries /\ v.entries = r.entries
    BY <1>4, <2>2, <2>5 DEF CanonicalFields
  <2>7. v.eligible = X
    BY <1>9, <2>4, <2>6
  <2> QED BY <2>2, <2>3, <2>5, <2>6, <2>7
<1>12. ASSUME NEW f \in CanonicalFields \ U,
              f \notin {"servers", "support", "entries", "owners", "eligible"}
       PROVE  n[f] = w[f]
  <2>1. y[f] = w[f]
    BY <1>7
  <2>2. /\ f \in {"name", "class", "status"} => y.pack = m.pack
        /\ f = "bindings" => y.targets = m.targets
    BY <1>6, ReachParts DEF Fields, Aliases
  <2>3. /\ f = "name" => y.name = w.name /\ (y.pack # Missing => y.pack.id = w.name)
        /\ f = "class" => y.class = w.class /\ (y.pack # Missing => y.pack.class = w.class)
        /\ f = "status" => y.status = w.status
                           /\ (y.pack # Missing => y.pack.status = w.status)
        /\ f = "bindings" => y.bindings = w.bindings
                             /\ (y.targets # Missing => y.targets = w.bindings)
    BY <1>4, <2>1, <2>2
  <2>4. /\ f = "name" => n.name = w.name
        /\ f = "class" => n.class = w.class
        /\ f = "status" => n.status = w.status
        /\ f = "bindings" => n.bindings = w.bindings
    BY <1>3, <2>3, FieldsStay
  <2>5. /\ f = "channel" => n.channel = w.channel
        /\ f = "runtimes" => n.runtimes = w.runtimes
        /\ f = "agent" => n.agent = w.agent
        /\ f = "installs" => n.installs = w.installs
        /\ f = "memory" => n.memory = w.memory
        /\ f = "caps" => n.caps = w.caps
    BY <1>3, <2>1, FieldsStay
  <2>6. /\ f = "hook" => n.hook = w.hook
        /\ f = "smoke" => n.smoke = w.smoke
        /\ f = "docs" => n.docs = w.docs
        /\ f = "catalog" => n.catalog = w.catalog
    BY <1>3, <2>1, FieldsStay
  <2> QED BY <1>12, <2>4, <2>5, <2>6 DEF CanonicalFields
<1>13. "servers" \notin U => n.servers = w.servers
  <2>1. n.servers = TRUE \/ n.servers = FALSE
    BY ServersBuilt
  <2>2. n.servers = TRUE <=> y.servers = TRUE
    BY ServersBuilt
  <2>3. "servers" \notin U => y.servers = w.servers
    BY <1>7 DEF CanonicalFields
  <2> QED BY <1>3, <2>1, <2>2, <2>3
<1>14. "support" \notin U => n.support = w.support
  <2>1. "support" \notin U => y.support = w.support
    BY <1>7 DEF CanonicalFields
  <2>2. w.support = [f \in DOMAIN NoSupport |-> w.support[f]]
    BY <1>3, ValidIsGiven DEF IsTyped, GivenSupport
  <2>3. Placed(w.support) = w.support
    BY <1>3, <2>2, PlacedParts
  <2>4. y.support = w.support => n.support = Placed(w.support)
    BY <1>3, SupportBuilt
  <2> QED BY <2>1, <2>3, <2>4
<1>15. ASSUME "entries" \notin U \/ "owners" \notin U \/ "eligible" \notin U
       PROVE  y.entries = w.entries /\ y.assets = m.assets
              /\ Include(y) = PathsOf(SourceEntries(w.entries))
  <2>1. y.entries = m.entries /\ y.assets = m.assets
    BY <1>6, <1>15, ReachParts DEF Fields, Aliases, CanonicalFields
  <2> QED BY <1>4, <2>1 DEF Include, CanonicalFields
<1>16. ASSUME "entries" \notin U \/ "owners" \notin U
       PROVE  Covers(y, w.entries)
  <2>1. PICK b : w = ToCanonicalManifest(x, b)
    BY <1>2 DEF ByShape
  <2>2. /\ y.class = m.class /\ y.servers = m.servers /\ y.agent = m.agent /\ y.hook = m.hook
    BY <1>6, <1>16, ReachParts DEF Fields, CanonicalFields
  <2>3. /\ y.class = w.class /\ w.class # Missing /\ y.servers = w.servers
        /\ y.agent = w.agent /\ y.hook = w.hook
    BY <1>4, <1>5, <2>2 DEF CanonicalFields
  <2> QED BY <2>1, <2>3, BuiltCovers
<1>17. "entries" \notin U => n.entries = Offer(w.entries, w.eligible)
  <2>1. "entries" \notin U => n.entries = Offer(w.entries, OffersOf(w.entries, y.paths))
    BY <1>3, <1>15, <1>16, AssetsStay
  <2>2. "entries" \notin U => y.paths = m.paths
    BY <1>6, ReachParts DEF Fields, Aliases, CanonicalFields
  <2> QED BY <1>8, <1>9, <2>1, <2>2
<1>18. "owners" \notin U => n.owners = w.owners
  <2>1. "owners" \notin U => y.owners = w.owners
    BY <1>7 DEF CanonicalFields
  <2> QED BY <1>3, <1>15, <1>16, <2>1, AssetsStay
<1>19. "eligible" \notin U => n.eligible = X
  <2>1. n.eligible = BuildEligibleAssetIds(y, BuildSourceEntries(y, c), c)
    BY CanonicalParts
  <2>2. PICK E, ids : E = w.entries /\ ids = n.eligible
    OBVIOUS
  <2>3. "eligible" \notin U /\ ~c /\ y.paths # Missing => ids = OffersOf(E, y.paths)
    BY <1>5, <1>15, <2>1, <2>2, EligibleStays
  <2>4. "eligible" \notin U => y.paths = m.paths
    BY <1>6, ReachParts DEF Fields, Aliases, CanonicalFields
  <2>5. "eligible" \notin U => ~c
    BY <1>4, <1>15 DEF HasAliases
  <2> QED BY <1>4, <1>8, <2>2, <2>3, <2>4, <2>5
<1> QED BY <1>10, <1>11, <1>12, <1>13, <1>14, <1>17, <1>18, <1>19 DEF Same, CanonicalFields

LEMMA LoadedFields ==
  ASSUME NEW r, IsRecord(r), NEW m, m = LoadPackManifest(r), NEW n, n = ByShape(r)
  PROVE  IsRecord(m) /\ \A f \in CanonicalFields : m[f] = n[f]
<1>1. IsRecord(m)
  BY LoadedIsRecord
<1>2. \A f \in CanonicalFields : m[f] = n[f]
  BY DEF LoadPackManifest, AttachCompatibilityAliases, Fields, Aliases, CanonicalFields
<1> QED BY <1>1, <1>2

\* What is written as it was loaded lists itself all that it would be given.
LEMMA RewriteStaysValid ==
  ASSUME NEW x, IsRecord(x), ValidatePackManifestV2(x), Agrees(x),
         NEW m, m = LoadPackManifest(x),
         NEW d, Same(d, Rewritten(m), CanonicalFields), \A f \in Aliases : d[f] = Missing
  PROVE  ValidatePackManifestV2(d)
<1>1. PICK again \in BOOLEAN : ~again
  OBVIOUS
<1>2. PICK w : w = ByShape(x)
  OBVIOUS
<1>3. /\ ValidateCanonical(w, again) /\ AreTyped(w) /\ w.support.from # Missing
      /\ w.servers = TRUE \/ w.servers = FALSE
  BY <1>1, <1>2, ValidNormalizes
<1>4. /\ \A f \in CanonicalFields : m[f] = w[f]
      /\ IsRecord(m)
  BY <1>2, LoadedFields
<1>5. \A f \in CanonicalFields \ {"agent", "hook", "entries"} : w[f] # Missing
  BY <1>3, ValidIsGiven
<1>6. /\ d.entries = Offer(w.entries, w.eligible) /\ d.eligible \subseteq w.eligible
      /\ \A f \in CanonicalFields \ {"entries", "eligible"} : d[f] = w[f]
  <2>1. PICK r, v : r = Reread(m) /\ v = Rewritten(m)
    OBVIOUS
  <2>2. DOMAIN r = DOMAIN m /\ \A f \in CanonicalFields \ {"entries"} : r[f] = w[f]
    BY <1>4, <2>1 DEF Reread, IsRecord, Fields
  <2>3. r.entries = Offer(w.entries, w.eligible)
    BY <1>4, <2>1 DEF Reread, Offer, Offered, IsRecord, Fields, CanonicalFields
  <2>4. v.eligible \subseteq r.eligible
    BY <1>4, <2>1, <2>2 DEF Rewritten, IsRecord, Fields, CanonicalFields
  <2>5. \A f \in CanonicalFields \ {"eligible"} : v[f] = r[f]
    BY <1>4, <2>1, <2>2 DEF Rewritten, IsRecord, Fields
  <2>6. \A f \in CanonicalFields : d[f] = v[f]
    BY <2>1 DEF Same
  <2>7. d.eligible \subseteq w.eligible
    BY <2>2, <2>4, <2>6 DEF CanonicalFields
  <2>8. d.entries = Offer(w.entries, w.eligible)
    BY <2>3, <2>5, <2>6 DEF CanonicalFields
  <2> QED BY <2>2, <2>5, <2>6, <2>7, <2>8
<1>7. /\ d.name = w.name /\ d.class = w.class /\ d.status = w.status /\ d.channel = w.channel
      /\ d.runtimes = w.runtimes /\ d.bindings = w.bindings /\ d.installs = w.installs
      /\ d.memory = w.memory /\ d.caps = w.caps /\ d.owners = w.owners /\ d.smoke = w.smoke
      /\ d.docs = w.docs /\ d.catalog = w.catalog /\ d.support = w.support
      /\ d.servers = w.servers /\ d.agent = w.agent /\ d.hook = w.hook
  BY <1>6 DEF CanonicalFields
<1>8. d.name # Missing /\ w.class # Missing
  BY <1>5, <1>7 DEF CanonicalFields
<1>9. Covers(d, w.entries)
  <2>1. PICK b : w = ToCanonicalManifest(x, b)
    BY <1>2 DEF ByShape
  <2> QED BY <1>7, <1>8, <2>1, BuiltCovers
<1>10. Placed(w.support) = w.support
  <2>1. w.support = [f \in DOMAIN NoSupport |-> w.support[f]]
    BY <1>3, ValidIsGiven DEF IsTyped, GivenSupport
  <2> QED BY <1>3, <2>1, PlacedParts
<1>11. PICK strict \in BOOLEAN :
         /\ strict <=> (Shape(d) = "canonical" /\ ~HasAliases(d))
         /\ ValidatePackManifestV2(d)
              <=> ValidateCanonical(IF strict THEN d ELSE ByShape(d), strict)
  BY DEF ValidatePackManifestV2
<1>12. strict
  <2>1. Shape(d) = "canonical"
    BY <1>8 DEF Shape
  <2>2. ~HasAliases(d)
    BY DEF HasAliases, Aliases
  <2> QED BY <1>11, <2>1, <2>2
<1>13. ValidateCanonical(d, strict)
  <2>1. w.eligible \subseteq {e.id : e \in w.entries} \ {"ownership-receipt"}
    BY <1>3 DEF ValidateCanonical, ValidateCanonicalOverridePolicy
  <2>2. d.eligible \subseteq {e.id : e \in w.entries} \ {"ownership-receipt"}
    BY <1>6, <2>1
  <2>3. d.servers # Missing
    BY <1>3, <1>7, MissingIsNothing
  <2>4. d.support = Placed(w.support)
    BY <1>7, <1>10
  <2> QED BY <1>3, <1>6, <1>7, <1>9, <2>2, <2>3, <2>4, StaysValid
<1> QED BY <1>11, <1>12, <1>13

-----------------------------------------------------------------------------
(***************************************************************************)
(* The invariant, and the theorem.                                         *)
(***************************************************************************)

\* The file holds a record; what is in memory was loaded from it, and it was valid.
ShapeInv ==
  /\ IsRecord(disk)
  /\ memory # Missing => ValidatePackManifestV2(disk) /\ memory = LoadPackManifest(disk)
  /\ AreEdits(edited)

LEMMA ShapeStart == ShapeInit => ShapeInv
<1> SUFFICES ASSUME ShapeInit
             PROVE  ShapeInv
  OBVIOUS
<1>1. IsRecord(disk)
  BY ManifestsAreTyped DEF ShapeInit, IsRecord
<1>2. DOMAIN edited = {}
  BY DEF ShapeInit
<1> QED BY <1>1, <1>2 DEF ShapeInit, ShapeInv, AreEdits

LEMMA ShapeStep == ShapeInv /\ [ShapeNext]_shapeVars => ShapeInv'
<1> SUFFICES ASSUME ShapeInv, [ShapeNext]_shapeVars
             PROVE  ShapeInv'
  OBVIOUS
<1>1. CASE EditFile
  <2>1. PICK e \in DiskEdits : disk' = [disk EXCEPT ![e.field] = e.value]
    BY <1>1 DEF EditFile
  <2>2. e.field \in Fields /\ IsTyped(e.field, e.value)
    BY ManifestsAreTyped
  <2>3. IsRecord(disk')
    BY <2>1, <2>2 DEF ShapeInv, IsRecord
  <2> QED BY <1>1, <2>3 DEF EditFile, ShapeInv, AreEdits, IsRecord
<1>2. CASE Load
  BY <1>2 DEF Load, ShapeInv, AreEdits, IsRecord
<1>3. CASE EditManifest
  <2>1. PICK e \in MemoryEdits : edited' = Overlay([f \in {e.field} |-> e.value], edited)
    BY <1>3 DEF EditManifest
  <2>2. e.field \in Fields /\ IsTyped(e.field, e.value)
    BY ManifestsAreTyped
  <2>3. AreEdits(edited')
    BY <2>1, <2>2 DEF ShapeInv, AreEdits, Overlay
  <2> QED BY <1>3, <2>3 DEF EditManifest, ShapeInv, AreEdits, IsRecord
<1>4. CASE Rewrite
  <2>1. PICK y : y = Overlay(edited, memory)
    OBVIOUS
  <2>2. disk' = Serialize(y) /\ memory' = Missing /\ edited' = <<>> /\ memory # Missing
    BY <1>4, <2>1 DEF Rewrite
  <2>3. IsRecord(memory)
    <3>1. PICK n : n = ByShape(disk)
      OBVIOUS
    <3> QED BY <2>2, <3>1, LoadedIsRecord DEF ShapeInv
  <2>4. IsRecord(disk')
    <3>1. IsRecord(y)
      BY <2>1, <2>3, EditedIsRecord DEF ShapeInv
    <3> QED BY <2>2, <3>1, SerializedIsRecord
  <2>5. DOMAIN edited' = {}
    BY <2>2
  <2> QED BY <2>2, <2>4, <2>5 DEF ShapeInv, AreEdits, IsRecord
<1>5. CASE UNCHANGED shapeVars
  BY <1>5 DEF shapeVars, ShapeInv, AreEdits, IsRecord
<1> QED BY <1>1, <1>2, <1>3, <1>4, <1>5 DEF ShapeNext

LEMMA StepKeepsMeaning == ShapeInv /\ ShapeNext => KeepsItsMeaning
<1> SUFFICES ASSUME ShapeInv, ShapeNext
             PROVE  KeepsItsMeaning
  OBVIOUS
<1>1. LoadsSettled
  <2> SUFFICES ASSUME memory = Missing, memory' # Missing, Agrees(disk)
               PROVE  /\ ValidatePackManifestV2(memory')
                      /\ Same(ByShape(memory'), Reread(memory'), CanonicalFields)
    BY DEF LoadsSettled
  <2>1. ValidatePackManifestV2(disk) /\ memory' = LoadPackManifest(disk)
    BY DEF ShapeNext, EditFile, Load, EditManifest, Rewrite
  <2>2. PICK m : m = memory'
    OBVIOUS
  <2>3. /\ ValidatePackManifestV2(m)
        /\ Same(ByShape(m), Reread(m), CanonicalFields)
    BY <2>1, <2>2, LoadSettles DEF ShapeInv
  <2> QED BY <2>2, <2>3
<1>2. ASSUME memory # Missing, memory' = Missing
      PROVE  /\ disk' = Serialize(Overlay(edited, memory)) /\ IsRecord(memory)
             /\ ValidatePackManifestV2(disk) /\ memory = LoadPackManifest(disk)
             /\ IsRecord(disk) /\ AreEdits(edited) /\ memory.paths # Missing
  <2>1. disk' = Serialize(Overlay(edited, memory))
    BY <1>2 DEF ShapeNext, EditFile, Load, EditManifest, Rewrite
  <2>2. PICK n : n = ByShape(disk)
    OBVIOUS
  <2>3. IsRecord(memory) /\ memory.paths # Missing
    BY <1>2, <2>2, LoadedIsRecord DEF ShapeInv
  <2> QED BY <1>2, <2>1, <2>3 DEF ShapeInv
<1>3. RewritesOnlyEdits
  <2> SUFFICES ASSUME memory # Missing, memory' = Missing, Agrees(disk)
               PROVE  /\ Same(disk', Rewritten(memory),
                              CanonicalFields \ UNION {Reach(f) : f \in DOMAIN edited})
                      /\ DOMAIN edited = {} => ValidatePackManifestV2(disk')
    BY DEF RewritesOnlyEdits
  <2>1. PICK U, y, d : /\ U = UNION {Reach(f) : f \in DOMAIN edited}
                       /\ y = Overlay(edited, memory) /\ d = disk'
    OBVIOUS
  <2>2. IsRecord(y)
    BY <1>2, <2>1, EditedIsRecord
  <2>3. PICK c \in BOOLEAN : /\ \A f \in CanonicalFields : d[f] = ToCanonicalManifest(y, c)[f]
                             /\ HasAliases(y) => ~c
    BY <1>2, <2>1, <2>2, SerializedIsRecord
  <2>4. \A f \in Aliases : d[f] = Missing
    BY <1>2, <2>1, <2>2, SerializedIsRecord
  <2>5. PICK n : n = ToCanonicalManifest(y, c)
    OBVIOUS
  <2>6. Same(n, Rewritten(memory), CanonicalFields \ U)
    BY <1>2, <2>1, <2>3, <2>5, RewriteKeeps
  <2>7. Same(d, Rewritten(memory), CanonicalFields \ U)
    BY <2>3, <2>5, <2>6 DEF Same
  <2>8. DOMAIN edited = {} => ValidatePackManifestV2(d)
    <3>1. DOMAIN edited = {} => CanonicalFields \ U = CanonicalFields
      BY <2>1
    <3> QED BY <1>2, <2>4, <2>7, <3>1, RewriteStaysValid
  <2> QED BY <2>1, <2>7, <2>8
<1>4. RewriteOffersNothing
  <2> SUFFICES ASSUME memory # Missing, memory' = Missing
               PROVE  EligibleAt(disk'.entries) \subseteq
                        EligibleAt(memory.entries) \cup EligibleAt(EditOf("entries"))
                        \cup memory.paths \cup Listed(EditOf("paths"))
    BY DEF RewriteOffersNothing
  <2>1. PICK y, d, E, P : /\ y = Overlay(edited, memory) /\ d = disk'
                          /\ E = EditOf("entries") /\ P = EditOf("paths")
    OBVIOUS
  <2>2. EligibleAt(d.entries) \subseteq
          EligibleAt(memory.entries) \cup EligibleAt(E) \cup Listed(memory.paths) \cup Listed(P)
    BY <1>2, <2>1, RewriteOffers DEF EditOf
  <2>3. Listed(memory.paths) = memory.paths
    BY <1>2 DEF Listed
  <2> QED BY <2>1, <2>2, <2>3
<1> QED BY <1>1, <1>3, <1>4 DEF KeepsItsMeaning

\* A manifest that loads is as valid when the resolver normalizes it again, and means the
\* same; a rewrite, by whichever shape speaks first, leaves what was not edited, and as
\* valid, and offers a user nothing to override that neither the manifest nor the edit
\* names.
THEOREM ManifestsKeepTheirMeaning == ShapeSpec => ManifestKeepsItsMeaning
<1>1. ShapeInv /\ [ShapeNext]_shapeVars => [KeepsItsMeaning]_shapeVars
  BY StepKeepsMeaning
<1> QED BY <1>1, ShapeStart, ShapeStep, PTL DEF ShapeSpec, ManifestKeepsItsMeaning

=============================================================================
