# Formal models of PairSlash

TLA+ models of the parts of PairSlash that change durable state or decide what may
change it: the managed installer, project memory and its readers, the trace store,
enforcement, delegation, CI proposals, release trust, truth sync, doctor and the pack
manifest. Each is model-checked with TLC on a small instance, and TLAPS proves the safety
results of each for every value of the constants. Paths below are relative to the
repository root; `PROJECT.json` maps each definition to the lines it models.

## The system

PairSlash is a TypeScript monorepo: a CLI that installs skill packs into agent
runtimes (Codex, Copilot), keeps project memory as reviewed YAML records, and guards
both with contracts and policies. There is no server and no daemon. Each command is
one process; it plans or previews synchronously, waits for the user at a prompt (the
only `await` on these paths), and then runs synchronously to its end. What makes the
behaviour hard is on disk: state that several commands share, that users edit, that
changes while a prompt waits, and that is written in place (`writeTextFile` truncates
and writes), so that a process that dies leaves a torn file.

| component | state it keeps | operations | what makes it correct | modelled |
|---|---|---|---|---|
| installer (`packages/tools/installer`) | receipt per lane in `.pairslash/install-state`, journals in `.pairslash/install-journal`, files below the install root | install, update, uninstall: plan, confirm, journal, remove, write, save receipt, commit; rollback | the user's edits survive; rollbacks are exact; the receipt tells the truth; commands are atomic up to crashes | `Installer`, `InstallLedger` |
| memory engine, write pipeline (`packages/core/memory-engine`) | `.pairslash/project-memory/*.yaml`, `90-memory-index.yaml`, `.pairslash/staging`, `.pairslash/audit-log` | preview, apply, reject | no contradictions or duplicates; a reported commit is complete; the trail covers what is stored; what was shown is what is done | `MemoryWrite` |
| memory engine, candidates and audit | none (reads the above) | extract candidates, audit memory | reports agree with the store and with what an apply would say | `MemoryReaders` |
| read authority and index validation (`spec-core`) | none | resolve a claim for a workflow, validate the index | project memory outranks tasks and staging; what the index hides is known | `MemoryReaders` |
| retrieval index (`packages/advanced/retrieval-index`) | one index file | build, assess | no stale index passes for a fresh one | `RetrievalIndex` |
| contract and policy engines, runtime adapters (`contract-engine`, `policy-engine`, `runtimes/*/adapter`) | none | build a contract, evaluate a request, enforce | nothing at stake goes through unconfirmed; asking for more never opens | `Contracts`, `RuntimeGate` |
| delegation engine (`packages/advanced/delegation-engine`) | none | verdict, scaffold and result envelope | authority never widens along a chain | `Delegation` |
| CI engine (`packages/advanced/ci-engine`) | `.pairslash/staging/ci-proposals` | run a lane, write proposals | an index lists whole patches of one run | `CiLane` |
| release trust (`spec-core/release-trust.ts`) | trust bundle, trust receipts in install-state | write, verify, assess, install, update | verified means released; no authority without a grant | `ReleaseTrust` |
| catalog, workflow maturity, truth sync (`spec-core/catalog`, `compat-lab/truth-sync.ts`) | lane records, runtime matrix, manifests, generated tables | plan, apply, validate, undo | published truth loads; labels rest on records | `WorkflowMaturity`, `TruthSync` |
| manifests (`spec-core`) | `pack.manifest.yaml` | normalize, validate, edit in memory, serialize | reading or writing changes nothing but the edit | `ManifestShape` |
| doctor (`packages/tools/doctor`) | none | checks, verdict, guidance | it foretells what commands do, and sees what a crash left | `Doctor`, `DoctorReport` |
| trace (`packages/tools/trace`) | `.pairslash/observability`: a log and an index per session, retention state | append, list, report, export, prune | no event lost, index and log agree, prune keeps what the policy keeps | `TraceStore` |
| CLI (`packages/tools/cli`) | none | parse, prompt, call, print, trace | confirm before apply | the prompts of `handleApply`, `handleMemoryWrite`, `handleSyncTruth`; the life cycle of `runCli` |
| lint bridge, compat-lab acceptance, benchmark, retrieval engine, compilers, formatters, record validators | generated reports | rules, tests, ranking, text | | no, see Not modelled |

How they interact. The CLI calls the installer and the memory engine; the installer
gets what a release compiles from spec-core and a runtime compiler; the memory engine
asks the policy engine for a verdict; the runtime adapters build a contract and ask the
same engine. Everything else is shared through files: the doctor and update previews read
the receipt, the read authority and the memory audit read what the write pipeline stored
and staged, the retrieval index hashes it, and every command appends to the trace store
and prunes it when it ends.

## Modules

| module | what it is |
|---|---|
| `Installer` | one lane (runtime, target, skill root, emit mode): plans, transactions, failures, the user, properties, inductive invariant |
| `InstallLedger` | what the installer promises, with every command in one step |
| `InstallerProofs` | theorems about `Installer` and `Doctor`, with proofs |
| `MCInstaller` | a core pack of three files and an addon pack of one, two releases |
| `MemoryWrite` | memory writes by several sessions, failures, properties |
| `AuthorityStore` | what project memory promises, with every write in one step |
| `MCMemoryWrite` | sets of requests for the runs |
| `MemoryReaders` | read authority, memory audit and candidate report as functions of the state of `MemoryWrite` |
| `RetrievalIndex` | a build of the retrieval index beside the sessions of `MemoryWrite` |
| `MemoryProofs` | theorems about `MemoryWrite`, `MemoryReaders` and `RetrievalIndex` |
| `MCReaders` | one session, three requests, one task record |
| `Doctor` | doctor's checks of receipt and files, as functions of the state of `Installer` |
| `TraceStore`, `MCTraceStore` | commands that trace, report and prune; three of them over three days |
| `TraceStoreProofs` | theorems about `TraceStore` |
| `Verdicts` | the order of verdicts that contracts, delegation and CI share |
| `Contracts` | contract engine and policy engine, as operators |
| `RuntimeGate` | an adapter in front of a workflow; callers ask again with other facts |
| `Delegation` | chains of delegated workers |
| `CiLane` | jobs of the CI lane and the directory of proposals |
| `ReleaseTrust` | releases, keys, assessment, install and update of one pack |
| `PolicyProofs` | lemmas about verdicts, theorems about `RuntimeGate`, `Delegation` and `CiLane` |
| `ReleaseTrustProofs` | theorems about `ReleaseTrust` |
| `Sentinels` | what stands for an absent, torn or unparsed value in the lanes |
| `WorkflowMaturity` | which label the records support, as operators |
| `TruthSync` | plans, prompts and applies of sync-truth over the files of one snapshot |
| `DoctorReport` | doctor's checks of the host, verdict and guidance |
| `TruthSyncProofs`, `DoctorReportProofs` | theorems about these two |
| `ManifestShape` | the shapes of a manifest, normalization, validation, serialization |
| `ManifestShapeProofs` | the theorem about `ManifestShape` |
| `MCLanes` | the seven lanes that share no state, one per behaviour |

### Installer

| variable | in the code |
|---|---|
| `disk` | what is at each path the packs may occupy; a content stands for its digest after newline normalization, `Opaque` for a directory or anything else that cannot be read as a file, `Torn` for a write cut short |
| `stateFile` | the install-state file: a receipt, `Missing` or `Corrupt`. A receipt has the managed packs and, per file, `owned_by_pairslash` and `current_digest`: what later decisions read |
| `journal` | `status` of the last journal written |
| `tx` | the envelope of the running command (action, selected packs, planned operation and compiled content per file, receipt read by the plan), the journal's backups, and what is left to do |
| `release` | the state of the source packs |
| `edits`, `faults` | counters for the bounds |

`PlanInstall`, `PlanUpdate` and `PlanUninstall` decide an operation for every path
(`InstallOp`, `ShippedOp`, `OrphanOp`, `UninstallOp`, the decision trees of
`buildInstallOperations`, `buildUpdateOperations` and `buildUninstallOperations`). A
plan with a blocked operation changes nothing and the command ends, so it is no step.
`OpenJournal` is the moment after the prompt: `buildMutationJournal` reads the
backups. Then `RemoveFile`s, `WriteFile`s, `SaveState` and `CommitJournal`, one file
system change per step. `StepFails` is an exception that follows from what is on disk;
`IOFails` and `Crash` are faults, which may cut the file being written short.
`UndoState`, `UndoFile` and `CloseRollback` are `rollbackInstallJournal`; `UndoFails` is
a rollback that throws. Files are removed, written and undone in any order within their
group: the code's order is one of them, and no property depends on it.
`UserEdit` writes, deletes or replaces by a directory any of the paths, in the phases
of `EditPhases`.

Abstractions: environment probing, lint, trust receipts and version policy only decide
whether a plan may be applied, so plans of the model are at least the plans of the
code. `cleanupEmptyDirectories` calls `rmSync` without `recursive`, which refuses
directories, so it changes nothing. Journals are never read back by a later command, so only
the last status is kept. A corrupt receipt blocks every command, until
the user removes it (`RepairState`).

### InstallLedger

Two variables that move together: files and ledger. `Refresh` (install, update) may
change files that are missing or vouched for by the ledger and leaves a ledger that is
true; `Detach` (uninstall) removes exactly the vouched-for files; `Interrupted` is a
crash or a failed rollback, with no receipt for what it left. `Installer` implements it
(`ImplementsLedger`) under the mapping that, while a transaction is open, shows the
files and the receipt the journal found, and jumps to the new ones at the commit.

### MemoryWrite

| variable | in the code |
|---|---|
| `store` | the records of each file in project memory, in document order; a record is the request that wrote it |
| `index` | `90-memory-index.yaml`, an entry per kind and title; `Unreadable` when it does not parse, `Blank` when it parses and holds no mapping |
| `staging` | for each request, the staged artifact: target file and `ready_for_apply` |
| `audit` | the requests with a success entry and the result of the last entry |
| `sess` | for each process: idle, at the prompt, or in one of the steps of an apply |
| `faults` | counter for the bound |

`PreviewMemoryWrite` runs the analysis of `buildCommonAnalysis` (`Duplicates`,
`Conflicts`, `CandidateConflicts`, `TargetFile`, `ReadyForApply`) and stages its
outcome. `ShowStaged` is what `handleMemoryWrite` does up to the prompt, `RejectMemoryWrite`
and `GiveUp` are the two ways out, `ApplyMemoryWrite` reads the artifact again and
repeats the analysis; it does not ask again whether a supersede still has a target or a
reject still has a candidate, because the code's `blocked` does not. `WriteRecord`,
`UpdateMemoryIndex` and `AppendAudit` are the commit, `StepFails` and `AuditFailure` the
`catch`. Nothing is taken back on a failure.

Abstractions: evidence, tags, confidence, shadow warnings and result texts. A record
file that is cut short keeps its first records: keys are written in order and `title` is
next to last, and the readers drop a document without one, so only a cut inside that
one value would give another record. A staged artifact that is cut short counts as no candidate.
An index cut short is `Unreadable` or, when nothing or one word of it was written, `Blank`: readers
and audit take it for an index without records, and the next writer throws at it
(`NoTable`). Left out are cuts after which the index parses and lacks part of what was in it
(the audit has findings for each record such an index does not name, or a field it lacks).

### MemoryReaders and RetrievalIndex

`Claims` is what `resolveReadAuthority` tells a workflow (`Profiles` is its table of
workflows): the records of each layer it reads, grouped by `ClaimKey`, the foremost layer
deciding. Workflows in index mode (`IndexReaders`) read the files that active index
entries name; the others read the root files they name. `AuditFindings` and
`Classification` are the two reports. Two spellings of a title matter: the memory engine
compares `Norm` (blanks collapsed), the read authority `Lower` (blanks kept).

`RetrievalIndex` adds `retrieval`, `builder` and `builds`: a build lists and reads the
documents one by one while sessions write, writes a temporary file and renames it;
`Staleness` compares the index with the files. Only project memory is indexed here.

### Doctor

`FileChecks` are the checks that read receipt and disk, each with its status:
`RunInstallStateLoad`, `RunOwnedFilesIntegrity`, `RunUpdatePreviewRisk`,
`RunInstallPreviewParity` and `RunUnmanagedInstallRoot`. They call the plans of
`Installer` the way doctor calls `planUpdate` and `planInstall`. A digest no release ships
stands for the receipt's `local_override`. Metadata mismatches and directories in place
of files are left out.

### TraceStore

| variable | in the code |
|---|---|
| `events` | the event file of each session and day, lines in order |
| `index` | `indexes/<session>.json`: the day of its file, outcomes and count; `Missing` or `Torn` |
| `proc` | the running command: where it is, its events, and what it has read so far |
| `span` | first and last day a session wrote on |
| `day`, `faults` | the clock, counters |

A command starts (`StartCommand`), appends (`TruncateEvents` and `WriteEvents`, then
`TruncateIndex` and `WriteIndex`: each file is written whole and in place, so that others may meet
it empty, cut at any line by `WritePart`, or cut within one), does its work (`RunCommand` or one of
the `Readers`: debug, bundle, trace
export, telemetry), finishes and prunes (`PruneList` to `PruneDone`). A session id is new for
each process, so no two processes append to one file. Indexes are read at one moment.
Sessions of one day have no order in the model: where the code sorts by the time a session
started, any order of them is possible (`Newest`, `KeptByCount`, `Expired`).
A command does not run longer than `MaxDays`; the code would let another one prune it.

### The lanes

`Contracts` takes a manifest that loads and a request, a set of facts, to a contract and
a verdict; `RuntimeGate` is the adapter around it, which puts its own runtime and target over those
of the request (`InLane`), so through it no request is for another lane. `Delegation` lets an
accepted worker
be the next caller, because depth is what a caller declares. `CiLane` writes patches and
index one file per step; a job may be killed and run again under the same id; two artifact
ids may give one file name, where the later patch stays, and an id that gives none is skipped.
`ReleaseTrust` writes a bundle one file per step; sources change, keys are revoked,
and a pack is assessed (`PlanInstall`), waits at the prompt and is then applied as it was planned
(`ApplyInstall`) or not (`DeclineInstall`); sources, releases and keys change at the prompt too. There is one
install or uninstall at a time. An assessment reads the trust directory at one moment, where the code
reads file by file within a synchronous call: a release written by another process in those
milliseconds is left out. `TruthSync` writes the planned
texts one by one, loads the snapshot and restores on failure; a restore may fail (`UndoFails`), the
next file is then restored all the same and the journal is closed. The code closes it with the status
`rolled-back` and a `rollback-failed` among the errors; the model says `not-restored` for both.
Planning uses `WorkflowMaturity`. `DoctorReport` changes one thing of the host at a time and looks at the
report. `ManifestShape` edits the file, loads it, edits the manifest in memory and writes it
back: `Load` validates the record as it is or as it is normalized, normalizes it and attaches
the aliases of the legacy shape; `Rewrite` is `serializePackManifestV2` of what the edits left,
where the aliases speak first. The second normalization, of what was loaded, is that of
`resolvePackManifest`.

`MCLanes` extends the modules of the lanes, so what its run checks and what is proved are
the same definitions; each behaviour is one of a lane, with the variables of the other lanes at rest.

## Runs

| run | cfg | states | time | what it shows |
|---|---|---|---|---|
| installer-tx | `InstallerTx` | 1,209,712 | 75 s | with edits between commands, one fault anywhere: installer properties, `IInv`, `ImplementsLedger`, and what doctor says of each state |
| installer-prompt | `InstallerPrompt` | 339,432 | 35 s | with edits also while the prompt waits: what still holds, and that confirmed commands end |
| memory-write | `MemoryWrite` | 1,021,439 | 125 s | two sessions, one fault: no contradiction, complete commits, a trail, `ImplementsAuthority` |
| readers | `Readers` | 185,083 | 25 s | one session and a failure or a build: reports, read authority and index against the store |
| trace | `TraceStore` | 1,036,617 | 50 s | three commands over three days, one crash: logs, indexes, prune, reports made while others append in place |
| lanes | `Lanes` | 524,934 | 110 s | enforcement, delegation, CI, release trust, truth sync, doctor report, manifest |
| installer-override, -race, -orphan | | stop at the violation | | see Findings |
| memory-index, -preview | | stop at the violation | | see Findings |
| readers-blank | | stop at the violation | | see Findings |

Properties of the installer:

- `TouchesOnlyOwnedUnchanged`: while a transaction or its rollback is under way, a file
  that was there differs from what it was only if the receipt called it PairSlash's and
  last recorded just that content.
- `ReceiptVouchesForNoEdit`: where a manifest allows no override, no history of edits,
  updates, failures and crashes makes a receipt record the user's content as managed.
- `NonOverrideEditsSurvive`: no step of the installer changes what the user wrote there.
- `RollbackRestores` (`RollbackRestoresBackups` when files change at the prompt): a journal
  that says `rolled_back` means it. The weaker form exempts only a file that took the
  place of a planned creation.
- `CommittedReceiptIsTrue`: after a commit the receipt tracks exactly what was compiled,
  with the content that is on disk now, also when files changed at the prompt
  (installer-prompt, whose edits include those of installer-tx).
- `UninstallDetachesExactly`: a committed uninstall removes the owned, unchanged files of
  its packs and nothing else, and forgets those packs only.
- `ConfirmedCommandEnds`: a confirmed command reaches its end.
- `ImplementsLedger`: refinement, above.

Properties of memory writes:

- `NoContradiction`: no two records in project memory are about the same kind, title and
  scope, however long a prompt waited and whatever was committed meanwhile.
- `CommitIsComplete`: when success is reported, the record is in its file, an active
  index entry points at that file, and the audit entry is there.
- `TrailIsComplete`: unless a fault happened, every stored record has a success entry.
- `ImplementsAuthority`: refinement of `AuthorityStore`. A record enters only where nothing
  that is held makes its claim, and may only displace records of its own file; a success is
  logged only while the record is held; nothing else but a failure changes what is held.

Properties of what reads memory:

- `AuditVouches`: when an audit finds nothing and the index is not blank (finding 6), every stored
  record is what the workflows
  that go by the index are told, never a task or staged claim in its place, whatever was
  cut short before; but for entries a supersede has marked.
- `CandidatesAgree`: after such an audit, of an index that is not blank, the candidate report and
  the write pipeline, two
  pieces of code, find the same matches.
- `FreshIsCommitted`: an index called fresh, built file by file beside writers and maybe
  killed, holds no record the audit log knows nothing of and misses none that was committed.

Properties of doctor:

- `DoctorForetells`: packs it does not block can be installed, and where it has nothing to
  report no update or uninstall takes away what the user wrote.
- `InterruptionShows`: a command that died or could not roll back is seen, unless it had
  done nothing, everything, or only added whole files to an installed pack.
- `ReportCoheres`: verdict, blocked lanes, issues and guidance of a report agree, and a
  host it lets an install through on is one `planInstall` does not refuse.

Properties of the trace store:

- `IndexMatchesEvents`, `NoLostEventFile`: an index tells of exactly the events in the file
  it names; no event file is left without an index but the earlier files of a session
  past midnight and what a crash left.
- `PruneKeepsRecent`, `PruneIsThorough`: a prune removes nothing the policy keeps, whatever
  others do meanwhile, and leaves no more than the policy says of what it listed.
- `ReportNamesFailure`: a debug report names a failure when the index it was selected by
  says there was one, unless it was made of a file that the session was just then writing.
- `BundleWasScanned`: every event in the report of a support bundle was scanned by the
  export that says whether it may be shared: in debug unless the session was just then writing what
  the export read, in trace export when the session had ended. Of both properties is excepted a session
  that is removed, dies or runs past midnight while the reader is at work: its file is another one.

Properties of the lanes:

- `AppliesOnlyConfirmed`, `RiskNeverOpens`: an apply with write authority was previewed and
  approved and nothing forbidden went on; asking with more at stake or less confirmed
  never opens what was shut.
- `DelegationNeverWidens`: however long the chain, a worker holds nothing its first caller
  did not, and no risky capability its pack is not granted.
- `ProposalsAreWhole`: an index of proposals is whole and lists whole patches; when a run
  ends they are its own.
- `PartialNeverVerifies`, `VerifiedWasReleased`: what verifies is one whole release; a pack
  installed as verified is, byte for byte, one of a release that was finished, signed by a key of
  its publisher that was not revoked when the install was planned, whatever happened at the prompt.
- `AuthorityIsGranted`, `UpdatesKeepTrust`: installed core packs hold what `pack-authority.yaml`
  grants (advanced packs are selected by `advancedSelection`, `install.ts:409-502`, past the trust
  assessment, and are not modelled); a chain of updates adds no authority, loses no release, keeps
  its version line.
- `SnapshotSurvives`, `MaturityFollowsRecords`: an apply that was not cut short, and
  whose rollback passed over no file, leaves a snapshot that loads; in every state, also between
  writes and after a crash, a label above canary is carried by the record files.
- `ManifestKeepsItsMeaning`: a loaded manifest validates again and means the same to the
  resolver; a rewrite changes only what an edit reaches, is valid when nothing was edited,
  and offers no asset for override that nobody named. Excepted is a record that has no name
  or says write-authority in the alias alone (`Agrees`): see below.

Each passing property has a mutant: a definition, kept next to the one it could be
mistaken for and commented "Slip" or "Mutant", under which TLC finds the property violated.

Bounds. Two packs, because a lane's receipt is shared and uninstalling the last pack
takes another path; an ownership file, an overridable file, one that a release drops
and a file of another pack are the four ways the plans tell paths apart. Two releases
suffice for an update to differ from what is installed and to go back. Two edits: one to
become an override and one to change it or another file. One fault, anywhere; the proofs
have no bound. `MaxFaults` is 0 in installer-prompt, which keeps its liveness check small:
the steps that throw on what is on disk still happen. The four requests of memory-write are two that
contradict each other (the second one
needs a candidate), a supersede that renames and narrows, and one that turns a constraint into a
pattern and so
meets both file layouts; two sessions are what a stale verdict takes. Sessions are symmetric,
and the checked formulas do not tell them apart. `readers` has one session, two scopes, a
supersede that names one record and replaces another, and a failure or a build but not
both. `trace` has one session kept by count and one day by age, so that both rules of
retention decide; the last two commands overlap. A behaviour with a report has a
crash or a midnight, not both (`ReportsBounded`). The lanes: four facts per call and two
risky classes of packs; two callers of which one is granted a capability, one thing amiss
per request; three jobs under two run ids with one that may not write; two releases of two
packs by one publisher with one key and a crash anywhere (`TrustBounded`: the first is signed and
asks for nothing out of the ordinary; the key is revoked when what was begun was written, and
nothing is released after), and four sources of the installed pack: two that only their assets tell apart, one that asks for what it is not granted and one without a
version (publishers the policy does not name are left to the proofs); two sync calls over two
days, two lanes of one runtime, one fault; three things amiss on a host; three edits of a
manifest in four starting shapes. Each is enough for a step that reads old state: a second
release over a first, a second plan at its prompt, a second edit after a load.

Edits. `EditPhases = {"idle"}` in installer-tx is the assumption under which the strong
properties hold; installer-prompt and installer-race add `"confirm"`. Edits in the
milliseconds of the synchronous part are left out.

Writers. `Overlap = FALSE` lets prompts interleave but not the synchronous parts of two
processes. With `Overlap = TRUE`, TLC finds `NoContradiction` violated: both analyse before
either writes. No document promises more than one writer, so it is listed as a hazard
and not as a finding.

Fairness. Only `ConfirmedCommandEnds` needs it: weak fairness of the steps of a confirmed
command as a whole (`Running`), which the code justifies because nothing between prompt
and result waits. Prompts, users, faults and new commands have none.
Liveness of the other parts is not stated: their steps run synchronously to the end, and
what waits is a user. Deadlock is checked but in `trace` and `lanes`, whose behaviours end
with their last day, job or edit; elsewhere a new command can always start.

## Findings

Six statements of the documentation that the code does not keep; each has a run whose
counterexample shows it, and an entry with quotations in `PROJECT.json`.

1. `OverridesSurvive`: a preserved override is recorded as the managed baseline and still
   owned, so a later update replaces it and an uninstall removes it.
2. `RemovesOnlyOwnFiles`: a rollback deletes a file the user created at a planned path
   while the prompt waited.
3. `PreservedStaysTracked`: an overridden file that a release drops leaves the receipt.
4. `PreviewShowsChange`: an approved append of a directory kind replaces the whole file; a
   preview made meanwhile by another session can move the write to another file.
5. `IndexCoversStore`: a supersede that takes over the title of another record leaves a
   file that the index does not cover.
6. `AuditNeverFabricatesPass`: an index that a crash left empty parses to nothing, the audit
   returns without a finding, and the workflows that go by the index see no records.

## Proofs

A theorem holds for every value of the constants that satisfies the assumptions named
here; TLC evaluates each of them on the instance of a run. No bound is assumed beyond being
a number: any number of sessions, edits, faults, jobs, releases and delegations. All
proofs follow one pattern: an inductive invariant, one lemma per action, and the property
from the invariant. The invariants that no run lists were checked by TLC on the same
instances before they were proved.

### Installer and doctor

Assumed, in `Installer`: overridable paths are no ownership files, a release ships pack
content, user content and pack content are different sets, sentinels are no data.

- `TypeCorrect`: `Spec => []TypeOK`, and `DoctorIsRight` from it, for edits in any phase:
  doctor's checks and the plans are functions of the same receipt and files, so what they
  say agrees in every typed state.
- Under `EditPhases = {"idle"}`: `Invariance` (`IInv`), and from it `OnlyOwnedUnchanged`,
  `NoEditVouchedFor`, `EditsSurvive`, `RollbackIsExact`, `UninstallIsExact`,
  `DoctorSeesInterruption` and `Refinement` (`Installer` implements `InstallLedger`).
- Under `EditPhases \subseteq {"idle", "confirm"}`, with edits at the prompt:
  `RollbackKeepsBackups` and `CommittedReceipt`.

The properties are not inductive: that a rollback restores the files needs to know what
every path may hold at every point of the transaction, and that an update spares edits
needs to know that the plan fits the files and the receipt. `IInv` says so in parts:
`ReceiptSound` (a receipt tracks files of its packs and vouches for no edit), `PlanSound`
(the plan fits what was found; from the prompt to the end, because nothing else changes
files) and `Progress` (each path holds its old content, its new content or, in a rollback,
a torn one, according to the phase and to what is left to do). One lemma per action
preserves it. The refinement then has one lemma per effect: a commit maps to `Refresh` or
`Detach`, an edit to `UserEdit`, a crash or failed rollback to `Interrupted`, everything
else to a stutter. With edits at the prompt the plan need not fit and `PlanSound` fails;
`PromptInv` keeps of it what a command does to the files and the state file it found.

### Project memory and its readers

Assumed, in `MemoryWrite`, `MemoryReaders` and `RetrievalIndex`: requests have their fields,
titles that are the same after normalization have the same slug, titles with the same lower
case are the same after normalization, every file has a place in the order of files, sentinels
are no data.

- For every `Overlap`: `TypeCorrect` (with the lemma that a session under way has a staged
  request), and `TrailIsKept`, from `TrailInv`: while nothing has failed the index parses
  and each record has its success entry or belongs to the session that is about to log it.
- Under `Overlap = FALSE`: `MemoryIsConsistent` and `CommitsAreComplete`, from `SafeInv`:
  sessions apply alone, so what an analysis cleared (`Cleared`) is still clear when it is
  written and what was written (`Landed`) is still there when it is reported. The
  hypothesis is the single writer that the section on bounds discusses; TLC refutes
  `NoContradiction` without it.
- Under `Overlap = FALSE` too: `AuthorityIsImplemented`, the refinement. A step of an apply maps
  to a step of the store by what it does to the records (`RecordEnters`: what `WriteRecord` lays
  down was clear by `SafeInv`, so its claim is free; a write cut short keeps a prefix), an
  audit entry to `Acknowledge`, everything else to a stutter. What two processes in their
  synchronous parts would do to it is the counterexample of the previous point.
- `AuditIsSound` and `ReportsAgree` need types only: they relate reports to the store they
  are made from. Both are of an index that is not blank; an unreadable one is a finding, so what
  the audit passes is a table. `FreshIndexIsCommitted` adds the builder to `TrailInv`.

### Trace store

Assumed, in `TraceStore`: commands emit an event when they start and when they end, the
policy's numbers are numbers, sentinels are no data. No hypothesis besides. `TraceInv` says for
each session, at each place of its program, what its process knows (`Shape`), how its index and
files relate (`Filed`), and that what a prune has chosen to delete has outlived the policy
and still does (`Pruning`): days only pass and sessions only get younger neighbours. A file that is
being rewritten holds no more than the process that writes it (`LogOn` is the log of a day that does
not shrink meanwhile). From it
`StoreTypeCorrect`, `IndexesAreTrue`, `FilesAreFound`, `PruneSparesRecent`,
`PrunesAreThorough`, `ReportsNameFailures` and `BundlesAreScanned`.

### Lanes

The theorems are about the definitions that the `lanes` run checks. What they assume of the
constants is an assumption of the module, which TLC evaluates on the run.

- `PolicyProofs`. `PickOverallVerdict` returns the strictest of what it is given, allows only when
  all allow, and is monotone. Nothing assumed: `AppliesAreConfirmed` and `RiskKeepsShut`, a
  monotonicity: more dangers or fewer confirmations make each evaluation of the policy as strict
  or stricter, so the verdict, and what the adapter does with it. `ChainsNeverWiden`, as
  scopes are nested (`ScopesAreNested`: a path below a path below a third is below the
  third): a worker that is accepted holds a part of its caller's authority, and workers
  call for the pack of the first caller.
  `ProposalsStayWhole`, as candidates come as lists (`CandidatesAreLists`): `CiInv` has
  an invariant of each run's directory that any job, killed or not, leaves behind (`DirSound`),
  and one of the running job: artifacts are written in order, so a name holds the last that was
  written under it (`Filed`).
- `ReleaseTrustProofs`: `InstalledIsGranted`; `UpdatesAddNothing`, as versions are triples of numbers
  or do not parse (`VersionsParse`); `InterruptedNeverVerifies` and `VerifiedIsReleased`, under
  `BundleAssumption`: the pack is one of the release, the release's own files are named apart,
  what is absent or torn reads as nothing that is written. `BundleInv`: each file is torn or
  what some release writes, and while one is written the directory holds what it has written so
  far and nothing else; so checksums that hold are those of one finished release. From the
  assessment to the receipt nothing is read again: what was `Released` when it was planned stays
  so at the prompt and is what the receipt says. `KeptInv` is the like for `UpdatesAddNothing`: what
  is planned may follow what is installed (`Onward`).
- `TruthSyncProofs`: `LabelsAreCarried`, whatever the files hold: no invariant is needed, as what
  makes a snapshot load (each lane of the matrix mirrors its record, each level is one its
  record supports) and what makes a label effective (no blocker, for every lane the pack is
  judged by) leave no other way, in any state a reader may see. `SnapshotsSurvive`, for files that
  load at the start and a sentinel that is no journal status: `SyncInv` says that a plan waits only
  before its apply (`PlansWait`), that an
  apply under way has its journal started and its backups in order (`WriterHolds`), and that
  unless an apply was killed the files load or the backups, put over the files as they are, give
  files that load (`Recoverable`), whatever a stale plan wrote. Once a
  restore has failed the journal says so for good (`Interrupted`) and nothing is claimed of the files.
- `DoctorReportProofs`: `ReportsCohere`, as one of two packs comes first by name, labels are ranked,
  and phases are those there are (`HostsAreTyped`). That the typing survives every change of the
  host is the invariant; the rest is that the recommended pack, the first of those that may
  be installed in the order of `Precedes`, is one of them, and that each ground on which
  `planInstall` refuses has a check that blocks.
- `ManifestShapeProofs`: `ManifestsKeepTheirMeaning`, for every record of any shape and content.
  The invariant is small (`ShapeInv`: what is in memory was loaded from the file, which was
  valid); the work is in the operators. A manifest that was built and found valid is a fixed
  point of normalization, field by field (`BindingsStay`, `CatalogStays`, `SupportStays`,
  `EntriesStay`, `OwnersStay`, together `FieldsStay` and `AssetsStay`), but for the entries that its
  policy makes eligible (`Offer`); and the lemmas ask of a record that it agree with the manifest on one
  field and its alias only, so they serve an edited manifest for each field its edits do not
  reach (`RewriteKeeps`). What says the same is as valid (`StaysValid`), also strictly, because
  the first normalization generated all that the second one would (`BuiltCovers`, where
  `Agrees` is needed). Assumed: what is made for a path, or generated, and a source made
  eligible are entries again (`AssetsAreEntries`); nothing given is the sentinel
  (`MissingIsNothing`); records have the fields of the schema (`ManifestsAreTyped`).

### Only model-checked

- `ConfirmedCommandEnds`: liveness under fairness is out of the prover's reach.
- Statements of the documentation that the code does not keep are refuted by their runs.

## What the code does that the properties leave out

Met while modelling; the models follow the code, and each is excepted from, or not claimed
by, the property named.

- Trace: a session past midnight leaves its earlier file without an index; one torn index
  makes listing and with it every prune throw (`store.ts:141`); trace export with a support
  bundle reports after the export was scanned, so a running session's report may hold
  unscanned events (`BundleWasScanned`); a report or an export made while another session
  writes its event file in place (`store.ts:96`) may read it empty or cut.
- Memory writes: a supersede with another statement in the same scope is always refused as a
  conflict with the record it is to replace (`conflict.ts:70`), although
  `packs/core/pairslash-memory-write-global/SKILL.md:126` offers it as a way out of a conflict.
- Readers: a supersede that names one record and replaces another hides a live record from
  index readers (`records.ts:136`), although
  `docs/architecture/phase-17-read-authority-charter.md:89` has project memory come first
  (`AuditVouches`). An empty index passes the audit (`audit.ts:233`), finding 6. Audit does not look at
  staging.
- Doctor: previews are made without skill root and emit mode, so in a shared or plugin lane
  they judge the default lane's receipt (`preview-risk.ts:26`, `install-root.ts:275`); an installed
  advanced addon makes doctor block for good (`environment.ts:367`); the journal directory is
  not probed although `planInstall` needs it writable (`environment.ts:224`); a version
  "unknown" only warns though `planInstall` refuses it (`runtime-detect.ts:524`); the
  proposed install command drops `--skill-root` and `--emit` (`report.ts:461`).
- Enforcement: preview mode ignores the verdict; the codex adapter declares a hook surface
  the policy denies for an apply; both adapters put their own runtime and target over those of the
  request (`index.ts:613-614`), so the policy's check of the lane never denies through them; outside
  tests nothing calls `enforceWorkflow`.
- Delegation: files a worker reports are not compared with its allowed paths
  (`envelope.ts:427`).
- CI: diffs are made from the working tree while provenance names HEAD (`runner.ts:406`);
  artifacts of a blocked or failed run are written too.
- Release trust: a version that does not parse lets later ones fall below it
  (`release-trust.ts:950`); a key revoked while the prompt waits does not stop the
  install (`state.ts:141` applies the receipt of the plan); advanced packs are not assessed
  (`install.ts:409-502`).
- Truth sync: plans hold whole files, so a later apply may drop a record or log entry of an
  earlier one (`truth-sync.ts:1065`); a restore that fails is passed over (`truth-sync.ts:1081`),
  although the head of the file says that every write is rolled back (`:8`); a block is appended
  below a list written `[]`, which no
  longer parses and is undone (`truth-sync.ts:270`); a crash between writes makes planning throw
  until someone repairs the files; one record entered twice counts as two verification runs
  (`helpers.ts:223`); a lane's freshness is stored and not computed until the next sync; the
  published table shows the maturity before the sync (`matrix.ts:77`).
- Manifests: the policy's eligible ids and the entries' flags are never compared, and the
  installer reads the flags only; a rewrite drops eligible generated assets
  (`manifest-v2.normalize.ts:602`); the strict check compares generated assets with what is built
  from the record itself, so a listed one at another path passes (`canonical.ts:199`); taking a path
  out of the policy does not revoke it (`:407`);
  an alias edit to write-authority leaves the generated assets of that class out (`:412`), so
  the rewrite no longer validates; alias edits of version, docs and ownership are lost.

## Not modelled

- `lint-bridge`: some fifty rules over the text and fields of pack sources; there is no state,
  no order of events, and no relation between rules to state.
- `validate-phase5.ts` beyond what `Contracts` uses, and `validate/records/*` but for manifests: they
  check, field by field, that a document has the keys and types its producer writes.
- `compat-lab` acceptance, fixtures, goldens and evals, and `benchmark`: scripts that run installs in
  temporary directories or keep evidence by hand.
- `retrieval-engine`: scores and ranks text.
- Runtime compilers, CLI formatters, redaction patterns: text.
- Probing of external binaries, install paths: input to `Installer` and `DoctorReport`.
- Contents below the digest, YAML and JSON text, directories and symbolic links.
- Two commands at once on one lane of the installer, two installs of `ReleaseTrust`, two truth syncs
  or two index builds that
  write at once: nothing is locked, and one operator per checkout is assumed.
