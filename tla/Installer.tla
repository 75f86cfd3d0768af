----------------------------- MODULE Installer -----------------------------
(***************************************************************************)
(* The managed installer of one lane (runtime x target x skill root x emit *)
(* mode): packages/tools/installer.  `install', `update' and `uninstall'   *)
(* each build a preview plan from the receipt in .pairslash/install-state  *)
(* and from the files on disk, wait for the user to confirm, journal the   *)
(* transaction, change the files one by one, write the receipt and close   *)
(* the journal; a failure on the way rolls the journal back.               *)
(*                                                                         *)
(* Between two commands, and in the other phases of EditPhases (while the  *)
(* prompt waits, say), the user edits, deletes or creates files in the     *)
(* same directories.  Any file operation may fail and the process may die  *)
(* anywhere; a write that is cut short leaves a torn file, because         *)
(* writeTextFile truncates and writes in place.                            *)
(*                                                                         *)
(* A file's content stands for its digest after newline normalization: the *)
(* installer never looks at anything else.  Directories, wording of the    *)
(* plan and the parts of a receipt that no later decision reads            *)
(* (management mode, reason codes, timestamps, trust) are left out.        *)
(***************************************************************************)
EXTENDS Naturals

CONSTANTS
  Paths,            \* the file paths the packs of this lane may occupy
  Packs,            \* the pack ids
  PackOf,           \* the pack whose install directory holds a path
  OwnershipFiles,   \* each core pack's pairslash.install.json
  OverrideEligible, \* the paths whose manifest lets the user override them
  PairslashAssets,  \* the paths whose asset record declares owner "pairslash"
  Releases,         \* the states the source packs go through
  Ships,            \* Ships[r][p]: what release r compiles for p, or Absent
  PackContent,      \* contents a compiler emits
  UserContent,      \* contents only the user writes
  Absent,           \* there is nothing at the path
  Opaque,           \* something is there that cannot be read or written as a file
  Torn,             \* what a write that was cut short leaves
  Untracked,        \* the receipt has no entry for the path
  Missing,          \* there is no install-state file
  Corrupt,          \* the install-state file does not parse
  EditPhases,       \* the phases of a command in which the user changes files
  MaxEdits,         \* bound: user edits in a behaviour
  MaxFaults         \* bound: crashes and I/O failures in a behaviour

ASSUME PackAssumption ==
  /\ PackOf \in [Paths -> Packs]
  /\ OwnershipFiles \subseteq Paths
  /\ OverrideEligible \subseteq Paths \ OwnershipFiles
  /\ PairslashAssets \subseteq Paths

ASSUME ReleaseAssumption ==
  /\ Releases # {}
  /\ Ships \in [Releases -> [Paths -> PackContent \cup {Absent}]]

ASSUME ContentAssumption ==
  /\ PackContent \cap UserContent = {}
  /\ {Absent, Opaque, Torn} \cap (PackContent \cup UserContent) = {}
  /\ Absent # Opaque /\ Absent # Torn /\ Opaque # Torn

Phases == {"idle", "confirm", "apply", "commit", "undoState", "undoFiles"}

ASSUME BoundAssumption ==
  /\ EditPhases \subseteq Phases
  /\ MaxEdits \in Nat
  /\ MaxFaults \in Nat

Readable == PackContent \cup UserContent \cup {Torn}
Content  == Readable \cup {Absent, Opaque}

\* One file of a receipt: is it PairSlash's, and the digest last recorded.
FileReceipt == [owned : BOOLEAN, digest : Readable]
Receipt == [packs : SUBSET Packs, files : [Paths -> FileReceipt \cup {Untracked}]]
EmptyReceipt == [packs |-> {}, files |-> [p \in Paths |-> Untracked]]

ASSUME ReceiptAssumption ==
  /\ Untracked \notin [owned : BOOLEAN, digest : Content]
  /\ Missing \notin Receipt /\ Corrupt \notin Receipt /\ Missing # Corrupt

VARIABLES
  release,   \* the release the source checkout is at
  disk,      \* what is at each path
  stateFile, \* the install-state file: a receipt, Missing or Corrupt
  journal,   \* status of the last journal written, or "none"
  tx,        \* the running command: its envelope and how far it got
  edits,     \* user edits so far
  faults     \* crashes and I/O failures so far

vars == <<release, disk, stateFile, journal, tx, edits, faults>>

OpKinds == {"none", "create", "replace", "remove",
            "reconcile", "preserve", "skip", "blocked"}
JournalStatus == {"none", "pending", "committed", "rolled_back", "rollback_failed"}

Idle == [phase      |-> "idle",
         action     |-> "none",
         sel        |-> {},                             \* selected packs
         op         |-> [p \in Paths |-> "none"],       \* the plan
         compiled   |-> [p \in Paths |-> Absent],       \* file contents to write
         before     |-> EmptyReceipt,                   \* receipt read by the plan
         start      |-> [p \in Paths |-> Absent],       \* the journal's backups
         startState |-> Missing,                        \* backup of the state file
         todo       |-> {}]                             \* paths still to be handled

LoadedState == IF stateFile = Missing THEN EmptyReceipt ELSE stateFile

InPlan(t, kinds) == {p \in Paths : t.op[p] \in kinds}

-----------------------------------------------------------------------------
(***************************************************************************)
(* Planning.                                                               *)
(***************************************************************************)

\* A file of a pack that is not managed yet: write it when nothing is there,
\* leave it alone (and record it as not ours) when it already has the compiled
\* content or may be overridden, and block otherwise.
InstallOp(p) ==
  LET c == Ships[release][p]
      adoptable == /\ disk[p] \in Readable
                   /\ p \notin OwnershipFiles
                   /\ disk[p] = c \/ p \in OverrideEligible
  IN CASE c = Absent                        -> "none"
       [] c # Absent /\ disk[p] = Absent    -> "create"
       [] c # Absent /\ adoptable           -> "reconcile"
       [] OTHER                             -> "blocked"

\* A path the receipt s tracks and the new release no longer compiles.
OrphanOp(p, s) ==
  LET f == s.files[p]
  IN CASE f = Untracked                     -> "none"
       [] f # Untracked /\ ~f.owned         -> "skip"
       [] f # Untracked /\ f.owned /\ disk[p] = f.digest -> "remove"
       [] /\ f # Untracked /\ f.owned
          /\ disk[p] \in Readable \ {f.digest}
          /\ p \in OverrideEligible         -> "preserve"
       [] OTHER                             -> "blocked"

\* Slip: an edited managed file is replaced without looking at its last digest.
ReplacesEdited(p, s) ==
  CASE disk[p] = Absent                                           -> "create"
    [] disk[p] \in Readable /\ disk[p] # Ships[release][p]         -> "replace"
    [] OTHER                                                      -> "skip"

\* Slip: any edited managed file is preserved, overridable or not.
PreservesAnyEdit(p, s) ==
  LET f == s.files[p]
  IN CASE disk[p] = Absent                                       -> "create"
       [] disk[p] \in Readable /\ f # Untracked /\ disk[p] = f.digest -> "replace"
       [] OTHER                                                  -> "preserve"

\* A path the new release compiles.
ShippedOp(p, s) ==
  LET c == Ships[release][p]
      f == s.files[p]
      owned == f # Untracked /\ f.owned
      unowned == f # Untracked /\ ~f.owned
      present == disk[p] \in Readable
      edited == present /\ disk[p] # c
  IN CASE disk[p] = Absent /\ p \notin OwnershipFiles            -> "create"
       [] present /\ disk[p] = c /\ unowned                      -> "reconcile"
       [] present /\ disk[p] = c /\ ~unowned
          /\ ~(f = Untracked /\ p \in OwnershipFiles)            -> "skip"
       [] edited /\ ~owned /\ p \in OverrideEligible             -> "reconcile"
       [] edited /\ owned /\ disk[p] = f.digest                  -> "replace"
       [] edited /\ owned /\ disk[p] # f.digest
          /\ p \in OverrideEligible                              -> "preserve"
       [] OTHER                                                  -> "blocked"

UpdateOp(p, s) ==
  IF Ships[release][p] = Absent THEN OrphanOp(p, s) ELSE ShippedOp(p, s)

\* Slip: uninstall removes every owned file, edited or not.
UninstallsEdited(p, s) ==
  LET f == s.files[p]
  IN CASE f = Untracked                                          -> "none"
       [] f # Untracked /\ f.owned /\ disk[p] \in Readable       -> "remove"
       [] OTHER                                                  -> "skip"

\* Slip: uninstall goes by the digest alone and not by the owner.
UninstallsUnowned(p, s) ==
  LET f == s.files[p]
  IN CASE f = Untracked                                          -> "none"
       [] f # Untracked /\ disk[p] = f.digest                    -> "remove"
       [] OTHER                                                  -> "skip"

UninstallOp(p, s) ==
  LET f == s.files[p]
  IN CASE f = Untracked                                          -> "none"
       [] f # Untracked /\ f.owned /\ disk[p] = f.digest         -> "remove"
       [] OTHER                                                  -> "skip"

\* The ownership file is tracked, PairSlash's, on disk and unmodified.
OwnershipIntact(k, s) ==
  \E p \in OwnershipFiles :
     /\ PackOf[p] = k
     /\ s.files[p] # Untracked
     /\ s.files[p].owned
     /\ disk[p] = s.files[p].digest

\* The release has a manifest for pack k.
Released(k) == \E p \in Paths : PackOf[p] = k /\ Ships[release][p] # Absent

\* A plan with a blocked operation cannot be applied: the command stops at the
\* preview.  One that can waits at the prompt with everything it has read.
Plan(action, S, op) ==
  /\ \A p \in Paths : op[p] # "blocked"
  /\ tx' = [Idle EXCEPT !.phase    = "confirm",
                        !.action   = action,
                        !.sel      = S,
                        !.op       = op,
                        !.compiled = Ships[release],
                        !.before   = LoadedState]
  /\ UNCHANGED <<release, disk, stateFile, journal, edits, faults>>

PlanInstall(S) ==
  /\ tx.phase = "idle" /\ stateFile # Corrupt /\ S # {}
  /\ \A k \in S : Released(k) /\ k \notin LoadedState.packs
  /\ Plan("install", S,
          [p \in Paths |-> IF PackOf[p] \in S THEN InstallOp(p) ELSE "none"])

PlanUpdate(S) ==
  /\ tx.phase = "idle" /\ stateFile # Corrupt /\ S # {}
  /\ S \subseteq LoadedState.packs
  /\ \A k \in S : Released(k) /\ OwnershipIntact(k, LoadedState)
  /\ Plan("update", S,
          [p \in Paths |-> IF PackOf[p] \in S THEN UpdateOp(p, LoadedState)
                                              ELSE "none"])

PlanUninstall(S) ==
  /\ tx.phase = "idle" /\ stateFile # Corrupt /\ S # {}
  /\ S \subseteq LoadedState.packs
  /\ Plan("uninstall", S,
          [p \in Paths |-> IF PackOf[p] \in S THEN UninstallOp(p, LoadedState)
                                              ELSE "none"])

-----------------------------------------------------------------------------
(***************************************************************************)
(* Applying.                                                               *)
(***************************************************************************)

\* The user confirms: the journal records what is on disk now at every path the
\* plan replaces or removes, and the state file, before anything is changed.
\* Reading a backup of a path that is no longer a file throws.
OpenJournal ==
  /\ tx.phase = "confirm"
  /\ \A p \in InPlan(tx, {"replace"}) : disk[p] \in Readable
  /\ \A p \in InPlan(tx, {"remove"}) : disk[p] # Opaque
  /\ journal' = "pending"
  /\ tx' = [tx EXCEPT !.phase      = "apply",
                      !.start      = disk,
                      !.startState = stateFile,
                      !.todo       = InPlan(tx, {"create", "replace", "remove"})]
  /\ UNCHANGED <<release, disk, stateFile, edits, faults>>

\* The user declines, or a backup or the journal cannot be written: the command
\* ends before it has changed a file.
Decline ==
  /\ tx.phase = "confirm"
  /\ tx' = Idle
  /\ UNCHANGED <<release, disk, stateFile, journal, edits, faults>>

\* Removals come first.  rmSync(force) accepts a path that is already gone and
\* throws on a directory.
RemoveFile(p) ==
  /\ tx.phase = "apply"
  /\ p \in tx.todo /\ tx.op[p] = "remove"
  /\ disk[p] # Opaque
  /\ disk' = [disk EXCEPT ![p] = Absent]
  /\ tx' = [tx EXCEPT !.todo = @ \ {p}]
  /\ UNCHANGED <<release, stateFile, journal, edits, faults>>

\* Then the files to create or replace are written with the compiled content,
\* whatever is at the path by now.
WriteFile(p) ==
  /\ tx.phase = "apply"
  /\ p \in tx.todo /\ tx.op[p] \in {"create", "replace"}
  /\ \A q \in tx.todo : tx.op[q] # "remove"
  /\ disk[p] # Opaque
  /\ disk' = [disk EXCEPT ![p] = tx.compiled[p]]
  /\ tx' = [tx EXCEPT !.todo = @ \ {p}]
  /\ UNCHANGED <<release, stateFile, journal, edits, faults>>

\* Slips in the receipt of a written pack: the digest of what was compiled instead
\* of what is on disk; files that were only reconciled taken for our own.
RecordsCompiled(t) ==
  [packs |-> t.before.packs \cup t.sel,
   files |-> [p \in Paths |->
     IF PackOf[p] \notin t.sel THEN t.before.files[p]
     ELSE IF t.compiled[p] = Absent THEN Untracked
     ELSE [owned |-> t.op[p] \in {"create", "replace"}, digest |-> t.compiled[p]]]]

ClaimsReconciled(t) ==
  [packs |-> t.before.packs \cup t.sel,
   files |-> [p \in Paths |->
     IF PackOf[p] \notin t.sel THEN t.before.files[p]
     ELSE IF t.compiled[p] = Absent THEN Untracked
     ELSE [owned |-> p \in PairslashAssets, digest |-> disk[p]]]]

\* The receipt of the selected packs after an install or an update: exactly the
\* files the release compiles, each with the digest read back from disk; a file
\* this transaction wrote is PairSlash's, any other keeps its earlier owner.
WrittenReceipt(t) ==
  [packs |-> t.before.packs \cup t.sel,
   files |-> [p \in Paths |->
     IF PackOf[p] \notin t.sel THEN t.before.files[p]
     ELSE IF t.compiled[p] = Absent THEN Untracked
     ELSE [owned  |-> IF t.op[p] \in {"create", "replace"}
                        THEN p \in PairslashAssets
                        ELSE t.before.files[p] # Untracked /\ t.before.files[p].owned,
           digest |-> disk[p]]]]

\* Slip: the packs go from the receipt and their files stay in it.
DropsPacksOnly(t) == [t.before EXCEPT !.packs = @ \ t.sel]

\* Uninstall drops the selected packs, and the state file with the last of them.
DetachedReceipt(t) ==
  [packs |-> t.before.packs \ t.sel,
   files |-> [p \in Paths |->
     IF PackOf[p] \in t.sel THEN Untracked ELSE t.before.files[p]]]

NextState(t) ==
  CASE t.action # "uninstall"                         -> WrittenReceipt(t)
    [] t.action = "uninstall" /\ t.before.packs = t.sel -> Missing
    [] OTHER                                          -> DetachedReceipt(t)

\* Slip: a file that cannot be read back gets a receipt all the same.
SkipsReadBack == TRUE

\* Every compiled file of the selected packs can be read back.
DigestsReadable ==
  tx.action = "uninstall" \/
  \A p \in Paths : PackOf[p] \in tx.sel /\ tx.compiled[p] # Absent
                     => disk[p] \in Readable

SaveState ==
  /\ tx.phase = "apply" /\ tx.todo = {}
  /\ DigestsReadable
  /\ stateFile' = NextState(tx)
  /\ tx' = [tx EXCEPT !.phase = "commit"]
  /\ UNCHANGED <<release, disk, journal, edits, faults>>

CommitJournal ==
  /\ tx.phase = "commit"
  /\ journal' = "committed"
  /\ tx' = Idle
  /\ UNCHANGED <<release, disk, stateFile, edits, faults>>

-----------------------------------------------------------------------------
(***************************************************************************)
(* Failures and rollback.                                                  *)
(***************************************************************************)

\* The files and the state file the next step may be in the middle of writing.
BeingWritten ==
  {p \in tx.todo :
     /\ disk[p] # Opaque
     /\ \/ /\ tx.phase = "apply" /\ tx.op[p] \in {"create", "replace"}
           /\ \A q \in tx.todo : tx.op[q] # "remove"
        \/ /\ tx.phase = "undoFiles" /\ tx.op[p] \in {"replace", "remove"}
           /\ tx.start[p] # Absent}

StateBeingWritten ==
  \/ /\ tx.phase = "apply" /\ tx.todo = {} /\ DigestsReadable
     /\ NextState(tx) # Missing
  \/ tx.phase = "undoState" /\ tx.startState # Missing

\* The step under way is cut short: it has done nothing yet, or its file has
\* been truncated and not written out.
CutShort ==
  /\ faults < MaxFaults /\ faults' = faults + 1
  /\ \/ UNCHANGED <<disk, stateFile>>
     \/ /\ \E p \in BeingWritten : disk' = [disk EXCEPT ![p] = Torn]
        /\ UNCHANGED stateFile
     \/ /\ StateBeingWritten
        /\ stateFile' = Corrupt
        /\ UNCHANGED disk

\* Slip: only the steps that finished are rolled back.
RollsBackFinished(t) ==
  [t EXCEPT !.phase = "undoState",
            !.todo  = InPlan(t, {"create", "replace", "remove"}) \ t.todo]

StartRollback(t) == [t EXCEPT !.phase = "undoState",
                              !.todo  = InPlan(t, {"create", "replace", "remove"})]

\* Slip: a step that throws is tried again.
RetriesStep ==
  /\ tx.phase = "apply"
  /\ \/ \E p \in tx.todo : disk[p] = Opaque
     \/ tx.todo = {} /\ ~DigestsReadable
  /\ UNCHANGED vars

\* A step throws because of what is at a path: a directory where a file has to
\* be removed or written, or no file where a digest has to be read back.
StepFails ==
  /\ tx.phase = "apply"
  /\ \/ \E p \in tx.todo : disk[p] = Opaque
     \/ tx.todo = {} /\ ~DigestsReadable
  /\ tx' = StartRollback(tx)
  /\ UNCHANGED <<release, disk, stateFile, journal, edits, faults>>

\* The file system refuses a step of the transaction, the last journal write
\* included.
IOFails ==
  /\ tx.phase \in {"apply", "commit"}
  /\ CutShort
  /\ tx' = StartRollback(tx)
  /\ UNCHANGED <<release, journal, edits>>

\* Rollback undoes the journal's steps from the last to the first, so the state
\* file comes first and a file that was there before gets its backup back.
UndoState ==
  /\ tx.phase = "undoState"
  /\ stateFile' = tx.startState
  /\ tx' = [tx EXCEPT !.phase = "undoFiles"]
  /\ UNCHANGED <<release, disk, journal, edits, faults>>

\* Slip: every undone write deletes, and no backup is put back.
UndoesByDeleting(p) ==
  /\ tx.phase = "undoFiles"
  /\ p \in tx.todo /\ disk[p] # Opaque
  /\ disk' = [disk EXCEPT ![p] = Absent]
  /\ tx' = [tx EXCEPT !.todo = @ \ {p}]
  /\ UNCHANGED <<release, stateFile, journal, edits, faults>>

\* A planned creation is undone by deleting whatever is at the path; a removal
\* whose file was already gone when the journal was written has no backup.
UndoFile(p) ==
  /\ tx.phase = "undoFiles"
  /\ p \in tx.todo
  /\ disk[p] # Opaque \/ (tx.op[p] = "remove" /\ tx.start[p] = Absent)
  /\ disk' = [disk EXCEPT ![p] =
       CASE tx.op[p] = "create" -> Absent
         [] tx.op[p] = "remove" /\ tx.start[p] = Absent -> @
         [] OTHER -> tx.start[p]]
  /\ tx' = [tx EXCEPT !.todo = @ \ {p}]
  /\ UNCHANGED <<release, stateFile, journal, edits, faults>>

CloseRollback ==
  /\ tx.phase = "undoFiles" /\ tx.todo = {}
  /\ journal' = "rolled_back"
  /\ tx' = Idle
  /\ UNCHANGED <<release, disk, stateFile, edits, faults>>

\* An undo step throws: the journal says so and the command gives up.
UndoFails ==
  /\ tx.phase \in {"undoState", "undoFiles"}
  /\ \/ /\ tx.phase = "undoFiles"
        /\ \E p \in tx.todo : disk[p] = Opaque
        /\ UNCHANGED <<disk, stateFile, faults>>
     \/ CutShort
  /\ journal' = "rollback_failed"
  /\ tx' = Idle
  /\ UNCHANGED <<release, edits>>

\* The process dies.  Its journal stays as it is: no command reads it back.
Crash ==
  /\ tx.phase # "idle"
  /\ CutShort
  /\ tx' = Idle
  /\ UNCHANGED <<release, journal, edits>>

-----------------------------------------------------------------------------
(***************************************************************************)
(* The environment.                                                        *)
(***************************************************************************)

\* The user edits, creates or deletes a file, or puts a directory in its place.
UserEdit(p, c) ==
  /\ edits < MaxEdits
  /\ tx.phase \in EditPhases
  /\ c \in Content \ {Torn, disk[p]}
  /\ disk' = [disk EXCEPT ![p] = c]
  /\ edits' = edits + 1
  /\ UNCHANGED <<release, stateFile, journal, tx, faults>>

\* A state file that does not parse blocks every command until it is removed.
RepairState ==
  /\ stateFile = Corrupt /\ tx.phase = "idle"
  /\ stateFile' = Missing
  /\ UNCHANGED <<release, disk, journal, tx, edits, faults>>

\* The source packs move to another release.  A plan compiles what it will write,
\* so a change behind its back does not reach it.
ChangeRelease(r) ==
  /\ tx.phase = "idle"
  /\ r # release
  /\ release' = r
  /\ UNCHANGED <<disk, stateFile, journal, tx, edits, faults>>

Init ==
  /\ release \in Releases
  /\ disk \in [Paths -> {Absent} \cup UserContent]
  /\ stateFile = Missing
  /\ journal = "none"
  /\ tx = Idle
  /\ edits = 0 /\ faults = 0

Command ==
  \/ \E S \in SUBSET Packs : PlanInstall(S) \/ PlanUpdate(S) \/ PlanUninstall(S)
  \/ OpenJournal \/ Decline
  \/ \E p \in Paths : RemoveFile(p) \/ WriteFile(p) \/ UndoFile(p)
  \/ SaveState \/ CommitJournal
  \/ StepFails \/ IOFails \/ UndoState \/ CloseRollback \/ UndoFails \/ Crash

Environment ==
  \/ \E p \in Paths, c \in Content : UserEdit(p, c)
  \/ RepairState
  \/ \E r \in Releases : ChangeRelease(r)

Next == Command \/ Environment

Spec == Init /\ [][Next]_vars

\* Once confirmed, a command runs to its end without waiting for anything: the
\* code between the prompt and the result is synchronous.
Running ==
  \/ \E p \in Paths : RemoveFile(p) \/ WriteFile(p) \/ UndoFile(p)
  \/ SaveState \/ CommitJournal
  \/ StepFails \/ UndoState \/ CloseRollback \/ UndoFails

FairSpec == Spec /\ WF_vars(Running)

-----------------------------------------------------------------------------
(***************************************************************************)
(* Properties.                                                             *)
(***************************************************************************)

TxType == [phase : Phases,
           action : {"none", "install", "update", "uninstall"},
           sel : SUBSET Packs,
           op : [Paths -> OpKinds],
           compiled : [Paths -> PackContent \cup {Absent}],
           before : Receipt,
           start : [Paths -> Content],
           startState : Receipt \cup {Missing, Corrupt},
           todo : SUBSET Paths]

\* Every variable keeps its type; in particular a receipt never records the
\* digest of a file that could not be read.
TypeOK ==
  /\ release \in Releases
  /\ disk \in [Paths -> Content]
  /\ stateFile \in Receipt \cup {Missing, Corrupt}
  /\ journal \in JournalStatus
  /\ tx \in TxType
  /\ edits \in 0 .. MaxEdits
  /\ faults \in 0 .. MaxFaults

Open == tx.phase \notin {"idle", "confirm"}

\* A step of the installer, not of the user.
InstallerStep == edits' = edits

\* From the journal to the end of the transaction, rollback included: a file
\* that was there when it began is not what it was only if the receipt the plan
\* read calls it PairSlash's and last recorded exactly that content.
TouchesOnlyOwnedUnchanged ==
  Open => \A p \in Paths :
    tx.start[p] # Absent /\ disk[p] # tx.start[p]
      => tx.before.files[p] = [owned |-> TRUE, digest |-> tx.start[p]]

\* Where the manifest allows no override, the digest of an owned file is always
\* one that some release shipped (or the remains of a write that died): no
\* sequence of edits, updates, failures and crashes makes the receipt vouch for
\* content the user wrote there.
ReceiptVouchesForNoEdit ==
  stateFile \notin {Missing, Corrupt} =>
    \A p \in Paths \ OverrideEligible :
      stateFile.files[p] # Untracked /\ stateFile.files[p].owned
        => stateFile.files[p].digest \notin UserContent

\* What the user wrote at a path that allows no override is never changed by
\* the installer, whatever was installed, edited, released or interrupted before.
NonOverrideEditsSurvive ==
  [][InstallerStep => \A p \in Paths \ OverrideEligible :
       disk[p] \in UserContent => disk'[p] = disk[p]]_vars

\* A journal that says "rolled_back" means it: the files and the install state
\* are those the transaction found.
RollbackRestores ==
  [][journal = "pending" /\ journal' = "rolled_back"
       => disk' = tx.start /\ stateFile' = tx.startState]_vars

\* When the user also changes files while the prompt waits, a rollback still
\* restores the install state and every file the journal found, but for a file
\* that took the place of a planned creation.
RollbackRestoresBackups ==
  [][journal = "pending" /\ journal' = "rolled_back"
       => /\ stateFile' = tx.startState
          /\ \A p \in Paths : tx.op[p] # "create" \/ tx.start[p] = Absent
                              => disk'[p] = tx.start[p]]_vars

\* A journal that says "committed" after an install or an update means the
\* receipt is true, even when files changed while the prompt waited: it tracks
\* exactly the compiled files of the selected packs, each with the content now
\* on disk.
CommittedReceiptIsTrue ==
  [][journal = "pending" /\ journal' = "committed" /\ tx.action # "uninstall" =>
       \A p \in Paths : PackOf[p] \in tx.sel =>
         LET f == LoadedState'.files[p] IN
         IF tx.compiled[p] = Absent THEN f = Untracked
                                    ELSE f # Untracked /\ f.digest = disk'[p]]_vars

\* After a committed uninstall nothing of the selected packs is tracked, no file
\* that was PairSlash's and unchanged is left, and every other file still is.
UninstallDetachesExactly ==
  [][journal = "pending" /\ journal' = "committed" /\ tx.action = "uninstall" =>
       \A p \in Paths :
         LET f == tx.before.files[p] IN
         /\ PackOf[p] \in tx.sel => LoadedState'.files[p] = Untracked
         /\ disk'[p] = IF PackOf[p] \in tx.sel /\ f = [owned |-> TRUE, digest |-> tx.start[p]]
                         THEN Absent ELSE tx.start[p]]_vars

\* A confirmed command ends, whatever it finds on disk: no step is left that can
\* neither be done, nor fail into a rollback, nor fail the rollback.
ConfirmedCommandEnds == Open ~> tx.phase = "idle"

\* Why these hold, when files change only between commands: the invariant the
\* proofs use.  The files and the receipt that an open transaction found:
Found == IF Open THEN tx.start ELSE disk
FoundState == IF Open THEN tx.startState ELSE stateFile

Touched == InPlan(tx, {"create", "replace", "remove"})
Target(p) == IF tx.op[p] = "remove" THEN Absent ELSE tx.compiled[p]

\* A receipt tracks files of its packs only, and vouches for no edit.
ReceiptSound(s) ==
  \A p \in Paths : s.files[p] # Untracked =>
    /\ PackOf[p] \in s.packs
    /\ s.files[p].owned /\ p \notin OverrideEligible
         => s.files[p].digest \notin UserContent

\* A managed file the release still compiles and the plan leaves alone.
KeptByUpdate(p) ==
  /\ tx.action # "uninstall" /\ PackOf[p] \in tx.sel /\ tx.compiled[p] # Absent
  /\ tx.op[p] \notin {"create", "replace"}
  /\ tx.before.files[p] # Untracked /\ tx.before.files[p].owned

\* The plan fits the files and the receipt it was made from.
PlanFits(p) ==
  LET f == tx.before.files[p] IN
  /\ tx.op[p] # "none" => PackOf[p] \in tx.sel
  /\ tx.op[p] = "create" => Found[p] = Absent
  /\ tx.op[p] \in {"replace", "remove"} => f = [owned |-> TRUE, digest |-> Found[p]]
  /\ tx.op[p] \in {"create", "replace"} => tx.compiled[p] \in PackContent
  /\ (KeptByUpdate(p) /\ p \notin OverrideEligible) => Found[p] = tx.compiled[p]
  /\ tx.action = "uninstall" =>
       /\ tx.op[p] \notin {"create", "replace"}
       /\ PackOf[p] \in tx.sel /\ f = [owned |-> TRUE, digest |-> Found[p]]
            => tx.op[p] = "remove"

PlanSound ==
  tx.phase # "idle" =>
    /\ FoundState # Corrupt
    /\ tx.sel # {}
    /\ tx.action = "uninstall" => tx.sel \subseteq tx.before.packs
    /\ tx.before = IF FoundState = Missing THEN EmptyReceipt ELSE FoundState
    /\ \A p \in Paths : PlanFits(p)

\* All of the transaction is on disk, the receipt included.
Saved ==
  /\ DigestsReadable
  /\ stateFile = NextState(tx)
  /\ \A p \in Touched : disk[p] = Target(p)

\* How far the transaction, or its rollback, has got.
Progress ==
  /\ tx.phase \in {"apply", "undoFiles"} => stateFile = tx.startState
  /\ tx.phase = "commit" => tx.todo = {} /\ Saved
  /\ tx.phase = "undoState" => stateFile \in {tx.startState, Corrupt} \/ Saved
  /\ Open => tx.todo \subseteq Touched
  /\ tx.phase = "undoState" => tx.todo = Touched
  /\ \A p \in Paths :
       /\ Open /\ p \notin Touched => disk[p] = tx.start[p]
       /\ tx.phase \in {"apply", "commit"} /\ p \in Touched =>
            disk[p] = IF p \in tx.todo THEN tx.start[p] ELSE Target(p)
       /\ tx.phase \in {"undoState", "undoFiles"} /\ p \in Touched =>
            IF p \in tx.todo THEN disk[p] \in {tx.start[p], Target(p), Torn}
                             ELSE disk[p] = tx.start[p]

\* The inductive invariant.
IInv ==
  /\ TypeOK
  /\ stateFile \notin {Missing, Corrupt} => ReceiptSound(stateFile)
  /\ tx.phase # "idle" => ReceiptSound(tx.before)
  /\ PlanSound
  /\ Progress

\* The transaction is atomic: with the journal's backups taken for the files of
\* an open transaction, every command is one step of the ledger or none.
Ledger == INSTANCE InstallLedger WITH
  files  <- IF Open THEN tx.start ELSE disk,
  ledger <- IF Open THEN tx.startState ELSE stateFile

\* A command takes effect as a whole when its journal is committed; a command
\* that fails and rolls back has no effect; only a crash or a failed rollback
\* leaves part of it behind, and then without a receipt for it.
ImplementsLedger == Ledger!Spec

-----------------------------------------------------------------------------
(***************************************************************************)
(* What the documentation says and the code does not do.                   *)
(***************************************************************************)

\* docs/workflows/phase-4-install-commands.md: "Use `update` to refresh managed
\* packs without clobbering valid local overrides" and "locally edited managed
\* files are preserved".  buildStatePack records the digest of a preserved
\* override as the file's current digest and keeps it owned, so the next update
\* or uninstall takes the user's edit for the last managed content.
OverridesSurvive ==
  [][InstallerStep =>
       \A p \in Paths : disk[p] \in UserContent => disk'[p] = disk[p]]_vars

\* docs/architecture/phase-4-runtime-native-distribution.md: "PairSlash only
\* removes files it created."  A file the user creates while the prompt waits
\* stands on a path the plan wants to create: a rollback deletes it.
RemovesOnlyOwnFiles ==
  [][InstallerStep => \A p \in Paths :
       disk[p] \in UserContent /\ disk'[p] = Absent
         => tx.before.files[p] # Untracked]_vars

\* docs/architecture/phase-4-runtime-native-distribution.md: "Preserved overrides
\* remain visible in update previews and doctor verdicts."  An orphaned override
\* is preserved on disk but leaves the receipt, which both are computed from.
PreservedStaysTracked ==
  [][journal = "pending" /\ journal' = "committed" =>
       \A p \in Paths : tx.op[p] = "preserve" => LoadedState'.files[p] # Untracked]_vars
=============================================================================
