------------------------------- MODULE Doctor -------------------------------
(***************************************************************************)
(* What `pairslash doctor' says of the files of a lane: the checks of      *)
(* packages/tools/doctor that read the receipt and the disk, and the       *)
(* previews of update and install they ask for.  Doctor writes nothing, so *)
(* its checks are operators on the state the installer leaves; the checks  *)
(* of the host are in DoctorReport.                                        *)
(*                                                                         *)
(* `requested' are the packs the command names, `intent' those an install  *)
(* would take: the requested ones, or the default pack of the catalog.     *)
(***************************************************************************)
EXTENDS Installer

\* A receipt that does not parse is reported by its own check; to all the others
\* it is as if nothing were installed.
Seen == IF stateFile = Corrupt THEN EmptyReceipt ELSE LoadedState

RunInstallStateLoad == IF stateFile = Corrupt THEN "fail" ELSE "pass"

-----------------------------------------------------------------------------
(***************************************************************************)
(* Owned files against their receipts.                                     *)
(***************************************************************************)

\* Slip: a file that is gone has nothing to compare.
SkipsMissing ==
  {p \in Paths : Seen.files[p] # Untracked /\ Seen.files[p].owned /\ disk[p] # Absent}

Owned == {p \in Paths : Seen.files[p] # Untracked /\ Seen.files[p].owned}

\* Missing, no regular file, or edited where the manifest allows no override.
IntegrityFailures ==
  {p \in Owned : \/ disk[p] \notin Readable
                 \/ disk[p] # Seen.files[p].digest /\ p \notin OverrideEligible}

\* Edited since the receipt was written, or already overridden when it was: a
\* receipt then holds a digest that no release has.
IntegrityWarnings ==
  {p \in Owned \ IntegrityFailures :
     disk[p] # Seen.files[p].digest \/ Seen.files[p].digest \notin PackContent}

RunOwnedFilesIntegrity ==
  CASE IntegrityFailures # {}                              -> "fail"
    [] IntegrityFailures = {} /\ IntegrityWarnings # {}     -> "degraded"
    [] OTHER                                               -> "pass"

-----------------------------------------------------------------------------
(***************************************************************************)
(* The previews doctor runs.                                               *)
(***************************************************************************)

PathsOf(S) == {p \in Paths : PackOf[p] \in S}
UpdateKinds == {UpdateOp(p, Seen) : p \in PathsOf(Seen.packs)}
InstallKinds(S) == {InstallOp(p) : p \in PathsOf(S)}

\* One preview over all that is installed: errors of a single pack, an addon that
\* cannot be updated in place for one, are the whole lane's.
RunUpdatePreviewRisk ==
  LET blocked == \/ \E k \in Seen.packs : ~Released(k) \/ ~OwnershipIntact(k, Seen)
                 \/ "blocked" \in UpdateKinds
  IN CASE blocked                                                     -> "fail"
       [] ~blocked /\ UpdateKinds \cap {"preserve", "reconcile"} # {}  -> "degraded"
       [] OTHER                                                       -> "pass"

\* A requested pack that is installed is redirected to update, unless the install
\* preview has errors and compiles nothing.
RunInstallPreviewParity(requested) ==
  LET installed == requested \cap Seen.packs
  IN CASE requested = {}                                         -> "skip"
       [] installed # {} /\ \A k \in installed : Released(k)      -> "fail"
       [] OTHER                                                  -> "pass"

\* Entries of the install root, one directory per pack, that no receipt names.
Unmanaged == {k \in Packs : \E p \in PathsOf({k}) : disk[p] # Absent} \ Seen.packs

\* Slip: a foreign ownership file is not among the reasons that block.
ForgetsOwnership(intent) ==
  LET collide == Unmanaged \cap intent # {} /\ \A k \in intent : Released(k)
      reconciled == \E p \in Paths : Seen.files[p] # Untracked /\ ~Seen.files[p].owned
  IN CASE collide /\ \E p \in PathsOf(intent \ Seen.packs) \ OwnershipFiles :
            InstallOp(p) = "blocked"                                       -> "fail"
       [] Unmanaged = {} /\ ~reconciled                                    -> "pass"
       [] OTHER                                                           -> "warn"

\* An entry that an install would meet is judged by the install preview, any other
\* is reported; so are files of managed packs that were only reconciled.
RunUnmanagedInstallRoot(intent) ==
  LET collide == Unmanaged \cap intent # {} /\ \A k \in intent : Released(k)
      reconciled == \E p \in Paths : Seen.files[p] # Untracked /\ ~Seen.files[p].owned
  IN CASE collide /\ "blocked" \in InstallKinds(intent \ Seen.packs)       -> "fail"
       [] Unmanaged = {} /\ ~reconciled                                    -> "pass"
       [] OTHER                                                           -> "warn"

-----------------------------------------------------------------------------
FileChecks(requested, intent) ==
  {RunInstallStateLoad, RunOwnedFilesIntegrity, RunUpdatePreviewRisk,
   RunInstallPreviewParity(requested), RunUnmanagedInstallRoot(intent)}

\* Every one of these checks that fails blocks installs.
BlocksInstall(requested, intent) == "fail" \in FileChecks(requested, intent)
AllClear(requested, intent) == FileChecks(requested, intent) \subseteq {"pass", "skip"}

\* Doctor foretells what the commands will do: packs it was asked about and does
\* not block can be installed, and where it has nothing at all to report no update
\* and no uninstall of what is installed takes away what the user wrote.
DoctorForetells ==
  tx.phase = "idle" =>
    /\ \A S \in (SUBSET Packs) \ {{}} :
         (\A k \in S : Released(k)) /\ ~BlocksInstall(S, S) =>
           /\ stateFile # Corrupt /\ S \cap LoadedState.packs = {}
           /\ "blocked" \notin InstallKinds(S)
    /\ \A k \in Packs : AllClear({}, {k}) =>
         \A p \in PathsOf(LoadedState.packs) : disk[p] \in UserContent =>
           {UpdateOp(p, LoadedState), UninstallOp(p, LoadedState)}
             \cap {"create", "replace", "remove"} = {}

\* A command that died, or could not roll back, is seen: no journal is ever read
\* again, but doctor finds fault with what is left, unless the command had done
\* nothing or everything, or only put whole files into a pack that was installed.
InterruptionShows ==
  [][Open /\ tx'.phase = "idle" /\ journal' \in {"pending", "rollback_failed"} =>
       \/ stateFile' = NextState(tx) /\ \A p \in Touched : disk'[p] = Target(p)
       \/ /\ stateFile' = tx.startState
          /\ \A p \in Paths :
               \/ disk'[p] = tx.start[p]
               \/ /\ tx.op[p] = "create" /\ PackOf[p] \in tx.before.packs
                  /\ disk'[p] = tx.compiled[p]
       \/ \A k \in Packs : ~AllClear({}, {k})']_vars
=============================================================================
