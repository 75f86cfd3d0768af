-------------------------- MODULE InstallerProofs --------------------------
(***************************************************************************)
(* Proofs about Installer and Doctor, for every set of paths, packs,       *)
(* releases and contents and every bound.                                  *)
(***************************************************************************)
EXTENDS Doctor, TLAPS

-----------------------------------------------------------------------------
(***************************************************************************)
(* What the plans and the receipts are made of.                            *)
(***************************************************************************)

LEMMA EmptyReceiptType == EmptyReceipt \in Receipt
BY DEF EmptyReceipt, Receipt

LEMMA IdleType == Idle \in TxType
BY EmptyReceiptType DEF Idle, TxType, Phases, OpKinds, Content

\* A usable state file gives a receipt.
LEMMA LoadedStateType ==
  ASSUME TypeOK, stateFile # Corrupt
  PROVE  LoadedState \in Receipt
BY EmptyReceiptType DEF LoadedState, TypeOK

\* Every planned operation is of a known kind.
LEMMA OpTypes ==
  ASSUME NEW p \in Paths, NEW s
  PROVE  /\ InstallOp(p) \in OpKinds
         /\ UpdateOp(p, s) \in OpKinds
         /\ UninstallOp(p, s) \in OpKinds
<1>1. InstallOp(p) \in OpKinds
  BY DEF InstallOp, OpKinds
<1>2. OrphanOp(p, s) \in OpKinds
  BY DEF OrphanOp, OpKinds
<1>3. ShippedOp(p, s) \in OpKinds
  BY DEF ShippedOp, OpKinds
<1>4. UninstallOp(p, s) \in OpKinds
  BY DEF UninstallOp, OpKinds
<1> QED BY <1>1, <1>2, <1>3, <1>4 DEF UpdateOp

\* The receipt of an install or an update is one: every digest in it was read,
\* and every compiled file of the selected packs is in it.
LEMMA WrittenReceiptType ==
  ASSUME TypeOK, DigestsReadable, tx.action # "uninstall"
  PROVE  /\ WrittenReceipt(tx) \in Receipt
         /\ \A p \in Paths : PackOf[p] \in tx.sel /\ tx.compiled[p] # Absent
              => WrittenReceipt(tx).files[p] \in FileReceipt
<1> DEFINE owner(p) == IF tx.op[p] \in {"create", "replace"}
                         THEN p \in PairslashAssets
                         ELSE tx.before.files[p] # Untracked /\ tx.before.files[p].owned
           entry(p) == IF PackOf[p] \notin tx.sel THEN tx.before.files[p]
                       ELSE IF tx.compiled[p] = Absent THEN Untracked
                       ELSE [owned |-> owner(p), digest |-> disk[p]]
<1>1. tx.before \in Receipt /\ tx.sel \subseteq Packs
  BY DEF TypeOK, TxType
<1>2. tx.before.packs \subseteq Packs /\ tx.before.files \in [Paths -> FileReceipt \cup {Untracked}]
  BY <1>1 DEF Receipt
<1>3. ASSUME NEW p \in Paths PROVE owner(p) \in BOOLEAN
  <2>1. (p \in PairslashAssets) \in BOOLEAN
    OBVIOUS
  <2>2. (tx.before.files[p] # Untracked /\ tx.before.files[p].owned) \in BOOLEAN
    OBVIOUS
  <2> QED BY <2>1, <2>2
<1>4. ASSUME NEW p \in Paths
      PROVE  /\ entry(p) \in FileReceipt \cup {Untracked}
             /\ PackOf[p] \in tx.sel /\ tx.compiled[p] # Absent => entry(p) \in FileReceipt
  <2>1. PackOf[p] \in tx.sel /\ tx.compiled[p] # Absent => disk[p] \in Readable
    BY DEF DigestsReadable
  <2> HIDE DEF owner
  <2> QED BY <1>2, <1>3, <2>1 DEF FileReceipt
<1>5. WrittenReceipt(tx) = [packs |-> tx.before.packs \cup tx.sel,
                            files |-> [p \in Paths |-> entry(p)]]
  BY Zenon DEF WrittenReceipt
<1> HIDE DEF entry
<1> QED BY <1>1, <1>2, <1>4, <1>5 DEF Receipt

LEMMA NextStateType ==
  ASSUME TypeOK, DigestsReadable
  PROVE  NextState(tx) \in Receipt \cup {Missing}
<1>1. CASE tx.action # "uninstall"
  BY <1>1, WrittenReceiptType DEF NextState
<1>2. CASE tx.action = "uninstall"
  <2>1. tx.before \in Receipt /\ tx.sel \subseteq Packs
    BY DEF TypeOK, TxType
  <2>2. DetachedReceipt(tx) \in Receipt
    BY <2>1 DEF DetachedReceipt, Receipt
  <2> QED BY <1>2, <2>2 DEF NextState
<1> QED BY <1>1, <1>2

\* An entry of a receipt is never mistaken for its absence.
LEMMA EntryIsTracked ==
  ASSUME NEW f \in FileReceipt PROVE f # Untracked
<1>1. f \in [owned : BOOLEAN, digest : Content]
  BY DEF FileReceipt, Content
<1> QED BY <1>1, ReceiptAssumption

-----------------------------------------------------------------------------
(***************************************************************************)
(* Type correctness.                                                       *)
(***************************************************************************)

LEMMA PlanType ==
  ASSUME TypeOK, stateFile # Corrupt,
         NEW action \in {"install", "update", "uninstall"},
         NEW S \in SUBSET Packs,
         NEW op \in [Paths -> OpKinds],
         Plan(action, S, op)
  PROVE  TypeOK'
<1>1. LoadedState \in Receipt
  BY LoadedStateType
<1>2. Ships[release] \in [Paths -> PackContent \cup {Absent}]
  BY ReleaseAssumption DEF TypeOK
<1>3. tx' \in TxType
  BY <1>1, <1>2, IdleType DEF Plan, TxType, Phases
<1> QED BY <1>3 DEF Plan, TypeOK

\* A step that is cut short leaves a torn file, or an unreadable state file.
LEMMA CutShortType ==
  ASSUME TypeOK, CutShort
  PROVE  /\ disk' \in [Paths -> Content]
         /\ stateFile' \in Receipt \cup {Missing, Corrupt}
         /\ faults' \in 0 .. MaxFaults
<1>1. faults' \in 0 .. MaxFaults
  BY BoundAssumption DEF TypeOK, CutShort
<1>2. Torn \in Content
  BY DEF Content, Readable
<1> QED BY <1>1, <1>2 DEF TypeOK, CutShort

LEMMA TypeStep == TypeOK /\ [Next]_vars => TypeOK'
<1> SUFFICES ASSUME TypeOK, [Next]_vars PROVE TypeOK'
  OBVIOUS
<1>1. ASSUME NEW S \in SUBSET Packs, PlanInstall(S) PROVE TypeOK'
  <2> DEFINE op == [p \in Paths |-> IF PackOf[p] \in S THEN InstallOp(p) ELSE "none"]
  <2>1. op \in [Paths -> OpKinds]
    BY OpTypes DEF OpKinds
  <2>2. Plan("install", S, op) /\ stateFile # Corrupt
    BY <1>1 DEF PlanInstall
  <2> HIDE DEF op
  <2> QED BY <2>1, <2>2, PlanType
<1>2. ASSUME NEW S \in SUBSET Packs, PlanUpdate(S) PROVE TypeOK'
  <2> DEFINE op == [p \in Paths |-> IF PackOf[p] \in S THEN UpdateOp(p, LoadedState)
                                                      ELSE "none"]
  <2>1. op \in [Paths -> OpKinds]
    BY OpTypes DEF OpKinds
  <2>2. Plan("update", S, op) /\ stateFile # Corrupt
    BY <1>2 DEF PlanUpdate
  <2> HIDE DEF op
  <2> QED BY <2>1, <2>2, PlanType
<1>3. ASSUME NEW S \in SUBSET Packs, PlanUninstall(S) PROVE TypeOK'
  <2> DEFINE op == [p \in Paths |-> IF PackOf[p] \in S THEN UninstallOp(p, LoadedState)
                                                      ELSE "none"]
  <2>1. op \in [Paths -> OpKinds]
    BY OpTypes DEF OpKinds
  <2>2. Plan("uninstall", S, op) /\ stateFile # Corrupt
    BY <1>3 DEF PlanUninstall
  <2> HIDE DEF op
  <2> QED BY <2>1, <2>2, PlanType
<1>4. CASE OpenJournal
  BY <1>4 DEF OpenJournal, TypeOK, TxType, Phases, JournalStatus, InPlan
<1>5. CASE Decline
  BY <1>5, IdleType DEF Decline, TypeOK
<1>6. ASSUME NEW p \in Paths, RemoveFile(p) PROVE TypeOK'
  BY <1>6 DEF RemoveFile, TypeOK, TxType, Content
<1>7. ASSUME NEW p \in Paths, WriteFile(p) PROVE TypeOK'
  <2>1. tx.compiled[p] \in Content
    BY DEF TypeOK, TxType, Content, Readable
  <2> QED BY <1>7, <2>1 DEF WriteFile, TypeOK, TxType
<1>8. ASSUME NEW p \in Paths, UndoFile(p) PROVE TypeOK'
  <2>1. tx.start[p] \in Content /\ disk[p] \in Content /\ Absent \in Content
    BY DEF TypeOK, TxType, Content
  <2> QED BY <1>8, <2>1 DEF UndoFile, TypeOK, TxType
<1>9. CASE SaveState
  <2>1. stateFile' \in Receipt \cup {Missing}
    BY <1>9, NextStateType DEF SaveState
  <2> QED BY <1>9, <2>1 DEF SaveState, TypeOK, TxType, Phases
<1>10. CASE CommitJournal
  BY <1>10, IdleType DEF CommitJournal, TypeOK, JournalStatus
<1>11. CASE StepFails
  BY <1>11 DEF StepFails, StartRollback, InPlan, TypeOK, TxType, Phases
<1>12. CASE IOFails
  BY <1>12, CutShortType DEF IOFails, StartRollback, InPlan, TypeOK, TxType, Phases
<1>13. CASE UndoState
  BY <1>13 DEF UndoState, TypeOK, TxType, Phases
<1>14. CASE CloseRollback
  BY <1>14, IdleType DEF CloseRollback, TypeOK, JournalStatus
<1>15. CASE UndoFails
  <2>1. /\ disk' \in [Paths -> Content]
        /\ stateFile' \in Receipt \cup {Missing, Corrupt}
        /\ faults' \in 0 .. MaxFaults
    BY <1>15, CutShortType DEF UndoFails, TypeOK
  <2> QED BY <1>15, <2>1, IdleType DEF UndoFails, TypeOK, JournalStatus
<1>16. CASE Crash
  BY <1>16, CutShortType, IdleType DEF Crash, TypeOK
<1>17. ASSUME NEW p \in Paths, NEW c \in Content, UserEdit(p, c) PROVE TypeOK'
  BY <1>17, BoundAssumption DEF UserEdit, TypeOK
<1>18. CASE RepairState
  BY <1>18 DEF RepairState, TypeOK
<1>19. ASSUME NEW r \in Releases, ChangeRelease(r) PROVE TypeOK'
  BY <1>19 DEF ChangeRelease, TypeOK
<1>20. CASE UNCHANGED vars
  BY <1>20 DEF vars, TypeOK
<1> QED
  BY <1>1, <1>2, <1>3, <1>4, <1>5, <1>6, <1>7, <1>8, <1>9, <1>10, <1>11, <1>12,
     <1>13, <1>14, <1>15, <1>16, <1>17, <1>18, <1>19, <1>20
     DEF Next, Command, Environment

\* Every variable of the installer keeps its type, whatever the user, the file
\* system and the releases do.
THEOREM TypeCorrect == Spec => []TypeOK
<1>1. Init => TypeOK
  BY IdleType, BoundAssumption
     DEF Init, TypeOK, Content, Readable, JournalStatus
<1>2. TypeOK /\ [Next]_vars => TypeOK'
  BY TypeStep
<1> QED BY <1>1, <1>2, PTL DEF Spec

-----------------------------------------------------------------------------
(***************************************************************************)
(* The inductive invariant.  It needs the user to leave the files alone    *)
(* while a command is open: EditPhases = {"idle"}.                         *)
(***************************************************************************)

\* A step that ends the command, or leaves none open, only has to keep the
\* receipt sound.
LEMMA ToIdle ==
  ASSUME TypeOK', tx'.phase = "idle",
         (stateFile \notin {Missing, Corrupt} => ReceiptSound(stateFile))'
  PROVE  IInv'
BY DEF IInv, PlanSound, Progress, Open

\* What Loaded gives is sound.
LEMMA LoadedSound ==
  ASSUME IInv, stateFile # Corrupt
  PROVE  LoadedState \in Receipt /\ ReceiptSound(LoadedState)
<1>1. ReceiptSound(EmptyReceipt)
  BY DEF ReceiptSound, EmptyReceipt
<1> QED BY <1>1, LoadedStateType DEF LoadedState, IInv

\* An entry is determined by its two fields.
LEMMA EntryFields ==
  ASSUME NEW f \in FileReceipt, f.owned
  PROVE  f = [owned |-> TRUE, digest |-> f.digest]
BY DEF FileReceipt

\* No receipt has an entry for a file that is not there.
LEMMA NoEntryForNothing ==
  [owned |-> TRUE, digest |-> Absent] \notin FileReceipt \cup {Untracked}
<1>1. Absent \notin Readable
  BY ContentAssumption DEF Readable
<1>2. [owned |-> TRUE, digest |-> Absent] # Untracked
  <2>1. [owned |-> TRUE, digest |-> Absent] \in [owned : BOOLEAN, digest : Content]
    BY DEF Content
  <2> QED BY <2>1, ReceiptAssumption
<1> QED BY <1>1, <1>2 DEF FileReceipt

\* Whatever is planned for p from the receipt s and the files on disk fits them.
FitsDisk(p, s, op) ==
  LET c == Ships[release][p]
      f == s.files[p] IN
  /\ op = "create" => disk[p] = Absent
  /\ op \in {"replace", "remove"} => f = [owned |-> TRUE, digest |-> disk[p]]
  /\ op \in {"create", "replace"} => c \in PackContent
  /\ op \notin {"create", "replace"} /\ c # Absent /\ p \notin OverrideEligible
       /\ f # Untracked /\ f.owned => disk[p] = c

LEMMA UpdateFits ==
  ASSUME TypeOK, NEW s \in Receipt, NEW p \in Paths, UpdateOp(p, s) # "blocked"
  PROVE  FitsDisk(p, s, UpdateOp(p, s))
<1> DEFINE c == Ships[release][p]
           f == s.files[p]
<1>1. c \in PackContent \cup {Absent}
  BY ReleaseAssumption DEF TypeOK
<1>2. f \in FileReceipt \cup {Untracked}
  BY DEF Receipt
<1>3. f # Untracked /\ f.owned => f = [owned |-> TRUE, digest |-> f.digest]
  BY <1>2, EntryFields
<1>4. CASE c = Absent
  <2>1. UpdateOp(p, s) = OrphanOp(p, s)
    BY <1>4 DEF UpdateOp
  <2> QED BY <1>3, <1>4, <2>1 DEF OrphanOp, FitsDisk
<1>5. CASE c # Absent
  <2>1. UpdateOp(p, s) = ShippedOp(p, s)
    BY <1>5 DEF UpdateOp
  <2> QED BY <1>1, <1>3, <1>5, <2>1 DEF ShippedOp, FitsDisk
<1> QED BY <1>4, <1>5

LEMMA InstallFits ==
  ASSUME TypeOK, NEW s \in Receipt, NEW p \in Paths, s.files[p] = Untracked
  PROVE  FitsDisk(p, s, InstallOp(p))
<1>1. Ships[release][p] \in PackContent \cup {Absent}
  BY ReleaseAssumption DEF TypeOK
<1> QED BY <1>1 DEF InstallOp, FitsDisk

\* Uninstall compares with the receipt only: what is still compiled does not count.
UninstallFitsDisk(p, s, op) ==
  /\ op \notin {"create", "replace"}
  /\ op = "remove" <=> s.files[p] = [owned |-> TRUE, digest |-> disk[p]]

LEMMA UninstallFits ==
  ASSUME TypeOK, NEW s \in Receipt, NEW p \in Paths
  PROVE  UninstallFitsDisk(p, s, UninstallOp(p, s))
<1>1. s.files[p] \in FileReceipt \cup {Untracked}
  BY DEF Receipt
<1>2. [owned |-> TRUE, digest |-> disk[p]] # Untracked
  <2>1. [owned |-> TRUE, digest |-> disk[p]] \in [owned : BOOLEAN, digest : Content]
    BY DEF TypeOK
  <2> QED BY <2>1, ReceiptAssumption
<1>3. s.files[p] = [owned |-> TRUE, digest |-> disk[p]] =>
        s.files[p] # Untracked /\ s.files[p].owned /\ disk[p] = s.files[p].digest
  BY <1>2
<1>4. s.files[p] # Untracked /\ s.files[p].owned =>
        s.files[p] = [owned |-> TRUE, digest |-> s.files[p].digest]
  BY <1>1, EntryFields
<1> QED BY <1>3, <1>4 DEF UninstallOp, UninstallFitsDisk

\* A plan made of fitting operations keeps the invariant.
LEMMA PlanStep ==
  ASSUME IInv, stateFile # Corrupt, TypeOK',
         NEW action \in {"install", "update", "uninstall"},
         NEW S \in SUBSET Packs,
         NEW op \in [Paths -> OpKinds],
         Plan(action, S, op),
         \A p \in Paths : op[p] # "none" => PackOf[p] \in S,
         \A p \in Paths : /\ op[p] = "create" => disk[p] = Absent
                          /\ op[p] \in {"replace", "remove"} =>
                               LoadedState.files[p] = [owned |-> TRUE, digest |-> disk[p]]
                          /\ op[p] \in {"create", "replace"} =>
                               Ships[release][p] \in PackContent,
         action # "uninstall" =>
           \A p \in Paths : PackOf[p] \in S => FitsDisk(p, LoadedState, op[p]),
         action = "uninstall" =>
           /\ S \subseteq LoadedState.packs
           /\ \A p \in Paths : /\ op[p] \notin {"create", "replace"}
                               /\ PackOf[p] \in S => UninstallFitsDisk(p, LoadedState, op[p]),
         S # {}
  PROVE  IInv'
<1>1. /\ tx'.phase = "confirm" /\ tx'.action = action /\ tx'.sel = S /\ tx'.op = op
      /\ tx'.compiled = Ships[release] /\ tx'.before = LoadedState
      /\ disk' = disk /\ stateFile' = stateFile
  BY DEF Plan, Idle
<1>2. ~Open'
  BY <1>1 DEF Open
<1>3. Found' = disk /\ FoundState' = stateFile
  BY <1>1, <1>2 DEF Found, FoundState
<1>4. (stateFile \notin {Missing, Corrupt} => ReceiptSound(stateFile))'
  BY <1>1 DEF IInv
<1>5. ReceiptSound(tx'.before)
  BY <1>1, LoadedSound
<1>6. ASSUME NEW p \in Paths PROVE PlanFits(p)'
  BY <1>1, <1>3 DEF PlanFits, KeptByUpdate, FitsDisk, UninstallFitsDisk
<1>7. PlanSound'
  BY <1>1, <1>3, <1>6 DEF PlanSound, LoadedState
<1>8. Progress'
  BY <1>1, <1>2 DEF Progress
<1> QED BY <1>4, <1>5, <1>7, <1>8 DEF IInv, ReceiptSound

\* A step inside a command that keeps what the command found and planned keeps
\* what the invariant says of the plan.
LEMMA SamePlan ==
  ASSUME IInv, tx.phase # "idle",
         tx'.action = tx.action, tx'.sel = tx.sel, tx'.op = tx.op,
         tx'.compiled = tx.compiled, tx'.before = tx.before,
         Found' = Found, FoundState' = FoundState
  PROVE  /\ PlanSound'
         /\ ReceiptSound(tx.before)'
         /\ Touched' = Touched
         /\ \A p \in Paths : Target(p)' = Target(p)
<1>1. ReceiptSound(tx.before)
  BY DEF IInv
<1>2. ASSUME NEW p \in Paths PROVE PlanFits(p)'
  <2>1. PlanFits(p)
    BY DEF IInv, PlanSound
  <2> QED BY <2>1 DEF PlanFits, KeptByUpdate
<1>3. PlanSound'
  BY <1>2 DEF IInv, PlanSound
<1> QED BY <1>1, <1>3 DEF ReceiptSound, Touched, InPlan, Target

LEMMA OpenJournalStep ==
  ASSUME IInv, TypeOK', OpenJournal
  PROVE  IInv'
<1>1. tx \in TxType
  BY DEF IInv, TypeOK
<1>2. /\ tx.phase = "confirm" /\ tx'.phase = "apply"
      /\ tx'.start = disk /\ tx'.startState = stateFile /\ tx'.todo = Touched
      /\ tx'.action = tx.action /\ tx'.sel = tx.sel /\ tx'.op = tx.op
      /\ tx'.compiled = tx.compiled /\ tx'.before = tx.before
      /\ disk' = disk /\ stateFile' = stateFile
  BY <1>1 DEF OpenJournal, TxType, Touched
<1>3. ~Open /\ Open'
  BY <1>2 DEF Open
<1>4. Found' = Found /\ FoundState' = FoundState
  BY <1>2, <1>3 DEF Found, FoundState
<1>5. PlanSound' /\ ReceiptSound(tx.before)' /\ Touched' = Touched
  BY <1>2, <1>4, SamePlan
<1>6. Progress'
  BY <1>2, <1>3, <1>5 DEF Progress
<1>7. (stateFile \notin {Missing, Corrupt} => ReceiptSound(stateFile))'
  BY <1>2 DEF IInv
<1> QED BY <1>5, <1>6, <1>7 DEF IInv

\* Steps of an open transaction keep the backups and the plan.
SameTransaction ==
  /\ tx'.action = tx.action /\ tx'.sel = tx.sel /\ tx'.op = tx.op
  /\ tx'.compiled = tx.compiled /\ tx'.before = tx.before
  /\ tx'.start = tx.start /\ tx'.startState = tx.startState

LEMMA InTransaction ==
  ASSUME IInv, Open, Open', SameTransaction
  PROVE  /\ PlanSound'
         /\ ReceiptSound(tx.before)'
         /\ Touched' = Touched
         /\ \A p \in Paths : Target(p)' = Target(p)
<1>1. Found' = Found /\ FoundState' = FoundState
  BY DEF SameTransaction, Found, FoundState
<1>2. tx.phase # "idle"
  BY DEF Open
<1> QED BY <1>1, <1>2, SamePlan DEF SameTransaction

LEMMA RemoveFileStep ==
  ASSUME IInv, TypeOK', NEW p \in Paths, RemoveFile(p)
  PROVE  IInv'
<1>1. tx \in TxType /\ disk \in [Paths -> Content]
  BY DEF IInv, TypeOK
<1>2. /\ SameTransaction
      /\ tx.phase = "apply" /\ tx'.phase = "apply" /\ tx'.todo = tx.todo \ {p}
      /\ p \in tx.todo /\ tx.op[p] = "remove"
      /\ disk' = [disk EXCEPT ![p] = Absent] /\ stateFile' = stateFile
  BY <1>1 DEF RemoveFile, TxType, SameTransaction
<1>3. Open /\ Open'
  BY <1>2 DEF Open
<1>4. /\ PlanSound' /\ ReceiptSound(tx.before)' /\ Touched' = Touched
      /\ \A q \in Paths : Target(q)' = Target(q)
  BY <1>2, <1>3, InTransaction
<1>5. Progress /\ (stateFile \notin {Missing, Corrupt} => ReceiptSound(stateFile))'
  BY <1>2 DEF IInv
<1>6. Target(p) = Absent
  BY <1>2 DEF Target
<1>7. Progress'
  BY <1>1, <1>2, <1>3, <1>4, <1>5, <1>6 DEF Progress, SameTransaction
<1> QED BY <1>4, <1>5, <1>7 DEF IInv

LEMMA WriteFileStep ==
  ASSUME IInv, TypeOK', NEW p \in Paths, WriteFile(p)
  PROVE  IInv'
<1>1. tx \in TxType /\ disk \in [Paths -> Content]
  BY DEF IInv, TypeOK
<1>2. /\ SameTransaction
      /\ tx.phase = "apply" /\ tx'.phase = "apply" /\ tx'.todo = tx.todo \ {p}
      /\ p \in tx.todo /\ tx.op[p] \in {"create", "replace"}
      /\ disk' = [disk EXCEPT ![p] = tx.compiled[p]] /\ stateFile' = stateFile
  BY <1>1 DEF WriteFile, TxType, SameTransaction
<1>3. Open /\ Open'
  BY <1>2 DEF Open
<1>4. /\ PlanSound' /\ ReceiptSound(tx.before)' /\ Touched' = Touched
      /\ \A q \in Paths : Target(q)' = Target(q)
  BY <1>2, <1>3, InTransaction
<1>5. Progress /\ (stateFile \notin {Missing, Corrupt} => ReceiptSound(stateFile))'
  BY <1>2 DEF IInv
<1>6. Target(p) = tx.compiled[p]
  BY <1>2 DEF Target
<1>7. Progress'
  BY <1>1, <1>2, <1>3, <1>4, <1>5, <1>6 DEF Progress, SameTransaction
<1> QED BY <1>4, <1>5, <1>7 DEF IInv

\* The files a finished transaction leaves, path by path.
LEMMA FinishedFiles ==
  ASSUME IInv, tx.phase = "apply", tx.todo = {}, NEW p \in Paths
  PROVE  disk[p] = IF p \in Touched THEN Target(p) ELSE tx.start[p]
BY DEF IInv, Progress, Open

\* The receipt that is saved is sound: what it vouches for was compiled, or was
\* compiled content already.
LEMMA SavedSound ==
  ASSUME IInv, SaveState, NextState(tx) # Missing
  PROVE  ReceiptSound(NextState(tx))
<1>1. /\ tx \in TxType /\ tx.before \in Receipt /\ tx.sel \subseteq Packs
      /\ ReceiptSound(tx.before) /\ tx.phase = "apply" /\ tx.todo = {} /\ DigestsReadable
  BY DEF SaveState, IInv, TypeOK, TxType
<1>2. CASE tx.action = "uninstall"
  <2>1. NextState(tx) = DetachedReceipt(tx)
    BY <1>2 DEF NextState
  <2> QED BY <1>1, <2>1 DEF DetachedReceipt, ReceiptSound
<1>3. CASE tx.action # "uninstall"
  <2>1. NextState(tx) = WrittenReceipt(tx)
    BY <1>3 DEF NextState
  <2> DEFINE w == WrittenReceipt(tx)
  <2>2. ASSUME NEW p \in Paths, w.files[p] # Untracked
        PROVE  /\ PackOf[p] \in w.packs
               /\ w.files[p].owned /\ p \notin OverrideEligible
                    => w.files[p].digest \notin UserContent
    <3>1. CASE PackOf[p] \notin tx.sel
      <4>1. w.files[p] = tx.before.files[p] /\ w.packs = tx.before.packs \cup tx.sel
        BY <3>1 DEF WrittenReceipt
      <4> QED BY <1>1, <2>2, <4>1 DEF ReceiptSound
    <3>2. CASE PackOf[p] \in tx.sel
      <4>1. PackOf[p] \in w.packs
        BY <3>2 DEF WrittenReceipt
      <4>2. tx.compiled[p] # Absent
        BY <2>2, <3>2 DEF WrittenReceipt
      <4>3. w.files[p].digest = disk[p]
        BY <3>2, <4>2 DEF WrittenReceipt
      <4>4. tx.compiled[p] \in PackContent /\ disk[p] \in Readable
        BY <1>1, <1>3, <3>2, <4>2 DEF TxType, DigestsReadable
      <4>5. PlanFits(p)
        BY <1>1 DEF IInv, PlanSound
      <4>6. CASE tx.op[p] \in {"create", "replace"}
        <5>1. disk[p] = tx.compiled[p]
          BY <1>1, <4>6, FinishedFiles DEF Touched, InPlan, Target
        <5> QED BY <4>1, <4>3, <4>4, <5>1, ContentAssumption
      <4>7. CASE tx.op[p] \notin {"create", "replace"}
        <5> SUFFICES ASSUME w.files[p].owned, p \notin OverrideEligible
                     PROVE  disk[p] \notin UserContent
          BY <4>1, <4>3
        <5>1. tx.before.files[p] # Untracked /\ tx.before.files[p].owned
          BY <3>2, <4>2, <4>7 DEF WrittenReceipt
        <5>2. Found[p] = tx.compiled[p]
          BY <1>3, <3>2, <4>2, <4>5, <4>7, <5>1 DEF PlanFits, KeptByUpdate
        <5>3. tx.start[p] = tx.compiled[p]
          BY <1>1, <5>2 DEF Found, Open
        <5>4. p \notin Touched
          <6>1. p \in Touched => disk[p] = Absent
            BY <1>1, <4>7, FinishedFiles DEF Touched, InPlan, Target
          <6> QED BY <4>4, <6>1, ContentAssumption DEF Readable
        <5>5. disk[p] = tx.compiled[p]
          BY <1>1, <5>3, <5>4, FinishedFiles
        <5> QED BY <4>4, <5>5, ContentAssumption
      <4> QED BY <4>6, <4>7
    <3> QED BY <3>1, <3>2
  <2> QED BY <2>1, <2>2 DEF ReceiptSound
<1> QED BY <1>2, <1>3

LEMMA SameNextState ==
  ASSUME SameTransaction, disk' = disk
  PROVE  /\ NextState(tx)' = NextState(tx)
         /\ DigestsReadable' <=> DigestsReadable
<1>1. WrittenReceipt(tx)' = WrittenReceipt(tx) /\ DetachedReceipt(tx)' = DetachedReceipt(tx)
  BY DEF SameTransaction, WrittenReceipt, DetachedReceipt
<1> QED BY <1>1 DEF SameTransaction, NextState, DigestsReadable

LEMMA SaveStateStep ==
  ASSUME IInv, TypeOK', SaveState
  PROVE  IInv'
<1>1. tx \in TxType /\ disk \in [Paths -> Content]
  BY DEF IInv, TypeOK
<1>2. /\ SameTransaction
      /\ tx.phase = "apply" /\ tx'.phase = "commit" /\ tx.todo = {} /\ tx'.todo = {}
      /\ disk' = disk /\ stateFile' = NextState(tx)
  BY <1>1 DEF SaveState, TxType, SameTransaction
<1>3. Open /\ Open'
  BY <1>2 DEF Open
<1>4. /\ PlanSound' /\ ReceiptSound(tx.before)' /\ Touched' = Touched
      /\ \A q \in Paths : Target(q)' = Target(q)
  BY <1>2, <1>3, InTransaction
<1>5. (stateFile \notin {Missing, Corrupt} => ReceiptSound(stateFile))'
  BY <1>2, SavedSound DEF ReceiptSound
<1>6. Saved'
  <2>1. DigestsReadable' /\ stateFile' = NextState(tx)'
    BY <1>2, SameNextState DEF SaveState
  <2>2. \A p \in Touched' : disk'[p] = Target(p)'
    BY <1>2, <1>4, FinishedFiles DEF Touched, InPlan
  <2> QED BY <2>1, <2>2 DEF Saved
<1>7. Progress'
  BY <1>2, <1>3, <1>4, <1>6 DEF Progress, SameTransaction, IInv
<1> QED BY <1>4, <1>5, <1>7 DEF IInv

\* What a step cut short in an open transaction does to a path.
LEMMA CutShortFiles ==
  ASSUME IInv, CutShort, NEW p \in Paths
  PROVE  disk'[p] = disk[p] \/ (p \in tx.todo /\ disk'[p] = Torn)
BY DEF CutShort, BeingWritten, IInv, TypeOK

\* In the other phases no step writes a file.
LEMMA CutShortElsewhere ==
  ASSUME CutShort, tx.phase \notin {"apply", "undoFiles"}
  PROVE  disk' = disk
BY DEF CutShort, BeingWritten

LEMMA CutShortSound ==
  ASSUME IInv, CutShort
  PROVE  (stateFile \notin {Missing, Corrupt} => ReceiptSound(stateFile))'
BY DEF CutShort, IInv, ReceiptSound

\* A failing step starts the rollback with everything planned to be undone.
LEMMA StartRollbackStep ==
  ASSUME IInv, TypeOK', tx.phase \in {"apply", "commit"}, tx' = StartRollback(tx),
         \A p \in Paths : disk'[p] = disk[p] \/ (p \in tx.todo /\ disk'[p] = Torn),
         tx.phase = "commit" => disk' = disk,
         stateFile' \in {stateFile, Corrupt},
         (stateFile \notin {Missing, Corrupt} => ReceiptSound(stateFile))'
  PROVE  IInv'
<1>1. tx \in TxType /\ disk \in [Paths -> Content]
  BY DEF IInv, TypeOK
<1>2. SameTransaction /\ tx'.phase = "undoState" /\ tx'.todo = Touched
  BY <1>1 DEF StartRollback, TxType, SameTransaction, Touched
<1>3. Open /\ Open'
  BY <1>2 DEF Open
<1>4. /\ PlanSound' /\ ReceiptSound(tx.before)' /\ Touched' = Touched
      /\ \A q \in Paths : Target(q)' = Target(q)
  BY <1>2, <1>3, InTransaction
<1>5. Progress
  BY DEF IInv
<1>6. stateFile' \in {tx'.startState, Corrupt} \/ Saved'
  <2>1. CASE tx.phase = "apply"
    BY <1>2, <1>5, <2>1 DEF Progress, SameTransaction
  <2>2. CASE tx.phase = "commit"
    BY <1>2, <1>4, <1>5, <2>2, SameNextState DEF Progress, Saved, Touched, InPlan
  <2> QED BY <2>1, <2>2
<1>7. Progress'
  BY <1>2, <1>3, <1>4, <1>5, <1>6 DEF Progress, SameTransaction
<1> QED BY <1>4, <1>7 DEF IInv

LEMMA UndoStateStep ==
  ASSUME IInv, TypeOK', UndoState
  PROVE  IInv'
<1>1. tx \in TxType
  BY DEF IInv, TypeOK
<1>2. /\ SameTransaction
      /\ tx.phase = "undoState" /\ tx'.phase = "undoFiles" /\ tx'.todo = tx.todo
      /\ disk' = disk /\ stateFile' = tx.startState
  BY <1>1 DEF UndoState, TxType, SameTransaction
<1>3. Open /\ Open'
  BY <1>2 DEF Open
<1>4. /\ PlanSound' /\ ReceiptSound(tx.before)' /\ Touched' = Touched
      /\ \A q \in Paths : Target(q)' = Target(q)
  BY <1>2, <1>3, InTransaction
<1>5. /\ tx.before = IF tx.startState = Missing THEN EmptyReceipt ELSE tx.startState
      /\ ReceiptSound(tx.before)
  BY <1>2, <1>3 DEF IInv, PlanSound, FoundState
<1>6. (stateFile \notin {Missing, Corrupt} => ReceiptSound(stateFile))'
  BY <1>2, <1>5 DEF ReceiptSound
<1>7. Progress
  BY DEF IInv
<1>8. Progress'
  BY <1>2, <1>3, <1>4, <1>7 DEF Progress, SameTransaction
<1> QED BY <1>4, <1>6, <1>8 DEF IInv

\* Undoing a step gives the path back what the journal found there: a planned
\* creation found nothing.
LEMMA UndoneFile ==
  ASSUME IInv, NEW p \in Paths, UndoFile(p)
  PROVE  disk'[p] = tx.start[p]
<1>1. /\ tx.phase = "undoFiles" /\ Open /\ p \in tx.todo /\ disk \in [Paths -> Content]
      /\ PlanFits(p) /\ Progress
  BY DEF UndoFile, Open, IInv, TypeOK, PlanSound
<1>2. p \in Touched
  BY <1>1 DEF Progress
<1>3. CASE tx.op[p] = "create"
  BY <1>1, <1>3 DEF UndoFile, PlanFits, Found
<1>4. CASE tx.op[p] = "remove" /\ tx.start[p] = Absent
  <2>1. tx.before.files[p] = [owned |-> TRUE, digest |-> Absent]
    BY <1>1, <1>4 DEF PlanFits, Found
  <2>2. tx.before.files[p] \in FileReceipt \cup {Untracked}
    BY DEF IInv, TypeOK, TxType, Receipt
  <2> QED BY <2>1, <2>2, NoEntryForNothing
<1>5. CASE tx.op[p] # "create" /\ ~(tx.op[p] = "remove" /\ tx.start[p] = Absent)
  BY <1>1, <1>5 DEF UndoFile
<1> QED BY <1>3, <1>4, <1>5

LEMMA UndoFileStep ==
  ASSUME IInv, TypeOK', NEW p \in Paths, UndoFile(p)
  PROVE  IInv'
<1>1. tx \in TxType /\ disk \in [Paths -> Content]
  BY DEF IInv, TypeOK
<1>2. /\ SameTransaction
      /\ tx.phase = "undoFiles" /\ tx'.phase = "undoFiles" /\ tx'.todo = tx.todo \ {p}
      /\ \A q \in Paths \ {p} : disk'[q] = disk[q]
      /\ stateFile' = stateFile
  BY <1>1 DEF UndoFile, TxType, SameTransaction
<1>3. Open /\ Open'
  BY <1>2 DEF Open
<1>4. /\ PlanSound' /\ ReceiptSound(tx.before)' /\ Touched' = Touched
      /\ \A q \in Paths : Target(q)' = Target(q)
  BY <1>2, <1>3, InTransaction
<1>5. Progress /\ (stateFile \notin {Missing, Corrupt} => ReceiptSound(stateFile))'
  BY <1>2 DEF IInv, ReceiptSound
<1>6. disk'[p] = tx.start[p]
  BY UndoneFile
<1>7. Progress'
  BY <1>1, <1>2, <1>3, <1>4, <1>5, <1>6 DEF Progress, SameTransaction
<1> QED BY <1>4, <1>5, <1>7 DEF IInv

LEMMA InvariantStep ==
  ASSUME EditPhases = {"idle"}
  PROVE  IInv /\ [Next]_vars => IInv'
<1> SUFFICES ASSUME IInv, [Next]_vars PROVE IInv'
  OBVIOUS
<1>0. TypeOK /\ TypeOK' /\ tx \in TxType
  BY TypeStep DEF IInv, TypeOK
<1>1. ASSUME NEW S \in SUBSET Packs, PlanInstall(S) PROVE IInv'
  <2> DEFINE op == [p \in Paths |-> IF PackOf[p] \in S THEN InstallOp(p) ELSE "none"]
  <2>1. op \in [Paths -> OpKinds]
    BY OpTypes DEF OpKinds
  <2>2. Plan("install", S, op) /\ stateFile # Corrupt /\ S # {}
    BY <1>1 DEF PlanInstall
  <2>3. ReceiptSound(LoadedState) /\ LoadedState \in Receipt
    BY <2>2, LoadedSound
  <2>4. ASSUME NEW p \in Paths, PackOf[p] \in S PROVE FitsDisk(p, LoadedState, op[p])
    <3>1. LoadedState.files[p] = Untracked
      BY <1>1, <2>3, <2>4 DEF PlanInstall, ReceiptSound
    <3> QED BY <1>0, <2>3, <2>4, <3>1, InstallFits
  <2>5. \A p \in Paths : PackOf[p] \notin S => op[p] = "none"
    OBVIOUS
  <2> HIDE DEF op
  <2> QED BY <1>0, <2>1, <2>2, <2>4, <2>5, PlanStep DEF FitsDisk
<1>2. ASSUME NEW S \in SUBSET Packs, PlanUpdate(S) PROVE IInv'
  <2> DEFINE op == [p \in Paths |-> IF PackOf[p] \in S THEN UpdateOp(p, LoadedState)
                                                      ELSE "none"]
  <2>1. op \in [Paths -> OpKinds]
    BY OpTypes DEF OpKinds
  <2>2. Plan("update", S, op) /\ stateFile # Corrupt /\ S # {}
    BY <1>2 DEF PlanUpdate
  <2>3. LoadedState \in Receipt
    BY <2>2, LoadedSound
  <2>4. ASSUME NEW p \in Paths, PackOf[p] \in S PROVE FitsDisk(p, LoadedState, op[p])
    <3>1. op[p] = UpdateOp(p, LoadedState) /\ op[p] # "blocked"
      BY <2>2, <2>4 DEF Plan
    <3> QED BY <1>0, <2>3, <3>1, UpdateFits
  <2>5. \A p \in Paths : PackOf[p] \notin S => op[p] = "none"
    OBVIOUS
  <2> HIDE DEF op
  <2> QED BY <1>0, <2>1, <2>2, <2>4, <2>5, PlanStep DEF FitsDisk
<1>3. ASSUME NEW S \in SUBSET Packs, PlanUninstall(S) PROVE IInv'
  <2> DEFINE op == [p \in Paths |-> IF PackOf[p] \in S THEN UninstallOp(p, LoadedState)
                                                      ELSE "none"]
  <2>1. op \in [Paths -> OpKinds]
    BY OpTypes DEF OpKinds
  <2>2. Plan("uninstall", S, op) /\ stateFile # Corrupt
    BY <1>3 DEF PlanUninstall
  <2>3. LoadedState \in Receipt
    BY <2>2, LoadedSound
  <2>4. ASSUME NEW p \in Paths, PackOf[p] \in S PROVE UninstallFitsDisk(p, LoadedState, op[p])
    BY <1>0, <2>3, <2>4, UninstallFits
  <2>5. \A p \in Paths : PackOf[p] \notin S => op[p] = "none"
    OBVIOUS
  <2>6. S # {} /\ S \subseteq LoadedState.packs
    BY <1>3 DEF PlanUninstall
  <2> HIDE DEF op
  <2>7. \A p \in Paths : /\ op[p] \notin {"create", "replace"}
                         /\ op[p] # "none" => PackOf[p] \in S
                         /\ op[p] = "remove" =>
                              LoadedState.files[p] = [owned |-> TRUE, digest |-> disk[p]]
    BY <2>4, <2>5 DEF UninstallFitsDisk
  <2>8. \A p \in Paths : /\ op[p] = "create" => disk[p] = Absent
                         /\ op[p] \in {"replace", "remove"} =>
                              LoadedState.files[p] = [owned |-> TRUE, digest |-> disk[p]]
                         /\ op[p] \in {"create", "replace"} =>
                              Ships[release][p] \in PackContent
    BY <2>7
  <2> QED BY <1>0, <2>1, <2>2, <2>4, <2>6, <2>7, <2>8, PlanStep
<1>4. CASE OpenJournal
  BY <1>0, <1>4, OpenJournalStep
<1>5. CASE Decline
  BY <1>0, <1>5, ToIdle DEF Decline, Idle, IInv, ReceiptSound
<1>6. ASSUME NEW p \in Paths, RemoveFile(p) PROVE IInv'
  BY <1>0, <1>6, RemoveFileStep
<1>7. ASSUME NEW p \in Paths, WriteFile(p) PROVE IInv'
  BY <1>0, <1>7, WriteFileStep
<1>8. ASSUME NEW p \in Paths, UndoFile(p) PROVE IInv'
  BY <1>0, <1>8, UndoFileStep
<1>9. CASE SaveState
  BY <1>0, <1>9, SaveStateStep
<1>10. CASE CommitJournal
  BY <1>0, <1>10, ToIdle DEF CommitJournal, Idle, IInv, ReceiptSound
<1>11. CASE StepFails
  BY <1>0, <1>11, StartRollbackStep DEF StepFails, IInv, ReceiptSound
<1>12. CASE IOFails
  <2>1. CutShort /\ tx.phase \in {"apply", "commit"} /\ tx' = StartRollback(tx)
    BY <1>12 DEF IOFails
  <2>2. tx.phase = "commit" => disk' = disk
    BY <2>1, CutShortElsewhere
  <2>3. stateFile' \in {stateFile, Corrupt}
    BY <2>1 DEF CutShort
  <2> QED BY <1>0, <2>1, <2>2, <2>3, CutShortFiles, CutShortSound, StartRollbackStep
<1>13. CASE UndoState
  BY <1>0, <1>13, UndoStateStep
<1>14. CASE CloseRollback
  BY <1>0, <1>14, ToIdle DEF CloseRollback, Idle, IInv, ReceiptSound
<1>15. CASE UndoFails
  <2>1. (stateFile \notin {Missing, Corrupt} => ReceiptSound(stateFile))'
    BY <1>15, CutShortSound DEF UndoFails, IInv, ReceiptSound
  <2> QED BY <1>0, <1>15, <2>1, ToIdle DEF UndoFails, Idle
<1>16. CASE Crash
  BY <1>0, <1>16, CutShortSound, ToIdle DEF Crash, Idle
<1>17. ASSUME NEW p \in Paths, NEW c \in Content, UserEdit(p, c) PROVE IInv'
  BY <1>0, <1>17, ToIdle DEF UserEdit, IInv, ReceiptSound
<1>18. CASE RepairState
  BY <1>0, <1>18, ToIdle DEF RepairState
<1>19. ASSUME NEW r \in Releases, ChangeRelease(r) PROVE IInv'
  BY <1>0, <1>19, ToIdle DEF ChangeRelease, IInv, ReceiptSound
<1>20. CASE UNCHANGED vars
  <2>1. disk' = disk /\ stateFile' = stateFile /\ tx' = tx
    BY <1>20 DEF vars
  <2>2. Found' = Found /\ FoundState' = FoundState /\ Touched' = Touched /\ Open' = Open
    BY <2>1 DEF Found, FoundState, Touched, InPlan, Open
  <2>3. Progress'
    <3>1. Saved' <=> Saved
      BY <2>1, <2>2, SameNextState DEF SameTransaction, Saved, Target
    <3> QED BY <2>1, <2>2, <3>1 DEF IInv, Progress, Target
  <2> QED BY <1>0, <2>1, <2>2, <2>3 DEF IInv, ReceiptSound, PlanSound, PlanFits, KeptByUpdate
<1> QED
  BY <1>1, <1>2, <1>3, <1>4, <1>5, <1>6, <1>7, <1>8, <1>9, <1>10, <1>11, <1>12,
     <1>13, <1>14, <1>15, <1>16, <1>17, <1>18, <1>19, <1>20
     DEF Next, Command, Environment

\* When files change only between commands, the inductive invariant holds of
\* every reachable state: what is on disk, in the receipt, in the journal's
\* backups and in the plan fit each other at every step of every command.
THEOREM Invariance ==
  ASSUME EditPhases = {"idle"}
  PROVE  Spec => []IInv
<1>1. Init => IInv
  <2> SUFFICES ASSUME Init PROVE IInv
    OBVIOUS
  <2>1. TypeOK
    BY IdleType, BoundAssumption DEF Init, TypeOK, Content, Readable, JournalStatus
  <2>2. tx.phase = "idle" /\ stateFile = Missing
    BY DEF Init, Idle
  <2> QED BY <2>1, <2>2 DEF IInv, PlanSound, Progress, Open
<1>2. IInv /\ [Next]_vars => IInv'
  BY InvariantStep
<1> QED BY <1>1, <1>2, PTL DEF Spec

-----------------------------------------------------------------------------
(***************************************************************************)
(* What the invariant gives.                                               *)
(***************************************************************************)

\* While a transaction is open, it has changed or removed a file it found only
\* if the receipt called the file PairSlash's and unchanged.
THEOREM OnlyOwnedUnchanged ==
  ASSUME EditPhases = {"idle"}
  PROVE  Spec => []TouchesOnlyOwnedUnchanged
<1>1. IInv => TouchesOnlyOwnedUnchanged
  <2> SUFFICES ASSUME IInv, Open, NEW p \in Paths,
                      tx.start[p] # Absent, disk[p] # tx.start[p]
               PROVE  tx.before.files[p] = [owned |-> TRUE, digest |-> tx.start[p]]
    BY DEF TouchesOnlyOwnedUnchanged
  <2>1. Progress /\ PlanFits(p) /\ Found = tx.start
    BY DEF IInv, PlanSound, Open, Found
  <2>2. p \in Touched
    BY <2>1 DEF Progress
  <2> QED BY <2>1, <2>2 DEF Touched, InPlan, PlanFits
<1> QED BY <1>1, Invariance, PTL

\* No history makes the receipt vouch for the user's content at a path that
\* allows no override.
THEOREM NoEditVouchedFor ==
  ASSUME EditPhases = {"idle"}
  PROVE  Spec => []ReceiptVouchesForNoEdit
<1>1. IInv => ReceiptVouchesForNoEdit
  BY DEF IInv, ReceiptSound, ReceiptVouchesForNoEdit
<1> QED BY <1>1, Invariance, PTL

\* A path an open transaction still has to handle does not hold user content,
\* unless the manifest lets the user override it.
LEMMA NoEditInTheWay ==
  ASSUME IInv, Open, NEW p \in tx.todo, p \notin OverrideEligible
  PROVE  disk[p] \notin UserContent
<1>1. /\ p \in Paths /\ p \in Touched /\ PlanFits(p) /\ Progress
      /\ ReceiptSound(tx.before) /\ Found = tx.start
      /\ tx.before.files[p] \in FileReceipt \cup {Untracked}
  BY DEF IInv, Progress, PlanSound, Open, Found, TypeOK, TxType, Receipt, Touched, InPlan
<1>2. tx.start[p] \notin UserContent
  <2>1. CASE tx.op[p] = "create"
    BY <1>1, <2>1, ContentAssumption DEF PlanFits
  <2>2. CASE tx.op[p] \in {"replace", "remove"}
    <3>1. tx.before.files[p] = [owned |-> TRUE, digest |-> tx.start[p]]
      BY <1>1, <2>2 DEF PlanFits
    <3>2. tx.before.files[p] # Untracked
      <4>1. [owned |-> TRUE, digest |-> tx.start[p]] \in [owned : BOOLEAN, digest : Content]
        BY <1>1 DEF IInv, TypeOK, TxType
      <4> QED BY <3>1, <4>1, ReceiptAssumption
    <3> QED BY <1>1, <3>1, <3>2 DEF ReceiptSound
  <2> QED BY <1>1, <2>1, <2>2 DEF Touched, InPlan
<1>3. Target(p) \notin UserContent
  BY <1>1, ContentAssumption DEF Target, PlanFits, Touched, InPlan
<1>4. disk[p] \in {tx.start[p], Target(p), Torn}
  BY <1>1 DEF Progress, Open, IInv, TypeOK, TxType, Phases
<1> QED BY <1>2, <1>3, <1>4, ContentAssumption

\* No step of the installer changes what the user wrote at a path that allows no
\* override.
THEOREM EditsSurvive ==
  ASSUME EditPhases = {"idle"}
  PROVE  Spec => NonOverrideEditsSurvive
<1>1. IInv /\ [Next]_vars =>
        [InstallerStep => \A p \in Paths \ OverrideEligible :
           disk[p] \in UserContent => disk'[p] = disk[p]]_vars
  <2> SUFFICES ASSUME IInv, Next, InstallerStep,
                      NEW p \in Paths \ OverrideEligible, disk[p] \in UserContent
               PROVE  disk'[p] = disk[p]
    BY DEF vars
  <2>1. disk \in [Paths -> Content] /\ edits \in Nat
    BY BoundAssumption DEF IInv, TypeOK
  <2>2. Open => p \notin tx.todo
    BY NoEditInTheWay
  <2>3. CASE \E q \in Paths : RemoveFile(q) \/ WriteFile(q) \/ UndoFile(q)
    BY <2>1, <2>2, <2>3 DEF RemoveFile, WriteFile, UndoFile, Open
  <2>4. CASE CutShort /\ Open
    BY <2>2, <2>4, CutShortFiles
  <2>5. CASE CutShort /\ ~Open
    BY <2>5, CutShortElsewhere DEF Open
  <2>6. CASE \E q \in Paths, c \in Content : UserEdit(q, c)
    BY <2>1, <2>6 DEF UserEdit, InstallerStep
  <2>7. CASE disk' = disk
    BY <2>7
  <2>8. ASSUME NEW S \in SUBSET Packs, PlanInstall(S) \/ PlanUpdate(S) \/ PlanUninstall(S)
        PROVE  disk' = disk
    BY <2>8 DEF PlanInstall, PlanUpdate, PlanUninstall, Plan
  <2> QED
    BY <2>3, <2>4, <2>5, <2>6, <2>7, <2>8
       DEF Next, Command, Environment, OpenJournal, Decline, SaveState, CommitJournal,
           StepFails, IOFails, UndoState, CloseRollback, UndoFails, Crash,
           RepairState, ChangeRelease
<1> QED BY <1>1, Invariance, PTL DEF Spec, NonOverrideEditsSurvive

\* Only CloseRollback says "rolled_back", and only CommitJournal "committed".
LEMMA WhoCloses ==
  ASSUME [Next]_vars, journal = "pending"
  PROVE  /\ journal' = "rolled_back" => CloseRollback
         /\ journal' = "committed" => CommitJournal
<1>1. ASSUME NEW S \in SUBSET Packs, PlanInstall(S) \/ PlanUpdate(S) \/ PlanUninstall(S)
      PROVE  journal' = journal
  BY <1>1 DEF PlanInstall, PlanUpdate, PlanUninstall, Plan
<1>2. CASE \E p \in Paths : RemoveFile(p) \/ WriteFile(p) \/ UndoFile(p)
  BY <1>2 DEF RemoveFile, WriteFile, UndoFile
<1>3. CASE Environment
  BY <1>3 DEF Environment, UserEdit, RepairState, ChangeRelease
<1>4. CASE OpenJournal \/ Decline \/ SaveState \/ StepFails \/ IOFails
             \/ UndoState \/ UndoFails \/ Crash
  BY <1>4 DEF OpenJournal, Decline, SaveState, StepFails, IOFails, UndoState, UndoFails, Crash
<1>5. CASE CloseRollback \/ CommitJournal
  BY <1>5 DEF CloseRollback, CommitJournal
<1>6. CASE UNCHANGED vars
  BY <1>6 DEF vars
<1> QED BY <1>1, <1>2, <1>3, <1>4, <1>5, <1>6 DEF Next, Command

\* A rollback that reports success has restored every file and the install state.
THEOREM RollbackIsExact ==
  ASSUME EditPhases = {"idle"}
  PROVE  Spec => RollbackRestores
<1>1. IInv /\ [Next]_vars =>
        [journal = "pending" /\ journal' = "rolled_back"
           => disk' = tx.start /\ stateFile' = tx.startState]_vars
  <2> SUFFICES ASSUME IInv, [Next]_vars, journal = "pending", journal' = "rolled_back"
               PROVE  disk' = tx.start /\ stateFile' = tx.startState
    OBVIOUS
  <2>1. /\ tx.phase = "undoFiles" /\ tx.todo = {} /\ disk' = disk /\ stateFile' = stateFile
    BY WhoCloses DEF CloseRollback
  <2>2. disk \in [Paths -> Content] /\ tx.start \in [Paths -> Content]
    BY DEF IInv, TypeOK, TxType
  <2>3. \A p \in Paths : disk[p] = tx.start[p]
    BY <2>1 DEF IInv, Progress, Open
  <2>4. disk = tx.start
    BY <2>2, <2>3
  <2>5. stateFile = tx.startState
    BY <2>1 DEF IInv, Progress
  <2> QED BY <2>1, <2>4, <2>5
<1> QED BY <1>1, Invariance, PTL DEF Spec, RollbackRestores

\* What CommitJournal finds.
LEMMA AtCommit ==
  ASSUME IInv, CommitJournal
  PROVE  /\ DigestsReadable /\ stateFile = NextState(tx)
         /\ disk' = disk /\ stateFile' = stateFile /\ tx.sel # {}
         /\ LoadedState' = LoadedState
         /\ tx.action = "uninstall" => tx.sel \subseteq tx.before.packs
         /\ \A p \in Paths : /\ disk[p] = IF p \in Touched THEN Target(p) ELSE tx.start[p]
                             /\ PlanFits(p) /\ Found[p] = tx.start[p]
<1>1. tx.phase = "commit" /\ Open /\ tx.todo = {} /\ Saved /\ Progress /\ PlanSound
  BY DEF CommitJournal, Open, IInv, Progress
<1>2. disk' = disk /\ stateFile' = stateFile
  BY DEF CommitJournal
<1> QED BY <1>1, <1>2 DEF Saved, Progress, PlanSound, Found, LoadedState

\* A committed uninstall removes exactly the files that were PairSlash's and
\* unchanged, and forgets the rest.
THEOREM UninstallIsExact ==
  ASSUME EditPhases = {"idle"}
  PROVE  Spec => UninstallDetachesExactly
<1> DEFINE detached ==
      \A p \in Paths :
         LET f == tx.before.files[p] IN
         /\ PackOf[p] \in tx.sel => LoadedState'.files[p] = Untracked
         /\ disk'[p] = IF PackOf[p] \in tx.sel /\ f = [owned |-> TRUE, digest |-> tx.start[p]]
                         THEN Absent ELSE tx.start[p]
<1>1. ASSUME IInv, CommitJournal, tx.action = "uninstall" PROVE detached
  <2>1. LoadedState' \in {EmptyReceipt, DetachedReceipt(tx)}
    <3>1. stateFile \in {Missing, DetachedReceipt(tx)} /\ LoadedState' = LoadedState
      BY <1>1, AtCommit DEF NextState
    <3> QED BY <3>1 DEF LoadedState
  <2>2. ASSUME NEW p \in Paths, PackOf[p] \in tx.sel PROVE LoadedState'.files[p] = Untracked
    BY <2>1, <2>2 DEF EmptyReceipt, DetachedReceipt
  <2>3. ASSUME NEW p \in Paths
        PROVE  disk[p] = IF PackOf[p] \in tx.sel
                              /\ tx.before.files[p] = [owned |-> TRUE, digest |-> tx.start[p]]
                           THEN Absent ELSE tx.start[p]
    <3>1. PlanFits(p) /\ Found[p] = tx.start[p]
          /\ disk[p] = IF p \in Touched THEN Target(p) ELSE tx.start[p]
      BY <1>1, AtCommit
    <3>2. p \in Touched <=> tx.op[p] = "remove"
      BY <1>1, <3>1 DEF PlanFits, Touched, InPlan
    <3> QED BY <1>1, <3>1, <3>2 DEF PlanFits, Target
  <2> QED BY <1>1, <2>2, <2>3, AtCommit
<1>2. IInv /\ [Next]_vars =>
        [journal = "pending" /\ journal' = "committed" /\ tx.action = "uninstall" => detached]_vars
  BY <1>1, WhoCloses
<1> QED BY <1>2, Invariance, PTL DEF Spec, UninstallDetachesExactly

-----------------------------------------------------------------------------
(***************************************************************************)
(* The installer implements the ledger: a transaction takes effect in the  *)
(* step that ends it.                                                      *)
(***************************************************************************)

\* Outside a transaction, and in the step that ends one, the ledger sees the
\* files and the state file themselves.
LEMMA LedgerView ==
  /\ Open => Found = tx.start /\ FoundState = tx.startState
  /\ ~Open => Found = disk /\ FoundState = stateFile
BY DEF Found, FoundState

\* What an open transaction means to the ledger.
LEMMA LedgerTransaction ==
  ASSUME IInv, Open
  PROVE  /\ Ledger!Entries = tx.before /\ FoundState # Corrupt
         /\ tx.before \in Receipt /\ tx.sel \in SUBSET Packs /\ tx.sel # {}
         /\ \A p \in Paths :
              /\ PlanFits(p) /\ Found[p] = tx.start[p]
              /\ Ledger!Vouched(p) <=>
                   tx.before.files[p] = [owned |-> TRUE, digest |-> tx.start[p]]
              /\ p \in Touched =>
                   /\ PackOf[p] \in tx.sel
                   /\ tx.start[p] = Absent \/ Ledger!Vouched(p)
                   /\ Target(p) \in PackContent \cup {Absent}
<1>1. PlanSound /\ tx \in TxType /\ tx.phase # "idle"
  BY DEF IInv, TypeOK, Open
<1>2. Ledger!Entries = tx.before /\ FoundState # Corrupt
  BY <1>1 DEF PlanSound, FoundState, Ledger!Entries, Ledger!NoEntries, EmptyReceipt
<1>3. tx.before \in Receipt /\ tx.sel \in SUBSET Packs /\ tx.sel # {}
  BY <1>1 DEF TxType, PlanSound
<1>4. ASSUME NEW p \in Paths
      PROVE  /\ PlanFits(p) /\ Found[p] = tx.start[p]
             /\ Ledger!Vouched(p) <=>
                  tx.before.files[p] = [owned |-> TRUE, digest |-> tx.start[p]]
  BY <1>1, <1>2 DEF PlanSound, Found, Ledger!Vouched
<1>5. ASSUME NEW p \in Paths, p \in Touched
      PROVE  /\ PackOf[p] \in tx.sel
             /\ tx.start[p] = Absent \/ Ledger!Vouched(p)
             /\ Target(p) \in PackContent \cup {Absent}
  BY <1>4, <1>5 DEF PlanFits, Touched, InPlan, Target
<1> QED BY <1>2, <1>3, <1>4, <1>5

\* A transaction that ends with everything on disk is a refresh or a detach.
LEMMA Completes ==
  ASSUME IInv, Open, Saved, ~Open', disk' = disk, stateFile' = stateFile, edits' = edits,
         \A p \in Paths \ Touched : disk[p] = tx.start[p]
  PROVE  Ledger!Next
<1> DEFINE S == tx.sel
<1>1. /\ Found = tx.start /\ FoundState = tx.startState
      /\ Found' = disk /\ FoundState' = stateFile
  BY LedgerView DEF Found, FoundState
<1>2. /\ tx.start \in [Paths -> Content] /\ disk \in [Paths -> Content] /\ TypeOK
  BY DEF IInv, TypeOK, TxType
<1>3. \A p \in Paths : disk[p] = IF p \in Touched THEN Target(p) ELSE tx.start[p]
  BY DEF Saved
<1>4. CASE tx.action # "uninstall"
  <2>1. /\ stateFile = WrittenReceipt(tx) /\ stateFile \in Receipt /\ DigestsReadable
    BY <1>2, <1>4, WrittenReceiptType DEF Saved, NextState
  <2>2. stateFile \notin {Missing, Corrupt}
    BY <2>1, ReceiptAssumption
  <2>3. Ledger!Moves(S, PackContent \cup {Absent})
    BY <1>1, <1>3, LedgerTransaction DEF Ledger!Moves, Found
  <2>4. stateFile.packs = Ledger!Entries.packs \cup S
    BY <2>1, LedgerTransaction DEF WrittenReceipt
  <2>5. ASSUME NEW p \in Paths
        PROVE  LET e == stateFile.files[p] IN
               IF PackOf[p] \notin S THEN e = Ledger!Entries.files[p]
               ELSE e # Untracked =>
                      /\ e.digest = disk[p]
                      /\ e.owned => disk[p] # tx.start[p] \/ Ledger!Owned(Ledger!Entries.files[p])
    <3>1. CASE PackOf[p] \notin S
      BY <2>1, <3>1, LedgerTransaction DEF WrittenReceipt
    <3>2. CASE PackOf[p] \in S /\ tx.compiled[p] = Absent
      BY <2>1, <3>2 DEF WrittenReceipt
    <3>3. CASE PackOf[p] \in S /\ tx.compiled[p] # Absent
      <4>1. stateFile.files[p].digest = disk[p]
        BY <2>1, <3>3 DEF WrittenReceipt
      <4>2. CASE tx.op[p] = "create"
        <5>1. p \in Touched /\ tx.start[p] = Absent /\ disk[p] = tx.compiled[p]
          BY <1>3, <4>2, LedgerTransaction DEF Touched, InPlan, Target, PlanFits
        <5> QED BY <3>3, <4>1, <5>1
      <4>3. CASE tx.op[p] = "replace"
        <5>1. tx.before.files[p] = [owned |-> TRUE, digest |-> tx.start[p]]
          BY <4>3, LedgerTransaction DEF PlanFits
        <5>2. tx.before.files[p] # Untracked
          <6>1. [owned |-> TRUE, digest |-> tx.start[p]] \in [owned : BOOLEAN, digest : Content]
            BY <1>2
          <6> QED BY <5>1, <6>1, ReceiptAssumption
        <5> QED BY <3>3, <4>1, <5>1, <5>2, LedgerTransaction DEF Ledger!Owned
      <4>4. CASE tx.op[p] \notin {"create", "replace"}
        <5>1. stateFile.files[p].owned => tx.before.files[p] # Untracked /\ tx.before.files[p].owned
          BY <2>1, <3>3, <4>4 DEF WrittenReceipt
        <5> QED BY <3>3, <4>1, <5>1, LedgerTransaction DEF Ledger!Owned
      <4> QED BY <4>2, <4>3, <4>4
    <3> QED BY <3>1, <3>2, <3>3
  <2>6. Ledger!Refresh(S)
    BY <1>1, <2>2, <2>3, <2>4, <2>5, LedgerTransaction DEF Ledger!Refresh, Found, FoundState
  <2> QED BY <2>6, LedgerTransaction DEF Ledger!Next, Ledger!Command
<1>5. CASE tx.action = "uninstall"
  <2>1. S \subseteq tx.before.packs
    BY <1>5 DEF IInv, PlanSound, Open
  <2>2. ASSUME NEW p \in Paths
        PROVE  disk[p] = IF PackOf[p] \in S /\ Ledger!Vouched(p) THEN Absent ELSE tx.start[p]
    <3>1. p \in Touched <=> tx.op[p] = "remove"
      BY <1>5, LedgerTransaction DEF PlanFits, Touched, InPlan
    <3>2. p \in Touched <=> PackOf[p] \in S /\ Ledger!Vouched(p)
      BY <1>5, <3>1, LedgerTransaction DEF PlanFits
    <3> QED BY <1>3, <3>1, <3>2 DEF Target
  <2>3. disk = [p \in Paths |-> IF PackOf[p] \in S /\ Ledger!Vouched(p) THEN Absent ELSE tx.start[p]]
    BY <1>2, <2>2
  <2>4. stateFile = IF tx.before.packs = S THEN Missing ELSE DetachedReceipt(tx)
    BY <1>5 DEF Saved, NextState
  <2>5. Ledger!Detach(S)
    BY <1>1, <2>1, <2>3, <2>4, LedgerTransaction
       DEF Ledger!Detach, DetachedReceipt, Found, FoundState
  <2> QED BY <2>5, LedgerTransaction DEF Ledger!Next, Ledger!Command
<1> QED BY <1>4, <1>5

\* One that ends without its receipt is an interruption.
LEMMA Breaks ==
  ASSUME IInv, Open, ~Open', edits' = edits,
         stateFile' \in {tx.startState, Corrupt},
         \A p \in Paths : disk'[p] = tx.start[p]
                          \/ (p \in Touched /\ disk'[p] \in {Target(p), Torn})
  PROVE  Ledger!Next
<1>1. /\ Found = tx.start /\ FoundState = tx.startState
      /\ Found' = disk' /\ FoundState' = stateFile'
  BY LedgerView DEF Found, FoundState
<1>2. Ledger!Moves(tx.sel, PackContent \cup {Absent, Torn})
  BY <1>1, LedgerTransaction DEF Ledger!Moves, Found
<1>3. Ledger!Interrupted(tx.sel)
  BY <1>1, <1>2, LedgerTransaction DEF Ledger!Interrupted, FoundState
<1> QED BY <1>3, LedgerTransaction DEF Ledger!Next, Ledger!Command

\* A step cut short ends an open transaction with all of it done or without its
\* receipt.
LEMMA CutShortEnds ==
  ASSUME IInv, Open, ~Open', edits' = edits,
         CutShort \/ (tx.phase = "undoFiles" /\ UNCHANGED <<disk, stateFile>>)
  PROVE  Ledger!Next
<1>1. Progress /\ tx.phase \in {"apply", "commit", "undoState", "undoFiles"}
  BY DEF IInv, TypeOK, TxType, Phases, Open
<1>2. stateFile' \in {stateFile, Corrupt}
  BY DEF CutShort
<1>3. ASSUME NEW p \in Paths
      PROVE  disk'[p] = disk[p] \/ (p \in tx.todo /\ disk'[p] = Torn)
  BY <1>3, CutShortFiles
<1>4. ASSUME NEW p \in Paths
      PROVE  disk'[p] = tx.start[p] \/ (p \in Touched /\ disk'[p] \in {Target(p), Torn})
  BY <1>1, <1>3 DEF Progress
<1>5. CASE stateFile' \in {tx.startState, Corrupt}
  BY <1>4, <1>5, Breaks
<1>6. CASE stateFile' \notin {tx.startState, Corrupt}
  <2>1. Saved /\ tx.phase \in {"commit", "undoState"}
    BY <1>1, <1>2, <1>6 DEF Progress
  <2>2. stateFile' = stateFile
    BY <1>2, <1>6
  <2>3. disk' = disk
    BY <2>1, CutShortElsewhere
  <2>4. \A p \in Paths \ Touched : disk[p] = tx.start[p]
    BY <1>1 DEF Progress
  <2> QED BY <2>1, <2>2, <2>3, <2>4, Completes
<1> QED BY <1>5, <1>6

LEMMA LedgerStep ==
  ASSUME EditPhases = {"idle"}
  PROVE  IInv /\ [Next]_vars => [Ledger!Next]_<<Found, FoundState, edits>>
<1> SUFFICES ASSUME IInv, [Next]_vars
             PROVE  Ledger!Next \/ UNCHANGED <<Found, FoundState, edits>>
  OBVIOUS
<1>0. tx \in TxType /\ disk \in [Paths -> Content]
  BY DEF IInv, TypeOK
<1>1. ASSUME NEW S \in SUBSET Packs, PlanInstall(S) \/ PlanUpdate(S) \/ PlanUninstall(S)
      PROVE  UNCHANGED <<Found, FoundState, edits>>
  BY <1>1 DEF PlanInstall, PlanUpdate, PlanUninstall, Plan, Idle, Found, FoundState, Open
<1>2. CASE OpenJournal \/ Decline
  <2>1. tx.phase = "confirm" /\ disk' = disk /\ stateFile' = stateFile /\ edits' = edits
    BY <1>2 DEF OpenJournal, Decline
  <2>2. CASE OpenJournal
    BY <1>0, <2>1, <2>2 DEF OpenJournal, TxType, Found, FoundState, Open
  <2>3. CASE Decline
    BY <2>1, <2>3 DEF Decline, Idle, Found, FoundState, Open
  <2> QED BY <1>2, <2>2, <2>3
<1>3. CASE \E p \in Paths : RemoveFile(p) \/ WriteFile(p) \/ UndoFile(p)
  BY <1>0, <1>3 DEF RemoveFile, WriteFile, UndoFile, TxType, Found, FoundState, Open
<1>4. CASE SaveState \/ StepFails \/ IOFails \/ UndoState
  BY <1>0, <1>4 DEF SaveState, StepFails, IOFails, CutShort, UndoState, StartRollback,
                    TxType, Found, FoundState, Open
<1>5. CASE CommitJournal
  <2>1. /\ Open /\ ~Open' /\ disk' = disk /\ stateFile' = stateFile /\ edits' = edits
        /\ tx.phase = "commit"
    BY <1>5 DEF CommitJournal, Idle, Open
  <2>2. Saved /\ \A p \in Paths \ Touched : disk[p] = tx.start[p]
    BY <2>1 DEF IInv, Progress
  <2> QED BY <2>1, <2>2, Completes
<1>6. CASE CloseRollback
  <2>1. /\ Open /\ ~Open' /\ disk' = disk /\ stateFile' = stateFile /\ edits' = edits
        /\ tx.phase = "undoFiles" /\ tx.todo = {}
    BY <1>6 DEF CloseRollback, Idle, Open
  <2>2. stateFile = tx.startState /\ \A p \in Paths : disk[p] = tx.start[p]
    BY <2>1 DEF IInv, Progress
  <2>3. disk = tx.start
    BY <1>0, <2>2 DEF TxType
  <2> QED BY <2>1, <2>2, <2>3 DEF Found, FoundState
<1>7. CASE UndoFails
  <2>1. Open /\ ~Open' /\ edits' = edits
    BY <1>7 DEF UndoFails, Idle, Open
  <2>2. CutShort \/ (tx.phase = "undoFiles" /\ UNCHANGED <<disk, stateFile>>)
    BY <1>7 DEF UndoFails
  <2> QED BY <2>1, <2>2, CutShortEnds
<1>8. CASE Crash
  <2>1. CutShort /\ ~Open' /\ edits' = edits
    BY <1>8 DEF Crash, Idle, Open
  <2>2. CASE Open
    BY <2>1, <2>2, CutShortEnds
  <2>3. CASE ~Open
    <3>1. disk' = disk /\ stateFile' = stateFile
      BY <2>1, <2>3 DEF CutShort, BeingWritten, StateBeingWritten, Open
    <3> QED BY <2>1, <2>3, <3>1 DEF Found, FoundState
  <2> QED BY <2>2, <2>3
<1>9. ASSUME NEW p \in Paths, NEW c \in Content, UserEdit(p, c) PROVE Ledger!Next
  <2>1. ~Open /\ ~Open' /\ stateFile' = stateFile /\ edits' = edits + 1
    BY <1>9 DEF UserEdit, Open
  <2>2. \A q \in Paths \ {p} : disk'[q] = disk[q]
    BY <1>0, <1>9 DEF UserEdit
  <2> QED BY <2>1, <2>2 DEF Ledger!Next, Ledger!UserEdit
<1>10. CASE RepairState
  <2>1. /\ ~Open /\ ~Open' /\ disk' = disk /\ edits' = edits
        /\ stateFile = Corrupt /\ stateFile' = Missing
    BY <1>10 DEF RepairState, Open
  <2> QED BY <2>1 DEF Ledger!Next, Ledger!Command, Ledger!DropCorruptLedger
<1>11. ASSUME NEW r \in Releases, ChangeRelease(r)
       PROVE  UNCHANGED <<Found, FoundState, edits>>
  BY <1>11 DEF ChangeRelease, Found, FoundState, Open
<1>12. CASE UNCHANGED vars
  BY <1>12 DEF vars, Found, FoundState, Open
<1> QED
  BY <1>1, <1>2, <1>3, <1>4, <1>5, <1>6, <1>7, <1>8, <1>9, <1>10, <1>11, <1>12
     DEF Next, Command, Environment

\* When files change only between commands, the step-by-step installer with its
\* failures, crashes and rollbacks implements the ledger, whose commands are
\* atomic.
THEOREM Refinement ==
  ASSUME EditPhases = {"idle"}
  PROVE  Spec => ImplementsLedger
<1>1. Init => Ledger!Init
  BY DEF Init, Ledger!Init, Idle, Open
<1>2. IInv /\ [Next]_vars =>
        [Ledger!Next]_<<IF Open THEN tx.start ELSE disk,
                        IF Open THEN tx.startState ELSE stateFile, edits>>
  BY LedgerStep DEF Found, FoundState
<1> QED BY <1>1, <1>2, Invariance, PTL DEF Spec, ImplementsLedger, Ledger!Spec

-----------------------------------------------------------------------------
(***************************************************************************)
(* Doctor.                                                                 *)
(***************************************************************************)

\* Packs that doctor does not block have no receipt, and nothing at a path of theirs
\* keeps an install from writing it or adopting what is there.
LEMMA UnblockedInstalls ==
  ASSUME NEW S \in SUBSET Packs, S # {}, \A k \in S : Released(k), ~BlocksInstall(S, S)
  PROVE  /\ stateFile # Corrupt /\ S \cap LoadedState.packs = {}
         /\ "blocked" \notin InstallKinds(S)
<1>1. /\ RunInstallStateLoad # "fail" /\ RunInstallPreviewParity(S) # "fail"
      /\ RunUnmanagedInstallRoot(S) # "fail"
  BY DEF BlocksInstall, FileChecks
<1>2. stateFile # Corrupt /\ Seen = LoadedState
  BY <1>1 DEF RunInstallStateLoad, Seen
<1>3. S \cap Seen.packs = {}
  BY <1>1 DEF RunInstallPreviewParity
<1>4. S \ Seen.packs = S
  BY <1>3
<1>5. ~(Unmanaged \cap S # {} /\ "blocked" \in InstallKinds(S))
  BY <1>1, <1>4 DEF RunUnmanagedInstallRoot
<1>6. ASSUME Unmanaged \cap S = {}, NEW p \in PathsOf(S) PROVE InstallOp(p) # "blocked"
  <2>1. p \in Paths /\ PackOf[p] \in S
    BY DEF PathsOf
  <2>2. PackOf[p] \notin Unmanaged /\ PackOf[p] \notin Seen.packs /\ PackOf[p] \in Packs
    BY <1>3, <1>6, <2>1
  <2>3. disk[p] = Absent
    BY <2>1, <2>2 DEF Unmanaged, PathsOf
  <2> QED BY <2>3 DEF InstallOp
<1>7. "blocked" \notin InstallKinds(S)
  BY <1>5, <1>6 DEF InstallKinds
<1> QED BY <1>2, <1>3, <1>7

\* Where doctor has nothing to report, every file it knows is as a release shipped it.
AsShipped ==
  /\ stateFile # Corrupt /\ Seen = LoadedState
  /\ \A p \in Paths : Seen.files[p] # Untracked =>
       /\ Seen.files[p].owned /\ disk[p] = Seen.files[p].digest
       /\ Seen.files[p].digest \in PackContent
  /\ UpdateKinds \cap {"blocked", "preserve", "reconcile"} = {}
  /\ Unmanaged = {}

LEMMA ClearMeans ==
  ASSUME NEW k, AllClear({}, {k})
  PROVE  AsShipped
<1>1. /\ RunInstallStateLoad = "pass" /\ RunOwnedFilesIntegrity = "pass"
      /\ RunUpdatePreviewRisk = "pass" /\ RunUnmanagedInstallRoot({k}) = "pass"
  BY DEF AllClear, FileChecks, RunInstallStateLoad, RunOwnedFilesIntegrity, RunUpdatePreviewRisk,
         RunUnmanagedInstallRoot
<1>2. stateFile # Corrupt /\ Seen = LoadedState
  BY <1>1 DEF RunInstallStateLoad, Seen
<1>3. IntegrityFailures = {} /\ IntegrityWarnings = {}
  BY <1>1 DEF RunOwnedFilesIntegrity
<1>4. \A p \in Owned : disk[p] = Seen.files[p].digest /\ Seen.files[p].digest \in PackContent
  BY <1>3 DEF IntegrityWarnings
<1>5. "blocked" \notin UpdateKinds /\ UpdateKinds \cap {"preserve", "reconcile"} = {}
  BY <1>1 DEF RunUpdatePreviewRisk
<1>6. Unmanaged = {} /\ ~ \E p \in Paths : Seen.files[p] # Untracked /\ ~Seen.files[p].owned
  BY <1>1 DEF RunUnmanagedInstallRoot
<1> QED BY <1>2, <1>4, <1>5, <1>6 DEF Owned, AsShipped

LEMMA ClearMeansNext ==
  ASSUME NEW k
  PROVE  AllClear({}, {k})' => AsShipped'
<1>1. AllClear({}, {k}) => AsShipped
  BY ClearMeans
<1> QED BY <1>1, PTL

\* Where doctor has nothing to report, no update and no uninstall takes an edit away.
LEMMA ClearSparesEdits ==
  ASSUME TypeOK, NEW k, AllClear({}, {k}), NEW p \in PathsOf(LoadedState.packs),
         disk[p] \in UserContent
  PROVE  {UpdateOp(p, LoadedState), UninstallOp(p, LoadedState)}
           \cap {"create", "replace", "remove"} = {}
<1>1. p \in Paths /\ Ships[release][p] \in PackContent \cup {Absent}
  BY ReleaseAssumption DEF PathsOf, TypeOK
<1>2. LoadedState.files[p] = Untracked
  BY <1>1, ClearMeans, ContentAssumption DEF AsShipped
<1>3. disk[p] # Absent /\ disk[p] \in Readable
  BY ContentAssumption DEF Readable
<1>4. UninstallOp(p, LoadedState) = "none"
  BY <1>2 DEF UninstallOp
<1>5. CASE Ships[release][p] = Absent
  BY <1>2, <1>4, <1>5 DEF UpdateOp, OrphanOp
<1>6. CASE Ships[release][p] # Absent
  BY <1>1, <1>2, <1>3, <1>4, <1>6, ContentAssumption DEF UpdateOp, ShippedOp
<1> QED BY <1>5, <1>6

\* Doctor foretells what the commands will do, from any state that edits, failures
\* and crashes, at any moment of a command, can leave.
THEOREM DoctorIsRight == Spec => []DoctorForetells
<1>1. ASSUME TypeOK PROVE DoctorForetells
  <2>1. ASSUME NEW S \in (SUBSET Packs) \ {{}}, \A k \in S : Released(k), ~BlocksInstall(S, S)
        PROVE  /\ stateFile # Corrupt /\ S \cap LoadedState.packs = {}
               /\ "blocked" \notin InstallKinds(S)
    <3>1. S \in SUBSET Packs /\ S # {}
      BY <2>1
    <3> QED BY <2>1, <3>1, UnblockedInstalls
  <2>2. ASSUME NEW k \in Packs, AllClear({}, {k}), NEW p \in PathsOf(LoadedState.packs),
               disk[p] \in UserContent
        PROVE  {UpdateOp(p, LoadedState), UninstallOp(p, LoadedState)}
                 \cap {"create", "replace", "remove"} = {}
    BY <1>1, <2>2, ClearSparesEdits
  <2> QED BY <2>1, <2>2 DEF DoctorForetells
<1> QED BY <1>1, TypeCorrect, PTL

-----------------------------------------------------------------------------
(***************************************************************************)
(* What a command that was cut short leaves.                               *)
(***************************************************************************)

\* A plan holds what the release it was made from compiles, and the sources do not move
\* while the command runs.
PlanIsCurrent == tx.phase # "idle" => tx.compiled = Ships[release]

LEMMA PlanStaysCurrent == TypeOK /\ PlanIsCurrent /\ [Next]_vars => PlanIsCurrent'
<1> SUFFICES ASSUME TypeOK, PlanIsCurrent, [Next]_vars PROVE PlanIsCurrent'
  OBVIOUS
<1>1. tx \in TxType
  BY DEF TypeOK
<1>2. ASSUME NEW S \in SUBSET Packs, PlanInstall(S) \/ PlanUpdate(S) \/ PlanUninstall(S)
      PROVE  PlanIsCurrent'
  <2>1. tx'.compiled = Ships[release] /\ release' = release
    BY <1>2 DEF PlanInstall, PlanUpdate, PlanUninstall, Plan, Idle
  <2> QED BY <2>1 DEF PlanIsCurrent
<1>3. CASE OpenJournal \/ SaveState \/ StepFails \/ IOFails \/ UndoState
             \/ \E p \in Paths : RemoveFile(p) \/ WriteFile(p) \/ UndoFile(p)
  <2>1. tx.phase # "idle" /\ tx'.compiled = tx.compiled /\ release' = release
    BY <1>1, <1>3 DEF OpenJournal, SaveState, StepFails, IOFails, UndoState, RemoveFile, WriteFile,
                      UndoFile, StartRollback, TxType
  <2> QED BY <2>1 DEF PlanIsCurrent
<1>4. CASE Decline \/ CommitJournal \/ CloseRollback \/ UndoFails \/ Crash
  <2>1. tx'.phase = "idle"
    BY <1>4 DEF Decline, CommitJournal, CloseRollback, UndoFails, Crash, Idle
  <2> QED BY <2>1 DEF PlanIsCurrent
<1>5. CASE Environment
  BY <1>5 DEF Environment, UserEdit, RepairState, ChangeRelease, PlanIsCurrent
<1>6. CASE UNCHANGED vars
  BY <1>6 DEF vars, PlanIsCurrent
<1> QED BY <1>2, <1>3, <1>4, <1>5, <1>6 DEF Next, Command

\* A file an interruption leaves other than it was is one doctor finds fault with,
\* unless a whole file was put into a pack that was installed.
LEMMA ChangeShows ==
  ASSUME IInv, PlanIsCurrent, TypeOK', Open, release' = release, stateFile' = tx.startState,
         NEW p \in Touched, disk'[p] \in {Target(p), Torn}, disk'[p] # tx.start[p],
         ~(/\ tx.op[p] = "create" /\ PackOf[p] \in tx.before.packs
           /\ disk'[p] = tx.compiled[p]),
         NEW k, AllClear({}, {k})'
  PROVE  FALSE
<1>1. /\ p \in Paths /\ tx.op[p] \in {"create", "replace", "remove"} /\ PackOf[p] \in Packs
      /\ disk' \in [Paths -> Content]
  BY PackAssumption DEF Touched, InPlan, TypeOK
<1>2. Seen' = tx.before
  <2>1. tx.startState # Corrupt
        /\ tx.before = IF tx.startState = Missing THEN EmptyReceipt ELSE tx.startState
    BY DEF IInv, PlanSound, FoundState, Open
  <2> QED BY <2>1 DEF Seen, LoadedState
<1>3. /\ \A q \in Paths : tx.before.files[q] # Untracked =>
           /\ tx.before.files[q].owned /\ disk'[q] = tx.before.files[q].digest
           /\ tx.before.files[q].digest \in PackContent
      /\ UpdateKinds' \cap {"blocked", "preserve", "reconcile"} = {}
      /\ Unmanaged' = {}
  BY <1>2, ClearMeansNext DEF AsShipped
<1>4. PlanFits(p) /\ Found[p] = tx.start[p]
  BY <1>1 DEF IInv, PlanSound, Found, Open
<1>5. CASE tx.op[p] \in {"replace", "remove"}
  <2>1. tx.before.files[p] = [owned |-> TRUE, digest |-> tx.start[p]]
    BY <1>4, <1>5 DEF PlanFits
  <2>2. tx.before.files[p] # Untracked
    <3>1. [owned |-> TRUE, digest |-> tx.start[p]] \in [owned : BOOLEAN, digest : Content]
      BY <1>1 DEF IInv, TypeOK, TxType
    <3> QED BY <2>1, <3>1, ReceiptAssumption
  <2> QED BY <1>1, <1>3, <2>1, <2>2
<1>6. CASE tx.op[p] = "create"
  <2>1. tx.start[p] = Absent /\ tx.compiled[p] \in PackContent /\ Target(p) = tx.compiled[p]
    BY <1>4, <1>6 DEF PlanFits, Target
  <2>2. disk'[p] # Absent
    BY <2>1
  <2>3. PackOf[p] \in tx.before.packs
    BY <1>1, <1>2, <1>3, <2>2 DEF Unmanaged, PathsOf
  <2>4. disk'[p] = Torn
    BY <1>6, <2>1, <2>3
  <2>5. tx.before.files[p] = Untracked
    BY <1>1, <1>3, <2>4, ContentAssumption
  <2>6. Ships[release'][p] \in PackContent
    BY <2>1 DEF PlanIsCurrent, Open
  <2>7. UpdateOp(p, Seen)' \in UpdateKinds'
    BY <1>1, <1>2, <2>3 DEF UpdateKinds, PathsOf
  <2>8. UpdateOp(p, Seen)' \in {"blocked", "reconcile"}
    <3>1. Ships[release'][p] # Absent /\ disk'[p] # Ships[release'][p]
          /\ disk'[p] \in Readable /\ disk'[p] # Absent
      BY <2>2, <2>4, <2>6, ContentAssumption DEF Readable
    <3> QED BY <1>2, <2>5, <3>1 DEF UpdateOp, ShippedOp
  <2> QED BY <1>3, <2>7, <2>8
<1> QED BY <1>1, <1>5, <1>6

\* A command that ends without having committed or rolled back shows.
LEMMA EndShows ==
  ASSUME IInv, PlanIsCurrent, TypeOK', Open, release' = release,
         CutShort \/ (tx.phase = "undoFiles" /\ UNCHANGED <<disk, stateFile>>)
  PROVE  \/ stateFile' = NextState(tx) /\ \A p \in Touched : disk'[p] = Target(p)
         \/ /\ stateFile' = tx.startState
            /\ \A p \in Paths :
                 \/ disk'[p] = tx.start[p]
                 \/ /\ tx.op[p] = "create" /\ PackOf[p] \in tx.before.packs
                    /\ disk'[p] = tx.compiled[p]
         \/ \A k \in Packs : ~AllClear({}, {k})'
<1>1. Progress /\ tx.phase \in {"apply", "commit", "undoState", "undoFiles"}
  BY DEF IInv, TypeOK, TxType, Phases, Open
<1>2. stateFile' \in {stateFile, Corrupt}
  BY DEF CutShort
<1>3. ASSUME NEW p \in Paths
      PROVE  disk'[p] = disk[p] \/ (p \in tx.todo /\ disk'[p] = Torn)
  BY <1>3, CutShortFiles
<1>4. ASSUME NEW p \in Paths
      PROVE  disk'[p] = tx.start[p] \/ (p \in Touched /\ disk'[p] \in {Target(p), Torn})
  BY <1>1, <1>3 DEF Progress
<1>5. CASE stateFile' = Corrupt
  <2>1. \A k \in Packs : ~AllClear({}, {k})'
    BY <1>5, ClearMeansNext DEF AsShipped
  <2> QED BY <2>1
<1>6. CASE stateFile' = tx.startState
  <2>1. ASSUME NEW p \in Paths, disk'[p] # tx.start[p],
               ~(/\ tx.op[p] = "create" /\ PackOf[p] \in tx.before.packs
                 /\ disk'[p] = tx.compiled[p]),
               NEW k \in Packs, AllClear({}, {k})'
        PROVE  FALSE
    <3>1. p \in Touched /\ disk'[p] \in {Target(p), Torn}
      BY <1>4, <2>1
    <3> QED BY <1>6, <2>1, <3>1, ChangeShows
  <2> QED BY <1>6, <2>1
<1>7. CASE stateFile' \notin {tx.startState, Corrupt}
  <2>1. Saved /\ tx.phase \in {"commit", "undoState"}
    BY <1>1, <1>2, <1>7 DEF Progress
  <2>2. stateFile' = stateFile
    BY <1>2, <1>7
  <2>3. disk' = disk
    BY <2>1, CutShortElsewhere
  <2> QED BY <2>1, <2>2, <2>3 DEF Saved
<1> QED BY <1>5, <1>6, <1>7

\* An interrupted command is never silent: unless it had done nothing or everything,
\* or only completed files of a pack that was installed, doctor reports what it left.
THEOREM DoctorSeesInterruption ==
  ASSUME EditPhases = {"idle"}
  PROVE  Spec => InterruptionShows
<1> DEFINE Inv == IInv /\ PlanIsCurrent
           shows == \/ stateFile' = NextState(tx) /\ \A p \in Touched : disk'[p] = Target(p)
                    \/ /\ stateFile' = tx.startState
                       /\ \A p \in Paths :
                            \/ disk'[p] = tx.start[p]
                            \/ /\ tx.op[p] = "create" /\ PackOf[p] \in tx.before.packs
                               /\ disk'[p] = tx.compiled[p]
                    \/ \A k \in Packs : ~AllClear({}, {k})'
<1>1. Init => PlanIsCurrent
  BY DEF Init, Idle, PlanIsCurrent
<1>2. IInv /\ PlanIsCurrent /\ [Next]_vars => PlanIsCurrent'
  BY PlanStaysCurrent DEF IInv
<1>3. ASSUME IInv, PlanIsCurrent, [Next]_vars, Open, tx'.phase = "idle",
             journal' \in {"pending", "rollback_failed"}
      PROVE  shows
  <2>0. TypeOK'
    BY <1>3, TypeStep DEF IInv
  <2>1. UndoFails \/ Crash
    <3>1. ASSUME NEW S \in SUBSET Packs, PlanInstall(S) \/ PlanUpdate(S) \/ PlanUninstall(S)
          PROVE  FALSE
      BY <1>3, <3>1 DEF PlanInstall, PlanUpdate, PlanUninstall, Open
    <3>2. tx \in TxType /\ tx.phase # "idle" /\ tx.phase # "confirm"
      BY <1>3 DEF IInv, TypeOK, Open
    <3>3. ~(OpenJournal \/ Decline \/ CommitJournal \/ CloseRollback)
      BY <1>3, <3>2 DEF OpenJournal, Decline, CommitJournal, CloseRollback
    <3>4. ~(SaveState \/ StepFails \/ IOFails \/ UndoState)
      BY <1>3, <3>2 DEF SaveState, StepFails, IOFails, UndoState, StartRollback, TxType
    <3>5. ~(\E p \in Paths : RemoveFile(p) \/ WriteFile(p) \/ UndoFile(p))
      BY <1>3, <3>2 DEF RemoveFile, WriteFile, UndoFile, TxType
    <3>6. ~Environment /\ ~UNCHANGED vars
      BY <1>3, <3>2 DEF Environment, UserEdit, RepairState, ChangeRelease, vars
    <3> QED BY <1>3, <3>1, <3>3, <3>4, <3>5, <3>6 DEF Next, Command
  <2>2. release' = release /\ (CutShort \/ (tx.phase = "undoFiles" /\ UNCHANGED <<disk, stateFile>>))
    BY <2>1 DEF UndoFails, Crash
  <2> QED BY <1>3, <2>0, <2>2, EndShows
<1>4. IInv /\ PlanIsCurrent /\ [Next]_vars =>
        [Open /\ tx'.phase = "idle" /\ journal' \in {"pending", "rollback_failed"} => shows]_vars
  BY <1>3
<1> QED BY <1>1, <1>2, <1>4, Invariance, PTL DEF Spec, InterruptionShows

-----------------------------------------------------------------------------
(***************************************************************************)
(* Files that change while the prompt waits.  The plan no longer fits the  *)
(* files the journal finds, so the inductive invariant above fails; what a *)
(* command does to the files and the state file it found still holds.      *)
(***************************************************************************)

Follows(p) ==
  /\ p \notin Touched => disk[p] = tx.start[p]
  /\ tx.op[p] = "remove" /\ tx.start[p] = Absent => disk[p] = Absent
  /\ tx.phase = "undoFiles" /\ p \in Touched \ tx.todo =>
       disk[p] = IF tx.op[p] = "create" THEN Absent ELSE tx.start[p]

PromptInv ==
  /\ TypeOK
  /\ tx.phase \in {"apply", "undoFiles"} => stateFile = tx.startState
  /\ tx.phase = "commit" => tx.todo = {} /\ DigestsReadable /\ stateFile = NextState(tx)
  /\ tx.phase = "undoState" => tx.todo = Touched
  /\ Open => \A p \in Paths : Follows(p)

\* A step inside a transaction that changes no file keeps what it did to them, but for
\* what is undone, which starts with nothing.
LEMMA FollowsOn ==
  ASSUME PromptInv, Open, SameTransaction, disk' = disk,
         tx'.phase = "undoFiles" => tx'.todo = Touched
  PROVE  Touched' = Touched /\ \A p \in Paths : Follows(p)'
<1>1. Touched' = Touched
  BY DEF SameTransaction, Touched, InPlan
<1> QED BY <1>1 DEF PromptInv, Follows, SameTransaction

\* So does a step cut short, which leaves a torn file.
LEMMA FollowsTorn ==
  ASSUME PromptInv, Open, SameTransaction, tx.phase # "undoFiles", tx'.phase # "undoFiles",
         CutShort
  PROVE  Touched' = Touched /\ \A p \in Paths : Follows(p)'
<1>1. Touched' = Touched
  BY DEF SameTransaction, Touched, InPlan
<1>2. disk \in [Paths -> Content] /\ tx \in TxType
  BY DEF PromptInv, TypeOK
<1>3. ASSUME NEW p \in Paths PROVE Follows(p)'
  <2>1. disk'[p] = disk[p] \/ (disk'[p] = Torn /\ tx.op[p] \in {"create", "replace"})
    BY <1>2 DEF CutShort, BeingWritten
  <2>2. disk'[p] # disk[p] => p \in Touched /\ tx.op[p] # "remove"
    BY <1>3, <2>1 DEF Touched, InPlan
  <2>3. Follows(p)
    BY <1>3 DEF PromptInv
  <2> QED BY <1>1, <2>1, <2>2, <2>3 DEF Follows, SameTransaction
<1> QED BY <1>1, <1>3

LEMMA PromptStep ==
  ASSUME EditPhases \subseteq {"idle", "confirm"}
  PROVE  PromptInv /\ [Next]_vars => PromptInv'
<1> SUFFICES ASSUME PromptInv, [Next]_vars PROVE PromptInv'
  OBVIOUS
<1>0. TypeOK /\ TypeOK' /\ tx \in TxType /\ disk \in [Paths -> Content]
  BY TypeStep DEF PromptInv, TypeOK
<1>1. CASE tx'.phase \in {"idle", "confirm"}
  BY <1>0, <1>1 DEF PromptInv, Open
<1>2. CASE OpenJournal
  <2>1. /\ tx'.phase = "apply" /\ tx'.start = disk /\ tx'.startState = stateFile
        /\ tx'.op = tx.op /\ disk' = disk /\ stateFile' = stateFile
    BY <1>0, <1>2 DEF OpenJournal, TxType
  <2>2. \A p \in Paths : Follows(p)'
    BY <2>1 DEF Follows
  <2> QED BY <1>0, <2>1, <2>2 DEF PromptInv
<1>3. ASSUME NEW p \in Paths, RemoveFile(p) PROVE PromptInv'
  <2>1. /\ SameTransaction /\ tx.phase = "apply" /\ tx'.phase = "apply" /\ stateFile' = stateFile
        /\ disk' = [disk EXCEPT ![p] = Absent] /\ tx.op[p] = "remove"
    BY <1>0, <1>3 DEF RemoveFile, TxType, SameTransaction
  <2>2. Touched' = Touched /\ p \in Touched /\ Open
    BY <2>1 DEF SameTransaction, Touched, InPlan, Open
  <2>3. \A q \in Paths : Follows(q)'
    BY <1>0, <2>1, <2>2 DEF PromptInv, Follows, SameTransaction
  <2> QED BY <1>0, <2>1, <2>3 DEF PromptInv, SameTransaction
<1>4. ASSUME NEW p \in Paths, WriteFile(p) PROVE PromptInv'
  <2>1. /\ SameTransaction /\ tx.phase = "apply" /\ tx'.phase = "apply" /\ stateFile' = stateFile
        /\ disk' = [disk EXCEPT ![p] = tx.compiled[p]] /\ tx.op[p] \in {"create", "replace"}
    BY <1>0, <1>4 DEF WriteFile, TxType, SameTransaction
  <2>2. Touched' = Touched /\ p \in Touched /\ Open
    BY <2>1 DEF SameTransaction, Touched, InPlan, Open
  <2>3. \A q \in Paths : Follows(q)'
    BY <1>0, <2>1, <2>2 DEF PromptInv, Follows, SameTransaction
  <2> QED BY <1>0, <2>1, <2>3 DEF PromptInv, SameTransaction
<1>5. CASE SaveState
  <2>1. /\ SameTransaction /\ Open /\ tx'.phase = "commit" /\ tx'.todo = {}
        /\ disk' = disk /\ stateFile' = NextState(tx) /\ DigestsReadable
    BY <1>0, <1>5 DEF SaveState, TxType, SameTransaction, Open
  <2>2. \A p \in Paths : Follows(p)'
    BY <2>1, FollowsOn
  <2> QED BY <1>0, <2>1, <2>2, SameNextState DEF PromptInv
<1>6. CASE StepFails
  <2>1. /\ SameTransaction /\ Open /\ tx'.phase = "undoState" /\ tx'.todo = Touched /\ disk' = disk
    BY <1>0, <1>6 DEF StepFails, StartRollback, TxType, SameTransaction, Open, Touched
  <2>2. Touched' = Touched /\ \A p \in Paths : Follows(p)'
    BY <2>1, FollowsOn
  <2> QED BY <1>0, <2>1, <2>2 DEF PromptInv
<1>7. CASE IOFails
  <2>1. /\ SameTransaction /\ Open /\ tx.phase # "undoFiles" /\ tx'.phase = "undoState"
        /\ tx'.todo = Touched /\ CutShort
    BY <1>0, <1>7 DEF IOFails, StartRollback, TxType, SameTransaction, Open, Touched
  <2>2. Touched' = Touched /\ \A p \in Paths : Follows(p)'
    BY <2>1, FollowsTorn
  <2> QED BY <1>0, <2>1, <2>2 DEF PromptInv
<1>8. CASE UndoState
  <2>1. /\ SameTransaction /\ Open /\ tx'.phase = "undoFiles" /\ tx'.todo = tx.todo
        /\ tx.phase = "undoState" /\ disk' = disk /\ stateFile' = tx.startState
    BY <1>0, <1>8 DEF UndoState, TxType, SameTransaction, Open
  <2>2. tx'.todo = Touched
    BY <2>1 DEF PromptInv
  <2>3. \A p \in Paths : Follows(p)'
    BY <2>1, <2>2, FollowsOn
  <2> QED BY <1>0, <2>1, <2>3 DEF PromptInv, SameTransaction
<1>9. ASSUME NEW p \in Paths, UndoFile(p) PROVE PromptInv'
  <2>1. /\ SameTransaction /\ tx.phase = "undoFiles" /\ tx'.phase = "undoFiles"
        /\ tx'.todo = tx.todo \ {p} /\ stateFile' = stateFile
    BY <1>0, <1>9 DEF UndoFile, TxType, SameTransaction
  <2>2. Touched' = Touched /\ Open
    BY <2>1 DEF SameTransaction, Touched, InPlan, Open
  <2>3. /\ \A q \in Paths \ {p} : disk'[q] = disk[q]
        /\ disk'[p] = CASE tx.op[p] = "create" -> Absent
                        [] tx.op[p] = "remove" /\ tx.start[p] = Absent -> disk[p]
                        [] OTHER -> tx.start[p]
    BY <1>0, <1>9 DEF UndoFile
  <2>4. \A q \in Paths : Follows(q)
    BY <2>2 DEF PromptInv
  <2>5. disk'[p] = IF tx.op[p] = "create" THEN Absent ELSE tx.start[p]
    BY <2>3, <2>4 DEF Follows
  <2>6. Follows(p)'
    BY <2>1, <2>2, <2>5 DEF Follows, SameTransaction, Touched, InPlan
  <2>7. ASSUME NEW q \in Paths \ {p} PROVE Follows(q)'
    <3>1. Follows(q) /\ disk'[q] = disk[q]
      BY <2>3, <2>4
    <3> QED BY <2>1, <2>2, <3>1 DEF Follows, SameTransaction
  <2> QED BY <1>0, <2>1, <2>6, <2>7 DEF PromptInv, SameTransaction
<1>10. CASE CommitJournal \/ CloseRollback \/ UndoFails \/ Crash \/ Decline
  <2>1. tx'.phase = "idle"
    BY <1>10 DEF CommitJournal, CloseRollback, UndoFails, Crash, Decline, Idle
  <2> QED BY <1>1, <2>1
<1>11. ASSUME NEW S \in SUBSET Packs, PlanInstall(S) \/ PlanUpdate(S) \/ PlanUninstall(S)
       PROVE  PromptInv'
  <2>1. tx'.phase = "confirm"
    BY <1>11 DEF PlanInstall, PlanUpdate, PlanUninstall, Plan, Idle
  <2> QED BY <1>1, <2>1
<1>12. CASE Environment
  <2>1. tx' = tx /\ tx.phase \in {"idle", "confirm"}
    BY <1>12 DEF Environment, UserEdit, RepairState, ChangeRelease
  <2> QED BY <1>1, <2>1
<1>13. CASE UNCHANGED vars
  BY <1>0, <1>13 DEF vars, PromptInv, Open, Follows, Touched, InPlan, NextState, WrittenReceipt,
                     DetachedReceipt, DigestsReadable
<1> QED
  BY <1>2, <1>3, <1>4, <1>5, <1>6, <1>7, <1>8, <1>9, <1>10, <1>11, <1>12, <1>13
     DEF Next, Command

LEMMA PromptInvariance ==
  ASSUME EditPhases \subseteq {"idle", "confirm"}
  PROVE  Spec => []PromptInv
<1>1. Init => PromptInv
  <2> SUFFICES ASSUME Init PROVE PromptInv
    OBVIOUS
  <2>1. TypeOK
    BY IdleType, BoundAssumption DEF Init, TypeOK, Content, Readable, JournalStatus
  <2> QED BY <2>1 DEF Init, Idle, PromptInv, Open
<1>2. PromptInv /\ [Next]_vars => PromptInv'
  BY PromptStep
<1> QED BY <1>1, <1>2, PTL DEF Spec

\* Even when files change while the prompt waits, a rollback that reports success has
\* restored the install state and every file the journal found, but for one that took
\* the place of a planned creation.
THEOREM RollbackKeepsBackups ==
  ASSUME EditPhases \subseteq {"idle", "confirm"}
  PROVE  Spec => RollbackRestoresBackups
<1> DEFINE restored == /\ stateFile' = tx.startState
                       /\ \A p \in Paths : tx.op[p] # "create" \/ tx.start[p] = Absent
                                           => disk'[p] = tx.start[p]
<1>1. ASSUME PromptInv, [Next]_vars, journal = "pending", journal' = "rolled_back" PROVE restored
  <2>1. /\ tx.phase = "undoFiles" /\ tx.todo = {} /\ disk' = disk /\ stateFile' = stateFile
    BY <1>1, WhoCloses DEF CloseRollback
  <2>2. stateFile = tx.startState /\ \A p \in Paths : Follows(p)
    BY <1>1, <2>1 DEF PromptInv, Open
  <2> QED BY <2>1, <2>2 DEF Follows
<1>2. PromptInv /\ [Next]_vars => [journal = "pending" /\ journal' = "rolled_back" => restored]_vars
  BY <1>1
<1> QED BY <1>2, PromptInvariance, PTL DEF Spec, RollbackRestoresBackups

\* The receipt of a committed install or update tells what is on disk, even when files
\* change while the prompt waits.
THEOREM CommittedReceipt ==
  ASSUME EditPhases \subseteq {"idle", "confirm"}
  PROVE  Spec => CommittedReceiptIsTrue
<1> DEFINE told == \A p \in Paths : PackOf[p] \in tx.sel =>
                     LET f == LoadedState'.files[p] IN
                     IF tx.compiled[p] = Absent THEN f = Untracked
                                                ELSE f # Untracked /\ f.digest = disk'[p]
<1>1. ASSUME PromptInv, CommitJournal, tx.action # "uninstall" PROVE told
  <2>1. stateFile = WrittenReceipt(tx) /\ stateFile' = stateFile /\ disk' = disk /\ DigestsReadable
    BY <1>1 DEF CommitJournal, PromptInv, NextState
  <2>2. /\ WrittenReceipt(tx) \in Receipt
        /\ \A p \in Paths : PackOf[p] \in tx.sel /\ tx.compiled[p] # Absent
             => WrittenReceipt(tx).files[p] \in FileReceipt
    BY <1>1, <2>1, WrittenReceiptType DEF PromptInv
  <2>3. LoadedState' = WrittenReceipt(tx)
    BY <2>1, <2>2, ReceiptAssumption DEF LoadedState
  <2>4. ASSUME NEW p \in Paths, PackOf[p] \in tx.sel, tx.compiled[p] # Absent
        PROVE  WrittenReceipt(tx).files[p] # Untracked
    BY <2>2, <2>4, EntryIsTracked
  <2> QED BY <2>1, <2>3, <2>4 DEF WrittenReceipt
<1>2. PromptInv /\ [Next]_vars =>
        [journal = "pending" /\ journal' = "committed" /\ tx.action # "uninstall" => told]_vars
  BY <1>1, WhoCloses
<1> QED BY <1>2, PromptInvariance, PTL DEF Spec, CommittedReceiptIsTrue
=============================================================================
