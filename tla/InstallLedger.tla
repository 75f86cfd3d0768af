--------------------------- MODULE InstallLedger ---------------------------
(***************************************************************************)
(* What the installer promises, with every command in one step: the ledger *)
(* (the receipt in .pairslash/install-state) and the files move together,  *)
(* a file is touched only on the strength of the ledger, and a command     *)
(* that fails leaves no trace.  A crash, or a rollback that fails, is the  *)
(* one step that may leave some of the files of a command changed, and     *)
(* then the ledger is the old one or unreadable.                           *)
(*                                                                         *)
(* Installer implements it as long as the user changes files only between  *)
(* two commands (ImplementsLedger there).                                  *)
(***************************************************************************)
EXTENDS Naturals

CONSTANTS Paths, Packs, PackOf, PackContent,
          Absent, Opaque, Torn, Untracked, Missing, Corrupt

VARIABLES files,  \* what is at each path, between two commands
          ledger, \* the receipt, Missing or Corrupt
          edits   \* the user's edits so far

NoEntries == [packs |-> {}, files |-> [p \in Paths |-> Untracked]]
Entries == IF ledger = Missing THEN NoEntries ELSE ledger

\* The ledger calls the file PairSlash's, unchanged since it was recorded.
Vouched(p) == Entries.files[p] = [owned |-> TRUE, digest |-> files[p]]

Owned(e) == e # Untracked /\ e.owned

\* Only missing files and vouched-for files of the packs in S change, and they
\* change to something in C.
Moves(S, C) ==
  \A p \in Paths : files'[p] # files[p] =>
     /\ PackOf[p] \in S
     /\ files[p] = Absent \/ Vouched(p)
     /\ files'[p] \in C

\* install, update: the new entries tell the content of the new files, and a
\* file becomes PairSlash's only by being written.
Refresh(S) ==
  /\ ledger # Corrupt
  /\ Moves(S, PackContent \cup {Absent})
  /\ ledger' \notin {Missing, Corrupt}
  /\ ledger'.packs = Entries.packs \cup S
  /\ \A p \in Paths :
       LET e == ledger'.files[p] IN
       IF PackOf[p] \notin S THEN e = Entries.files[p]
       ELSE e # Untracked =>
              /\ e.digest = files'[p]
              /\ e.owned => files'[p] # files[p] \/ Owned(Entries.files[p])

\* uninstall: every vouched-for file of S goes, no other file does.
Detach(S) ==
  /\ ledger # Corrupt
  /\ S # {} /\ S \subseteq Entries.packs
  /\ files' = [p \in Paths |-> IF PackOf[p] \in S /\ Vouched(p) THEN Absent ELSE files[p]]
  /\ ledger' =
       IF Entries.packs = S THEN Missing
       ELSE [packs |-> Entries.packs \ S,
             files |-> [p \in Paths |-> IF PackOf[p] \in S THEN Untracked
                                                           ELSE Entries.files[p]]]

\* A crash in the middle, or a rollback that fails.
Interrupted(S) ==
  /\ ledger # Corrupt
  /\ Moves(S, PackContent \cup {Absent, Torn})
  /\ ledger' \in {ledger, Corrupt}

UserEdit ==
  /\ \E p \in Paths : \A q \in Paths \ {p} : files'[q] = files[q]
  /\ edits' = edits + 1
  /\ UNCHANGED ledger

DropCorruptLedger ==
  /\ ledger = Corrupt /\ ledger' = Missing
  /\ UNCHANGED files

Init == ledger = Missing /\ edits = 0

Command ==
  /\ \/ \E S \in SUBSET Packs : Refresh(S) \/ Detach(S) \/ Interrupted(S)
     \/ DropCorruptLedger
  /\ UNCHANGED edits

Next == Command \/ UserEdit

Spec == Init /\ [][Next]_<<files, ledger, edits>>
=============================================================================
