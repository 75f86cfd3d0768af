--------------------------- MODULE AuthorityStore ---------------------------
(***************************************************************************)
(* What the memory of a project promises, with a write in one step: a      *)
(* record is taken in only where nothing that is held makes the same       *)
(* claim, and it may take the place of records of its own file alone; no   *)
(* record is ever lost to anything else but a failure, and a record is     *)
(* acknowledged only while it is held.                                     *)
(*                                                                         *)
(* MemoryWrite implements it as long as no two sessions apply at the same  *)
(* moment (ImplementsAuthority there).                                     *)
(***************************************************************************)
EXTENDS Naturals

CONSTANTS Requests, Files,
          Claim   \* Claim[r]: what the record r speaks about

VARIABLES held,         \* the records held in each file
          acknowledged, \* the records whose write was reported as a success
          failures      \* failures so far

vars == <<held, acknowledged, failures>>

\* Nothing that is held makes the claim of r.
Free(r) == \A f \in Files : \A q \in held[f] : Claim[q] # Claim[r]

\* Only file f changes, to some of its records and to r.
Lays(f, r) ==
  /\ held'[f] \subseteq held[f] \cup {r}
  /\ held' = [held EXCEPT ![f] = held'[f]]

Enter(f, r) ==
  /\ UNCHANGED <<failures, acknowledged>>
  /\ r \in held'[f] /\ Free(r) /\ Lays(f, r)

Acknowledge(f, r) ==
  /\ UNCHANGED <<failures, held>>
  /\ r \in held[f] /\ acknowledged' = acknowledged \cup {r}

\* What is left of a file where the write of r is cut short.
Fail(f, r) ==
  /\ failures' = failures + 1 /\ UNCHANGED acknowledged
  /\ r \in held'[f] => Free(r) \/ r \in held[f]
  /\ Lays(f, r)

Init ==
  /\ held = [f \in Files |-> {}]
  /\ acknowledged = {} /\ failures = 0

Next == \E f \in Files, r \in Requests : Enter(f, r) \/ Acknowledge(f, r) \/ Fail(f, r)

Spec == Init /\ [][Next]_vars
=============================================================================
