---------------------------- MODULE MemoryProofs ----------------------------
(***************************************************************************)
(* Proofs about project memory: what MemoryWrite writes, for every set of  *)
(* sessions and requests, every naming of files and every number of        *)
(* faults, and what reads it, the two reports of MemoryReaders and the     *)
(* index of RetrievalIndex.                                                *)
(***************************************************************************)
EXTENDS RetrievalIndex, SequenceTheorems, WellFoundedInduction, TLAPS

-----------------------------------------------------------------------------
(***************************************************************************)
(* What the theorem modules do not state.                                  *)
(***************************************************************************)

\* A set of natural numbers has a least element.
LEMMA LeastNumber ==
  ASSUME NEW S \in SUBSET Nat, S # {}
  PROVE  \E n \in S : \A m \in S : n <= m
<1>1. PICK n \in S : \A m \in S : ~(<<m, n>> \in OpToRel(<, Nat))
  BY WFMin, NatLessThanWellFounded, Zenon
<1>2. ASSUME NEW m \in S PROVE n <= m
  <2>1. ~(m < n)
    BY <1>1, <1>2, Zenon DEF OpToRel
  <2> QED BY <2>1
<1> QED BY <1>2

-----------------------------------------------------------------------------
(***************************************************************************)
(* The files a request is written to and what is written there.            *)
(***************************************************************************)

LEMMA RouteType == \A r \in Requests : RouteTargetFile(r) \in Files /\ Id(r) \in Ids
BY DEF Files, Ids

\* A supersede that has a target finds a file.
LEMMA FileOfTargetType ==
  ASSUME NEW r \in Requests, SupersedeTargets(r) # {}
  PROVE  FileOfTarget(r) \in Files
<1> DEFINE hit(i) == \E q \in Records(FileOrder[i]) : Supersedes(r, q)
           hits == {i \in 1 .. Len(FileOrder) : hit(i)}
           first == CHOOSE i \in 1 .. Len(FileOrder) :
                      hit(i) /\ \A j \in 1 .. i - 1 : ~hit(j)
<1>1. FileOrder \in Seq(Files) /\ Len(FileOrder) \in Nat
  BY FileAssumption, LenProperties
<1>2. hits # {}
  <2>1. PICK q \in Live : Supersedes(r, q)
    BY DEF SupersedeTargets
  <2>2. PICK f \in Files : q \in Records(f)
    BY <2>1 DEF Live
  <2>3. PICK i \in 1 .. Len(FileOrder) : FileOrder[i] = f
    BY <2>2, FileAssumption
  <2> QED BY <2>1, <2>2, <2>3
<1>3. \E i \in 1 .. Len(FileOrder) : hit(i) /\ \A j \in 1 .. i - 1 : ~hit(j)
  <2>1. hits \in SUBSET Nat
    BY <1>1
  <2>2. PICK i \in hits : \A j \in hits : i <= j
    BY <1>2, <2>1, LeastNumber
  <2>3. ASSUME NEW j \in 1 .. i - 1 PROVE ~hit(j)
    <3>1. i \in 1 .. Len(FileOrder) /\ j \in 1 .. Len(FileOrder) /\ ~(i <= j)
      BY <1>1, <2>2, <2>3
    <3>2. j \notin hits
      BY <2>2, <3>1
    <3> QED BY <3>1, <3>2
  <2> QED BY <2>2, <2>3
<1>4. first \in 1 .. Len(FileOrder)
  <2> HIDE DEF hit
  <2> QED BY <1>3
<1>5. FileOfTarget(r) = FileOrder[first]
  BY DEF FileOfTarget
<1> HIDE DEF first
<1> QED BY <1>1, <1>4, <1>5, ElementOfSeq

LEMMA TargetFileType ==
  ASSUME NEW r \in Requests
  PROVE  [file |-> TargetFile(r), ready |-> ReadyForApply(r)] \in Artifact
<1>1. TargetFile(r) \in Files
  BY RouteType, FileOfTargetType DEF TargetFile
<1>2. ReadyForApply(r) \in BOOLEAN
  BY DEF ReadyForApply
<1> QED BY <1>1, <1>2 DEF Artifact

\* The text that is written holds the record of the request once, and each other
\* record of it was where it is before.
LEMMA WrittenShape ==
  ASSUME TypeOK, NEW r \in Requests, NEW f \in Files, ~NothingToSupersede(r, f)
  PROVE  /\ Written(r, f) \in Seq(Requests)
         /\ \E k \in DOMAIN Written(r, f) :
              /\ Written(r, f)[k] = r
              /\ \A i \in DOMAIN Written(r, f) \ {k} :
                   i \in DOMAIN store[f] /\ Written(r, f)[i] = store[f][i]
<1>1. store[f] \in Seq(Requests) /\ DOMAIN store[f] = 1 .. Len(store[f]) /\ Len(store[f]) \in Nat
  BY LenProperties DEF TypeOK
<1>2. CASE r.kind \in DirectoryKinds
  <2>1. Written(r, f) = <<r>>
    BY <1>2 DEF Written
  <2>2. <<r>> \in Seq(Requests) /\ DOMAIN <<r>> = {1} /\ <<r>>[1] = r
    OBVIOUS
  <2> QED BY <2>1, <2>2
<1>3. CASE r.kind \notin DirectoryKinds /\ r.action = "supersede"
  <2> DEFINE first == CHOOSE i \in Matches(r, f) : \A j \in Matches(r, f) : i <= j
  <2>1. Matches(r, f) \in SUBSET Nat /\ Matches(r, f) # {}
    BY <1>1, <1>3 DEF Matches, NothingToSupersede
  <2>2. first \in Matches(r, f)
    BY <2>1, LeastNumber
  <2>3. first \in 1 .. Len(store[f])
    BY <1>1, <2>2 DEF Matches
  <2>4. Written(r, f) = [store[f] EXCEPT ![first] = r]
    BY <1>3 DEF Written
  <2> HIDE DEF first
  <2>5. /\ [store[f] EXCEPT ![first] = r] \in Seq(Requests)
        /\ DOMAIN [store[f] EXCEPT ![first] = r] = DOMAIN store[f]
    BY <1>1, <2>3, ExceptSeq
  <2> QED BY <1>1, <2>3, <2>4, <2>5
<1>4. CASE r.kind \notin DirectoryKinds /\ r.action # "supersede"
  <2>1. Written(r, f) = Append(store[f], r)
    BY <1>4 DEF Written
  <2>2. /\ Append(store[f], r) \in Seq(Requests)
        /\ DOMAIN Append(store[f], r) = 1 .. Len(store[f]) + 1
        /\ Append(store[f], r)[Len(store[f]) + 1] = r
        /\ \A i \in 1 .. Len(store[f]) : Append(store[f], r)[i] = store[f][i]
    BY <1>1, AppendProperties
  <2> QED BY <1>1, <2>1, <2>2
<1> QED BY <1>2, <1>3, <1>4

\* What is left of a text that was cut short.
LEMMA PrefixShape ==
  ASSUME NEW w \in Seq(Requests), NEW n \in 0 .. Len(w) - 1
  PROVE  /\ SubSeq(w, 1, n) \in Seq(Requests)
         /\ DOMAIN SubSeq(w, 1, n) \subseteq DOMAIN w
         /\ \A i \in DOMAIN SubSeq(w, 1, n) : SubSeq(w, 1, n)[i] = w[i]
<1>1. Len(w) \in Nat /\ DOMAIN w = 1 .. Len(w)
  BY LenProperties
<1>2. n \in Int /\ n <= Len(w) /\ \A i \in 1 .. n : w[i] \in Requests
  BY <1>1, ElementOfSeq
<1>3. SubSeq(w, 1, n) \in Seq(Requests) /\ Len(SubSeq(w, 1, n)) = IF 1 <= n THEN n - 1 + 1 ELSE 0
  BY <1>2, SubSeqProperties
<1>4. DOMAIN SubSeq(w, 1, n) = 1 .. n
  BY <1>1, <1>2, <1>3, LenProperties
<1>5. \A i \in 1 .. n : SubSeq(w, 1, n)[i] = w[i]
  BY <1>1, <1>2
<1> QED BY <1>1, <1>2, <1>3, <1>4, <1>5

\* The index stays one.
LEMMA IndexWithType ==
  ASSUME TypeOK, index \notin NoTable, NEW r \in Requests, NEW f \in Files
  PROVE  /\ IndexWith(r, f) \in [Ids -> IndexEntry \cup {None}]
         /\ IndexWith(r, f)[Id(r)] = [file |-> f, status |-> "active"]
<1>1. index \in [Ids -> IndexEntry \cup {None}]
  BY DEF TypeOK
<1>2. [file |-> f, status |-> "active"] \in IndexEntry
  BY DEF IndexEntry
<1>3. ASSUME NEW i \in Ids, index[i] # None
      PROVE  [index[i] EXCEPT !.status = "superseded"] \in IndexEntry
  <2>1. index[i] \in IndexEntry
    BY <1>1, <1>3
  <2> QED BY <2>1 DEF IndexEntry
<1>4. IndexWith(r, f) \in [Ids -> IndexEntry \cup {None}]
  BY <1>1, <1>2, <1>3 DEF IndexWith
<1>5. IndexWith(r, f)[Id(r)] = [file |-> f, status |-> "active"]
  BY RouteType DEF IndexWith
<1> QED BY <1>4, <1>5

-----------------------------------------------------------------------------
(***************************************************************************)
(* What the parts of a step do.                                            *)
(***************************************************************************)

\* A session that waits for an answer or applies has a request and a file.
LEMMA SessionIsBusy ==
  ASSUME TypeOK, NEW s \in Sessions, sess[s].phase # "idle"
  PROVE  /\ sess[s] \in [phase : {"confirm"} \cup Applying, req : Requests, file : Files]
         /\ sess[s].req \in Requests /\ sess[s].file \in Files
BY DEF TypeOK, SessionType, Waiting

\* A session sets its own state alone.
LEMMA SetsSession ==
  ASSUME TypeOK, NEW s \in Sessions, NEW v \in SessionType, sess' = [sess EXCEPT ![s] = v]
  PROVE  /\ sess' \in [Sessions -> SessionType]
         /\ sess'[s] = v
         /\ \A t \in Sessions \ {s} : sess'[t] = sess[t]
BY DEF TypeOK

LEMMA WaitingType == Waiting \in SessionType /\ Waiting.phase = "idle"
BY DEF SessionType, Waiting

LEMMA GoesOn ==
  ASSUME TypeOK, NEW s \in Sessions, sess[s].phase \in Applying, NEW p \in Applying, Goto(s, p)
  PROVE  /\ sess' \in [Sessions -> SessionType]
         /\ sess'[s].phase = p /\ sess'[s].req = sess[s].req /\ sess'[s].file = sess[s].file
         /\ \A t \in Sessions \ {s} : sess'[t] = sess[t]
<1>1. sess[s] \in [phase : {"confirm"} \cup Applying, req : Requests, file : Files]
  BY SessionIsBusy DEF Applying
<1>2. sess' = [sess EXCEPT ![s] = [sess[s] EXCEPT !.phase = p]]
  BY DEF Goto
<1>3. [sess[s] EXCEPT !.phase = p] \in SessionType
  BY <1>1 DEF SessionType
<1> QED BY <1>1, <1>2, <1>3, SetsSession

LEMMA Logs ==
  ASSUME TypeOK, NEW r \in Requests, NEW result \in Results, Log(r, result)
  PROVE  /\ audit' \in [success : SUBSET Requests, last : Results \cup {"none"}]
         /\ audit.success \subseteq audit'.success
         /\ result = "success" => r \in audit'.success /\ audit'.last = "success"
BY DEF TypeOK, Log

LEMMA RefusalType == \A r : Refusal(r) \in Results
BY DEF Refusal, Results

\* The record r is laid into a file at one place, and every other record of the
\* new text is where it was.
Lays(w, r, f) ==
  /\ w \in Seq(Requests)
  /\ \E k : \A i \in DOMAIN w :
       \/ i = k /\ w[i] = r
       \/ i # k /\ i \in DOMAIN store[f] /\ w[i] = store[f][i]

\* All that a step of session s may do to project memory.
Stores(s) ==
  \/ UNCHANGED store
  \/ /\ sess[s].phase = "write"
     /\ \E w : /\ Lays(w, sess[s].req, sess[s].file)
               /\ store' = [store EXCEPT ![sess[s].file] = w]

LEMMA WrittenLays ==
  ASSUME TypeOK, NEW r \in Requests, NEW f \in Files, ~NothingToSupersede(r, f)
  PROVE  /\ Lays(Written(r, f), r, f)
         /\ \A n \in 0 .. Len(Written(r, f)) - 1 : Lays(SubSeq(Written(r, f), 1, n), r, f)
<1> DEFINE W == Written(r, f)
<1>1. PICK k \in DOMAIN W : /\ W[k] = r
                            /\ \A i \in DOMAIN W \ {k} : i \in DOMAIN store[f] /\ W[i] = store[f][i]
  BY WrittenShape
<1>2. W \in Seq(Requests)
  BY WrittenShape
<1> HIDE DEF W
<1>3. Lays(W, r, f)
  BY <1>1, <1>2 DEF Lays
<1>4. ASSUME NEW n \in 0 .. Len(W) - 1 PROVE Lays(SubSeq(W, 1, n), r, f)
  <2> DEFINE w == SubSeq(W, 1, n)
  <2>1. w \in Seq(Requests) /\ DOMAIN w \subseteq DOMAIN W /\ \A i \in DOMAIN w : w[i] = W[i]
    BY <1>2, PrefixShape
  <2> HIDE DEF w
  <2>2. Lays(w, r, f)
    BY <1>1, <2>1 DEF Lays
  <2> QED BY <2>2 DEF w
<1> QED BY <1>3, <1>4 DEF W

LEMMA StoresType ==
  ASSUME TypeOK, NEW s \in Sessions, Stores(s)
  PROVE  store' \in [Files -> Seq(Requests)]
<1>1. store \in [Files -> Seq(Requests)]
  BY DEF TypeOK
<1> QED BY <1>1, SessionIsBusy DEF Stores, Lays

\* A step cut short writes a part of what it was about to write.
LEMMA CutsShort ==
  ASSUME TypeOK, NEW s \in Sessions, sess[s].phase \in Applying, CutShort(s)
  PROVE  /\ Stores(s)
         /\ index' \in NoTable \/ index' \in [Ids -> IndexEntry \cup {None}]
         /\ UNCHANGED index \/ sess[s].phase = "index"
         /\ faults' \in 0 .. MaxFaults /\ faults' # 0
<1> DEFINE r == sess[s].req
           f == sess[s].file
<1>1. r \in Requests /\ f \in Files
  BY SessionIsBusy DEF Applying
<1>2. faults' \in 0 .. MaxFaults /\ faults' # 0
  BY BoundAssumption DEF CutShort, TypeOK
<1>3. CASE UNCHANGED <<store, index>>
  BY <1>2, <1>3 DEF Stores, TypeOK
<1>4. CASE /\ sess[s].phase = "write" /\ ~NothingToSupersede(r, f)
           /\ \E n \in 0 .. Len(Written(r, f)) - 1 :
                store' = [store EXCEPT ![f] = SubSeq(Written(r, f), 1, n)]
           /\ UNCHANGED index
  BY <1>1, <1>2, <1>4, WrittenLays DEF Stores, TypeOK
<1>5. CASE /\ sess[s].phase = "index" /\ index \notin NoTable
           /\ \/ index' \in NoTable
              \/ \E kept \in SUBSET Ids :
                   index' = [i \in Ids |-> IF i \in kept THEN IndexWith(r, f)[i] ELSE None]
           /\ UNCHANGED store
  <2>1. IndexWith(r, f) \in [Ids -> IndexEntry \cup {None}]
    BY <1>1, <1>5, IndexWithType
  <2> HIDE DEF r, f
  <2>2. index' \in NoTable \/ index' \in [Ids -> IndexEntry \cup {None}]
    BY <1>5, <2>1
  <2> QED BY <1>2, <1>5, <2>2 DEF Stores
<1> QED BY <1>3, <1>4, <1>5 DEF CutShort

-----------------------------------------------------------------------------
(***************************************************************************)
(* Types.                                                                  *)
(***************************************************************************)

\* An artifact that was shown stays staged: it may become another one, or
\* unreadable, but it is never removed.
StaysStaged ==
  \A s \in Sessions : sess[s].phase = "confirm" => staging[sess[s].req] # None

Typing == TypeOK /\ StaysStaged

LEMMA TypingInit == Init => Typing
<1> SUFFICES ASSUME Init PROVE Typing
  OBVIOUS
<1>1. store \in [Files -> Seq(Requests)]
  BY EmptySeq DEF Init
<1>2. sess \in [Sessions -> SessionType] /\ \A s \in Sessions : sess[s].phase = "idle"
  BY WaitingType DEF Init
<1>3. faults \in 0 .. MaxFaults
  BY BoundAssumption DEF Init
<1>4. TypeOK
  BY <1>1, <1>2, <1>3 DEF Init, TypeOK
<1> QED BY <1>2, <1>4 DEF Typing, StaysStaged

LEMMA TypingStep == Typing /\ [Next]_vars => Typing'
<1> SUFFICES ASSUME Typing, [Next]_vars PROVE Typing'
  OBVIOUS
<1> USE DEF Typing
<1>1. ASSUME NEW s \in Sessions, NEW r \in Requests, PreviewMemoryWrite(s, r) PROVE Typing'
  <2>1. /\ staging' \in [Requests -> Artifact \cup {None, Unreadable}]
        /\ \A q \in Requests : staging[q] # None => staging'[q] # None
    BY <1>1, TargetFileType, SentinelAssumption DEF PreviewMemoryWrite, TypeOK
  <2>2. TypeOK'
    BY <1>1, <2>1 DEF PreviewMemoryWrite, TypeOK
  <2>3. StaysStaged'
    BY <1>1, <2>1, SessionIsBusy DEF PreviewMemoryWrite, StaysStaged
  <2> QED BY <2>2, <2>3
<1>2. ASSUME NEW s \in Sessions, NEW r \in Requests, ShowStaged(s, r) PROVE Typing'
  <2> DEFINE v == [phase |-> "confirm", req |-> r, file |-> staging[r].file]
  <2>1. staging[r] \in Artifact
    BY <1>2 DEF ShowStaged, TypeOK
  <2>2. v \in SessionType
    BY <2>1 DEF SessionType, Artifact
  <2>3. /\ sess' \in [Sessions -> SessionType] /\ sess'[s] = v
        /\ \A t \in Sessions \ {s} : sess'[t] = sess[t]
    BY <1>2, <2>2, SetsSession DEF ShowStaged
  <2>4. TypeOK'
    BY <1>2, <2>3 DEF ShowStaged, TypeOK
  <2>5. StaysStaged'
    BY <1>2, <2>3 DEF ShowStaged, StaysStaged
  <2> QED BY <2>4, <2>5
<1>3. ASSUME NEW s \in Sessions, NEW r \in Requests, RefuseStaged(s, r) PROVE Typing'
  <2>1. audit' \in [success : SUBSET Requests, last : Results \cup {"none"}]
    BY <1>3, RefusalType, Logs DEF RefuseStaged
  <2> QED BY <1>3, <2>1 DEF RefuseStaged, TypeOK, StaysStaged
<1>4. ASSUME NEW s \in Sessions, sess' = [sess EXCEPT ![s] = Waiting], UNCHANGED staging,
             store' \in [Files -> Seq(Requests)],
             index' \in NoTable \/ index' \in [Ids -> IndexEntry \cup {None}],
             audit' \in [success : SUBSET Requests, last : Results \cup {"none"}],
             faults' \in 0 .. MaxFaults
      PROVE  Typing'
  <2>1. /\ sess' \in [Sessions -> SessionType] /\ sess'[s].phase = "idle"
        /\ \A t \in Sessions \ {s} : sess'[t] = sess[t]
    BY <1>4, WaitingType, SetsSession
  <2>2. TypeOK'
    BY <1>4, <2>1 DEF TypeOK
  <2>3. StaysStaged'
    BY <1>4, <2>1 DEF StaysStaged
  <2> QED BY <2>2, <2>3
<1>5. ASSUME NEW s \in Sessions, RejectMemoryWrite(s) PROVE Typing'
  <2>1. audit' \in [success : SUBSET Requests, last : Results \cup {"none"}]
    BY <1>5, SessionIsBusy, Logs DEF RejectMemoryWrite, Results
  <2> QED BY <1>4, <1>5, <2>1 DEF RejectMemoryWrite, TypeOK
<1>6. ASSUME NEW s \in Sessions, GiveUp(s) PROVE Typing'
  BY <1>4, <1>6 DEF GiveUp, TypeOK
<1>7. ASSUME NEW s \in Sessions, sess[s].phase \in Applying, NEW p \in Applying, Goto(s, p),
             UNCHANGED staging, store' \in [Files -> Seq(Requests)],
             index' \in NoTable \/ index' \in [Ids -> IndexEntry \cup {None}],
             UNCHANGED audit, faults' \in 0 .. MaxFaults
      PROVE  Typing'
  <2>1. /\ sess' \in [Sessions -> SessionType] /\ sess'[s].phase = p
        /\ \A t \in Sessions \ {s} : sess'[t] = sess[t]
    BY <1>7, GoesOn
  <2>2. TypeOK'
    BY <1>7, <2>1 DEF TypeOK
  <2>3. StaysStaged'
    BY <1>7, <2>1 DEF StaysStaged, Applying
  <2> QED BY <2>2, <2>3
<1>8. ASSUME NEW s \in Sessions, ApplyMemoryWrite(s) PROVE Typing'
  <2> DEFINE r == sess[s].req
             v == [phase |-> "write", req |-> r, file |-> staging[r].file]
  <2>1. r \in Requests /\ staging[r] \in Artifact
    BY <1>8, SessionIsBusy DEF ApplyMemoryWrite, StaysStaged, TypeOK
  <2>2. CASE staging[r].ready /\ ~PolicyDenies(r)
    <3>1. v \in SessionType /\ v.phase = "write"
      BY <2>1 DEF SessionType, Artifact, Applying
    <3>2. sess' = [sess EXCEPT ![s] = v] /\ UNCHANGED <<audit, store, index, staging, faults>>
      BY <1>8, <2>2 DEF ApplyMemoryWrite
    <3> HIDE DEF v
    <3>3. /\ sess' \in [Sessions -> SessionType] /\ sess'[s].phase = "write"
          /\ \A t \in Sessions \ {s} : sess'[t] = sess[t]
      BY <3>1, <3>2, SetsSession
    <3>4. TypeOK'
      BY <3>2, <3>3 DEF TypeOK
    <3>5. StaysStaged'
      BY <3>2, <3>3 DEF StaysStaged
    <3> QED BY <3>4, <3>5
  <2>3. CASE ~(staging[r].ready /\ ~PolicyDenies(r))
    <3>1. Log(r, Refusal(r)) /\ sess' = [sess EXCEPT ![s] = Waiting]
      BY <1>8, <2>3 DEF ApplyMemoryWrite
    <3>2. audit' \in [success : SUBSET Requests, last : Results \cup {"none"}]
      BY <2>1, <3>1, RefusalType, Logs
    <3> QED BY <1>4, <1>8, <3>1, <3>2 DEF ApplyMemoryWrite, TypeOK
  <2> QED BY <2>2, <2>3
<1>9. ASSUME NEW s \in Sessions, WriteRecord(s) PROVE Typing'
  <2>1. Stores(s)
    BY <1>9, SessionIsBusy, WrittenLays DEF WriteRecord, Stores
  <2>2. store' \in [Files -> Seq(Requests)]
    BY <2>1, StoresType
  <2> QED BY <1>7, <1>9, <2>2 DEF WriteRecord, TypeOK, Applying
<1>10. ASSUME NEW s \in Sessions, UpdateMemoryIndex(s) PROVE Typing'
  <2>1. index' \in [Ids -> IndexEntry \cup {None}]
    BY <1>10, SessionIsBusy, IndexWithType DEF UpdateMemoryIndex
  <2> QED BY <1>7, <1>10, <2>1 DEF UpdateMemoryIndex, TypeOK, Applying
<1>11. ASSUME NEW s \in Sessions, AppendAudit(s) PROVE Typing'
  <2>1. audit' \in [success : SUBSET Requests, last : Results \cup {"none"}]
    BY <1>11, SessionIsBusy, Logs DEF AppendAudit, Results
  <2> QED BY <1>4, <1>11, <2>1 DEF AppendAudit, TypeOK
<1>12. ASSUME NEW s \in Sessions, StepFails(s) PROVE Typing'
  BY <1>7, <1>12 DEF StepFails, TypeOK, Applying
<1>13. ASSUME NEW s \in Sessions, AuditFailure(s) PROVE Typing'
  <2>1. audit' \in [success : SUBSET Requests, last : Results \cup {"none"}]
    BY <1>13, SessionIsBusy, Logs DEF AuditFailure, Results
  <2> QED BY <1>4, <1>13, <2>1 DEF AuditFailure, TypeOK
<1>14. ASSUME NEW s \in Sessions, IOFails(s) PROVE Typing'
  <2>1. sess[s].phase \in Applying /\ "auditFailure" \in Applying
    BY <1>14 DEF IOFails, Applying
  <2> QED BY <1>7, <1>14, <2>1, CutsShort, StoresType DEF IOFails
<1>15. ASSUME NEW s \in Sessions, Crash(s) PROVE Typing'
  BY <1>4, <1>15, CutsShort, StoresType DEF Crash, TypeOK
<1>16. ASSUME NEW s \in Sessions, NEW r \in Requests, CrashInPreview(s, r) PROVE Typing'
  <2>1. /\ staging' \in [Requests -> Artifact \cup {None, Unreadable}]
        /\ \A q \in Requests : staging[q] # None => staging'[q] # None
    BY <1>16, SentinelAssumption DEF CrashInPreview, TypeOK
  <2>2. faults' \in 0 .. MaxFaults
    BY <1>16, BoundAssumption DEF CrashInPreview, TypeOK
  <2>3. TypeOK'
    BY <1>16, <2>1, <2>2 DEF CrashInPreview, TypeOK
  <2>4. StaysStaged'
    BY <1>16, <2>1, SessionIsBusy DEF CrashInPreview, StaysStaged
  <2> QED BY <2>3, <2>4
<1>17. CASE UNCHANGED vars
  BY <1>17 DEF vars, TypeOK, StaysStaged
<1> QED BY <1>1, <1>2, <1>3, <1>5, <1>6, <1>8, <1>9, <1>10, <1>11, <1>12, <1>13, <1>14, <1>15,
           <1>16, <1>17 DEF Next, Command, Failure

\* Every state has its types: the file a supersede goes to exists, and what is
\* shown, approved and written is a request and a file of it, whatever is cut short.
THEOREM TypeCorrect == Spec => []TypeOK
<1>1. Spec => []Typing
  BY TypingInit, TypingStep, PTL DEF Spec
<1>2. Typing => TypeOK
  BY DEF Typing
<1> QED BY <1>1, <1>2, PTL

-----------------------------------------------------------------------------
(***************************************************************************)
(* No contradiction and complete commits, when the synchronous parts of    *)
(* two processes do not overlap.  The analysis that cleared a record must  *)
(* still hold when the record is written, and what was written must still  *)
(* be there when the commit is reported: for both, nobody else applies.    *)
(***************************************************************************)

ApplyAlone ==
  \A s, t \in Sessions : sess[s].phase \in Applying /\ sess[t].phase \in Applying => s = t

\* What is about to be written speaks about nothing that is in project memory.
Cleared ==
  \A s \in Sessions : sess[s].phase = "write" => \A q \in Live : ~SameClaim(q, sess[s].req)

\* What was written is still in its file, and in the index once that is written.
Landed ==
  \A s \in Sessions :
    /\ sess[s].phase \in {"index", "audit"} =>
         \E i \in DOMAIN store[sess[s].file] : store[sess[s].file][i] = sess[s].req
    /\ sess[s].phase = "audit" =>
         /\ index \notin NoTable
         /\ index[Id(sess[s].req)] = [file |-> sess[s].file, status |-> "active"]

SafeInv == Typing /\ ApplyAlone /\ Cleared /\ Landed /\ NoContradiction

LEMMA SameClaimSymmetric == \A q, r : SameClaim(q, r) <=> SameClaim(r, q)
BY DEF SameClaim, SameTitle

\* ~PolicyDenies: neither a duplicate nor a conflict, so nothing about the same.
LEMMA PolicyClears ==
  ASSUME NEW r \in Requests, ~PolicyDenies(r), NEW q \in Live
  PROVE  ~SameClaim(q, r)
BY DEF PolicyDenies, Duplicates, Conflicts, SameClaim

\* A record that was cleared may be laid over any part of a file.
LEMMA LaysNoContradiction ==
  ASSUME SafeInv, NEW s \in Sessions, Stores(s)
  PROVE  NoContradiction'
<1>1. CASE UNCHANGED store
  BY <1>1 DEF NoContradiction, SafeInv
<1>2. CASE /\ sess[s].phase = "write"
           /\ \E w : /\ Lays(w, sess[s].req, sess[s].file)
                     /\ store' = [store EXCEPT ![sess[s].file] = w]
  <2> DEFINE r == sess[s].req
             f == sess[s].file
  <2>1. f \in Files /\ store \in [Files -> Seq(Requests)]
    BY <1>2, SessionIsBusy DEF SafeInv, Typing, TypeOK
  <2>2. \A q \in Live : ~SameClaim(q, r) /\ ~SameClaim(r, q)
    BY <1>2, SameClaimSymmetric DEF SafeInv, Cleared
  <2>3. PICK w : Lays(w, r, f) /\ store' = [store EXCEPT ![f] = w]
    BY <1>2
  <2>4. PICK k : \A i \in DOMAIN w :
                   \/ i = k /\ w[i] = r
                   \/ i # k /\ i \in DOMAIN store[f] /\ w[i] = store[f][i]
    BY <2>3 DEF Lays
  <2> HIDE DEF r, f
  <2> DEFINE new(g, i) == g = f /\ i = k
  <2>5. ASSUME NEW g \in Files, NEW i \in DOMAIN store'[g]
        PROVE  \/ new(g, i) /\ store'[g][i] = r
               \/ ~new(g, i) /\ i \in DOMAIN store[g] /\ store'[g][i] = store[g][i]
    BY <2>1, <2>3, <2>4
  <2>6. ASSUME NEW g \in Files, NEW i \in DOMAIN store[g] PROVE store[g][i] \in Live
    BY DEF Live, Records
  <2>7. ASSUME NEW g \in Files, NEW h \in Files,
               NEW i \in DOMAIN store'[g], NEW j \in DOMAIN store'[h],
               SameClaim(store'[g][i], store'[h][j])
        PROVE  g = h /\ i = j
    <3>1. CASE new(g, i) /\ new(h, j)
      BY <3>1
    <3>2. CASE new(g, i) /\ ~new(h, j)
      BY <2>2, <2>5, <2>6, <2>7, <3>2
    <3>3. CASE ~new(g, i) /\ new(h, j)
      BY <2>2, <2>5, <2>6, <2>7, <3>3
    <3>4. CASE ~new(g, i) /\ ~new(h, j)
      <4>1. /\ i \in DOMAIN store[g] /\ j \in DOMAIN store[h]
            /\ SameClaim(store[g][i], store[h][j])
        BY <2>5, <2>7, <3>4
      <4> QED BY <4>1 DEF SafeInv, NoContradiction
    <3> QED BY <3>1, <3>2, <3>3, <3>4
  <2> QED BY <2>7 DEF NoContradiction
<1> QED BY <1>1, <1>2 DEF Stores

\* A step of session s that takes it to where nothing is about to be written,
\* indexed or reported.
LEMMA StepsBack ==
  ASSUME SafeInv, Typing', NEW s \in Sessions, Stores(s),
         UNCHANGED index \/ sess[s].phase = "index",
         \A t \in Sessions \ {s} : sess'[t] = sess[t],
         \/ sess'[s].phase \in {"idle", "confirm"}
         \/ sess[s].phase \in Applying /\ sess'[s].phase = "auditFailure"
  PROVE  SafeInv'
<1>1. ApplyAlone'
  BY DEF SafeInv, ApplyAlone, Applying
<1>2. ASSUME NEW t \in Sessions, sess'[t].phase \in {"write", "index", "audit"}
      PROVE  t # s /\ UNCHANGED <<store, index>>
  <2>1. t # s /\ sess[t].phase \in Applying
    BY <1>2 DEF Applying
  <2>2. sess[s].phase \notin Applying
    BY <2>1 DEF SafeInv, ApplyAlone
  <2> QED BY <2>1, <2>2 DEF Stores, Applying
<1>3. Cleared'
  BY <1>2 DEF SafeInv, Cleared, Live, Records
<1>4. Landed'
  BY <1>2 DEF SafeInv, Landed
<1> QED BY <1>1, <1>3, <1>4, LaysNoContradiction DEF SafeInv

LEMMA SafeInit == Init => SafeInv
<1> SUFFICES ASSUME Init PROVE SafeInv
  OBVIOUS
<1>1. \A s \in Sessions : sess[s].phase = "idle"
  BY WaitingType DEF Init
<1>2. NoContradiction
  BY DEF Init, NoContradiction
<1> QED BY <1>1, <1>2, TypingInit DEF SafeInv, ApplyAlone, Cleared, Landed, Applying

LEMMA SafeStep ==
  ASSUME Overlap = FALSE
  PROVE  SafeInv /\ [Next]_vars => SafeInv'
<1> SUFFICES ASSUME SafeInv, [Next]_vars PROVE SafeInv'
  OBVIOUS
<1>0. TypeOK /\ Typing'
  BY TypingStep DEF SafeInv, Typing
<1>1. ASSUME UNCHANGED <<store, index>>, sess' = sess PROVE SafeInv'
  BY <1>0, <1>1 DEF SafeInv, ApplyAlone, Cleared, Landed, NoContradiction, Live, Records
<1>2. ASSUME NEW s \in Sessions, UNCHANGED <<store, index>>, NEW v \in SessionType,
             sess' = [sess EXCEPT ![s] = v], v.phase \in {"idle", "confirm"}
      PROVE  SafeInv'
  <2>1. sess'[s] = v /\ \A t \in Sessions \ {s} : sess'[t] = sess[t]
    BY <1>0, <1>2, SetsSession
  <2> QED BY <1>0, <1>2, <2>1, StepsBack DEF Stores
<1>3. ASSUME NEW s \in Sessions, NEW r \in Requests,
             PreviewMemoryWrite(s, r) \/ RefuseStaged(s, r) \/ CrashInPreview(s, r)
      PROVE  SafeInv'
  BY <1>1, <1>3 DEF PreviewMemoryWrite, RefuseStaged, CrashInPreview
<1>4. ASSUME NEW s \in Sessions, NEW r \in Requests, ShowStaged(s, r) PROVE SafeInv'
  <2>1. staging[r] \in Artifact
    BY <1>0, <1>4 DEF ShowStaged, TypeOK
  <2>2. [phase |-> "confirm", req |-> r, file |-> staging[r].file] \in SessionType
    BY <2>1 DEF SessionType, Artifact
  <2> QED BY <1>2, <1>4, <2>2 DEF ShowStaged
<1>5. ASSUME NEW s \in Sessions, RejectMemoryWrite(s) \/ GiveUp(s) PROVE SafeInv'
  BY <1>2, <1>5, WaitingType DEF RejectMemoryWrite, GiveUp
<1>6. ASSUME NEW s \in Sessions, ApplyMemoryWrite(s) PROVE SafeInv'
  <2> DEFINE r == sess[s].req
             v == [phase |-> "write", req |-> r, file |-> staging[r].file]
  <2>1. r \in Requests /\ staging[r] \in Artifact
    BY <1>0, <1>6, SessionIsBusy DEF ApplyMemoryWrite, SafeInv, Typing, StaysStaged, TypeOK
  <2>2. CASE staging[r].ready /\ ~PolicyDenies(r)
    <3>1. v \in SessionType /\ v.phase = "write" /\ v.req = r
      BY <2>1 DEF SessionType, Artifact, Applying
    <3>2. sess' = [sess EXCEPT ![s] = v] /\ UNCHANGED <<store, index>>
      BY <1>6, <2>2 DEF ApplyMemoryWrite
    <3>3. \A t \in Sessions \ {s} : sess[t].phase \notin Applying
      BY <1>6 DEF ApplyMemoryWrite, Undisturbed
    <3> HIDE DEF v
    <3>4. sess'[s] = v /\ \A t \in Sessions \ {s} : sess'[t] = sess[t]
      BY <1>0, <3>1, <3>2, SetsSession
    <3>5. ApplyAlone'
      BY <3>3, <3>4 DEF ApplyAlone
    <3>6. \A q \in Live : ~SameClaim(q, r)
      BY <2>1, <2>2, PolicyClears
    <3>7. Cleared'
      BY <3>1, <3>2, <3>3, <3>4, <3>6 DEF Cleared, Applying, Live, Records
    <3>8. Landed'
      BY <3>1, <3>2, <3>3, <3>4 DEF Landed, Applying
    <3>9. NoContradiction'
      BY <3>2 DEF SafeInv, NoContradiction
    <3> QED BY <1>0, <3>5, <3>7, <3>8, <3>9 DEF SafeInv
  <2>3. CASE ~(staging[r].ready /\ ~PolicyDenies(r))
    <3>1. sess' = [sess EXCEPT ![s] = Waiting] /\ UNCHANGED <<store, index>>
      BY <1>6, <2>3 DEF ApplyMemoryWrite
    <3> QED BY <1>2, <3>1, WaitingType
  <2> QED BY <2>2, <2>3
<1>7. ASSUME NEW s \in Sessions, WriteRecord(s) PROVE SafeInv'
  <2> DEFINE r == sess[s].req
             f == sess[s].file
  <2>1. r \in Requests /\ f \in Files /\ ~NothingToSupersede(r, f) /\ sess[s].phase \in Applying
    BY <1>0, <1>7, SessionIsBusy DEF WriteRecord, Applying
  <2>2. store' = [store EXCEPT ![f] = Written(r, f)] /\ store \in [Files -> Seq(Requests)]
    BY <1>0, <1>7 DEF WriteRecord, TypeOK
  <2>3. Stores(s)
    BY <1>0, <1>7, <2>1, WrittenLays DEF WriteRecord, Stores
  <2>4. \E k \in DOMAIN store'[f] : store'[f][k] = r
    BY <1>0, <2>1, <2>2, WrittenShape
  <2>5. /\ sess'[s].phase = "index" /\ sess'[s].req = r /\ sess'[s].file = f
        /\ \A t \in Sessions \ {s} : sess'[t] = sess[t]
    BY <1>0, <1>7, <2>1, GoesOn DEF WriteRecord, Applying
  <2>6. \A t \in Sessions \ {s} : sess[t].phase \notin Applying
    BY <2>1 DEF SafeInv, ApplyAlone
  <2> HIDE DEF r, f
  <2>7. ApplyAlone' /\ Cleared'
    BY <2>5, <2>6 DEF ApplyAlone, Cleared, Applying
  <2>8. Landed'
    BY <2>4, <2>5, <2>6 DEF Landed, Applying
  <2> QED BY <1>0, <2>3, <2>7, <2>8, LaysNoContradiction DEF SafeInv
<1>8. ASSUME NEW s \in Sessions, UpdateMemoryIndex(s) PROVE SafeInv'
  <2> DEFINE r == sess[s].req
             f == sess[s].file
  <2>1. r \in Requests /\ f \in Files /\ sess[s].phase \in Applying
    BY <1>0, <1>8, SessionIsBusy DEF UpdateMemoryIndex, Applying
  <2>2. index' \in [Ids -> IndexEntry \cup {None}] /\ index'[Id(r)] = [file |-> f, status |-> "active"]
    BY <1>0, <1>8, <2>1, IndexWithType DEF UpdateMemoryIndex
  <2>3. index' \notin NoTable
    BY <2>2, SentinelAssumption DEF NoTable
  <2>4. /\ sess'[s].phase = "audit" /\ sess'[s].req = r /\ sess'[s].file = f
        /\ \A t \in Sessions \ {s} : sess'[t] = sess[t]
    BY <1>0, <1>8, <2>1, GoesOn DEF UpdateMemoryIndex, Applying
  <2>5. \A t \in Sessions \ {s} : sess[t].phase \notin Applying
    BY <2>1 DEF SafeInv, ApplyAlone
  <2>6. /\ UNCHANGED store
        /\ \E i \in DOMAIN store[f] : store[f][i] = r
    BY <1>8 DEF UpdateMemoryIndex, SafeInv, Landed
  <2> HIDE DEF r, f
  <2>7. ApplyAlone' /\ Cleared'
    BY <2>4, <2>5 DEF ApplyAlone, Cleared, Applying
  <2>8. Landed'
    BY <2>2, <2>3, <2>4, <2>5, <2>6 DEF Landed, Applying
  <2>9. NoContradiction'
    BY <2>6 DEF SafeInv, NoContradiction
  <2> QED BY <1>0, <2>7, <2>8, <2>9 DEF SafeInv
<1>9. ASSUME NEW s \in Sessions, AppendAudit(s) \/ AuditFailure(s) PROVE SafeInv'
  BY <1>2, <1>9, WaitingType DEF AppendAudit, AuditFailure
<1>10. ASSUME NEW s \in Sessions, sess[s].phase \in Applying, Goto(s, "auditFailure"),
              Stores(s), UNCHANGED index \/ sess[s].phase = "index"
       PROVE  SafeInv'
  <2>1. sess'[s].phase = "auditFailure" /\ \A t \in Sessions \ {s} : sess'[t] = sess[t]
    BY <1>0, <1>10, GoesOn DEF Applying
  <2> QED BY <1>0, <1>10, <2>1, StepsBack
<1>11. ASSUME NEW s \in Sessions, StepFails(s) PROVE SafeInv'
  BY <1>10, <1>11 DEF StepFails, Applying, Stores
<1>12. ASSUME NEW s \in Sessions, IOFails(s) PROVE SafeInv'
  <2>1. sess[s].phase \in Applying
    BY <1>12 DEF IOFails, Applying
  <2> QED BY <1>0, <1>10, <1>12, <2>1, CutsShort DEF IOFails
<1>13. ASSUME NEW s \in Sessions, Crash(s) PROVE SafeInv'
  <2>1. sess'[s].phase = "idle" /\ \A t \in Sessions \ {s} : sess'[t] = sess[t]
    BY <1>0, <1>13, WaitingType, SetsSession DEF Crash
  <2>2. Stores(s) /\ (UNCHANGED index \/ sess[s].phase = "index")
    BY <1>0, <1>13, CutsShort DEF Crash
  <2> QED BY <1>0, <2>1, <2>2, StepsBack
<1>14. CASE UNCHANGED vars
  BY <1>1, <1>14 DEF vars
<1> QED BY <1>3, <1>4, <1>5, <1>6, <1>7, <1>8, <1>9, <1>11, <1>12, <1>13, <1>14
        DEF Next, Command, Failure

\* What a session does leaves the state of every other session alone.
LEMMA OwnSession ==
  ASSUME TypeOK, NEW t \in Sessions, Command(t) \/ Failure(t), NEW s \in Sessions, s # t
  PROVE  sess'[s] = sess[s]
BY DEF TypeOK, Command, Failure, PreviewMemoryWrite, ShowStaged, RefuseStaged, RejectMemoryWrite,
       GiveUp, ApplyMemoryWrite, WriteRecord, UpdateMemoryIndex, AppendAudit, StepFails,
       AuditFailure, IOFails, Crash, CrashInPreview, Goto

\* However many sessions preview, wait, approve and fail, and whatever they write:
\* as long as two do not apply at the same moment, project memory never holds two
\* records about the same thing.
THEOREM MemoryIsConsistent ==
  ASSUME Overlap = FALSE
  PROVE  Spec => []NoContradiction
<1>1. SafeInv => NoContradiction
  BY DEF SafeInv
<1> QED BY <1>1, SafeInit, SafeStep, PTL DEF Spec

\* A session reports a commit only when its record, the index entry and the audit
\* entry are all there.
THEOREM CommitsAreComplete ==
  ASSUME Overlap = FALSE
  PROVE  Spec => CommitIsComplete
<1> DEFINE Complete(s) ==
             LET r == sess[s].req f == sess[s].file IN
             /\ \E i \in DOMAIN store'[f] : store'[f][i] = r
             /\ index' \notin NoTable /\ index'[Id(r)] = [file |-> f, status |-> "active"]
             /\ r \in audit'.success /\ audit'.last = "success"
<1>1. ASSUME SafeInv, [Next]_vars, NEW s \in Sessions, Commits(s) PROVE Complete(s)
  <2>1. TypeOK
    BY <1>1 DEF SafeInv, Typing
  <2>2. sess[s].phase = "audit" /\ sess'[s].phase = "idle" /\ faults' = faults
    BY <1>1, WaitingType DEF Commits
  <2>3. PICK t \in Sessions : Command(t) \/ Failure(t)
    BY <1>1, <2>2 DEF Next, vars
  <2>4. t = s
    BY <2>1, <2>2, <2>3, OwnSession
  <2>5. AppendAudit(s)
    <3>1. ~CutShort(s)
      BY <2>1, <2>2 DEF CutShort, TypeOK
    <3> QED BY <2>2, <2>3, <2>4, <3>1
          DEF Command, Failure, PreviewMemoryWrite, ShowStaged, RefuseStaged, RejectMemoryWrite,
              GiveUp, ApplyMemoryWrite, WriteRecord, UpdateMemoryIndex, StepFails, AuditFailure,
              IOFails, Crash, CrashInPreview
  <2>6. sess[s].req \in Requests
    BY <2>1, <2>2, SessionIsBusy
  <2>7. sess[s].req \in audit'.success /\ audit'.last = "success" /\ UNCHANGED <<store, index>>
    BY <2>1, <2>5, <2>6, Logs DEF AppendAudit, Results
  <2> QED BY <1>1, <2>2, <2>7 DEF SafeInv, Landed
<1>2. SafeInv /\ [Next]_vars => [\A s \in Sessions : Commits(s) => Complete(s)]_vars
  BY <1>1
<1> QED BY <1>2, SafeInit, SafeStep, PTL DEF Spec, CommitIsComplete

-----------------------------------------------------------------------------
(***************************************************************************)
(* The store that takes one record in at a time.                           *)
(***************************************************************************)

\* What is cleared to be written is free in the store.
LEMMA ClearedIsFree ==
  ASSUME TypeOK, NEW r \in Requests, \A q \in Live : ~SameClaim(q, r)
  PROVE  Authority!Free(r)
<1> SUFFICES ASSUME NEW f \in Files, NEW q \in Records(f)
             PROVE  <<q.kind, Norm[q.title], q.scope>> # <<r.kind, Norm[r.title], r.scope>>
  <2>1. \A f \in Files : \A q \in Records(f) : q \in Requests
    BY ElementOfSeq, LenProperties DEF TypeOK, Records
  <2> QED BY <2>1 DEF Authority!Free
<1>1. q \in Live
  BY DEF Live
<1> QED BY <1>1 DEF SameClaim, SameTitle

\* A file that is left alone, and one that a record is laid into.
LEMMA NothingLaid ==
  ASSUME UNCHANGED store, NEW f \in Files, NEW r
  PROVE  Authority!Lays(f, r) /\ [g \in Files |-> Records(g)]' = [g \in Files |-> Records(g)]
BY DEF Authority!Lays, Records

LEMMA RecordLaid ==
  ASSUME TypeOK, NEW f \in Files, NEW r, NEW w, Lays(w, r, f), store' = [store EXCEPT ![f] = w]
  PROVE  Authority!Lays(f, r)
<1>1. \A g \in Files \ {f} : Records(g)' = Records(g)
  BY DEF TypeOK, Records
<1>2. Records(f)' = {w[i] : i \in DOMAIN w}
  BY DEF TypeOK, Records
<1>3. Records(f)' \subseteq Records(f) \cup {r}
  BY <1>2 DEF Lays, Records
<1> QED BY <1>1, <1>3 DEF Authority!Lays

\* A failure is a failure of the store, whatever it left of the file.
LEMMA FailureFails ==
  ASSUME SafeInv, NEW s \in Sessions, sess[s].phase \in Applying, CutShort(s), UNCHANGED audit
  PROVE  Authority!Fail(sess[s].file, sess[s].req)
<1> DEFINE r == sess[s].req
           f == sess[s].file
<1>1. TypeOK /\ r \in Requests /\ f \in Files
  BY SessionIsBusy DEF SafeInv, Typing, Applying
<1>2. Stores(s) /\ faults' = faults + 1
  BY <1>1, CutsShort DEF CutShort
<1>3. CASE UNCHANGED store
  <2> HIDE DEF r, f
  <2>1. Authority!Lays(f, r) /\ [g \in Files |-> Records(g)]' = [g \in Files |-> Records(g)]
    BY <1>1, <1>3, NothingLaid
  <2> QED BY <1>2, <2>1 DEF Authority!Fail, r, f
<1>4. CASE /\ sess[s].phase = "write"
           /\ \E w : Lays(w, r, f) /\ store' = [store EXCEPT ![f] = w]
  <2>1. Authority!Free(r)
    BY <1>1, <1>4, ClearedIsFree DEF SafeInv, Cleared
  <2>2. Authority!Lays(f, r)
    BY <1>1, <1>4, RecordLaid
  <2> QED BY <1>2, <2>1, <2>2 DEF Authority!Fail
<1> QED BY <1>2, <1>3, <1>4 DEF Stores

\* What a file holds after a whole write, for a record and a file that are given.
LEMMA RecordEnters ==
  ASSUME TypeOK, NEW r \in Requests, NEW f \in Files, ~NothingToSupersede(r, f),
         Authority!Free(r), store' = [store EXCEPT ![f] = Written(r, f)],
         UNCHANGED <<audit, faults>>
  PROVE  Authority!Enter(f, r)
<1>1. Authority!Lays(f, r)
  BY WrittenLays, RecordLaid
<1>2. PICK k \in DOMAIN Written(r, f) : Written(r, f)[k] = r
  BY WrittenShape
<1>3. store'[f] = Written(r, f)
  BY DEF TypeOK
<1>4. r \in {store'[f][i] : i \in DOMAIN store'[f]}
  BY <1>2, <1>3
<1>5. r \in [g \in Files |-> Records(g)]'[f]
  BY <1>4 DEF Records
<1> QED BY <1>1, <1>5 DEF Authority!Enter

LEMMA WriteEnters ==
  ASSUME SafeInv, NEW s \in Sessions, WriteRecord(s)
  PROVE  Authority!Enter(sess[s].file, sess[s].req)
<1>1. TypeOK /\ sess[s].req \in Requests /\ sess[s].file \in Files
  BY SessionIsBusy DEF SafeInv, Typing, WriteRecord
<1>2. PICK r \in Requests, f \in Files : r = sess[s].req /\ f = sess[s].file
  BY <1>1
<1>3. /\ sess[s].phase = "write" /\ ~NothingToSupersede(r, f)
      /\ store' = [store EXCEPT ![f] = Written(r, f)] /\ UNCHANGED <<audit, faults>>
  BY <1>2 DEF WriteRecord
<1>4. Authority!Free(r)
  BY <1>1, <1>2, <1>3, ClearedIsFree DEF SafeInv, Cleared
<1>5. Authority!Enter(f, r)
  BY <1>1, <1>3, <1>4, RecordEnters
<1> QED BY <1>2, <1>5

LEMMA AuditAcknowledges ==
  ASSUME SafeInv, NEW s \in Sessions, AppendAudit(s)
  PROVE  Authority!Acknowledge(sess[s].file, sess[s].req)
<1>1. TypeOK /\ sess[s].req \in Requests /\ sess[s].file \in Files
  BY SessionIsBusy DEF SafeInv, Typing, AppendAudit
<1>2. sess[s].req \in Records(sess[s].file)
  BY DEF SafeInv, Landed, AppendAudit, Records
<1>3. audit'.success = audit.success \cup {sess[s].req} /\ UNCHANGED <<store, faults>>
  BY DEF AppendAudit, Log
<1>4. [g \in Files |-> Records(g)]' = [g \in Files |-> Records(g)]
  BY <1>3 DEF Records
<1> QED BY <1>1, <1>2, <1>3, <1>4 DEF Authority!Acknowledge

\* Only a commit is logged as a success.
LEMMA OthersLogNoSuccess ==
  ASSUME NEW s \in Sessions, Command(s), ~AppendAudit(s)
  PROVE  audit'.success = audit.success
<1>1. ASSUME NEW r, NEW result, result # "success", Log(r, result)
      PROVE  audit'.success = audit.success
  BY <1>1 DEF Log
<1>2. \A r : Refusal(r) # "success"
  BY DEF Refusal
<1>3. CASE UNCHANGED audit
  BY <1>3
<1>4. ASSUME NEW r, Log(r, Refusal(r))
      PROVE  audit'.success = audit.success
  BY <1>1, <1>2, <1>4
<1>5. CASE \E r \in Requests : RefuseStaged(s, r)
  BY <1>4, <1>5 DEF RefuseStaged
<1>6. CASE RejectMemoryWrite(s)
  <2>1. Log(sess[s].req, "rejected")
    BY <1>6 DEF RejectMemoryWrite
  <2> QED BY <1>1, <2>1
<1>7. CASE ApplyMemoryWrite(s)
  <2>1. UNCHANGED audit \/ Log(sess[s].req, Refusal(sess[s].req))
    BY <1>7 DEF ApplyMemoryWrite
  <2> QED BY <1>3, <1>4, <2>1
<1>8. CASE WriteRecord(s) \/ UpdateMemoryIndex(s) \/ GiveUp(s)
           \/ \E r \in Requests : PreviewMemoryWrite(s, r) \/ ShowStaged(s, r)
  BY <1>8 DEF WriteRecord, UpdateMemoryIndex, GiveUp, PreviewMemoryWrite, ShowStaged
<1> QED BY <1>5, <1>6, <1>7, <1>8 DEF Command

\* Every step is one of the store, or the store does not see it.
LEMMA StoreStep ==
  ASSUME SafeInv, [Next]_vars
  PROVE  [Authority!Next]_(Authority!vars)
<1>1. ASSUME UNCHANGED <<store, faults>>, audit'.success = audit.success
      PROVE  UNCHANGED Authority!vars
  BY <1>1 DEF Authority!vars, Records
<1>2. ASSUME NEW s \in Sessions, Command(s) PROVE [Authority!Next]_(Authority!vars)
  <2>1. CASE WriteRecord(s)
    <3>1. sess[s].req \in Requests /\ sess[s].file \in Files
      BY <2>1, SessionIsBusy DEF SafeInv, Typing, WriteRecord
    <3> QED BY <2>1, <3>1, WriteEnters DEF Authority!Next
  <2>2. CASE AppendAudit(s)
    <3>1. sess[s].req \in Requests /\ sess[s].file \in Files
      BY <2>2, SessionIsBusy DEF SafeInv, Typing, AppendAudit
    <3> QED BY <2>2, <3>1, AuditAcknowledges DEF Authority!Next
  <2>3. CASE ~WriteRecord(s) /\ ~AppendAudit(s)
    <3>1. audit'.success = audit.success
      BY <1>2, <2>3, OthersLogNoSuccess
    <3>2. UNCHANGED <<store, faults>>
      BY <1>2, <2>3
         DEF Command, PreviewMemoryWrite, ShowStaged, RefuseStaged, RejectMemoryWrite, GiveUp,
             ApplyMemoryWrite, UpdateMemoryIndex
    <3> QED BY <1>1, <3>1, <3>2
  <2> QED BY <2>1, <2>2, <2>3
<1>3. ASSUME NEW s \in Sessions, Failure(s) PROVE [Authority!Next]_(Authority!vars)
  <2>1. CASE StepFails(s) \/ AuditFailure(s)
    BY <1>1, <2>1 DEF StepFails, AuditFailure, Log
  <2>2. CASE IOFails(s) \/ Crash(s)
    <3>1. sess[s].phase \in Applying /\ CutShort(s) /\ UNCHANGED audit
      BY <2>2 DEF IOFails, Crash, Applying
    <3>2. sess[s].req \in Requests /\ sess[s].file \in Files
      BY <3>1, SessionIsBusy DEF SafeInv, Typing, Applying
    <3> QED BY <3>1, <3>2, FailureFails DEF Authority!Next
  <2>3. ASSUME NEW r \in Requests, CrashInPreview(s, r) PROVE [Authority!Next]_(Authority!vars)
    <3>1. PICK f \in Files : f = RouteTargetFile(r)
      BY RouteType
    <3>2. UNCHANGED <<store, audit>> /\ faults' = faults + 1
      BY <2>3 DEF CrashInPreview
    <3>3. Authority!Lays(f, r) /\ [g \in Files |-> Records(g)]' = [g \in Files |-> Records(g)]
      BY <3>2, NothingLaid
    <3>4. Authority!Fail(f, r)
      BY <3>2, <3>3 DEF Authority!Fail
    <3> QED BY <3>1, <3>4 DEF Authority!Next
  <2> QED BY <1>3, <2>1, <2>2, <2>3 DEF Failure
<1>4. CASE UNCHANGED vars
  BY <1>1, <1>4 DEF vars
<1> QED BY <1>2, <1>3, <1>4 DEF Next

\* As long as no two sessions apply at the same moment, the pipeline with its stale
\* previews, waiting prompts, refusals and failures implements a store that takes in one
\* record at a time, only where its claim is free, and loses nothing else.
THEOREM AuthorityIsImplemented ==
  ASSUME Overlap = FALSE
  PROVE  Spec => ImplementsAuthority
<1>1. Init => Authority!Init
  BY DEF Init, Authority!Init, Records
<1>2. SafeInv /\ [Next]_vars =>
        [Authority!Next]_<<[f \in Files |-> Records(f)], audit.success, faults>>
  BY StoreStep DEF Authority!vars
<1> QED
  BY <1>1, <1>2, SafeInit, SafeStep, PTL
     DEF Spec, ImplementsAuthority, Authority!Spec, Authority!vars

-----------------------------------------------------------------------------
(***************************************************************************)
(* The trail, whether or not two processes overlap: a record that is in    *)
(* project memory and not in the audit log yet was written by a session    *)
(* that is on its way to log it.                                           *)
(***************************************************************************)

Underway == {s \in Sessions : sess[s].phase \in {"index", "audit"}}

Accounted(r) == r \in audit.success \/ \E s \in Underway : sess[s].req = r

TrailInv ==
  /\ Typing
  /\ faults = 0 => index \notin NoTable /\ \A r \in Live : Accounted(r)

\* A step that writes no record keeps the trail if what was accounted for still is.
LEMMA KeepsTrail ==
  ASSUME TrailInv, Typing', faults' = 0 => faults = 0 /\ UNCHANGED store /\ index' \notin NoTable,
         \A r \in Requests : Accounted(r) => Accounted(r)'
  PROVE  TrailInv'
<1>1. Live \subseteq Requests
  BY ElementOfSeq, LenProperties DEF TrailInv, Typing, TypeOK, Live, Records
<1>2. faults' = 0 => Live' = Live
  BY DEF Live, Records
<1> QED BY <1>1, <1>2 DEF TrailInv

LEMMA TrailStep == TrailInv /\ [Next]_vars => TrailInv'
<1> SUFFICES ASSUME TrailInv, [Next]_vars PROVE TrailInv'
  OBVIOUS
<1>0. TypeOK /\ Typing'
  BY TypingStep DEF TrailInv, Typing
<1>1. ASSUME NEW s \in Sessions, s \notin Underway, UNCHANGED <<store, index, faults>>,
             audit.success \subseteq audit'.success,
             \A t \in Sessions \ {s} : sess'[t] = sess[t]
      PROVE  TrailInv'
  <2>1. \A r \in Requests : Accounted(r) => Accounted(r)'
    BY <1>1 DEF Accounted, Underway
  <2> QED BY <1>0, <1>1, <2>1, KeepsTrail DEF TrailInv
<1>2. ASSUME NEW s \in Sessions, NEW r \in Requests,
             PreviewMemoryWrite(s, r) \/ ShowStaged(s, r) \/ RefuseStaged(s, r)
      PROVE  TrailInv'
  <2>1. s \notin Underway /\ UNCHANGED <<store, index, faults>>
    BY <1>2 DEF PreviewMemoryWrite, ShowStaged, RefuseStaged, Underway
  <2>2. audit.success \subseteq audit'.success
    BY <1>0, <1>2, RefusalType, Logs DEF PreviewMemoryWrite, ShowStaged, RefuseStaged
  <2> QED BY <1>0, <1>1, <1>2, <2>1, <2>2, OwnSession DEF Command
<1>3. ASSUME NEW s \in Sessions, RejectMemoryWrite(s) \/ GiveUp(s) \/ ApplyMemoryWrite(s)
      PROVE  TrailInv'
  <2>1. s \notin Underway /\ UNCHANGED <<store, index, faults>>
    BY <1>3 DEF RejectMemoryWrite, GiveUp, ApplyMemoryWrite, Underway
  <2>2. sess[s].req \in Requests
    BY <1>0, <1>3, SessionIsBusy DEF RejectMemoryWrite, GiveUp, ApplyMemoryWrite
  <2>3. audit.success \subseteq audit'.success
    BY <1>0, <1>3, <2>2, RefusalType, Logs DEF RejectMemoryWrite, GiveUp, ApplyMemoryWrite, Results
  <2> QED BY <1>0, <1>1, <1>3, <2>1, <2>3, OwnSession DEF Command
<1>4. ASSUME NEW s \in Sessions, WriteRecord(s) PROVE TrailInv'
  <2> DEFINE r == sess[s].req
             f == sess[s].file
  <2>1. r \in Requests /\ f \in Files /\ ~NothingToSupersede(r, f)
    BY <1>0, <1>4, SessionIsBusy DEF WriteRecord
  <2>2. /\ store \in [Files -> Seq(Requests)]
        /\ store' = [store EXCEPT ![f] = Written(r, f)]
        /\ Lays(Written(r, f), r, f)
    BY <1>0, <1>4, <2>1, WrittenLays DEF WriteRecord, TypeOK
  <2>3. /\ sess'[s].phase = "index" /\ sess'[s].req = r
        /\ \A t \in Sessions \ {s} : sess'[t] = sess[t]
    BY <1>0, <1>4, GoesOn DEF WriteRecord, Applying
  <2>4. s \notin Underway /\ UNCHANGED <<index, audit, faults>>
    BY <1>4 DEF WriteRecord, Underway
  <2> HIDE DEF r, f
  <2>5. ASSUME NEW q, Accounted(q) \/ q = r PROVE Accounted(q)'
    BY <2>3, <2>4, <2>5 DEF Accounted, Underway
  <2>6. Live' \subseteq Live \cup {r}
    BY <2>1, <2>2 DEF Live, Records, Lays
  <2> QED BY <1>0, <2>4, <2>5, <2>6 DEF TrailInv
<1>5. ASSUME NEW s \in Sessions, UpdateMemoryIndex(s) PROVE TrailInv'
  <2>1. sess[s].req \in Requests /\ sess[s].file \in Files
    BY <1>0, <1>5, SessionIsBusy DEF UpdateMemoryIndex
  <2>2. index' \notin NoTable
    BY <1>0, <1>5, <2>1, IndexWithType, SentinelAssumption DEF NoTable, UpdateMemoryIndex
  <2>3. /\ sess'[s].phase = "audit" /\ sess'[s].req = sess[s].req
        /\ \A t \in Sessions \ {s} : sess'[t] = sess[t]
    BY <1>0, <1>5, GoesOn DEF UpdateMemoryIndex, Applying
  <2>4. UNCHANGED <<store, audit, faults>>
    BY <1>5 DEF UpdateMemoryIndex
  <2>5. \A r \in Requests : Accounted(r) => Accounted(r)'
    BY <2>3, <2>4 DEF Accounted, Underway
  <2> QED BY <1>0, <2>2, <2>4, <2>5, KeepsTrail
<1>6. ASSUME NEW s \in Sessions, AppendAudit(s) PROVE TrailInv'
  <2>1. sess[s].req \in Requests
    BY <1>0, <1>6, SessionIsBusy DEF AppendAudit
  <2>2. sess[s].req \in audit'.success /\ audit.success \subseteq audit'.success
    BY <1>0, <1>6, <2>1, Logs DEF AppendAudit, Results
  <2>3. \A t \in Sessions \ {s} : sess'[t] = sess[t]
    BY <1>0, <1>6, OwnSession DEF Command
  <2>4. UNCHANGED <<store, index, faults>>
    BY <1>6 DEF AppendAudit
  <2>5. \A r \in Requests : Accounted(r) => Accounted(r)'
    BY <2>2, <2>3 DEF Accounted, Underway
  <2> QED BY <1>0, <2>4, <2>5, KeepsTrail DEF TrailInv
<1>7. ASSUME NEW s \in Sessions, StepFails(s) \/ AuditFailure(s) PROVE TrailInv'
  <2>1. UNCHANGED <<store, index, faults>> /\ \A t \in Sessions \ {s} : sess'[t] = sess[t]
    BY <1>0, <1>7, OwnSession DEF StepFails, AuditFailure, Failure
  <2>2. audit.success \subseteq audit'.success
    BY <1>0, <1>7, SessionIsBusy, Logs DEF StepFails, AuditFailure, Results
  <2>3. CASE s \in Underway
    <3>1. index \in NoTable
      BY <1>7, <2>3 DEF StepFails, AuditFailure, Underway
    <3> QED BY <1>0, <2>1, <3>1 DEF TrailInv
  <2>4. CASE s \notin Underway
    BY <1>1, <2>1, <2>2, <2>4
  <2> QED BY <2>3, <2>4
<1>8. ASSUME NEW s \in Sessions, IOFails(s) \/ Crash(s) \/ \E r \in Requests : CrashInPreview(s, r)
      PROVE  TrailInv'
  <2>1. faults' # 0
    BY <1>0, <1>8 DEF IOFails, Crash, CrashInPreview, CutShort, TypeOK
  <2> QED BY <1>0, <2>1 DEF TrailInv
<1>9. CASE UNCHANGED vars
  BY <1>0, <1>9 DEF vars, TrailInv, Accounted, Underway, Live, Records
<1> QED BY <1>2, <1>3, <1>4, <1>5, <1>6, <1>7, <1>8, <1>9 DEF Next, Command, Failure

LEMMA TrailInit == Init => TrailInv
<1> SUFFICES ASSUME Init PROVE TrailInv
  OBVIOUS
<1>1. Live = {}
  BY DEF Init, Live, Records
<1>2. index \notin NoTable
  BY SentinelAssumption DEF Init, NoTable
<1> QED BY <1>1, <1>2, TypingInit DEF TrailInv

LEMMA TrailHolds == TrailInv => TrailIsComplete
BY DEF TrailInv, TrailIsComplete, NoneApplying, Accounted, Underway, Applying

\* As long as nothing fails, nothing is in project memory that the audit log does
\* not know of once every apply has ended, even if two overlap.
THEOREM TrailIsKept == Spec => []TrailIsComplete
BY TrailInit, TrailStep, TrailHolds, PTL DEF Spec

-----------------------------------------------------------------------------
(***************************************************************************)
(* What a reader that goes by the index is told.                           *)
(***************************************************************************)

LEMMA ReaderProfiles ==
  \A p \in IndexReaders : Profiles[p].mode = "index"
BY DEF IndexReaders

LEMMA AuditReadsIndex == "audit" \in IndexReaders /\ "candidate" \in IndexReaders
BY DEF IndexReaders, Profiles, Indexed, Explicit

\* The three layers in their order.
LEMMA Ranks ==
  \A c : /\ c.layer = "global-project-memory" => Rank(c) = 1
         /\ c.layer = "task-memory" => Rank(c) = 2
         /\ c.layer = "staging" => Rank(c) = 3
<1> TAKE c
<1>1. DOMAIN LayerPrecedence = 1 .. 3
  BY DEF LayerPrecedence
<1>2. /\ LayerPrecedence[1] = "global-project-memory"
      /\ LayerPrecedence[2] = "task-memory"
      /\ LayerPrecedence[3] = "staging"
  BY DEF LayerPrecedence
<1>3. ASSUME NEW n \in 1 .. 3, LayerPrecedence[n] = c.layer PROVE Rank(c) = n
  <2>1. \A i \in 1 .. 3 : LayerPrecedence[i] = c.layer => i = n
    BY <1>2, <1>3
  <2> QED BY <1>1, <1>3, <2>1 DEF Rank
<1> QED BY <1>2, <1>3

\* A record that is covered by an entry no supersede has marked is in a file the
\* index lists.
LEMMA UnmarkedIsListed ==
  ASSUME TypeOK, index \notin NoTable, IndexGaps = {},
         NEW f \in Files, NEW q \in Records(f), ~Marked(q)
  PROVE  f \in ActiveFiles
<1>1. index \in [Ids -> IndexEntry \cup {None}]
  BY DEF TypeOK
<1>2. Covers(q, f)
  BY DEF IndexGaps
<1>3. q \in Requests
  BY ElementOfSeq, LenProperties DEF TypeOK, Records
<1>4. Id(q) \in Ids /\ index[Id(q)] # None /\ index[Id(q)].file = f
  BY <1>2, <1>3, RouteType DEF Covers, Entry
<1>5. index[Id(q)].status = "active"
  BY <1>1, <1>4 DEF IndexEntry, Marked, Entry
<1> QED BY <1>4, <1>5 DEF ActiveFiles, Entry

LEMMA ListedFiles ==
  ASSUME TypeOK, index \notin NoTable
  PROVE  /\ ActiveFiles \subseteq Files
         /\ \A p \in IndexReaders : ResolvedFiles(p) = ActiveFiles
<1>1. index \in [Ids -> IndexEntry \cup {None}]
  BY DEF TypeOK
<1>2. ActiveFiles \subseteq Files
  BY <1>1 DEF ActiveFiles, IndexEntry, Entry
<1>3. \A p \in IndexReaders : ResolvedFiles(p) = ActiveFiles
  BY ReaderProfiles DEF ResolvedFiles, NoTable
<1> QED BY <1>2, <1>3

LEMMA FindingKinds ==
  /\ index # Blank /\ AuditReport("full") = {} =>
       ClaimConflicts("audit") = {} /\ index \notin NoTable /\ IndexGaps = {}
  /\ index # Blank /\ AuditReport("index-only") = {} => index \notin NoTable /\ IndexGaps = {}
BY DEF AuditReport, AuditFindings, ScopeAllows, NoTable

\* Whatever the state: without findings an unmarked record is what every workflow
\* that reads the index is told about its claim.
LEMMA SoundAudit == TypeOK => AuditVouches
<1> SUFFICES ASSUME TypeOK, index # Blank, AuditReport("full") = {},
                    NEW q \in Live, NEW p \in IndexReaders, ~Marked(q)
             PROVE  Sees(p, q)
  BY DEF AuditVouches, VouchedFor
<1> DEFINE key == ClaimKey(q)
<1>1. ClaimConflicts("audit") = {} /\ index \notin NoTable /\ IndexGaps = {}
  BY FindingKinds
<1>2. PICK f \in Files : q \in Records(f)
  BY DEF Live
<1>3. f \in ActiveFiles
  BY <1>1, <1>2, UnmarkedIsListed
<1>4. GlobalClaims(p) = GlobalClaims("audit")
  BY <1>1, ListedFiles, AuditReadsIndex DEF GlobalClaims
<1> DEFINE own == Claim("global-project-memory", f, q)
<1>5. own \in GlobalClaims("audit")
  BY <1>1, <1>2, <1>3, ListedFiles, AuditReadsIndex DEF GlobalClaims
<1>6. own.layer = "global-project-memory" /\ own.record = q
  BY DEF Claim
<1>7. ASSUME NEW r, NEW c \in Claims(r)
      PROVE  \/ c \in GlobalClaims(r) /\ c.layer = "global-project-memory" /\ Rank(c) = 1
             \/ Rank(c) \in {2, 3}
  <2>1. CASE c \in GlobalClaims(r)
    BY <2>1, Ranks DEF GlobalClaims, Claim
  <2>2. CASE c \in SupportingClaims(r)
    <3>1. c.layer = "task-memory" \/ c.layer = "staging"
      BY <2>2 DEF SupportingClaims, Claim
    <3> QED BY <3>1, Ranks
  <2> QED BY <1>7, <2>1, <2>2 DEF Claims
<1>8. Rank(own) = 1
  BY <1>6, Ranks
<1> HIDE DEF own
<1>9. own \in Foremost("audit", key) /\ own \in Foremost(p, key)
  BY <1>4, <1>5, <1>6, <1>7, <1>8 DEF Foremost, Claims
<1>10. ASSUME NEW c \in Foremost(p, key)
       PROVE  c.layer = "global-project-memory" /\ c.record.statement = q.statement
  <2>1. c \in Claims(p) /\ ClaimKey(c.record) = key /\ Rank(c) <= 1
    BY <1>4, <1>5, <1>6, <1>8, <1>10 DEF Foremost, Claims
  <2>2. c \in GlobalClaims(p) /\ c.layer = "global-project-memory"
    BY <1>7, <2>1
  <2>3. c \in Claims("audit")
    BY <1>4, <2>2 DEF Claims
  <2>4. own.record.statement = c.record.statement
    BY <1>1, <1>9, <2>1, <2>3 DEF ClaimConflicts
  <2> QED BY <1>6, <2>2, <2>4
<1> QED BY <1>9, <1>10 DEF Sees

\* Whatever the state: where the index has no gaps, the report finds what the write
\* pipeline finds.
LEMMA SameMatches == TypeOK => CandidatesAgree
<1> SUFFICES ASSUME TypeOK, index # Blank, AuditReport("index-only") = {}, NEW r,
                    \A q \in Live : SameClaim(q, r) => ~Marked(q)
             PROVE  /\ Classification(r) = "duplicate-existing" <=> Duplicates(r) # {}
                    /\ Classification(r) = "needs-supersede-review" => Conflicts(r) # {}
  BY DEF CandidatesAgree
<1>1. index \notin NoTable /\ IndexGaps = {}
  BY FindingKinds
<1>2. /\ ActiveFiles \subseteq Files
      /\ ResolvedFiles("candidate") = ActiveFiles
  BY <1>1, ListedFiles, AuditReadsIndex
<1>3. ASSUME NEW q \in GlobalMatches(r) PROVE q \in Live /\ SameClaim(q, r)
  BY <1>2, <1>3 DEF GlobalMatches, GlobalClaims, Claim, Live
<1>4. ASSUME NEW q \in Live, SameClaim(q, r) PROVE q \in GlobalMatches(r)
  <2>1. PICK f \in Files : q \in Records(f)
    BY DEF Live
  <2>2. f \in ActiveFiles
    BY <1>1, <1>4, <2>1, UnmarkedIsListed
  <2>3. Claim("global-project-memory", f, q) \in GlobalClaims("candidate")
    BY <1>2, <2>1, <2>2 DEF GlobalClaims
  <2>4. Claim("global-project-memory", f, q).record = q
    BY DEF Claim
  <2> QED BY <1>4, <2>3, <2>4 DEF GlobalMatches
<1>5. \A q \in GlobalMatches(r) : q.statement # r.statement => q \in Conflicts(r)
  BY <1>3 DEF Conflicts, SameClaim
<1>6. (\E q \in GlobalMatches(r) : q.statement = r.statement) <=> Duplicates(r) # {}
  BY <1>3, <1>4 DEF Duplicates
<1> QED BY <1>5, <1>6 DEF Classification

\* An audit without findings vouches for what the readers of the index are told, in
\* every state the writers of project memory can leave, whatever failed, but that of a
\* blank index, which the audit passes (run readers-blank).
THEOREM AuditIsSound == Spec => []AuditVouches
BY TypeCorrect, SoundAudit, PTL

\* Without gaps in an index that is not blank the candidate report and the write pipeline
\* agree about every candidate, in every such state.
THEOREM ReportsAgree == Spec => []CandidatesAgree
BY TypeCorrect, SameMatches, PTL

-----------------------------------------------------------------------------
(***************************************************************************)
(* The retrieval index, whatever builds and sessions do at the same time.  *)
(***************************************************************************)

BuildInv ==
  /\ TrailInv
  /\ builder = NotBuilding \/ builder \in [phase : {"read", "rename"}, seen : Seq(Contents),
                                           listed : SUBSET (Files \cup {MemoryIndexFile})]
  /\ retrieval \in {None} \cup Seq(Contents)

LEMMA ContentType ==
  ASSUME TypeOK
  PROVE  /\ <<>> \in Contents
         /\ \A d \in Files \cup {MemoryIndexFile} : Content(d) \in Contents
BY EmptySeq DEF TypeOK, Content, Contents

LEMMA DocumentsType ==
  /\ Documents \in Seq(Files \cup {MemoryIndexFile})
  /\ Len(Documents) = Len(FileOrder) + 1
  /\ Len(FileOrder) \in Nat
  /\ \A i \in 1 .. Len(FileOrder) : Documents[i] = FileOrder[i] /\ FileOrder[i] \in Files
<1>1. FileOrder \in Seq(Files) /\ Len(FileOrder) \in Nat
  BY FileAssumption, LenProperties
<1>2. \A i \in 1 .. Len(FileOrder) : FileOrder[i] \in Files
  BY <1>1, ElementOfSeq
<1>3. FileOrder \in Seq(Files \cup {MemoryIndexFile})
  BY <1>1, SeqMonotonic
<1>4. <<MemoryIndexFile>> \in Seq(Files \cup {MemoryIndexFile}) /\ Len(<<MemoryIndexFile>>) = 1
  OBVIOUS
<1> QED BY <1>1, <1>2, <1>3, <1>4, ConcatProperties DEF Documents

LEMMA BuildStep == BuildInv /\ [RetrievalNext]_<<vars, retrievalVars>> => BuildInv'
<1> SUFFICES ASSUME BuildInv, [RetrievalNext]_<<vars, retrievalVars>> PROVE BuildInv'
  OBVIOUS
<1>0. TypeOK
  BY DEF BuildInv, TrailInv, Typing
<1>1. CASE Next /\ UNCHANGED retrievalVars
  <2>1. TrailInv'
    BY <1>1, TrailStep DEF BuildInv
  <2> QED BY <1>1, <2>1 DEF BuildInv, retrievalVars
<1>2. ASSUME UNCHANGED vars PROVE TrailInv'
  BY <1>2, TrailStep DEF BuildInv
<1>3. CASE BeginBuild /\ UNCHANGED vars
  <2>1. builder' \in [phase : {"read", "rename"}, seen : Seq(Contents),
                      listed : SUBSET (Files \cup {MemoryIndexFile})]
    BY <1>3, EmptySeq DEF BeginBuild
  <2> QED BY <1>2, <1>3, <2>1 DEF BuildInv, BeginBuild
<1>4. CASE ReadDocument /\ UNCHANGED vars
  <2> DEFINE d == Documents[Len(builder.seen) + 1]
             c == IF d \in builder.listed THEN Content(d) ELSE <<>>
  <2>1. /\ builder \in [phase : {"read", "rename"}, seen : Seq(Contents),
                        listed : SUBSET (Files \cup {MemoryIndexFile})]
        /\ builder' = [builder EXCEPT !.seen = Append(@, c)] /\ UNCHANGED retrieval
    BY <1>4 DEF ReadDocument, BuildInv, NotBuilding
  <2>2. c \in Contents
    BY <1>0, <2>1, ContentType
  <2> HIDE DEF c
  <2>3. Append(builder.seen, c) \in Seq(Contents)
    BY <2>1, <2>2, AppendProperties
  <2>4. builder' \in [phase : {"read", "rename"}, seen : Seq(Contents),
                      listed : SUBSET (Files \cup {MemoryIndexFile})]
    BY <2>1, <2>3
  <2> QED BY <1>2, <1>4, <2>1, <2>4 DEF BuildInv
<1>5. CASE WriteTemporary /\ UNCHANGED vars
  BY <1>2, <1>5 DEF WriteTemporary, BuildInv, NotBuilding
<1>6. CASE RenameTemporary /\ UNCHANGED vars
  BY <1>2, <1>6 DEF RenameTemporary, BuildInv, NotBuilding
<1>7. CASE CrashInBuild /\ UNCHANGED vars
  BY <1>2, <1>7 DEF CrashInBuild, BuildInv, NotBuilding
<1>8. CASE UNCHANGED <<vars, retrievalVars>>
  <2>1. UNCHANGED vars /\ UNCHANGED retrievalVars
    BY <1>8
  <2> QED BY <1>2, <2>1 DEF BuildInv, retrievalVars
<1> QED BY <1>1, <1>3, <1>4, <1>5, <1>6, <1>7, <1>8 DEF RetrievalNext

\* An index that is called fresh holds what is in the files now: it can only be
\* wrong about what was committed where the files are.
LEMMA FreshHolds ==
  ASSUME BuildInv, Staleness = "fresh"
  PROVE  UNION {{retrieval[i][j] : j \in DOMAIN retrieval[i]} : i \in 1 .. Len(Documents) - 1} = Live
<1>1. \A i \in 1 .. Len(FileOrder) + 1 : retrieval[i] = Content(Documents[i])
  BY DocumentsType, LenProperties DEF Staleness
<1>2. \A i \in 1 .. Len(FileOrder) : FileOrder[i] \in Files /\ retrieval[i] = store[FileOrder[i]]
  BY <1>1, DocumentsType, RetrievalAssumption DEF Content
<1>3. Len(Documents) - 1 = Len(FileOrder)
  BY DocumentsType
<1>4. \A f \in Files : \E i \in 1 .. Len(FileOrder) : FileOrder[i] = f
  BY FileAssumption
<1> QED BY <1>2, <1>3, <1>4 DEF Live, Records

\* Whatever is written while a build reads, and wherever it dies: the index in place
\* parses, and one that is called fresh holds what was committed and nothing else.
THEOREM FreshIndexIsCommitted == RetrievalSpec => []FreshIsCommitted
<1>1. RetrievalInit => BuildInv
  <2>1. Init => TrailInv
    BY TrailInit
  <2> QED BY <2>1 DEF RetrievalInit, BuildInv, NotBuilding
<1>2. BuildInv => FreshIsCommitted
  <2> SUFFICES ASSUME BuildInv PROVE FreshIsCommitted
    OBVIOUS
  <2>1. Loads
    BY RetrievalAssumption, SentinelAssumption DEF BuildInv, Loads
  <2>2. faults = 0 /\ NoneApplying => Live \subseteq audit.success
    BY TrailHolds DEF BuildInv, TrailIsComplete
  <2> QED BY <2>1, <2>2, FreshHolds DEF FreshIsCommitted
<1> QED BY <1>1, <1>2, BuildStep, PTL DEF RetrievalSpec
=============================================================================
