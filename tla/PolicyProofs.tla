---------------------------- MODULE PolicyProofs ----------------------------
(***************************************************************************)
(* What the policies let through.  In front of a workflow, for every       *)
(* manifest and every request: an apply with write authority was previewed *)
(* and approved, and more risk never opens what was closed; no hypothesis  *)
(* on the manifests is needed, not even that they load.  Of delegations:   *)
(* a chain never widens, however long it is and whatever the requests in   *)
(* it ask for.  Of the CI lane: proposals are whole, for every list of     *)
(* candidates, every sanitizing of names and every number of jobs, however *)
(* they are killed and run again.                                          *)
(***************************************************************************)
EXTENDS RuntimeGate, Delegation, CiLane, TLAPS

Verdict == {"allow", "ask", "require-preview", "deny"}

\* Only allow alone makes allow.
LEMMA AllowIsUnanimous ==
  ASSUME NEW V \in SUBSET Verdict, PickOverallVerdict(V) = "allow"
  PROVE  V \subseteq {"allow"}
BY DEF PickOverallVerdict, Verdict

LEMMA OverallType == \A V : PickOverallVerdict(V) \in Verdict
BY DEF PickOverallVerdict, Verdict

LEMMA Precedences ==
  /\ Precedence("allow") = 0 /\ Precedence("ask") = 1
  /\ Precedence("require-preview") = 2 /\ Precedence("deny") = 3
BY DEF Precedence

\* Stricter opinions make no milder verdict.
LEMMA OverallMonotone ==
  ASSUME NEW V \in SUBSET Verdict, NEW W \in SUBSET Verdict,
         \A v \in V : \E w \in W \cup {"allow"} : Precedence(v) <= Precedence(w)
  PROVE  Precedence(PickOverallVerdict(V)) <= Precedence(PickOverallVerdict(W))
<1>1. /\ "deny" \in V => "deny" \in W
      /\ "require-preview" \in V => {"require-preview", "deny"} \cap W # {}
      /\ "ask" \in V => {"ask", "require-preview", "deny"} \cap W # {}
  BY Precedences DEF Verdict
<1> QED BY <1>1, Precedences DEF PickOverallVerdict

-----------------------------------------------------------------------------
(***************************************************************************)
(* The verdict of the policy engine.                                       *)
(***************************************************************************)

\* The opinions that EvaluatePolicy picks the strictest of.
Opinions(c, q) ==
  (IF Denials(c, q) THEN {"deny"} ELSE {})
  \cup (IF PreviewRequired(c, q) THEN {"require-preview"} ELSE {})
  \cup (IF c.memory.authoritative /\ "apply" \in q.facts /\ "explicit" \notin q.facts
        THEN {"ask"} ELSE {})
  \cup EvaluateTools(q)

LEMMA OpinionsType == \A c, q : Opinions(c, q) \in SUBSET Verdict
<1> SUFFICES ASSUME NEW c, NEW q PROVE Opinions(c, q) \in SUBSET Verdict
  OBVIOUS
<1>1. EvaluateTools(q) \subseteq Verdict
  BY DEF EvaluateTools, Verdict
<1> QED BY <1>1 DEF Opinions, Verdict

LEMMA PolicyVerdict ==
  \A c, q : EvaluatePolicy(c, q) = IF FailsClosed(c) THEN "deny"
                                   ELSE PickOverallVerdict(Opinions(c, q))
BY DEF EvaluatePolicy, Opinions

LEMMA PolicyType == \A c, q : EvaluatePolicy(c, q) \in Verdict
BY PolicyVerdict, OpinionsType, OverallType DEF Verdict

\* Only allow blocks no operation.
LEMMA AllowBlocksNothing == \A v \in Verdict : BlockedOperations(v) = {} <=> v = "allow"
BY DEF BlockedOperations, Verdict

\* What evaluatePolicy allows has no opinion against it.
LEMMA AllowedHasNoObjection ==
  ASSUME NEW c, NEW q, EvaluatePolicy(c, q) = "allow"
  PROVE  /\ ~Denials(c, q)
         /\ ~PreviewRequired(c, q)
         /\ c.memory.authoritative /\ "apply" \in q.facts => "explicit" \in q.facts
         /\ "missing" \notin q.facts
<1>1. PickOverallVerdict(Opinions(c, q)) = "allow"
  BY PolicyVerdict
<1>2. Opinions(c, q) \subseteq {"allow"}
  BY <1>1, OpinionsType, AllowIsUnanimous
<1>3. {"deny", "require-preview", "ask"} \cap Opinions(c, q) = {}
  BY <1>2
<1>4. "missing" \notin q.facts
  BY <1>3 DEF Opinions, EvaluateTools
<1> QED BY <1>3, <1>4 DEF Opinions

-----------------------------------------------------------------------------
(***************************************************************************)
(* An apply is confirmed.                                                  *)
(***************************************************************************)

Calls ==
  [manifest : Manifests, runtime : Runtimes,
   request : [facts : SUBSET (Dangers \cup Confirmations), surface : Surfaces, caps : Asked]]

\* What an adapter answered is what it answers to the call that was made.
AnswersCall == call \in Calls /\ outcome = Answer(call)

LEMMA AnswersInit == GateInit => AnswersCall
BY DEF GateInit, AnswersCall, Calls

\* Asking again changes the facts of the call and nothing else of it.
LEMMA AskStep ==
  ASSUME call \in Calls, GateNext
  PROVE  /\ call' \in Calls
         /\ call'.manifest = call.manifest /\ call'.runtime = call.runtime
         /\ outcome' = Answer(call')
<1>1. PICK facts \in SUBSET (Dangers \cup Confirmations) : Ask(facts)
  BY DEF GateNext, AskWith, AskWithout, Calls
<1> QED BY <1>1 DEF Ask, Calls

LEMMA AnswersStep == AnswersCall /\ [GateNext]_gateVars => AnswersCall'
BY AskStep DEF AnswersCall, gateVars

\* The policy is asked about the request that was made, but for where it was to go.
LEMMA LaneChangesLittle ==
  ASSUME AnswersCall
  PROVE  /\ \A f : f # "elsewhere" =>
                (f \in InLane(call.request).facts <=> f \in call.request.facts)
         /\ InLane(call.request).caps = call.request.caps
         /\ InLane(call.request).surface = call.request.surface
BY DEF AnswersCall, Calls, InLane

\* What enforceWorkflow lets apply was allowed by the policy on the contract it built.
LEMMA AppliedWasAllowed ==
  ASSUME AnswersCall, Applies
  PROVE  EvaluatePolicy(Envelope(call.manifest, call.runtime), InLane(call.request)) = "allow"
<1> DEFINE verdict == EvaluatePolicy(Envelope(call.manifest, call.runtime), InLane(call.request))
<1>1. outcome = Enforce(call.manifest, call.runtime, call.request, verdict)
  BY DEF AnswersCall, Applies, Answer, EnforceWorkflow, Block
<1>2. verdict \in Verdict
  BY PolicyType
<1> HIDE DEF verdict
<1>3. ~PolicyBlocks(verdict, call.request)
  BY <1>1 DEF Enforce, Block, Applies
<1>4. verdict = "allow"
  BY <1>2, <1>3, AllowBlocksNothing DEF PolicyBlocks, Applies
<1> QED BY <1>4 DEF verdict

\* RuntimeGate: an apply that goes through on a pack with write authority was
\* previewed and approved, and nothing the policy forbids was going on.
THEOREM AppliesAreConfirmed == GateSpec => []AppliesOnlyConfirmed
<1>1. AnswersCall => AppliesOnlyConfirmed
  <2> SUFFICES ASSUME AnswersCall, Applies, IsWriteAuthority(call.manifest)
               PROVE  /\ {"preview", "explicit"} \subseteq call.request.facts
                      /\ {"hidden", "promote", "read_only", "conflicts", "missing"}
                           \cap call.request.facts = {}
                      /\ "fallback" \in call.request.facts
                           => "allow_fallback" \in call.request.facts
                      /\ call.request.caps \subseteq call.manifest.caps
    BY DEF AppliesOnlyConfirmed
  <2> DEFINE c == Envelope(call.manifest, call.runtime)
             q == InLane(call.request)
  <2>1. /\ c.memory.authoritative = TRUE /\ c.memory.no_hidden_write = TRUE
        /\ c.no_silent_fallback = TRUE
        /\ c.capability.granted \subseteq call.manifest.caps
    BY DEF Envelope, MemoryContract, CapabilityScope
  <2>2. EvaluatePolicy(c, q) = "allow"
    BY AppliedWasAllowed
  <2>3. "apply" \in q.facts
    BY LaneChangesLittle DEF Applies
  <2> HIDE DEF c, q
  <2>4. /\ ~Denials(c, q)
        /\ ~PreviewRequired(c, q)
        /\ "explicit" \in q.facts
        /\ "missing" \notin q.facts
    BY <2>1, <2>2, <2>3, AllowedHasNoObjection
  <2>5. "preview" \in q.facts
    BY <2>1, <2>3, <2>4 DEF PreviewRequired
  <2>6. /\ {"hidden", "promote", "read_only", "conflicts"} \cap q.facts = {}
        /\ "fallback" \in q.facts => "allow_fallback" \in q.facts
        /\ q.caps \subseteq c.capability.granted
    BY <2>1, <2>4 DEF Denials, UnsupportedCapabilities
  <2>7. /\ \A f : f # "elsewhere" => (f \in q.facts <=> f \in call.request.facts)
        /\ q.caps = call.request.caps
    BY LaneChangesLittle DEF q
  <2> QED BY <2>1, <2>4, <2>5, <2>6, <2>7
<1> QED BY <1>1, AnswersInit, AnswersStep, PTL DEF GateSpec

-----------------------------------------------------------------------------
(***************************************************************************)
(* Risk never opens.                                                       *)
(***************************************************************************)

\* A riskier request has every opinion against it that the other has, or a stricter.
LEMMA OpinionsGrow ==
  ASSUME NEW c, NEW q, NEW r, Riskier(q, r)
  PROVE  \A v \in Opinions(c, q) : v \in Opinions(c, r) \/ "deny" \in Opinions(c, r)
<1>1. /\ \A d \in Dangers : d \in q.facts => d \in r.facts
      /\ \A k \in Confirmations : k \in r.facts => k \in q.facts
      /\ q.caps \subseteq r.caps
      /\ q.surface = r.surface
  BY DEF Riskier
<1>2. DeriveRiskProfile(c, q) \subseteq DeriveRiskProfile(c, r)
  BY <1>1 DEF DeriveRiskProfile, Dangers
<1>3. Denials(c, q) => Denials(c, r)
  BY <1>1, <1>2 DEF Denials, UnsupportedCapabilities, Dangers, Confirmations
<1>4. PreviewRequired(c, q) => PreviewRequired(c, r)
  BY <1>1, <1>2 DEF PreviewRequired, Dangers, Confirmations
<1>5. \A v \in EvaluateTools(q) : v \in EvaluateTools(r) \/ "deny" \in EvaluateTools(r)
  BY <1>1 DEF EvaluateTools, Dangers
<1>6. /\ "apply" \in q.facts => "apply" \in r.facts
      /\ "explicit" \in r.facts => "explicit" \in q.facts
  BY <1>1 DEF Dangers, Confirmations
<1> QED BY <1>3, <1>4, <1>5, <1>6 DEF Opinions

LEMMA PolicyMonotone ==
  ASSUME NEW c, NEW q, NEW r, Riskier(q, r)
  PROVE  Precedence(EvaluatePolicy(c, q)) <= Precedence(EvaluatePolicy(c, r))
<1>1. CASE FailsClosed(c)
  BY <1>1, PolicyVerdict, Precedences
<1>2. CASE ~FailsClosed(c)
  <2>1. \A v \in Verdict : /\ Precedence(v) \in Nat
                           /\ Precedence(v) <= Precedence(v)
                           /\ Precedence(v) <= Precedence("deny")
    BY Precedences DEF Verdict
  <2>2. \A v \in Opinions(c, q) :
          \E w \in Opinions(c, r) \cup {"allow"} : Precedence(v) <= Precedence(w)
    BY <2>1, OpinionsGrow, OpinionsType
  <2>3. Precedence(PickOverallVerdict(Opinions(c, q)))
          <= Precedence(PickOverallVerdict(Opinions(c, r)))
    BY <2>2, OpinionsType, OverallMonotone
  <2> QED BY <1>2, <2>3, PolicyVerdict
<1> QED BY <1>1, <1>2

\* RuntimeGate: asking again with more at stake, or with less confirmed, never opens
\* what was closed and never softens the verdict.
THEOREM RiskKeepsShut == GateSpec => RiskNeverOpens
<1>1. AnswersCall /\ [GateNext]_gateVars => [StaysShut]_gateVars
  <2> SUFFICES ASSUME AnswersCall, GateNext, Riskier(call.request, call'.request)
               PROVE  /\ outcome.status = "blocked" => outcome'.status = "blocked"
                      /\ outcome.verdict # "none" =>
                           Precedence(outcome.verdict) <= Precedence(outcome'.verdict)
    BY DEF StaysShut
  <2> DEFINE m == call.manifest
             r == call.runtime
             before == EvaluatePolicy(Envelope(m, r), InLane(call.request))
             after == EvaluatePolicy(Envelope(m, r), InLane(call'.request))
  <2>1. /\ outcome = EnforceWorkflow(m, r, call.request)
        /\ outcome' = EnforceWorkflow(m, r, call'.request)
    BY AskStep DEF AnswersCall, Answer
  <2>2. Precedence(before) <= Precedence(after)
    <3>1. Riskier(InLane(call.request), InLane(call'.request))
      BY AskStep DEF AnswersCall, Calls, InLane, Riskier
    <3> QED BY <3>1, PolicyMonotone
  <2>3. before \in Verdict /\ after \in Verdict
    BY PolicyType
  <2>4. CASE ~BuildsContractEnvelope(m, r)
    BY <2>1, <2>4 DEF EnforceWorkflow, Block
  <2>5. CASE BuildsContractEnvelope(m, r)
    <3>1. /\ outcome = Enforce(m, r, call.request, before)
          /\ outcome' = Enforce(m, r, call'.request, after)
      BY <2>1, <2>5 DEF EnforceWorkflow
    <3>2. /\ "apply" \in call.request.facts => "apply" \in call'.request.facts
          /\ call.request.surface = call'.request.surface
      BY DEF Riskier, Dangers
    <3> HIDE DEF m, r, before, after
    <3>3. outcome.verdict = before /\ outcome'.verdict = after
      BY <3>1 DEF Enforce, Block
    <3>4. before # "allow" => after # "allow"
      BY <2>2, <2>3, Precedences DEF Verdict
    <3>5. outcome.status = "blocked" => outcome'.status = "blocked"
      BY <2>3, <3>1, <3>2, <3>4, AllowBlocksNothing DEF Enforce, Block, PolicyBlocks
    <3> QED BY <2>2, <3>3, <3>5
  <2> QED BY <2>4, <2>5
<1> QED BY <1>1, AnswersInit, AnswersStep, PTL DEF GateSpec, RiskNeverOpens
-----------------------------------------------------------------------------
(***************************************************************************)
(* Delegation does not widen.                                              *)
(***************************************************************************)

\* A worker calls for the pack of the first caller.
SamePack == holder.pack = root.pack

\* What is inductive: the property with the pack and the shape of the first caller.
NarrowInv ==
  /\ root \in [pack : CallerPacks, caps : SUBSET Capabilities, paths : SUBSET Paths]
  /\ SamePack
  /\ DelegationNeverWidens

LEMMA DelegationType ==
  \A action, caller, q : EvaluateDelegationPolicy(action, caller, q) \in Verdict
<1> SUFFICES ASSUME NEW action, NEW caller, NEW q
             PROVE  EvaluateDelegationPolicy(action, caller, q) \in Verdict
  OBVIOUS
<1>1. Baseline(action) \in Verdict
  BY DEF Baseline, Verdict
<1> QED BY <1>1, OverallType DEF EvaluateDelegationPolicy, Verdict

\* A worker is only accepted if evaluateAuthoritySubset and the paths have no reason
\* against it: any deny makes the whole verdict a deny.
LEMMA AcceptedIsWithin ==
  ASSUME NEW caller, NEW q, OverallVerdict(caller, q) = "allow"
  PROVE  ~ExceedsAuthority(caller, q) /\ ~ExceedsCallerPaths(caller, q)
<1> DEFINE Verdict1 == EvaluateDelegationPolicy("create_task", caller, q)
           Verdict2 == EvaluateDelegationPolicy(PrimaryAction(q), caller, q)
<1>1. Verdict1 = "allow"
  <2>1. Verdict1 \in Verdict /\ Verdict2 \in Verdict
    BY DelegationType
  <2>2. PickOverallVerdict({Verdict1, Verdict2}) = "allow"
    BY DEF OverallVerdict
  <2> HIDE DEF Verdict1, Verdict2
  <2> QED BY <2>1, <2>2, AllowIsUnanimous
<1> DEFINE Reasons == IF \/ q.amiss # {}
                         \/ ExceedsAuthority(caller, q)
                         \/ ExceedsCallerPaths(caller, q)
                         \/ Disabled("create_task", q)
                      THEN {"deny"} ELSE {}
<1>2. {Baseline("create_task")} \cup Reasons \subseteq {"allow"}
  <2>1. {Baseline("create_task")} \cup Reasons \in SUBSET Verdict
    BY DEF Baseline, Verdict
  <2>2. PickOverallVerdict({Baseline("create_task")} \cup Reasons) = "allow"
    BY <1>1 DEF EvaluateDelegationPolicy
  <2> HIDE DEF Reasons
  <2> QED BY <2>1, <2>2, AllowIsUnanimous
<1>3. "deny" \notin Reasons
  <2> HIDE DEF Reasons
  <2> QED BY <1>2
<1> QED BY <1>3

\* Delegation: whoever acts at the end of a chain of delegations holds nothing that
\* the first caller did not hold.
THEOREM ChainsNeverWiden ==
  DelegationSpec => []DelegationNeverWidens
<1>1. DelegationInit => NarrowInv
  BY ScopesAreNested DEF DelegationInit, NarrowInv, SamePack, DelegationNeverWidens
<1>2. NarrowInv /\ [DelegationNext]_delegationVars => NarrowInv'
  <2> SUFFICES ASSUME NarrowInv, [DelegationNext]_delegationVars PROVE NarrowInv'
    OBVIOUS
  <2>1. ASSUME NEW q \in Requests, RunDelegationScaffold(q) PROVE NarrowInv'
    <3>1. CASE result'.aborted
      BY <2>1, <3>1 DEF RunDelegationScaffold, NarrowInv, SamePack, DelegationNeverWidens
    <3>2. CASE ~result'.aborted
      <4>1. /\ holder' = [pack |-> holder.pack, caps |-> q.caps, paths |-> q.paths]
            /\ root' = root
        BY <2>1, <3>2 DEF RunDelegationScaffold
      <4>2. OverallVerdict(holder, q) = "allow"
        BY <2>1, <3>2 DEF RunDelegationScaffold, ResultEnvelope
      <4>3. ~ExceedsAuthority(holder, q) /\ ~ExceedsCallerPaths(holder, q)
        BY <4>2, AcceptedIsWithin
      <4>4. q.paths \subseteq Paths
        BY DEF Requests
      <4>5. holder'.caps \subseteq root'.caps
        BY <4>1, <4>3 DEF ExceedsAuthority, NarrowInv, DelegationNeverWidens
      <4>6. ASSUME NEW p \in holder'.paths PROVE Within[p] \cap root'.paths # {}
        <5>1. PICK h \in Within[p] : h \in holder.paths
          BY <4>1, <4>3 DEF ExceedsCallerPaths
        <5>2. Within[h] \subseteq Within[p]
          BY ScopesAreNested, <4>1, <4>4, <5>1
        <5>3. Within[h] \cap root.paths # {}
          BY <5>1 DEF NarrowInv, DelegationNeverWidens
        <5> QED BY <4>1, <5>2, <5>3
      <4>7. /\ "memory_write_global" \notin holder'.caps
            /\ \A c \in holder'.caps \cap HighRiskNames : root'.pack \in Grants[c]
        BY <4>1, <4>3 DEF ExceedsAuthority, NarrowInv, SamePack
      <4> QED BY <4>1, <4>5, <4>6, <4>7 DEF NarrowInv, SamePack, DelegationNeverWidens
    <3> QED BY <3>1, <3>2
  <2>2. CASE UNCHANGED delegationVars
    BY <2>2 DEF delegationVars, NarrowInv, SamePack, DelegationNeverWidens
  <2> QED BY <2>1, <2>2 DEF DelegationNext
<1> QED BY <1>1, <1>2, PTL DEF DelegationSpec, NarrowInv

-----------------------------------------------------------------------------
(***************************************************************************)
(* Proposals of the CI lane are whole.                                     *)
(***************************************************************************)

JobFields == {"pc", "provenance", "artifacts", "left", "entries"}
Entry(a, name) == [id |-> a.id, path |-> a.path, file |-> name]
There(r, file) == Final(file) \in DOMAIN dir[r]

\* A run's directory: what has a name of its own is whole, and what an index lists is
\* there.
DirSound(r) ==
  /\ \A file : There(r, file) => dir[r][Final(file)].whole
  /\ There(r, Index) =>
       /\ "ci_generate_patch_artifact" \in Content(r, Index).flags
       /\ \A i \in DOMAIN Entries(r) : There(r, Patch(Entries(r)[i].file))

\* The job: artifacts are written in order, those with a name are among the entries,
\* and each name holds the last that was written under it.
Proposed ==
  /\ DOMAIN job.artifacts \subseteq Nat /\ job.left \subseteq DOMAIN job.artifacts
  /\ \A k \in job.left, i \in DOMAIN job.artifacts \ job.left : i < k
  /\ DOMAIN job.artifacts # {} => "ci_generate_patch_artifact" \in job.provenance.flags
  /\ DOMAIN job.entries = {i \in DOMAIN job.artifacts \ job.left : Name(i) # Missing}
  /\ \A i \in DOMAIN job.entries : job.entries[i] = Entry(job.artifacts[i], Name(i))

Filed ==
  LET r == job.provenance.id
  IN  \A i \in DOMAIN job.entries :
        /\ There(r, Patch(Name(i)))
        /\ (\A k \in DOMAIN job.entries : Name(k) = Name(i) => k <= i) =>
             Content(r, Patch(Name(i))) = job.artifacts[i]

Running ==
  /\ JobFields \subseteq DOMAIN job /\ job.pc \in {"ran", "writing", "written"}
  /\ job.provenance.id \in RunIds \cup {Missing}
  /\ job.pc # "ran" \/ DOMAIN job.entries # {} => ValidProvenance(job.provenance)
  /\ Proposed
  /\ Filed
  /\ job.pc = "writing" => (\E i \in job.left : IsNext(i) /\ Name(i) # Missing)
                           \/ (job.left = {} /\ DOMAIN job.entries # {})
  /\ job.pc = "written" => /\ job.left = {}
                           /\ There(job.provenance.id, Index)
                           /\ Entries(job.provenance.id) = job.entries

CiInv ==
  /\ dir = [r \in RunIds |-> dir[r]]
  /\ \A r \in RunIds : DirSound(r)
  /\ job = NoJob \/ Running

-----------------------------------------------------------------------------
(***************************************************************************)
(* Files.                                                                  *)
(***************************************************************************)

LEMMA Names ==
  /\ \A file, other : Final(file) # Tmp(other)
  /\ \A file, other : Final(file) = Final(other) => file = other
  /\ \A name : Patch(name) # Index
  /\ \A name, other : Patch(name) = Patch(other) => name = other
BY DEF Final, Tmp, Patch, Index

\* A temporary file touches nothing that has a name.
LEMMA PutTmp ==
  ASSUME dir = [s \in RunIds |-> dir[s]], NEW r \in RunIds, NEW file, NEW c,
         Put(r, Tmp(file), c)
  PROVE  /\ dir' = [s \in RunIds |-> dir'[s]]
         /\ \A s \in RunIds : \A other : /\ There(s, other)' <=> There(s, other)
                                         /\ dir'[s][Final(other)] = dir[s][Final(other)] \/ ~There(s, other)
<1>1. /\ dir' = [s \in RunIds |-> dir'[s]]
      /\ \A s \in RunIds \ {r} : dir'[s] = dir[s]
      /\ dir'[r] = With(dir[r], Tmp(file), c)
  BY DEF Put
<1>2. /\ DOMAIN dir'[r] = DOMAIN dir[r] \cup {Tmp(file)}
      /\ \A f \in DOMAIN dir[r] \ {Tmp(file)} : dir'[r][f] = dir[r][f]
  BY <1>1 DEF With
<1> QED BY <1>1, <1>2, Names DEF There

\* A file that takes its name is there in full, and the others are as they were.
LEMMA RenameIs ==
  ASSUME dir = [s \in RunIds |-> dir[s]], NEW r \in RunIds, r = job.provenance.id,
         NEW file, NEW c, Rename(file, c)
  PROVE  /\ dir' = [s \in RunIds |-> dir'[s]]
         /\ \A s \in RunIds \ {r} : dir'[s] = dir[s]
         /\ There(r, file)' /\ dir'[r][Final(file)] = Whole(c)
         /\ \A other : other # file => /\ There(r, other)' <=> There(r, other)
                                       /\ dir'[r][Final(other)] = dir[r][Final(other)] \/ ~There(r, other)
<1>1. /\ dir' = [s \in RunIds |-> dir'[s]]
      /\ \A s \in RunIds \ {r} : dir'[s] = dir[s]
      /\ dir'[r] = With([f \in DOMAIN dir[r] \ {Tmp(file)} |-> dir[r][f]], Final(file), Whole(c))
  BY DEF Rename
<1>2. /\ DOMAIN dir'[r] = (DOMAIN dir[r] \ {Tmp(file)}) \cup {Final(file)}
      /\ dir'[r][Final(file)] = Whole(c)
      /\ \A f \in DOMAIN dir[r] \ {Tmp(file), Final(file)} : dir'[r][f] = dir[r][f]
  BY <1>1 DEF With
<1>3. There(r, file)'
  BY <1>2 DEF There
<1>4. ASSUME NEW other, other # file
      PROVE  /\ There(r, other)' <=> There(r, other)
             /\ dir'[r][Final(other)] = dir[r][Final(other)] \/ ~There(r, other)
  <2>1. Final(other) # Tmp(file) /\ Final(other) # Final(file)
    BY <1>4, Names
  <2> QED BY <1>2, <2>1 DEF There
<1> QED BY <1>1, <1>2, <1>3, <1>4

\* A patch that takes its name keeps every directory sound.
LEMMA PatchKeepsSound ==
  ASSUME CiInv, NEW r \in RunIds, r = job.provenance.id, NEW name, NEW a, Rename(Patch(name), a)
  PROVE  \A s \in RunIds : DirSound(s)'
<1>1. ASSUME NEW s \in RunIds \ {r} PROVE DirSound(s)'
  <2>1. dir'[s] = dir[s] /\ DirSound(s)
    BY <1>1, RenameIs DEF CiInv
  <2> QED BY <2>1 DEF DirSound, There, Content, Entries
<1>2. DirSound(r)'
  <2>1. /\ There(r, Patch(name))' /\ dir'[r][Final(Patch(name))] = Whole(a)
        /\ \A other : other # Patch(name) =>
             /\ There(r, other)' <=> There(r, other)
             /\ dir'[r][Final(other)] = dir[r][Final(other)] \/ ~There(r, other)
    BY RenameIs DEF CiInv
  <2>2. DirSound(r)
    BY DEF CiInv
  <2>3. \A file : There(r, file)' => dir'[r][Final(file)].whole
    BY <2>1, <2>2 DEF DirSound, Whole
  <2>4. There(r, Index)' => There(r, Index) /\ dir'[r][Final(Index)] = dir[r][Final(Index)]
    BY <2>1, Names
  <2> QED BY <2>1, <2>2, <2>3, <2>4 DEF DirSound, Content, Entries
<1> QED BY <1>1, <1>2

-----------------------------------------------------------------------------
(***************************************************************************)
(* The steps.                                                              *)
(***************************************************************************)

\* Artifacts come from a job that may generate them.
LEMMA ArtifactsAllowed ==
  ASSUME NEW j \in Jobs
  PROVE  /\ DOMAIN Artifacts(j) \subseteq Nat
         /\ DOMAIN Artifacts(j) # {} => "ci_generate_patch_artifact" \in j.flags
<1>1. DOMAIN <<>> = {}
  OBVIOUS
<1>2. DOMAIN Artifacts(j) \subseteq DOMAIN j.candidates
  BY <1>1 DEF Artifacts, CreatePatchArtifacts
<1>3. ASSUME Generates(j) PROVE "ci_generate_patch_artifact" \in j.flags
  <2> DEFINE denied == IF \/ j.amiss # {}
                          \/ "ci_lane_enabled" \notin j.flags
                          \/ "generate_diff" = "run_checks" /\ "ci_plan_only" \in j.flags
                          \/ "generate_diff" = "generate_diff" /\ "ci_generate_patch_artifact" \notin j.flags
                       THEN {"deny"} ELSE {}
  <2>1. PickOverallVerdict({CiBaseline("generate_diff")} \cup denied) = "allow"
    BY <1>3 DEF Generates, EvaluateCiPolicy
  <2>2. "deny" \notin denied
    <3> HIDE DEF denied
    <3> QED BY <2>1 DEF PickOverallVerdict
  <2> QED BY <2>2
<1> QED BY CandidatesAreLists, <1>1, <1>2, <1>3 DEF Artifacts

LEMMA RunStep ==
  ASSUME CiInv, NEW j \in Jobs, NEW id \in RunIds \cup {Missing},
         NEW failing, RunCiLane(j, id, failing)
  PROVE  CiInv'
<1> DEFINE artifacts == Artifacts(j)
<1>1. /\ dir' = dir /\ job'.pc = "ran" /\ JobFields \subseteq DOMAIN job'
      /\ job'.provenance = Provenance(j, id) /\ job'.artifacts = artifacts
      /\ job'.left = DOMAIN artifacts /\ job'.entries = <<>>
  BY DEF RunCiLane, JobFields
<1>2. DOMAIN job'.entries = {}
  BY <1>1
<1>3. /\ DOMAIN artifacts \subseteq Nat
      /\ DOMAIN artifacts # {} => "ci_generate_patch_artifact" \in j.flags
  BY ArtifactsAllowed
<1>4. Proposed'
  BY <1>1, <1>2, <1>3 DEF Proposed, Provenance
<1>5. Filed'
  BY <1>2 DEF Filed
<1>6. Running'
  BY <1>1, <1>2, <1>4, <1>5 DEF Running, Provenance
<1>7. \A r \in RunIds : DirSound(r)'
  BY <1>1 DEF CiInv, DirSound, There, Content, Entries
<1> QED BY <1>1, <1>6, <1>7 DEF CiInv

LEMMA SkipStep ==
  ASSUME CiInv, SkipPatch
  PROVE  CiInv'
<1>1. Running /\ job.pc = "ran" /\ dir' = dir
  BY DEF SkipPatch, CiInv, NoJob
<1>2. PICK n \in job.left : /\ IsNext(n) /\ Name(n) = Missing
                            /\ job' = [job EXCEPT !.left = @ \ {n}]
  BY DEF SkipPatch
<1>3. /\ JobFields \subseteq DOMAIN job' /\ job'.pc = "ran" /\ job'.provenance = job.provenance
      /\ job'.artifacts = job.artifacts /\ job'.entries = job.entries /\ job'.left = job.left \ {n}
  BY <1>1, <1>2 DEF Running, JobFields
<1>4. \A i : Name(i)' = Name(i)
  BY <1>3 DEF Name
<1>5. Proposed
  BY <1>1 DEF Running
<1>6. n \in Nat /\ \A k \in job'.left : n < k
  BY <1>2, <1>3, <1>5 DEF IsNext, Proposed
<1>7. Proposed'
  <2>1. \A k \in job'.left, i \in DOMAIN job.artifacts \ job'.left : i < k
    BY <1>2, <1>3, <1>5, <1>6 DEF Proposed
  <2>2. DOMAIN job.entries = {i \in DOMAIN job.artifacts \ job'.left : Name(i) # Missing}
    BY <1>2, <1>3, <1>5 DEF Proposed
  <2> QED BY <1>3, <1>4, <1>5, <2>1, <2>2 DEF Proposed
<1>8. Filed'
  BY <1>1, <1>3, <1>4 DEF Running, Filed, There, Content
<1>9. Running'
  BY <1>1, <1>3, <1>7, <1>8 DEF Running
<1>10. \A r \in RunIds : DirSound(r)'
  BY <1>1 DEF CiInv, DirSound, There, Content, Entries
<1> QED BY <1>1, <1>9, <1>10 DEF CiInv

LEMMA BeginStep ==
  ASSUME CiInv, BeginWrite
  PROVE  CiInv'
<1> DEFINE r == job.provenance.id
<1>1. Running /\ job.pc = "ran" /\ ValidProvenance(job.provenance)
  BY DEF BeginWrite, CiInv, NoJob
<1>2. r \in RunIds
  BY <1>1 DEF Running, ValidProvenance
<1>3. /\ \E file : Put(r, Tmp(file), Half)
      /\ job' = [job EXCEPT !.pc = "writing"]
      /\ (\E i \in job.left : IsNext(i) /\ Name(i) # Missing) \/ (job.left = {} /\ ~Done)
  BY DEF BeginWrite, Begin
<1>4. /\ JobFields \subseteq DOMAIN job' /\ job'.pc = "writing" /\ job'.provenance = job.provenance
      /\ job'.artifacts = job.artifacts /\ job'.entries = job.entries /\ job'.left = job.left
  BY <1>1, <1>3 DEF Running, JobFields
<1>5. /\ dir' = [s \in RunIds |-> dir'[s]]
      /\ \A s \in RunIds : \A other : /\ There(s, other)' <=> There(s, other)
                                      /\ dir'[s][Final(other)] = dir[s][Final(other)] \/ ~There(s, other)
  BY <1>2, <1>3, PutTmp DEF CiInv
<1>6. \A s \in RunIds : DirSound(s)'
  BY <1>5 DEF CiInv, DirSound, Content, Entries
<1>7. \A i : Name(i)' = Name(i) /\ (IsNext(i)' <=> IsNext(i))
  BY <1>4 DEF Name, IsNext
<1>8. Proposed'
  BY <1>1, <1>4, <1>7 DEF Running, Proposed
<1>9. Filed'
  BY <1>1, <1>2, <1>4, <1>5, <1>7 DEF Running, Filed, Content
<1>10. Running'
  BY <1>1, <1>3, <1>4, <1>7, <1>8, <1>9 DEF Running, Done
<1> QED BY <1>5, <1>6, <1>10 DEF CiInv

LEMMA WritePatchStep ==
  ASSUME CiInv, WritePatch
  PROVE  CiInv'
<1>1. Running /\ job.pc = "writing" /\ ValidProvenance(job.provenance) /\ Proposed /\ Filed
  BY DEF WritePatch, CiInv, NoJob, Running
<1>2. PICK r \in RunIds : r = job.provenance.id
  BY <1>1 DEF Running, ValidProvenance
<1>3. PICK n \in job.left :
        /\ IsNext(n)
        /\ Rename(Patch(Name(n)), job.artifacts[n])
        /\ job' = [job EXCEPT !.pc = "ran", !.left = @ \ {n},
                              !.entries = With(@, n, Entry(job.artifacts[n], Name(n)))]
  BY DEF WritePatch, Entry
<1>4. /\ JobFields \subseteq DOMAIN job' /\ job'.pc = "ran" /\ job'.provenance = job.provenance
      /\ job'.artifacts = job.artifacts /\ job'.left = job.left \ {n}
      /\ job'.entries = With(job.entries, n, Entry(job.artifacts[n], Name(n)))
  BY <1>1, <1>3 DEF Running, JobFields
<1>5. \A i : Name(i)' = Name(i)
  BY <1>4 DEF Name
<1>6. n \in Nat /\ (\A k \in job'.left : n < k) /\ \A i \in DOMAIN job.entries : i \in Nat /\ i < n
  BY <1>1, <1>3, <1>4 DEF IsNext, Proposed
<1>7. Name(n) # Missing
  <2>1. PICK i \in job.left : IsNext(i) /\ Name(i) # Missing
    BY <1>1, <1>3 DEF Running
  <2>2. i = n
    BY <1>1, <1>3, <2>1 DEF IsNext, Proposed
  <2> QED BY <2>1, <2>2
<1>8. /\ DOMAIN job'.entries = DOMAIN job.entries \cup {n}
      /\ job'.entries[n] = Entry(job.artifacts[n], Name(n))
      /\ \A i \in DOMAIN job.entries : job'.entries[i] = job.entries[i]
  BY <1>4, <1>6 DEF With
<1>9. Proposed'
  <2>1. \A k \in job'.left, i \in DOMAIN job.artifacts \ job'.left : i < k
    BY <1>1, <1>3, <1>4, <1>6 DEF Proposed
  <2>2. DOMAIN job'.entries = {i \in DOMAIN job.artifacts \ job'.left : Name(i) # Missing}
    BY <1>1, <1>3, <1>4, <1>7, <1>8 DEF Proposed
  <2>3. \A i \in DOMAIN job'.entries : job'.entries[i] = Entry(job.artifacts[i], Name(i))
    BY <1>1, <1>8 DEF Proposed
  <2> QED BY <1>1, <1>4, <1>5, <2>1, <2>2, <2>3 DEF Proposed
<1>10. PICK name, a : name = Name(n) /\ a = job.artifacts[n]
  OBVIOUS
<1>11. /\ dir' = [s \in RunIds |-> dir'[s]]
       /\ There(r, Patch(name))' /\ dir'[r][Final(Patch(name))] = Whole(a)
       /\ \A other : other # Patch(name) =>
            /\ There(r, other)' <=> There(r, other)
            /\ dir'[r][Final(other)] = dir[r][Final(other)] \/ ~There(r, other)
  <2>1. Rename(Patch(name), a)
    BY <1>3, <1>10
  <2> QED BY <1>2, <2>1, RenameIs DEF CiInv
<1>12. ASSUME NEW i \in DOMAIN job'.entries, NEW own, own = Name(i)
       PROVE  /\ There(r, Patch(own))'
              /\ (\A k \in DOMAIN job'.entries : Name(k) = own => k <= i) =>
                   Content(r, Patch(own))' = job.artifacts[i]
  <2>1. CASE own = name
    <3>1. i < n \/ i = n
      BY <1>6, <1>8
    <3>2. (\A k \in DOMAIN job'.entries : Name(k) = own => k <= i) => i = n
      BY <1>6, <1>8, <1>10, <1>12, <2>1, <3>1
    <3>3. dir'[r][Final(Patch(own))].content = a
      BY <1>11, <2>1 DEF Whole
    <3> QED BY <1>10, <1>11, <2>1, <3>2, <3>3 DEF Content
  <2>2. CASE own # name
    <3>1. i \in DOMAIN job.entries
      BY <1>8, <1>10, <1>12, <2>2
    <3>2. Patch(own) # Patch(name)
      BY <2>2, Names
    <3>3. /\ There(r, Patch(own))
          /\ (\A k \in DOMAIN job.entries : Name(k) = own => k <= i) =>
               Content(r, Patch(own)) = job.artifacts[i]
      BY <1>1, <1>2, <1>12, <3>1 DEF Filed
    <3>4. There(r, Patch(own))' /\ dir'[r][Final(Patch(own))] = dir[r][Final(Patch(own))]
      BY <1>11, <3>2, <3>3
    <3> QED BY <1>8, <3>3, <3>4 DEF Content
  <2> QED BY <2>1, <2>2
<1>13. Filed'
  <2>1. ASSUME NEW i \in DOMAIN job'.entries
        PROVE  /\ There(r, Patch(Name(i)))'
               /\ (\A k \in DOMAIN job'.entries : Name(k)' = Name(i)' => k <= i) =>
                    Content(r, Patch(Name(i)))' = job.artifacts[i]
    <3>1. PICK own : own = Name(i)
      OBVIOUS
    <3> QED BY <1>5, <1>12, <3>1 DEF There, Content
  <2> QED BY <1>2, <1>4, <2>1 DEF Filed
<1>14. Running'
  BY <1>1, <1>4, <1>9, <1>13 DEF Running
<1>15. \A s \in RunIds : DirSound(s)'
  <2>1. Rename(Patch(name), a)
    BY <1>3, <1>10
  <2> QED BY <1>2, <2>1, PatchKeepsSound
<1> QED BY <1>11, <1>14, <1>15 DEF CiInv

LEMMA WriteIndexStep ==
  ASSUME CiInv, WriteIndex
  PROVE  CiInv'
<1> DEFINE index == [sha |-> job.provenance.sha, flags |-> job.provenance.flags,
                     entries |-> job.entries]
<1>1. /\ Running /\ job.pc = "writing" /\ ValidProvenance(job.provenance) /\ Proposed /\ Filed
      /\ job.left = {}
  BY DEF WriteIndex, CiInv, NoJob, Running
<1>2. PICK r \in RunIds : r = job.provenance.id
  BY <1>1 DEF Running, ValidProvenance
<1>3. Rename(Index, index) /\ job' = [job EXCEPT !.pc = "written"]
  BY DEF WriteIndex
<1>4. /\ JobFields \subseteq DOMAIN job' /\ job'.pc = "written" /\ job'.provenance = job.provenance
      /\ job'.artifacts = job.artifacts /\ job'.entries = job.entries /\ job'.left = {}
  BY <1>1, <1>3 DEF Running, JobFields
<1>5. /\ dir' = [s \in RunIds |-> dir'[s]]
      /\ \A s \in RunIds \ {r} : dir'[s] = dir[s]
      /\ There(r, Index)' /\ dir'[r][Final(Index)] = Whole(index)
      /\ \A other : other # Index => /\ There(r, other)' <=> There(r, other)
                                     /\ dir'[r][Final(other)] = dir[r][Final(other)] \/ ~There(r, other)
  <2> HIDE DEF index
  <2> QED BY <1>2, <1>3, RenameIs DEF CiInv
<1>6. /\ dir'[r][Final(Index)].whole /\ dir'[r][Final(Index)].content.entries = job.entries
      /\ dir'[r][Final(Index)].content.flags = job.provenance.flags
  BY <1>5 DEF Whole
<1>7. \A i : Name(i)' = Name(i)
  BY <1>4 DEF Name
<1>8. Proposed'
  BY <1>1, <1>4, <1>7 DEF Proposed
<1>9. ASSUME NEW i \in DOMAIN job.entries, NEW own, own = Name(i)
      PROVE  /\ There(r, Patch(own))' /\ There(r, Patch(own))
             /\ dir'[r][Final(Patch(own))] = dir[r][Final(Patch(own))]
  <2>1. There(r, Patch(own)) /\ Patch(own) # Index
    BY <1>1, <1>2, <1>9, Names DEF Filed
  <2> QED BY <1>5, <2>1
<1>10. Filed'
  <2>1. ASSUME NEW i \in DOMAIN job.entries
        PROVE  /\ There(r, Patch(Name(i)))'
               /\ Content(r, Patch(Name(i)))' = Content(r, Patch(Name(i)))
    <3>1. PICK own : own = Name(i)
      OBVIOUS
    <3> QED BY <1>7, <1>9, <3>1 DEF There, Content
  <2> QED BY <1>1, <1>2, <1>4, <1>7, <2>1 DEF Filed
<1>11. Running'
  BY <1>1, <1>2, <1>4, <1>5, <1>6, <1>8, <1>10 DEF Running, Entries, Content
<1>12. ASSUME NEW s \in RunIds \ {r} PROVE DirSound(s)'
  <2>1. dir'[s] = dir[s] /\ DirSound(s)
    BY <1>5, <1>12 DEF CiInv
  <2> QED BY <2>1 DEF DirSound, There, Content, Entries
<1>13. DirSound(r)'
  <2>1. \A file : There(r, file)' => dir'[r][Final(file)].whole
    BY <1>2, <1>5, <1>6 DEF CiInv, DirSound
  <2>2. DOMAIN job.artifacts # {}
    BY <1>1 DEF Running, Proposed
  <2>3. "ci_generate_patch_artifact" \in dir'[r][Final(Index)].content.flags
    BY <1>1, <1>6, <2>2 DEF Proposed
  <2>4. ASSUME NEW i \in DOMAIN job.entries, NEW own, own = job.entries[i].file
        PROVE  There(r, Patch(own))'
    <3>1. job.entries[i] = Entry(job.artifacts[i], Name(i))
      BY <1>1 DEF Proposed
    <3>2. Entry(job.artifacts[i], Name(i)).file = Name(i)
      BY DEF Entry
    <3> QED BY <1>9, <2>4, <3>1, <3>2
  <2>5. \A i \in DOMAIN job.entries : Final(Patch(job.entries[i].file)) \in DOMAIN dir'[r]
    BY <2>4 DEF There
  <2> QED BY <1>6, <2>1, <2>3, <2>5 DEF DirSound, There, Content, Entries
<1> QED BY <1>5, <1>11, <1>12, <1>13 DEF CiInv

-----------------------------------------------------------------------------
LEMMA CiInvariance ==
  CiSpec => []CiInv
<1>1. CiInit => CiInv
  <2> SUFFICES ASSUME CiInit PROVE CiInv
    OBVIOUS
  <2>1. \A r \in RunIds : dir[r] = <<>> /\ DOMAIN dir[r] = {}
    BY DEF CiInit
  <2> QED BY <2>1 DEF CiInit, CiInv, DirSound, There
<1>2. CiInv /\ [CiNext]_ciVars => CiInv'
  <2> SUFFICES ASSUME CiInv, [CiNext]_ciVars PROVE CiInv'
    OBVIOUS
  <2>1. CASE UNCHANGED <<dir, job>>
    <3>1. \A r \in RunIds : DirSound(r)'
      BY <2>1 DEF CiInv, DirSound, There, Content, Entries
    <3>2. Running <=> Running'
      BY <2>1 DEF Running, Proposed, Filed, IsNext, Name, There, Content, Entries
    <3> QED BY <2>1, <3>1, <3>2 DEF CiInv
  <2>2. CASE UNCHANGED dir /\ job' = NoJob
    <3>1. \A r \in RunIds : DirSound(r)'
      BY <2>2 DEF CiInv, DirSound, There, Content, Entries
    <3> QED BY <2>2, <3>1 DEF CiInv
  <2>3. ASSUME NEW j \in Jobs, NEW id \in RunIds \cup {Missing}, NEW failing \in BOOLEAN,
               RunCiLane(j, id, failing)
        PROVE  CiInv'
    BY <2>3, RunStep
  <2> QED BY <2>1, <2>2, <2>3, SkipStep, BeginStep, WritePatchStep, WriteIndexStep
          DEF CiNext, EditRepository, Refuse, JobEnds, JobDies, ciVars
<1> QED BY <1>1, <1>2, PTL DEF CiSpec

\* However jobs are killed and run ids used again, an index that is there is whole and
\* allowed and lists patches that are there in full; that of a run that ends lists its
\* named artifacts, and their files are its own.
THEOREM ProposalsStayWhole ==
  CiSpec => []ProposalsAreWhole
<1>1. ASSUME CiInv PROVE ProposalsAreWhole
  <2>1. ASSUME NEW r \in RunIds, There(r, Index)
        PROVE  /\ Stands(r, Index)
               /\ "ci_generate_patch_artifact" \in Content(r, Index).flags
               /\ \A i \in DOMAIN Entries(r) : Stands(r, Patch(Entries(r)[i].file))
    BY <1>1, <2>1 DEF CiInv, DirSound, Stands, There
  <2>2. ASSUME job.pc = "written"
        PROVE  LET r == job.provenance.id
                   named == {i \in DOMAIN job.artifacts : Name(i) # Missing}
               IN  /\ Stands(r, Index) /\ DOMAIN Entries(r) = named
                   /\ \A i \in named :
                        /\ Entries(r)[i] = Entry(job.artifacts[i], Name(i))
                        /\ (\A k \in named : Name(k) = Name(i) => k <= i) =>
                             Content(r, Patch(Name(i))) = job.artifacts[i]
    <3> DEFINE r == job.provenance.id
               named == {i \in DOMAIN job.artifacts : Name(i) # Missing}
    <3>1. Running
      BY <1>1, <2>2 DEF CiInv, NoJob
    <3>2. r \in RunIds /\ There(r, Index) /\ Entries(r) = job.entries /\ job.left = {}
      BY <2>2, <3>1 DEF Running, ValidProvenance
    <3>3. DOMAIN job.entries = named
      BY <3>1, <3>2 DEF Running, Proposed
    <3>4. Stands(r, Index)
      BY <2>1, <3>2
    <3> QED BY <3>1, <3>2, <3>3, <3>4 DEF Running, Proposed, Filed
  <2> QED BY <2>1, <2>2 DEF ProposalsAreWhole, There, Entry
<1> QED BY <1>1, CiInvariance, PTL
=============================================================================
