---------------------------- MODULE RuntimeGate ----------------------------
(***************************************************************************)
(* The adapter of a runtime in front of a workflow: enforceWorkflow and    *)
(* enforceContract of packages/runtimes/codex/adapter, which the copilot   *)
(* adapter repeats.  The adapter builds the contract, has the policy       *)
(* evaluated and then lets the workflow go on its surface or blocks it.    *)
(*                                                                         *)
(* A caller that is blocked asks again with other facts: the same call     *)
(* with a preview, an approval, or with more at stake.  An adapter is      *)
(* asked for its own runtime.                                              *)
(***************************************************************************)
EXTENDS Contracts

CONSTANTS
  Manifests,  \* the manifests of the packs
  Surfaces,   \* the surfaces asked for
  Asked,      \* the sets of capabilities asked for
  MaxFacts    \* bound: facts of one call

VARIABLES
  call,    \* the runtime, the manifest and the request
  outcome  \* what enforceWorkflow answered

gateVars == <<call, outcome>>

\* What the adapter finds declared for it.
Declares(m, r, surface) ==
  CASE surface = "canonical_skill" -> m.picker[r] # "blocked"
    [] surface = "direct_invocation" -> m.direct[r] # "blocked"
    [] surface = "hook" -> r \in m.hooks
    [] OTHER -> FALSE

\* buildPolicyBlockingError: what the policy said only counts for an apply.
PolicyBlocks(verdict, q) == "apply" \in q.facts /\ BlockedOperations(verdict) # {}

ErrorOf(verdict) ==
  CASE verdict = "require-preview" -> "PREVIEW_REQUIRED"
    [] verdict = "ask" -> "APPROVAL_REQUIRED"
    [] OTHER -> "POLICY_BLOCKED"

Block(error, verdict) == [status |-> "blocked", error |-> error, verdict |-> verdict]

\* enforceContract
Enforce(m, r, q, verdict) ==
  IF ~Declares(m, r, q.surface) THEN Block("UNSUPPORTED_TRIGGER_SURFACE", verdict)
  ELSE IF PolicyBlocks(verdict, q) THEN Block(ErrorOf(verdict), verdict)
  ELSE [status |-> "allow", error |-> "none", verdict |-> verdict]

\* What the policy is asked: the runtime and the target are those the adapter was
\* called with and its contract was built for, whichever the request names, so the
\* boundary check of the policy never has anything to object to here.
InLane(q) == [q EXCEPT !.facts = @ \ {"elsewhere"}]

\* enforceWorkflow
EnforceWorkflow(m, r, q) ==
  IF ~BuildsContractEnvelope(m, r) THEN Block("CONTRACT_BUILD_FAILED", "none")
  ELSE Enforce(m, r, q, EvaluatePolicy(Envelope(m, r), InLane(q)))

Answer(c) == EnforceWorkflow(c.manifest, c.runtime, c.request)

-----------------------------------------------------------------------------
GateInit ==
  /\ call \in [manifest : Manifests, runtime : Runtimes,
               request : [facts : {{}}, surface : Surfaces, caps : Asked]]
  /\ outcome = Answer(call)

\* The caller asks again, one fact changed.
Ask(facts) ==
  /\ call' = [call EXCEPT !.request.facts = facts]
  /\ outcome' = Answer(call')

AskWith ==
  /\ Cardinality(call.request.facts) < MaxFacts
  /\ \E f \in Dangers \cup Confirmations : Ask(call.request.facts \cup {f})

AskWithout == \E f \in call.request.facts : Ask(call.request.facts \ {f})

GateNext == AskWith \/ AskWithout

GateSpec == GateInit /\ [][GateNext]_gateVars

-----------------------------------------------------------------------------
(***************************************************************************)
(* Properties.                                                             *)
(***************************************************************************)

Applies == outcome.status = "allow" /\ "apply" \in call.request.facts

\* An apply that goes through on a pack with write authority was previewed and
\* approved, and none of what the policy forbids was going on: nothing the adapter
\* does on its way to the verdict (what it lets pass without a verdict, the surface
\* it takes for declared, the contract it builds) lets one slip past.  What the
\* request says of runtime and target is no part of that: it is never looked at.
AppliesOnlyConfirmed ==
  (Applies /\ IsWriteAuthority(call.manifest)) =>
    /\ {"preview", "explicit"} \subseteq call.request.facts
    /\ {"hidden", "promote", "read_only", "conflicts", "missing"} \cap call.request.facts = {}
    /\ "fallback" \in call.request.facts => "allow_fallback" \in call.request.facts
    /\ call.request.caps \subseteq call.manifest.caps

\* Asking again with more at stake, or with less confirmed, never opens what was
\* closed and never softens the verdict.
StaysShut ==
  Riskier(call.request, call'.request) =>
    /\ outcome.status = "blocked" => outcome'.status = "blocked"
    /\ outcome.verdict # "none" => Precedence(outcome.verdict) <= Precedence(outcome'.verdict)
RiskNeverOpens == [][StaysShut]_gateVars
=============================================================================
