----------------------------- MODULE Contracts -----------------------------
(***************************************************************************)
(* Contracts and verdicts: packages/core/contract-engine, the validation   *)
(* of packages/core/spec-core/src/validate-phase5.ts and                   *)
(* packages/core/policy-engine.  Pure functions from a pack manifest and a *)
(* request to a contract and a verdict.                                    *)
(*                                                                         *)
(* A manifest is one that loads (validateMemoryPermissions).  A request is *)
(* the set of facts that hold of it, a surface and the capabilities it     *)
(* asks for.  Sections of the contract that no decision reads (labels,     *)
(* sections, schema references, failure codes) are left out, and so are    *)
(* the shape checks on them.                                               *)
(***************************************************************************)
EXTENDS Verdicts, FiniteSets

Runtimes == {"codex_cli", "copilot_cli"}

\* "explicit" is approval = "explicit", "read_only" any of the three ways a request
\* says that its workflow may not write, "missing" a required tool that is known to
\* be unavailable, "elsewhere" a requested runtime or target that is not the contract's.
Dangers == {"apply", "hidden", "promote", "fallback", "read_only", "conflicts",
            "destructive", "missing", "elsewhere"}
Confirmations == {"preview", "explicit", "allow_fallback"}

\* What is asked is at least as dangerous and at most as well confirmed.
Riskier(q, r) ==
  /\ q.facts \cap Dangers \subseteq r.facts
  /\ r.facts \cap Confirmations \subseteq q.facts
  /\ q.caps \subseteq r.caps
  /\ q.surface = r.surface

-----------------------------------------------------------------------------
(***************************************************************************)
(* Manifests.                                                              *)
(***************************************************************************)

\* validateMemoryPermissions, validateCapabilities
ManifestLoads(m) ==
  /\ m.global = "write" => /\ m.authority = "write-authority"
                           /\ "memory_write_global" \in m.caps
                           /\ m.risk = "critical"
  /\ m.risk = "low" => m.caps \cap {"repo_write", "shell_exec"} = {}

IsWriteAuthority(m) == m.global = "write"

RuntimeScope(m) ==
  CASE m.runtimes = {"codex_cli"} -> "codex-only"
    [] m.runtimes = {"copilot_cli"} -> "copilot-only"
    [] OTHER -> "both"

Blocked(m, r) == "blocked" \in {m.picker[r], m.direct[r]}

-----------------------------------------------------------------------------
(***************************************************************************)
(* Contracts.                                                              *)
(***************************************************************************)

\* validateManifestContractBoundary
WithinBoundary(m) ==
  m.class = "read-oriented" =>
    /\ m.global # "write"
    /\ m.authority # "write-authority"
    /\ "memory_write_global" \notin m.caps

OutputContract(m) ==
  [memory |-> IF m.global \in {"read", "write"} THEN m.global ELSE "none",
   network |-> m.mcp \/ "mcp_client" \in m.caps,
   destructive |-> m.caps \cap {"repo_write", "shell_exec"} # {},
   secret |-> "env_var" \in m.tools,
   writes |-> IsWriteAuthority(m)]

MemoryContract(m) ==
  [mode |-> CASE IsWriteAuthority(m) -> "write"
              [] "read" \in {m.global, m.task} -> "read"
              [] OTHER -> "none",
   authoritative |-> IsWriteAuthority(m),
   preview |-> IsWriteAuthority(m),
   no_hidden_write |-> TRUE]

ToolContract(m) ==
  [network |-> m.mcp \/ "mcp_client" \in m.caps, secret |-> "env_var" \in m.tools]

CapabilityScope(m, r) ==
  [scope |-> RuntimeScope(m), granted |-> IF Blocked(m, r) THEN {} ELSE m.caps]

ValidateMemoryContract(c) ==
  /\ c.class = "read-oriented" => ~c.memory.authoritative
  /\ c.memory.mode = "write" => c.memory.authoritative
  /\ c.memory.authoritative => c.memory.preview

ValidateContractEnvelope(c) ==
  /\ ValidateMemoryContract(c)
  /\ c.capability.scope = "codex-only" => c.runtime = "codex_cli"
  /\ c.capability.scope = "copilot-only" => c.runtime = "copilot_cli"

Envelope(m, r) ==
  [runtime |-> r, class |-> m.class, output |-> OutputContract(m), memory |-> MemoryContract(m),
   tool |-> ToolContract(m), capability |-> CapabilityScope(m, r), no_silent_fallback |-> TRUE]

\* Otherwise buildContractEnvelope throws.
BuildsContractEnvelope(m, r) ==
  /\ WithinBoundary(m)
  /\ r \in m.runtimes
  /\ ~Blocked(m, r)
  /\ ValidateContractEnvelope(Envelope(m, r))

-----------------------------------------------------------------------------
(***************************************************************************)
(* Verdicts.                                                               *)
(***************************************************************************)

SupportedSurfaces ==
  [codex_cli |-> {"canonical_skill", "config", "context", "direct_invocation", "mcp",
                  "metadata", "support_doc"},
   copilot_cli |-> {"agent", "canonical_skill", "direct_invocation", "hook", "mcp",
                    "metadata", "support_doc"}]

\* Only the risks a decision reads.
DeriveRiskProfile(c, q) ==
  {k \in {"repo-write", "destructive", "secret-touching"} :
    CASE k = "repo-write" ->
           \/ c.memory.authoritative
           \/ "write" \in {c.memory.mode, c.output.memory}
           \/ c.capability.granted \cap {"repo_write", "memory_write_global"} # {}
      [] k = "destructive" -> c.output.destructive \/ "destructive" \in q.facts
      [] k = "secret-touching" -> c.tool.secret \/ c.output.secret}

UnsupportedCapabilities(c, q) == q.caps \ c.capability.granted

\* Mutant: the two decisions swapped.
SwapsMissingTools(q) ==
  IF "missing" \in q.facts THEN {IF "apply" \in q.facts THEN "ask" ELSE "deny"} ELSE {}

EvaluateTools(q) ==
  IF "missing" \in q.facts THEN {IF "apply" \in q.facts THEN "deny" ELSE "ask"} ELSE {}

\* Mutant: approval stands in for a preview.
NeedsNoPreview(c, q) ==
  "apply" \in q.facts /\ {"preview", "explicit"} \cap q.facts = {}
    /\ (c.memory.authoritative
          \/ DeriveRiskProfile(c, q) \cap {"repo-write", "destructive"} # {})

PreviewRequired(c, q) ==
  "apply" \in q.facts /\ "preview" \notin q.facts
    /\ (c.memory.authoritative
          \/ DeriveRiskProfile(c, q) \cap {"repo-write", "destructive"} # {})

Denials(c, q) ==
  \/ "elsewhere" \in q.facts
  \/ q.surface \notin SupportedSurfaces[c.runtime]
  \/ c.memory.no_hidden_write /\ "hidden" \in q.facts
  \/ c.memory.authoritative /\ {"read_only", "promote"} \cap q.facts # {}
  \/ c.no_silent_fallback /\ "fallback" \in q.facts /\ "allow_fallback" \notin q.facts
  \/ UnsupportedCapabilities(c, q) # {}
  \/ "conflicts" \in q.facts
  \/ {"destructive", "secret-touching"} \subseteq DeriveRiskProfile(c, q)
       /\ "explicit" \notin q.facts
  \/ c.memory.authoritative /\ "apply" \in q.facts
       /\ "preview_emit" \notin c.capability.granted

\* buildFailClosedVerdict: a contract that does not validate is denied.
FailsClosed(c) == ~ValidateContractEnvelope(c)

EvaluatePolicy(c, q) ==
  IF FailsClosed(c) THEN "deny"
  ELSE PickOverallVerdict(
         (IF Denials(c, q) THEN {"deny"} ELSE {})
         \cup (IF PreviewRequired(c, q) THEN {"require-preview"} ELSE {})
         \cup (IF c.memory.authoritative /\ "apply" \in q.facts /\ "explicit" \notin q.facts
               THEN {"ask"} ELSE {})
         \cup EvaluateTools(q))

AllowedOperations(verdict) ==
  IF verdict \in {"deny", "require-preview"} THEN {"preview"} ELSE {"preview", "apply"}

BlockedOperations(verdict) ==
  CASE verdict = "allow" -> {}
    [] verdict = "ask" -> {"apply-unconfirmed"}
    [] OTHER -> {"apply"}
=============================================================================
