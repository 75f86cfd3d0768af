----------------------------- MODULE Delegation -----------------------------
(***************************************************************************)
(* Delegated workers: packages/advanced/delegation-engine.  A caller hands *)
(* a worker some of its capabilities and paths; the policy is evaluated    *)
(* for the task and for what the worker does, and the result comes back in *)
(* an envelope that an abort empties.                                      *)
(*                                                                         *)
(* The code keeps no record of who delegated to whom: depth is what the    *)
(* caller says it is.  So the model lets an accepted worker call again,    *)
(* with its own capabilities and paths as the caller's.                    *)
(***************************************************************************)
EXTENDS Verdicts

CONSTANTS
  Capabilities,  \* capability names a request may hold
  Canonical,     \* those of CAPABILITY_FLAGS
  HighRiskNames, \* those of HIGH_RISK_CAPABILITY_NAMES
  Paths,         \* directories of the repository
  Within,        \* Within[p]: the directories p lies in, itself included
  CallerPacks,   \* caller packs
  Grants,        \* Grants[c]: the packs trust/pack-authority.yaml lets hold c
  Callers,       \* the callers at the root: [pack, caps, paths]
  MaxReasons     \* bound: what is wrong with one request

\* A path lies in itself, and in whatever the directories it lies in lie in;
\* the callers at the root hold capabilities and paths of the repository.
ASSUME ScopesAreNested ==
  /\ \A p \in Paths :
       /\ p \in Within[p]
       /\ \A q \in Within[p] : Within[q] \subseteq Within[p]
  /\ Callers \subseteq [pack : CallerPacks, caps : SUBSET Capabilities, paths : SUBSET Paths]

VARIABLES
  root,     \* the first caller
  holder,   \* who calls next: the first caller, or a worker that was accepted
  result    \* the envelope of the last call

delegationVars == <<root, holder, result>>

WorkerActions ==
  [read_only |-> "read_scope", analysis |-> "analyze_scope",
   patch_proposal |-> "propose_patch", write_candidate |-> "write_candidate"]

\* What may be wrong with a request, each a reason to deny it whatever it asks for.
Amiss == {"implicit", "lane_disabled", "no_workflow", "no_class", "blocked_workflow",
          "unlisted_workflow", "write_authority", "dual_mode", "too_deep", "too_wide",
          "forbidden_worker", "unknown_worker", "authority_unreadable"}

-----------------------------------------------------------------------------
(***************************************************************************)
(* Policy.                                                                 *)
(***************************************************************************)

\* DELEGATION_POLICY_CONTRACT.decisions
Baseline(action) ==
  CASE action \in {"create_task", "read_scope", "analyze_scope"} -> "allow"
    [] action = "propose_patch" -> "ask"
    [] OTHER -> "deny"

\* Mutant: what the caller lacks is only looked for among the risky ones.
TrustsTheRest(caller, q) ==
  \/ ~(q.caps \subseteq Canonical)
  \/ ~(q.caps \cap HighRiskNames \subseteq caller.caps)
  \/ "memory_write_global" \in q.caps
  \/ q.caps \cap HighRiskNames # {} /\ ~q.snapshot
  \/ \E c \in q.caps \cap HighRiskNames : caller.pack \notin Grants[c]

\* evaluateAuthoritySubset finds a reason.
ExceedsAuthority(caller, q) ==
  \/ ~(q.caps \subseteq Canonical)
  \/ ~(q.caps \subseteq caller.caps)
  \/ "memory_write_global" \in q.caps
  \/ q.caps \cap HighRiskNames # {} /\ ~q.snapshot
  \/ \E c \in q.caps \cap HighRiskNames : caller.pack \notin Grants[c]

ExceedsCallerPaths(caller, q) == \E p \in q.paths : Within[p] \cap caller.paths = {}

\* resolveDelegationCapabilities, as far as a caller can choose
Disabled(action, q) ==
  \/ action = "read_scope" /\ "read_only" \notin q.flags
  \/ action = "analyze_scope" /\ "analysis" \notin q.flags
  \/ action = "propose_patch" /\ "patch_proposal" \notin q.flags
  \/ action = "write_candidate" /\ "write_candidate" \notin q.flags

\* An unreadable pack-authority.yaml leaves no snapshot, and is a reason itself.
EvaluateDelegationPolicy(action, caller, q) ==
  PickOverallVerdict(
    {Baseline(action)}
    \cup (IF \/ q.amiss # {}
             \/ ExceedsAuthority(caller, q)
             \/ ExceedsCallerPaths(caller, q)
             \/ Disabled(action, q)
          THEN {"deny"} ELSE {}))

-----------------------------------------------------------------------------
(***************************************************************************)
(* The lane.                                                               *)
(***************************************************************************)

\* The worker class a caller names may be none of the four.
PrimaryAction(q) ==
  IF q.amiss \cap {"forbidden_worker", "unknown_worker"} # {}
  THEN "create_task" ELSE WorkerActions[q.worker]

OverallVerdict(caller, q) ==
  PickOverallVerdict({EvaluateDelegationPolicy("create_task", caller, q),
                      EvaluateDelegationPolicy(PrimaryAction(q), caller, q)})

\* createDelegatedResultEnvelope
ResultEnvelope(caller, q) ==
  LET verdict == OverallVerdict(caller, q)
  IN  [verdict |-> verdict, aborted |-> verdict # "allow",
       report |-> IF verdict = "allow" THEN "planned" ELSE "blocked",
       carries |-> IF verdict = "allow" THEN {"files", "changes", "evidence"} ELSE {}]

Requests ==
  {q \in [amiss : UNION {kSubset(n, Amiss) : n \in 0 .. MaxReasons},
          worker : DOMAIN WorkerActions,
          flags : {{"read_only", "patch_proposal"}, {"analysis", "write_candidate"}},
          caps : SUBSET Capabilities, paths : SUBSET Paths,
          snapshot : BOOLEAN] : "authority_unreadable" \in q.amiss => ~q.snapshot}

NoEnvelope == [verdict |-> "none", aborted |-> TRUE, report |-> "none", carries |-> {}]

DelegationInit ==
  /\ root \in Callers
  /\ holder = root
  /\ result = NoEnvelope

\* runDelegationScaffold; whoever was accepted may call in turn.
RunDelegationScaffold(q) ==
  /\ result' = ResultEnvelope(holder, q)
  /\ holder' = IF result'.aborted THEN holder
               ELSE [pack |-> holder.pack, caps |-> q.caps, paths |-> q.paths]
  /\ UNCHANGED root

DelegationNext == \E q \in Requests : RunDelegationScaffold(q)

DelegationSpec == DelegationInit /\ [][DelegationNext]_delegationVars

-----------------------------------------------------------------------------
(***************************************************************************)
(* Properties.                                                             *)
(***************************************************************************)

\* However long the chain of delegations, whoever acts at its end holds no
\* capability and no path that the first caller did not hold, never the global
\* memory write unless it was the first caller, and no risky capability that
\* pack-authority.yaml does not let the first caller's pack hold.
DelegationNeverWidens ==
  /\ holder.caps \subseteq root.caps
  /\ \A p \in holder.paths : Within[p] \cap root.paths # {}
  /\ holder # root =>
       /\ "memory_write_global" \notin holder.caps
       /\ \A c \in holder.caps \cap HighRiskNames : root.pack \in Grants[c]
=============================================================================
