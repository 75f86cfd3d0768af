-------------------------- MODULE WorkflowMaturity --------------------------
(***************************************************************************)
(* How mature a core workflow may call itself (spec-core, catalog/): the   *)
(* maturity its pack assigns is cut down to what the published runtime     *)
(* lanes and their live records support.  A lane is the entry of the       *)
(* runtime surface matrix, a record the file its evidence_data_ref names.  *)
(* One pack is looked at; a blocker stands for its family, whatever        *)
(* runtime and lane its text names.                                        *)
(***************************************************************************)
EXTENDS Integers, FiniteSets, Sequences

CONSTANTS
  Lanes,          \* the lanes of the matrix
  RuntimeOf,      \* [Lanes -> runtime]
  Promoted,       \* lanes of the runtime's default target whose release gate is required
  Pack            \* the pack whose maturity is resolved

\* LIVE_EVIDENCE_RANK and what it says of a lane without live evidence.
EvidenceRank(class) ==
  CASE class = "live_smoke" -> 0
    [] class = "live_verification" -> 1
    [] class = "repeated_live_verification" -> 2
    [] OTHER -> -1

MaturityRank ==
  [deprecated |-> -1, canary |-> 0, preview |-> 1, beta |-> 2, stable |-> 3]
WorkflowTransitionMap ==
  [canary |-> {"canary", "preview", "deprecated"},
   preview |-> {"preview", "canary", "beta", "deprecated"},
   beta |-> {"beta", "preview", "stable", "deprecated"},
   stable |-> {"stable", "beta", "deprecated"},
   deprecated |-> {"deprecated"}]

\* The blockers whose condition holds; rules is a set of <<condition, blocker>>.
Raised(rules) == {rule[2] : rule \in {r \in rules : r[1]}}

-----------------------------------------------------------------------------
(***************************************************************************)
(* The lanes a pack is judged by, and the live records it names for them.  *)
(***************************************************************************)

LanesOf(runtime) == {l \in Lanes : RuntimeOf[l] = runtime}
FindClaimedOrDefaultLanes(manifest, runtime) ==
  IF manifest.claimed[runtime] # {} THEN manifest.claimed[runtime] \cap LanesOf(runtime)
                                    ELSE Promoted \cap LanesOf(runtime)

ScopeMatches(record) == Pack \in record.scope

\* A record synced twice counts twice.
VerifyingRuns(record) ==
  {i \in 1..Len(record.live) :
     LET run == record.live[i]
     IN  /\ run.verdict = "pass" /\ run.freshness = "fresh" /\ run.canonical
         /\ EvidenceRank(run.class) >= 1 /\ ScopeMatches(run)}
VerificationRuns(record) == Cardinality(VerifyingRuns(record))

\* A named record counts when its lane is one the pack is judged by, and it is in scope.
RefHolds(manifest, runtime, records, l) ==
  /\ RuntimeOf[l] = runtime
  /\ ScopeMatches(records[l])
  /\ l \in FindClaimedOrDefaultLanes(manifest, runtime)
EvidenceLanes(manifest, runtime, records) ==
  {l \in manifest.refs[runtime] : RefHolds(manifest, runtime, records, l)}
InvalidRefs(manifest, runtime, records) ==
  {"live-workflow-ref-invalid" : l \in manifest.refs[runtime]
                                         \ EvidenceLanes(manifest, runtime, records)}
TotalRuns(records, lanes) ==
  Cardinality(UNION {{l} \X VerifyingRuns(records[l]) : l \in lanes})

SafetyLanes(manifest, records) == {l \in manifest.safety : ScopeMatches(records[l])}

-----------------------------------------------------------------------------
(***************************************************************************)
(* What keeps a pack from each label.                                      *)
(***************************************************************************)

CollectCanaryBlockers(manifest) ==
  Raised({<<~manifest.canonical, "canonical-entrypoint-missing">>,
          <<manifest.status # "active", "pack-inactive">>,
          <<~manifest.core, "pack-class-not-core">>,
          <<~manifest.tested, "deterministic-evidence-missing">>})

PreviewLaneBlockers(lane, record, bound) ==
  IF ~bound THEN {"preview-live-workflow-lane-unbound"}
  ELSE Raised({<<lane.level \notin {"preview", "stable-tested"}, "preview-public-lane-not-preview">>,
               <<lane.freshness # "fresh", "preview-public-lane-not-fresh">>,
               <<record.picker # "pass", "preview-canonical-picker-unverified">>,
               <<EvidenceRank(record.best) < 1, "preview-live-verification-missing">>,
               <<VerificationRuns(record) < 1, "preview-workflow-verification-run-missing">>})

\* A runtime that is not required for promotion is only asked for its coverage.
PreviewRuntimeBlockers(manifest, runtime, matrix, records) ==
  LET claim == manifest.claims[runtime]
      lanes == FindClaimedOrDefaultLanes(manifest, runtime)
      bound == EvidenceLanes(manifest, runtime, records)
  IN  Raised({<<runtime \notin manifest.smoke, "preview-deterministic-coverage-missing">>,
              <<manifest.refs[runtime] = {}, "preview-live-workflow-evidence-missing">>})
      \cup IF ~claim.required THEN {}
           ELSE Raised({<<claim.declared = "blocked", "runtime-support-blocked">>,
                        <<claim.declared = "unverified", "runtime-support-unverified">>,
                        <<~claim.live, "pack-runtime-live-required">>,
                        <<~claim.evidence, "live-evidence-missing">>,
                        <<lanes = {}, "preview-claimed-lane-missing">>})
                \cup InvalidRefs(manifest, runtime, records)
                \cup UNION {PreviewLaneBlockers(matrix[l], records[l], l \in bound) : l \in lanes}

CollectPreviewBlockers(manifest, matrix, records) ==
  UNION {PreviewRuntimeBlockers(manifest, r, matrix, records) : r \in manifest.runtimes}
  \cup Raised({<<manifest.writes /\ SafetyLanes(manifest, records) = {},
                 "write-authority-operational-safety-evidence-missing">>,
               <<"entrypoint" \notin manifest.checklist,
                 "preview-checklist-canonical-entrypoint-unverified">>})

\* Beta asks every runtime, those not required for promotion too.
CollectBetaBlockers(manifest, records) ==
  UNION {InvalidRefs(manifest, r, records)
         \cup Raised({<<TotalRuns(records, EvidenceLanes(manifest, r, records)) < 2,
                        "beta-repeated-live-evidence-required">>}) : r \in manifest.runtimes}
  \cup Raised({<<"docs" \notin manifest.checklist, "beta-checklist-docs-unsynced">>})

StableLaneBlockers(lane, record, bound) ==
  IF ~bound THEN {"stable-live-workflow-lane-unbound"}
  ELSE Raised({<<lane.freshness # "fresh", "public-lane-not-fresh">>,
               <<lane.level # "stable-tested", "public-lane-not-stable">>,
               <<record.picker # "pass", "stable-canonical-picker-unverified">>,
               <<EvidenceRank(record.best) < 2, "stable-repeated-live-verification-required">>,
               <<VerificationRuns(record) < 2, "stable-workflow-verification-runs-required">>})

StableRuntimeBlockers(manifest, runtime, matrix, records) ==
  LET lanes == FindClaimedOrDefaultLanes(manifest, runtime)
      bound == EvidenceLanes(manifest, runtime, records)
  IN  IF ~manifest.claims[runtime].required THEN {}
      ELSE IF lanes = {} THEN {"public-lane-missing"}
      ELSE InvalidRefs(manifest, runtime, records)
           \cup UNION {StableLaneBlockers(matrix[l], records[l], l \in bound) : l \in lanes}

CollectStableBlockers(manifest, matrix, records, gate) ==
  UNION {StableRuntimeBlockers(manifest, r, matrix, records) : r \in manifest.runtimes}
  \cup Raised({<<gate # "GO", "release-gate">>,
               <<"wording" \notin manifest.checklist, "stable-checklist-wording-unverified">>,
               <<manifest.writes /\ TotalRuns(records, SafetyLanes(manifest, records)) < 2,
                 "write-authority-operational-safety-repeated-verification-required">>})

CollectDeprecatedBlockers(manifest) ==
  Raised({<<manifest.status # "deprecated", "deprecated-status-required">>,
          <<~manifest.retired, "deprecated-catalog-status-required">>,
          <<~manifest.successor, "deprecated-migration-guidance-missing">>})

-----------------------------------------------------------------------------
(***************************************************************************)
(* The label a pack ends up with.                                          *)
(***************************************************************************)

IsWorkflowTransitionLegal(from, assigned) == assigned \in WorkflowTransitionMap[from]
PromotionChecklistReady(manifest) ==
  manifest.label = manifest.assigned /\ "entrypoint" \in manifest.checklist

PickWeaker(left, right) == IF MaturityRank[left] <= MaturityRank[right] THEN left ELSE right

\* The trigger a blocker stands for; a blocker no rule knows stands for none.
TriggerOf(blocker) ==
  CASE blocker = "release-gate" -> "release-no-go"
    [] blocker \in {"preview-public-lane-not-fresh", "public-lane-not-fresh",
                    "live-evidence-missing", "deterministic-evidence-missing",
                    "beta-repeated-live-evidence-required", "live-workflow-ref-invalid",
                    "preview-live-verification-missing",
                    "preview-workflow-verification-run-missing",
                    "stable-repeated-live-verification-required",
                    "stable-workflow-verification-runs-required"} -> "evidence-stale"
    [] blocker \in {"runtime-support-blocked", "runtime-support-unverified",
                    "pack-runtime-live-required", "preview-public-lane-not-preview",
                    "public-lane-not-stable", "public-lane-missing",
                    "preview-live-workflow-lane-unbound",
                    "stable-live-workflow-lane-unbound"} -> "runtime-regression"
    [] blocker \in {"beta-checklist-docs-unsynced", "stable-checklist-wording-unverified",
                    "promotion-checklist-incomplete", "canonical-entrypoint-missing",
                    "preview-checklist-canonical-entrypoint-unverified",
                    "transition-illegal", "deprecated-status-required",
                    "deprecated-catalog-status-required",
                    "deprecated-migration-guidance-missing"} -> "docs-drift"
    [] blocker \in {"write-authority-operational-safety-evidence-missing",
                    "write-authority-operational-safety-repeated-verification-required"}
         -> "write-safety-regression"
    [] OTHER -> "none"
DeriveDemotionTriggers(blockers) ==
  LET triggers == {TriggerOf(b) : b \in blockers} \ {"none"}
  IN  IF blockers # {} /\ triggers = {} THEN {"docs-drift"} ELSE triggers

\* Each label is only looked into when nothing blocks the one below it.
ResolveWorkflowMaturity(manifest, matrix, records, gate) ==
  LET canary == CollectCanaryBlockers(manifest)
      preview == IF canary # {} THEN {} ELSE CollectPreviewBlockers(manifest, matrix, records)
      beta == IF preview # {} THEN {} ELSE CollectBetaBlockers(manifest, records)
      stable == IF beta # {} THEN {}
                ELSE CollectStableBlockers(manifest, matrix, records, gate)
      supported == IF canary \cup preview # {} THEN "canary"
                   ELSE IF beta # {} THEN "preview"
                   ELSE IF stable # {} THEN "beta" ELSE "stable"
      rank == MaturityRank[manifest.assigned]
      blockers ==
        Raised({<<~IsWorkflowTransitionLegal(manifest.from, manifest.assigned),
                  "transition-illegal">>,
                <<~PromotionChecklistReady(manifest), "promotion-checklist-incomplete">>})
        \cup IF manifest.assigned = "deprecated" THEN CollectDeprecatedBlockers(manifest)
             ELSE canary \cup (IF rank >= 1 THEN preview ELSE {})
                         \cup (IF rank >= 2 THEN beta ELSE {})
                         \cup (IF rank >= 3 THEN stable ELSE {})
      effective == IF manifest.assigned = "deprecated" THEN "deprecated"
                   ELSE PickWeaker(manifest.assigned, supported)
  IN  [effective |-> effective, blockers |-> blockers,
       triggers |-> DeriveDemotionTriggers(blockers),
       ready |-> effective = "stable" /\ blockers = {}]
=============================================================================
