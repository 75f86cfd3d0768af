------------------------------ MODULE Verdicts ------------------------------
(***************************************************************************)
(* Decisions of a policy and the strictest of several.  The policy engine, *)
(* the delegation engine and the CI engine each have a pickOverallVerdict, *)
(* all three the same.                                                     *)
(***************************************************************************)
EXTENDS Naturals, FiniteSetsExt

Precedence(verdict) ==
  CASE verdict = "allow"           -> 0
    [] verdict = "ask"             -> 1
    [] verdict = "require-preview" -> 2
    [] verdict = "deny"            -> 3

\* The one of the highest precedence; allow if there are none.
PickOverallVerdict(verdicts) ==
  IF "deny" \in verdicts THEN "deny"
  ELSE IF "require-preview" \in verdicts THEN "require-preview"
  ELSE IF "ask" \in verdicts THEN "ask" ELSE "allow"
=============================================================================
