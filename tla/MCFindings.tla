----------------------------- MODULE MCFindings -----------------------------
(***************************************************************************)
(* The findings of a review for TLC; the bounds are in findings.cfg.       *)
(***************************************************************************)
EXTENDS Findings, TLC

Alike == Permutations(Ids)
=============================================================================
