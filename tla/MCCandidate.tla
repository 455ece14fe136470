----------------------------- MODULE MCCandidate -----------------------------
(* Two processes on one store; the source first declares a version with      *)
(* trusted evidence, or one without.                                          *)
EXTENDS CandidateLifecycle, TLC

CONSTANTS v1, v2

Symmetry == Permutations(Processes)
=============================================================================
