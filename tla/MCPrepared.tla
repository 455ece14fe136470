----------------------------- MODULE MCPrepared -----------------------------
(***************************************************************************)
(* Small instances of PreparedExecution: one or two decisions of each      *)
(* authorization kind, with and without an idempotency key, one or two     *)
(* calls, one recoverer and one operator.                                  *)
(***************************************************************************)
EXTENDS PreparedInvariant, TLC

CONSTANTS p1, p2, w1, w2, r1, o1, k1

OneQuote == [p \in {p1} |-> "quote"]
OneFixed == [p \in {p1} |-> "fixed"]
TwoFree == [p \in {p1, p2} |-> "free"]

OneKey == [p \in {p1} |-> k1]
NoKey == [p \in {p1} |-> None]
SharedKey == [p \in {p1, p2} |-> k1]

InOrder == (p1 :> 1) @@ (p2 :> 2)
OneCreated == (p1 :> 1)
=============================================================================
