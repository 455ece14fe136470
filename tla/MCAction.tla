------------------------------ MODULE MCAction ------------------------------
(***************************************************************************)
(* A small instance of ActionExecution: calls over a local read, a remote  *)
(* write and a managed host; two of them carry one idempotency key, and    *)
(* one of these shares a task scope and the host's capacity with a third.  *)
(***************************************************************************)
EXTENDS ActionExecution, TLC

CONSTANTS c1, c2, c3, k1, d1, d2, d3, read, write, host

SharedKey == (c1 :> k1) @@ (c2 :> k1) @@ (c3 :> None)
SharedDecision == (c1 :> d1) @@ (c2 :> d1) @@ (c3 :> d3)

UnitCost == host :> 1
ReadOrWrite == {<<read, host>>, <<write, host>>}
=============================================================================
