------------------------------ MODULE MCStack -------------------------------
(***************************************************************************)
(* Small instances of StackRuntime: a proposal and its successor, two      *)
(* coordinators, a repeatable fetch and a consequential post, or a node    *)
(* that a host executes.                                                   *)
(***************************************************************************)
EXTENDS StackRuntime, TLC

CONSTANTS c1, c2, p1, p2, fetch, post, ask

AskFetchPost == <<ask, fetch, post>>
PostNeedsFetch == {<<post, fetch>>}
Successor == (p1 :> None) @@ (p2 :> p1)

Interchangeable == Permutations(Coordinators)
=============================================================================
