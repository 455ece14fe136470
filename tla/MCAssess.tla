------------------------------ MODULE MCAssess ------------------------------
(* Two plans of one candidate under one grant.  The reference arm is        *)
(* screened first and may be put out before its second trial.               *)
EXTENDS Assessment, TLC

MCGranted   == [operations |-> 7, seconds |-> 3, cash |-> 3]
MCRaised    == [operations |-> 11, seconds |-> 3, cash |-> 5]
MCRouteOf   == <<"reference", "candidate", "reference">>
MCScreening == {1}
MCPaired    == {2}
MCElapsed   == {0, 2}

Symmetry == Permutations(Plans)
=============================================================================
