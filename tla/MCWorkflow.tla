------------------------------ MODULE MCWorkflow ------------------------------
(* Two reads, a step b that reads unless it falls back, and a write w      *)
(* between two steps that a host executes; one call that starts the        *)
(* workflow and two that may continue it.                                  *)
EXTENDS Workflow

CONSTANTS a, b, c, g, h, w, r1, r2, r3

MCOrder == <<h, b, a, c, w, g>>
MCNeeds == {<<w, h>>, <<g, w>>}
===============================================================================
