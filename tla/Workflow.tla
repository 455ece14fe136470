------------------------------ MODULE Workflow ------------------------------
(***************************************************************************)
(* Execution of a caller's graph of steps (execute_workflow) in waves of   *)
(* steps whose inputs are there, by prepared decisions under one budget or *)
(* by ordinary execution; waiting for a host, and continuing from the      *)
(* waiting outcome (resume_workflow).                                      *)
(*                                                                         *)
(* A run is one call of either operation for the one workflow.  It keeps   *)
(* outputs and receipts in memory; only the checkpoint, the decisions and  *)
(* the reports are durable.  Steps of a wave execute concurrently.         *)
(***************************************************************************)
EXTENDS Naturals, Sequences, FiniteSets, Functions

CONSTANTS
    Runs, Starters,      \* calls; those that may start the workflow anew
    Order,               \* step identifiers in their order
    Needs,               \* pairs <<s, t>>: s depends on t
    Writes, Hosted,      \* steps with a consequential route; that a host executes
    Mixed,               \* writes whose selected route may read, and fall back to one that writes
    WaveSize, Budget,    \* most steps of a wave; max_cash_usd
    Prices,              \* cash maxima a prepared decision may have
    Economic,            \* values of economic_evidence.enabled to consider
    Crashable, None

Steps == {Order[i] : i \in 1 .. Len(Order)}
Dispatches == Runs \X Steps

ASSUME WorkflowAssumption ==
    /\ Starters \subseteq Runs /\ Crashable \subseteq Runs /\ None \notin Runs \cup Steps \cup Nat
    /\ IsFiniteSet(Runs) /\ Order \in Seq(Steps)
    /\ Cardinality(Steps) = Len(Order) /\ Needs \subseteq Steps \X Steps
    /\ Writes \subseteq Steps /\ Hosted \subseteq Steps /\ Writes \cap Hosted = {}
    /\ Mixed \subseteq Writes
    /\ WaveSize \in Nat \ {0} /\ Budget \in Nat /\ Prices \subseteq Nat
    /\ Economic \subseteq BOOLEAN

VARIABLES
    economic,                      \* economic_evidence.enabled of the manifest
    mode,                          \* of a run: its waves are prepared, or routed and executed
    checkpoint,                    \* workflow_checkpoints: the waiting step, or None
    reported,                      \* external_reports: decisions a host answered
    decision, maximum,             \* prepared decisions of the dispatches
    pc, source, root,              \* a run, the waiting run it continues, where that began
    outputs, receipts, wave, host, \* its local state; the step it waits for
    outcome, cash                  \* what became of a dispatch

runVars == <<mode, source, root, outputs, receipts, wave, host>>
durableVars == <<checkpoint, reported, decision, maximum>>
vars == <<economic, durableVars, pc, runVars, outcome, cash>>

Init ==
    /\ economic \in Economic /\ mode = [r \in Runs |-> "ordinary"]
    /\ checkpoint = None /\ reported = {}
    /\ decision = [d \in Dispatches |-> "none"]
    /\ maximum = [d \in Dispatches |-> 0]
    /\ pc = [r \in Runs |-> "idle"]
    /\ source = [r \in Runs |-> None] /\ root = [r \in Runs |-> r]
    /\ outputs = [r \in Runs |-> {}] /\ receipts = [r \in Runs |-> {}]
    /\ wave = [r \in Runs |-> {}] /\ host = [r \in Runs |-> None]
    /\ outcome = [d \in Dispatches |-> "none"]
    /\ cash = [d \in Dispatches |-> None]

-----------------------------------------------------------------------------
Goto(r, l) == pc' = [pc EXCEPT ![r] = l]

(* The result of a call is also the checkpoint.                            *)
Result(r, status, s) ==
    /\ Goto(r, status)
    /\ checkpoint' = s
    /\ host' = [host EXCEPT ![r] = s]

Before(s, t) == \E i, j \in 1 .. Len(Order) : i < j /\ Order[i] = s /\ Order[j] = t
Ready(r) == {s \in Steps \ outputs[r] : \A n \in Needs : n[1] = s => n[2] \in outputs[r]}

(* The first of the exclusive steps that are ready, alone; else the others *)
(* together.                                                               *)
Wave(r, exclusive) ==
    LET lone == Ready(r) \cap exclusive
        Earlier(S, s) == {t \in S : Before(t, s)}
    IN  IF lone # {} THEN {s \in lone : Earlier(lone, s) = {}}
        ELSE {s \in Ready(r) : Cardinality(Earlier(Ready(r), s)) < WaveSize}

(* Preparation serializes every step of which a compatible route might be  *)
(* consequential or leave the process.                                     *)
PreparedWave(r) == Wave(r, Writes \cup Hosted)

(* Cash of the receipts, when every one of them has a known amount.        *)
CashKnown(r) == \A d \in receipts[r] : cash[d] # None
Accounted(r) == SumFunctionOnSet(cash, receipts[r])

-----------------------------------------------------------------------------
(* Starting, and continuing from a waiting outcome.                        *)

Begin(r) ==
    /\ pc[r] = "idle" /\ r \in Starters
    /\ \E require_prepared \in BOOLEAN :
         mode' = [mode EXCEPT ![r] =
                     IF economic \/ require_prepared THEN "prepared" ELSE "ordinary"]
    /\ Goto(r, "loop")
    /\ UNCHANGED <<economic, durableVars, source, root, outputs, receipts, wave, host, outcome,
                   cash>>

(* Whoever holds a waiting outcome may continue it, also late or twice, as *)
(* long as the checkpoint waits for that step.                             *)
Resume(r, q) ==
    /\ pc[r] = "idle" /\ pc[q] = "waiting"
    /\ checkpoint = host[q]
    /\ source' = [source EXCEPT ![r] = q]
    /\ Goto(r, "report")
    /\ UNCHANGED <<economic, mode, durableVars, root, outputs, receipts, wave, host, outcome, cash>>

(* Mutant: the decision's report is not looked up.                         *)
UnreportedAny(d) == TRUE

Unreported(d) == d \notin reported

(* The prior outputs and receipts, with the host's, are where the call     *)
(* goes on; it does not ask for preparation by itself.                     *)
Continue(r, q) ==
    /\ mode' = [mode EXCEPT ![r] = IF economic THEN "prepared" ELSE "ordinary"]
    /\ root' = [root EXCEPT ![r] = root[q]]
    /\ outputs' = [outputs EXCEPT ![r] = outputs[q] \cup {host[q]}]
    /\ receipts' = [receipts EXCEPT ![r] = receipts[q]]
    /\ Goto(r, "loop")

(* record_external_outcome: one report for a decision, and its cash, which *)
(* is unknown unless the caller accounts for it.                           *)
Report(r) ==
    LET q == source[r]  d == <<q, host[q]>> IN
    /\ pc[r] = "report" /\ Unreported(d)
    /\ reported' = reported \cup {d}
    /\ \E c \in Prices \cup {None} : cash' = [cash EXCEPT ![d] = IF @ = None THEN None ELSE c]
    /\ Continue(r, q)
    /\ UNCHANGED <<economic, checkpoint, decision, maximum, source, wave, host, outcome>>

(* Reported before, the route is not active or feasible any more, or the   *)
(* output does not fit.                                                    *)
ReportRefused(r) ==
    /\ pc[r] = "report"
    /\ Goto(r, "raised")
    /\ source' = [source EXCEPT ![r] = None]
    /\ UNCHANGED <<economic, mode, durableVars, root, outputs, receipts, wave, host, outcome, cash>>

-----------------------------------------------------------------------------
(* One turn of the loop.                                                   *)

(* Cash that is unknown or spent, no route, or a quota that does not hold  *)
(* the wave.                                                               *)
TurnFails(r) ==
    /\ pc[r] = "loop" /\ Ready(r) # {}
    /\ \/ mode[r] = "ordinary" \/ ~CashKnown(r)
       \/ CashKnown(r) /\ Accounted(r) > Budget
    /\ Result(r, "failed", None)
    /\ UNCHANGED <<economic, mode, reported, decision, maximum, source, root, outputs, receipts, wave,
                   outcome, cash>>

(* Mutant: each step of the wave is held against the budget by itself.     *)
WithinBudgetEach(r, m) == \A s \in DOMAIN m : Accounted(r) + m[s] <= Budget

WithinBudget(r, m) == Accounted(r) + SumFunctionOnSet(m, DOMAIN m) <= Budget

(* Every step of the wave is prepared; a step that cannot be, is not       *)
(* feasible or is not bounded, and a wave over the budget or the quota,    *)
(* has what was prepared cancelled.                                        *)
Prepare(r) ==
    /\ pc[r] = "loop" /\ mode[r] = "prepared" /\ Ready(r) # {}
    /\ CashKnown(r) /\ Accounted(r) <= Budget
    /\ \E m \in [PreparedWave(r) -> Prices], made \in SUBSET PreparedWave(r) :
         /\ maximum' = [d \in Dispatches |->
                           IF d[1] = r /\ d[2] \in PreparedWave(r) THEN m[d[2]] ELSE maximum[d]]
         /\ decision' = [d \in Dispatches |->
                            IF d[1] = r /\ d[2] \in made THEN "prepared" ELSE decision[d]]
         /\ \/ Goto(r, "cancel")
            \/ made = PreparedWave(r) /\ WithinBudget(r, m) /\ Goto(r, "run")
    /\ wave' = [wave EXCEPT ![r] = PreparedWave(r)]
    /\ UNCHANGED <<economic, mode, checkpoint, reported, source, root, outputs, receipts, host, outcome, cash>>

(* Ordinary execution serializes a step only when the route selected for   *)
(* it this time writes, whatever the routes it falls back to do.           *)
RouteWave(r) ==
    /\ pc[r] = "loop" /\ mode[r] = "ordinary" /\ Ready(r) # {}
    /\ CashKnown(r)
    /\ \E reading \in SUBSET Mixed :
         wave' = [wave EXCEPT ![r] = Wave(r, Writes \ reading)]
    /\ Goto(r, "run")
    /\ UNCHANGED <<economic, mode, durableVars, source, root, outputs, receipts, host, outcome, cash>>

(* A step of the wave ends: its charge stays within its maximum and may    *)
(* remain unknown.  It raises before the invocation, which a prepared      *)
(* decision survives, or after it, with no receipt for the run.            *)
Executed(r, s, o, c) ==
    /\ outcome' = [outcome EXCEPT ![<<r, s>>] = o]
    /\ cash' = [cash EXCEPT ![<<r, s>>] = c]
    /\ UNCHANGED <<economic, checkpoint, reported, maximum, pc, runVars>>

RunStep(r, s) ==
    LET d == <<r, s>> IN
    /\ pc[r] = "run" /\ s \in wave[r] /\ outcome[d] = "none"
    /\ \/ /\ \E o \in {"ok", "bad", "lost"}, c \in Prices \cup {None} :
                /\ s \notin Hosted
                /\ mode[r] = "prepared" /\ c # None => c <= maximum[d]
                /\ Executed(r, s, o, c)
          /\ decision' = [decision EXCEPT ![d] = IF @ = "prepared" THEN "invoked" ELSE @]
       \/ /\ \E c \in {0, None} : s \in Hosted /\ Executed(r, s, "waiting", c)
          /\ decision' = [decision EXCEPT ![d] = IF @ = "prepared" THEN "invoked" ELSE @]
       \/ Executed(r, s, "refused", None) /\ UNCHANGED decision

Collected(r, os) == {s \in wave[r] : outcome[<<r, s>>] \in os}
Raised == {"lost", "refused"}

(* Mutants: receipts of the steps that succeeded only; by step instead of  *)
(* by decision.                                                            *)
CollectReceiptsOk(r) == {<<r, s>> : s \in Collected(r, {"ok"})}

CollectReceiptsByStep(r) == Collected(r, {"ok", "bad", "waiting"})

CollectReceipts(r) == {<<r, s>> : s \in Collected(r, {"ok", "bad", "waiting"})}

(* The prepared wave is taken in as a whole before it is judged.           *)
CollectPrepared(r) ==
    /\ pc[r] = "run" /\ mode[r] = "prepared" /\ Collected(r, {"none"}) = {}
    /\ receipts' = [receipts EXCEPT ![r] = @ \cup CollectReceipts(r)]
    /\ IF Collected(r, Raised) # {}
         THEN Goto(r, "cancel") /\ UNCHANGED <<outputs, checkpoint, host>>
         ELSE /\ outputs' = [outputs EXCEPT ![r] = @ \cup Collected(r, {"ok"})]
              /\ IF Collected(r, {"waiting"}) # {}
                   THEN \E s \in Collected(r, {"waiting"}) : Result(r, "waiting", s)
                 ELSE IF Collected(r, {"bad"}) # {}
                   THEN Result(r, "failed", None)
                   ELSE Goto(r, "loop") /\ UNCHANGED <<checkpoint, host>>
    /\ UNCHANGED <<economic, mode, reported, decision, maximum, source, root, wave, outcome, cash>>

(* The ordinary wave is taken in step by step: the first that does not     *)
(* succeed ends the call, and what later ones produced is not kept.        *)
CollectOrdinary(r) ==
    LET stops == {s \in wave[r] : outcome[<<r, s>>] # "ok"}
        Taken == {s \in wave[r] : \A t \in stops : Before(s, t)}
        First == CHOOSE s \in stops : \A t \in stops \ {s} : Before(s, t)
    IN
    /\ pc[r] = "run" /\ mode[r] = "ordinary" /\ Collected(r, {"none"}) = {}
    /\ outputs' = [outputs EXCEPT ![r] = @ \cup Taken]
    /\ receipts' = [receipts EXCEPT ![r] =
           @ \cup {<<r, s>> : s \in Taken \cup {t \in stops : t = First /\ outcome[<<r, t>>] \notin Raised}}]
    /\ IF stops = {} THEN Goto(r, "loop") /\ UNCHANGED <<checkpoint, host>>
       ELSE IF outcome[<<r, First>>] = "waiting" THEN Result(r, "waiting", First)
       ELSE Result(r, "failed", None)
    /\ UNCHANGED <<economic, mode, reported, decision, maximum, source, root, wave, outcome, cash>>

(* Mutant: only a step that was tried gives its decision up.               *)
UninvokedTried(r) == {s \in wave[r] : decision[<<r, s>>] = "prepared" /\ outcome[<<r, s>>] # "none"}

Uninvoked(r) == {s \in wave[r] : decision[<<r, s>>] = "prepared"}

CancelUninvoked(r) ==
    /\ pc[r] = "cancel"
    /\ IF Uninvoked(r) # {}
         THEN /\ \E s \in Uninvoked(r) : decision' = [decision EXCEPT ![<<r, s>>] = "cancelled"]
              /\ UNCHANGED <<pc, checkpoint, host>>
         ELSE Result(r, "failed", None) /\ UNCHANGED decision
    /\ UNCHANGED <<economic, mode, reported, maximum, source, root, outputs, receipts, wave, outcome, cash>>

(* A release that is refused or uncertain ends the call without a result.  *)
CancelRaises(r) ==
    /\ pc[r] = "cancel" /\ Uninvoked(r) # {}
    /\ Goto(r, "raised")
    /\ UNCHANGED <<economic, durableVars, runVars, outcome, cash>>

Finish(r) ==
    /\ pc[r] = "loop" /\ Steps \subseteq outputs[r]
    /\ Result(r, "success", None)
    /\ UNCHANGED <<economic, mode, reported, decision, maximum, source, root, outputs, receipts, wave,
                   outcome, cash>>

(* An input or output pointer that the produced value does not have.       *)
PointerRaises(r) ==
    /\ pc[r] = "loop"
    /\ Goto(r, "raised")
    /\ UNCHANGED <<economic, durableVars, runVars, outcome, cash>>

Crash(r) ==
    /\ r \in Crashable /\ pc[r] \in {"report", "loop", "run", "cancel"}
    /\ Goto(r, "crashed")
    /\ UNCHANGED <<economic, durableVars, runVars, outcome, cash>>

Next ==
    \E r \in Runs :
        \/ Begin(r) \/ Report(r) \/ ReportRefused(r) \/ TurnFails(r) \/ Prepare(r) \/ RouteWave(r)
        \/ CollectPrepared(r) \/ CollectOrdinary(r) \/ CancelUninvoked(r) \/ CancelRaises(r)
        \/ Finish(r) \/ PointerRaises(r) \/ Crash(r)
        \/ \E q \in Runs : Resume(r, q)
        \/ \E s \in Steps : RunStep(r, s)

Spec == Init /\ [][Next]_vars

-----------------------------------------------------------------------------
(* Types; a checkpoint waits only for a step that a host executes, and     *)
(* receipts belong to dispatches (_workflow_result).                       *)
TypeOK ==
    /\ economic \in BOOLEAN /\ mode \in [Runs -> {"prepared", "ordinary"}]
    /\ checkpoint \in Hosted \cup {None} /\ reported \subseteq Dispatches
    /\ decision \in [Dispatches -> {"none", "prepared", "invoked", "cancelled"}]
    /\ maximum \in [Dispatches -> Nat]
    /\ pc \in [Runs -> {"idle", "report", "loop", "run", "cancel", "waiting", "failed",
                        "success", "raised", "crashed"}]
    /\ source \in [Runs -> Runs \cup {None}] /\ root \in [Runs -> Runs]
    /\ outputs \in [Runs -> SUBSET Steps] /\ wave \in [Runs -> SUBSET Steps]
    /\ receipts \in [Runs -> SUBSET Dispatches] /\ host \in [Runs -> Hosted \cup {None}]
    /\ outcome \in [Dispatches -> {"none", "ok", "bad", "lost", "waiting", "refused"}]
    /\ cash \in [Dispatches -> Nat \cup {None}]

(* The calls that continue one start of the workflow, and what they had    *)
(* invoked.                                                                *)
Family(r) == {q \in Runs : root[q] = root[r] /\ pc[q] # "idle"}
Invoked(r) == {d \in Family(r) \X Steps : outcome[d] \notin {"none", "refused"}}
AllPrepared(r) == \A q \in Family(r) : mode[q] = "prepared"

(* What a dispatch charged, or at most did.                                *)
Charge == [d \in Dispatches |-> IF cash[d] = None THEN maximum[d] ELSE cash[d]]

(* However often a workflow waits and is continued, what its own steps     *)
(* charged, or may have charged where that is unknown, stays within        *)
(* max_cash_usd when its waves are prepared: also over the steps that ran  *)
(* concurrently, failed or lost their receipt (router.py, accounted_cash + *)
(* wave_maximum).                                                          *)
BudgetRespected ==
    \A r \in Runs : AllPrepared(r) =>
        SumFunctionOnSet(Charge, {d \in Invoked(r) : d[2] \notin Hosted}) <= Budget

(* A call that returned leaves no decision of its own open for execution:  *)
(* "skipped branches MUST release reservations" (SPEC.md, section 43;      *)
(* cancel_uninvoked on every failing exit).                                *)
NothingLeftOpen ==
    \A r \in Runs : pc[r] \in {"success", "failed", "waiting"} =>
        \A s \in Steps : decision[<<r, s>>] # "prepared"

(* No write step is invoked twice for one start of the workflow, by        *)
(* whichever holders of a waiting outcome continue it, concurrently or     *)
(* after a crash (record_external_outcome "exactly once").  A step that    *)
(* writes only where it falls back is one of them when every wave is       *)
(* prepared: an ordinary wave may run it beside other steps and lose its   *)
(* result.                                                                 *)
WriteOnce ==
    \A r \in Runs, w \in Writes :
        w \notin Mixed \/ AllPrepared(r) => Cardinality({d \in Invoked(r) : d[2] = w}) <= 1

(* The receipts of a successful workflow of prepared waves cover every     *)
(* invocation made for it, in this call and in the calls it continues, so  *)
(* that its cash total leaves nothing out.                                 *)
AccountedOnSuccess ==
    \A r \in Runs : pc[r] = "success" /\ AllPrepared(r) => Invoked(r) \subseteq receipts[r]
=============================================================================
