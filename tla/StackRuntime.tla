---------------------------- MODULE StackRuntime ----------------------------
(***************************************************************************)
(* Execution of a reviewed stack (StackRuntime): a serial graph of nodes   *)
(* whose progress is one durable row per proposal, run by any number of    *)
(* coordinators, resumed after waiting, failure or a crash, reconciled by  *)
(* an operator and amended into a successor proposal.                      *)
(*                                                                         *)
(* An action is one transaction on stack_runs or one dispatch.  run reads  *)
(* the progress before it claims the row and works from that copy.         *)
(***************************************************************************)
EXTENDS Naturals, Sequences, FiniteSets, FiniteSetsExt

CONSTANTS
    Coordinators,        \* callers of run
    Proposals, Parent,   \* proposals; the one each succeeds, or None
    Order,               \* node identifiers in the order of the compiled workflow
    Requires,            \* pairs <<n, m>>: n consumes what m produces
    Replaced,            \* nodes whose implementation a successor changes
    ReadOnly,            \* nodes that are idempotent reads
    Delegated,           \* nodes a host executes: dispatched, then waited for
    MaxAttempts, RetryReserve,
    Crashable, None      \* coordinators whose process may die

Nodes == {Order[i] : i \in 1 .. Len(Order)}

ASSUME StackAssumption ==
    /\ Parent \in [Proposals -> Proposals \cup {None}] /\ None \notin Proposals
    /\ Order \in Seq(Nodes)
    /\ Requires \subseteq Nodes \X Nodes /\ Replaced \subseteq Nodes
    /\ ReadOnly \subseteq Nodes /\ Delegated \subseteq Nodes
    /\ Cardinality(Nodes) = Len(Order)
    /\ MaxAttempts \in Nat /\ RetryReserve \in Nat
    /\ Crashable \subseteq Coordinators

VARIABLES
    state, attempts, progress, late,     \* stack_runs
    pc, at, prior, index, try,           \* a coordinator: its copy of the progress,
                                         \* where it is, number of the node's attempt
    invoked,     \* dispatches <<proposal, node, attempt>>, as their keys record them
    receipted,   \* dispatches with a verified successful receipt
    parked,      \* nodes whose child workflow checkpoint is waiting
    origin       \* history: the proposal whose run a row continues by amendments

rowVars == <<state, attempts, progress, late>>
localVars == <<at, prior, index, try>>
effectVars == <<invoked, receipted, parked, origin>>
vars == <<rowVars, pc, localVars, effectVars>>

Fresh == [n \in Nodes |-> [st |-> "none", tries |-> 0]]

Init ==
    /\ state = [p \in Proposals |-> "none"]
    /\ attempts = [p \in Proposals |-> 0]
    /\ progress = [p \in Proposals |-> Fresh]
    /\ late = {}
    /\ pc = [c \in Coordinators |-> "idle"]
    /\ at = [c \in Coordinators |-> None]
    /\ prior = [c \in Coordinators |-> Fresh]
    /\ index = [c \in Coordinators |-> 1]
    /\ try = [c \in Coordinators |-> 0]
    /\ invoked = {} /\ receipted = {} /\ parked = {}
    /\ origin = [p \in Proposals |-> p]

-----------------------------------------------------------------------------
Goto(c, l) == pc' = [pc EXCEPT ![c] = l]
SetState(p, s) == state' = [state EXCEPT ![p] = s]

(* What the coordinator still has to do, by its copy of the progress.      *)
Pending(c) == {i \in index[c] .. Len(Order) : prior[c][Order[i]].st # "complete"}
Node(c) == Order[Min(Pending(c))]
Dispatch(c) == <<at[c], Node(c), try[c]>>

(* run ends: its local state is gone.                                      *)
Leave(c) ==
    /\ Goto(c, "idle")
    /\ at' = [at EXCEPT ![c] = None]
    /\ prior' = [prior EXCEPT ![c] = Fresh]
    /\ index' = [index EXCEPT ![c] = 1]
    /\ try' = [try EXCEPT ![c] = 0]

(* The exception handler of run: the row becomes uncertain once something  *)
(* was dispatched, and is paused otherwise.                                *)
Stop(c, s) == SetState(at[c], s) /\ Leave(c)

-----------------------------------------------------------------------------
(* run: an interrupted node is refused; a waiting one needs its output.    *)
Load(c, p) ==
    /\ pc[c] = "idle"
    /\ \A n \in Nodes : progress[p][n].st # "started"
    /\ at' = [at EXCEPT ![c] = p]
    /\ prior' = [prior EXCEPT ![c] = progress[p]]
    /\ Goto(c, "claim")
    /\ UNCHANGED <<rowVars, index, try, effectVars>>

(* Mutant: a running row can be claimed again.                             *)
ClaimableAgain(p) ==
    IF state[p] = "none" THEN Parent[p] # None => state[Parent[p]] = "none"
    ELSE state[p] \notin {"uncertain", "superseded"} /\ p \notin late

Claimable(p) ==
    IF state[p] = "none" THEN Parent[p] # None => state[Parent[p]] = "none"
    ELSE state[p] \notin {"running", "uncertain", "superseded"} /\ p \notin late

Claim(c) ==
    /\ pc[c] = "claim"
    /\ IF Claimable(at[c])
         THEN SetState(at[c], "running") /\ Goto(c, "node") /\ UNCHANGED localVars
         ELSE Leave(c) /\ UNCHANGED state
    /\ UNCHANGED <<attempts, progress, late, effectVars>>

(* The proposal, the setup, the executor or the input is no longer right.  *)
PreflightFails(c) ==
    /\ pc[c] = "node" /\ Pending(c) # {}
    /\ Stop(c, "paused")
    /\ UNCHANGED <<attempts, progress, late, effectVars>>

(* Mutants: one attempt too many; a finished node is dispatched again.     *)
ReservableOneMore(p, n) ==
    /\ state[p] = "running" /\ attempts[p] <= MaxAttempts /\ p \notin late
    /\ progress[p][n].st \notin {"started", "complete"}
    /\ progress[p][n].tries <= RetryReserve
ReservableAgain(p, n) ==
    /\ state[p] = "running" /\ attempts[p] < MaxAttempts /\ p \notin late
    /\ progress[p][n].st # "started"
    /\ progress[p][n].tries <= RetryReserve

Reservable(p, n) ==
    /\ state[p] = "running" /\ attempts[p] < MaxAttempts /\ p \notin late
    /\ progress[p][n].st \notin {"started", "complete"}
    /\ progress[p][n].tries <= RetryReserve

Reserve(c) ==
    LET p == at[c]  n == Node(c) IN
    /\ pc[c] = "node" /\ Pending(c) # {} /\ prior[c][n].st # "waiting"
    /\ IF Reservable(p, n)
         THEN /\ progress' = [progress EXCEPT ![p][n] = [st |-> "started", tries |-> @.tries + 1]]
              /\ attempts' = [attempts EXCEPT ![p] = @ + 1]
              /\ try' = [try EXCEPT ![c] = prior[c][n].tries + 1]
              /\ Goto(c, "dispatch")
              /\ UNCHANGED <<state, at, prior, index>>
         ELSE Stop(c, "paused") /\ UNCHANGED <<attempts, progress>>
    /\ UNCHANGED <<late, effectVars>>

(* The child workflow runs the node under the key of this attempt.  A key  *)
(* that was used before answers that the node is delegated, or fails       *)
(* without a receipt.                                                      *)
Execute(c) ==
    LET d == Dispatch(c) IN
    /\ pc[c] = "dispatch"
    /\ invoked' = invoked \cup {d}
    /\ CASE Node(c) \in Delegated ->
                /\ parked' = parked \cup {<<d[1], d[2]>>} /\ Goto(c, "park")
                /\ UNCHANGED <<state, localVars>>
         [] Node(c) \notin Delegated /\ d \notin invoked ->
                Goto(c, "execute") /\ UNCHANGED <<parked, state, localVars>>
         [] Node(c) \notin Delegated /\ d \in invoked ->
                Stop(c, "uncertain") /\ UNCHANGED parked
    /\ UNCHANGED <<attempts, progress, late, receipted, origin>>

Park(c) ==
    LET p == at[c] IN
    /\ pc[c] = "park"
    /\ progress' = [progress EXCEPT ![p][Node(c)] = [st |-> "waiting", tries |-> try[c]]]
    /\ Stop(c, "waiting")
    /\ UNCHANGED <<attempts, late, effectVars>>

Succeeds(c) ==
    /\ pc[c] = "execute"
    /\ receipted' = receipted \cup {Dispatch(c)}
    /\ Goto(c, "complete")
    /\ UNCHANGED <<rowVars, localVars, invoked, parked, origin>>

(* A definite failure of an idempotent read may use the retry reserve.     *)
SafeRetry(c) == Node(c) \in ReadOnly /\ try[c] <= RetryReserve

Fails(c) ==
    LET p == at[c] IN
    /\ pc[c] = "execute"
    /\ IF SafeRetry(c)
         THEN /\ progress' = [progress EXCEPT ![p][Node(c)] = [st |-> "retryable", tries |-> try[c]]]
              /\ Goto(c, "pause")
              /\ UNCHANGED <<state, localVars>>
         ELSE Stop(c, "uncertain") /\ UNCHANGED progress
    /\ UNCHANGED <<attempts, late, effectVars>>

Pause(c) ==
    /\ pc[c] = "pause"
    /\ Stop(c, "paused")
    /\ UNCHANGED <<attempts, progress, late, effectVars>>

(* No definite answer, a cancelled run, or a result that does not verify.  *)
Unclear(c) ==
    /\ pc[c] \in {"dispatch", "execute", "complete"}
    /\ Stop(c, "uncertain")
    /\ UNCHANGED <<attempts, progress, late, effectVars>>

(* The output of a waiting node: reported once, under its checkpoint.      *)
Resume(c) ==
    LET p == at[c]  n == Node(c) IN
    /\ pc[c] = "node" /\ Pending(c) # {} /\ prior[c][n].st = "waiting"
    /\ <<p, n>> \in parked
    /\ parked' = parked \ {<<p, n>>}
    /\ receipted' = receipted \cup {<<p, n, prior[c][n].tries>>}
    /\ try' = [try EXCEPT ![c] = prior[c][n].tries]
    /\ Goto(c, "complete")
    /\ UNCHANGED <<rowVars, at, prior, index, invoked, origin>>

(* The checkpoint is gone, the output does not fit, or the route is no     *)
(* longer active: run counts this as a dispatch that went wrong.           *)
ResumeFails(c) ==
    /\ pc[c] = "node" /\ Pending(c) # {} /\ prior[c][Node(c)].st = "waiting"
    /\ Stop(c, "uncertain")
    /\ UNCHANGED <<attempts, progress, late, effectVars>>

Complete(c) ==
    LET p == at[c] IN
    /\ pc[c] = "complete"
    /\ progress' = [progress EXCEPT ![p][Node(c)].st = "complete"]
    /\ index' = [index EXCEPT ![c] = Min(Pending(c)) + 1]
    /\ try' = [try EXCEPT ![c] = 0]
    /\ Goto(c, "node")
    /\ UNCHANGED <<state, attempts, late, at, prior, effectVars>>

Finish(c) ==
    /\ pc[c] = "node" /\ Pending(c) = {}
    /\ Stop(c, "complete")
    /\ UNCHANGED <<attempts, progress, late, effectVars>>

Crash(c) ==
    /\ c \in Crashable /\ pc[c] # "idle"
    /\ Leave(c)
    /\ UNCHANGED <<rowVars, effectVars>>

Deadline(p) ==
    /\ state[p] # "none" /\ p \notin late
    /\ late' = late \cup {p}
    /\ UNCHANGED <<state, attempts, progress, pc, localVars, effectVars>>

-----------------------------------------------------------------------------
(* Operators.                                                              *)

Coordinated(p) == \E c \in Coordinators : at[c] = p /\ pc[c] # "claim"

(* A lost checkpoint is restored from the receipt of that very dispatch;   *)
(* the operator has stopped the old coordinator.                           *)
Reconcile(p, n) ==
    /\ state[p] \in {"running", "uncertain"} /\ ~Coordinated(p)
    /\ progress[p][n].st = "started"
    /\ <<p, n, progress[p][n].tries>> \in receipted
    /\ progress' = [progress EXCEPT ![p][n].st = "complete"]
    /\ SetState(p, "paused")
    /\ UNCHANGED <<attempts, late, pc, localVars, effectVars>>

(* The replaced nodes and everything that depends on them.                 *)
Affected ==
    LET Closed(S) == \A e \in Requires : e[2] \in S => e[1] \in S
    IN  {n \in Nodes : \A S \in SUBSET Nodes : Replaced \subseteq S /\ Closed(S) => n \in S}

Preserved(p) == {n \in Nodes \ Affected : progress[p][n].st = "complete"}

(* Mutant: completed work is repeated whatever it does.                    *)
AmendableWrites(p) ==
    /\ state[p] \in {"paused", "complete"}
    /\ \A n \in Nodes : progress[p][n].st \in {"none", "complete", "retryable"}
    /\ attempts[p] + Cardinality(Nodes \ Preserved(p)) <= MaxAttempts

Amendable(p) ==
    /\ state[p] \in {"paused", "complete"}
    /\ \A n \in Nodes : progress[p][n].st \in {"none", "complete", "retryable"}
    /\ \A n \in Affected : progress[p][n].st = "complete" => n \in ReadOnly
    /\ attempts[p] + Cardinality(Nodes \ Preserved(p)) <= MaxAttempts

(* Mutant: the successor starts with a full allowance.                     *)
CarriedNothing(p) == 0

Carried(p) == attempts[p]

Amend(p, q) ==
    /\ Parent[q] = p /\ state[q] = "none" /\ Amendable(p)
    /\ state' = [state EXCEPT ![p] = "superseded", ![q] = "paused"]
    /\ attempts' = [attempts EXCEPT ![q] = Carried(p)]
    /\ progress' = [progress EXCEPT ![q] =
                       [n \in Nodes |-> IF n \in Preserved(p) THEN progress[p][n] ELSE Fresh[n]]]
    /\ late' = IF p \in late THEN late \cup {q} ELSE late
    /\ origin' = [origin EXCEPT ![q] = origin[p]]
    /\ UNCHANGED <<pc, localVars, invoked, receipted, parked>>

Run(c) ==
    \/ \E p \in Proposals : Load(c, p)
    \/ Claim(c) \/ PreflightFails(c) \/ Reserve(c) \/ Execute(c) \/ Park(c) \/ Succeeds(c)
    \/ Fails(c) \/ Pause(c) \/ Unclear(c) \/ Resume(c) \/ ResumeFails(c) \/ Complete(c)
    \/ Finish(c) \/ Crash(c)

Next ==
    \/ \E c \in Coordinators : Run(c)
    \/ \E p \in Proposals : Deadline(p)
    \/ \E p \in Proposals, n \in Nodes : Reconcile(p, n)
    \/ \E p, q \in Proposals : Amend(p, q)

Spec == Init /\ [][Next]_vars

-----------------------------------------------------------------------------
(* The type invariant; the allowance bounds the attempts of a row.         *)
TypeOK ==
    /\ state \in [Proposals -> {"none", "running", "paused", "waiting", "uncertain", "complete",
                                "superseded"}]
    /\ attempts \in [Proposals -> 0 .. MaxAttempts]
    /\ \A p \in Proposals, n \in Nodes :
           /\ progress[p][n].st \in {"none", "started", "waiting", "retryable", "complete"}
           /\ progress[p][n].tries \in 0 .. RetryReserve + 1
    /\ late \subseteq Proposals
    /\ \A c \in Coordinators :
           /\ pc[c] \in {"idle", "claim", "node", "dispatch", "execute", "park", "pause", "complete"}
           /\ at[c] \in Proposals \cup {None} /\ (pc[c] = "idle" <=> at[c] = None)
           /\ index[c] \in 1 .. Len(Order) + 1 /\ try[c] \in 0 .. RetryReserve + 1

(* A lineage is a run and what continues it by amendments; a successor     *)
(* that was run before its predecessor starts a lineage of its own.        *)
Dispatches(o) == {d \in invoked : origin[d[1]] = o}

(* A node that is not an idempotent read is dispatched at most once in a   *)
(* lineage, over all coordinators, resumptions, reconciliations and        *)
(* amendments (_reserve, amend).                                           *)
ConsequentialOnce ==
    \A o \in Proposals : \A d, e \in Dispatches(o) :
        d[2] = e[2] /\ d[2] \notin ReadOnly => d = e

(* All dispatches of a lineage stay within one allowance: neither a crash, *)
(* nor a reconciliation, nor an amendment gives attempts back.             *)
AllowanceRespected == \A o \in Proposals : Cardinality(Dispatches(o)) <= MaxAttempts

(* Concurrent and duplicate requests do not put two coordinators to work   *)
(* on one lineage (_claim): not on one row, and not on a row and the       *)
(* successor it was amended into.                                          *)
OneCoordinator ==
    \A c, d \in Coordinators :
        /\ pc[c] \notin {"idle", "claim"} /\ pc[d] \notin {"idle", "claim"}
        /\ origin[at[c]] = origin[at[d]]
        => c = d

(* A plan and its successor serve one goal and share its allowance:        *)
(* "executed predecessor requires explicit amendment; allowance cannot     *)
(* reset" (_claim).  The claim looks for the predecessor's row only.       *)
AllowanceNeverResets ==
    \A p, q \in Proposals :
        Parent[q] = p => Cardinality({d \in invoked : d[1] \in {p, q}}) <= MaxAttempts

(* A coordinator that works from a stale copy never takes back a node that *)
(* another one completed, and a superseded row stays superseded.           *)
CompletedStays ==
    [][\A p \in Proposals, n \in Nodes :
           /\ progress[p][n].st = "complete" => progress'[p][n].st = "complete"
           /\ state[p] = "superseded" => state'[p] = "superseded"]_vars
=============================================================================
