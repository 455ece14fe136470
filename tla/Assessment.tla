----------------------------- MODULE Assessment -----------------------------
(***************************************************************************)
(* Assessments: trials of a candidate route against a baseline, run by a   *)
(* worker process under an operator's grant, reported, and turned into a   *)
(* scoped admission that lets the router choose the candidate              *)
(* (assessment/service.py, repository.py, recovery.py, worker.py, with the *)
(* trial loop of benchmarking.py).                                         *)
(*                                                                         *)
(* The plans share one grant, one candidate and one paid preparation (the  *)
(* setup cost "cost").  A plan has at most one job (enqueue returns the    *)
(* existing one), so a job is named by its plan, and so is its report.     *)
(* Everything but pc, valid, screened, failed and command is a row of the  *)
(* shared SQLite file and survives a crash; an action that writes rows is  *)
(* one transaction.                                                        *)
(***************************************************************************)
EXTENDS Integers, FiniteSets, FiniteSetsExt

CONSTANTS Plans,       \* reviewed plans of one candidate under one grant
          NoPlan,
          Trials,      \* a campaign runs the trials 1 .. Trials in this order
          RouteOf,     \* the route that each trial measures
          Screening,   \* trials of the qualification split; they come first
          Paired,      \* the trials that fit_report compares (the holdout)
          Granted,     \* limits of the root authorization
          Raised,      \* limits of the budget amendment that may follow
          Elapsed,     \* measured seconds of an operation, 1 being reserved
          MaxEvents    \* bound on operator commands, signals and crashes

ASSUME AssessmentAssumption ==
  /\ NoPlan \notin Plans
  /\ Trials \in Nat \ {0}
  /\ Paired \subseteq 1 .. Trials /\ Screening \subseteq 1 .. Trials
  /\ \A s \in Screening, t \in Paired : s < t
  /\ MaxEvents \in Nat
  /\ Elapsed \subseteq Nat
  /\ {Granted, Raised} \subseteq [{"operations", "seconds", "cash"} -> Nat]

VARIABLES
  grant,        \* assessment_grants and its amendments: revoked, expired, limits, spent
  reviewed,     \* plans whose definitions are all under current review
  ops,          \* assessment_operations with the operation_measurement record
  job,          \* assessment_jobs.state by plan
  admission,    \* assessment_admissions of the candidate
  outdated,     \* plans whose report was created by the time of admission.revoked_at
  report,       \* the report of a plan: its outcome and whether it is stored
  pc,           \* where the worker of a plan is
  trial,        \* the trial its campaign has come to
  valid,        \* trials of the campaign with a valid result
  screened,     \* routes that its screening has put out
  failed,       \* the run's error_code is set
  command,      \* the identity operation that admit_resolved is at, 0 if none
  withdrawn,    \* history: the operator has revoked the grant
  cancelled,    \* history: plans whose job was cancelled
  discredited,  \* history: plans whose report is older than some revocation
  events        \* operator commands, signals and crashes so far

vars    == <<grant, reviewed, ops, job, admission, outdated, report, pc, trial,
             valid, screened, failed, command, withdrawn, cancelled, discredited, events>>

Dims == {"operations", "seconds", "cash"}

(* Operation ids of a run: "<job>:report", "<job>:grader-validation", the   *)
(* router set up for the campaign and the trial ids; the fresh ids of       *)
(* admit_resolved for the plan; the shared setup cost.                      *)
RunOps(p) == ({p} \X {"report", "grader", "setup"} \X {0})
               \cup ({p} \X {"trial"} \X (1 .. Trials))
OpsOf(p) == RunOps(p) \cup ({p} \X {"identity"} \X (1 .. MaxEvents))
Cost     == <<NoPlan, "cost", 0>>
OpIds    == {Cost} \cup UNION {OpsOf(p) : p \in Plans}

(* What an operation reserves: only a trial has a cash upper bound.         *)
Reserved(o) == [operations |-> 1, seconds |-> 1,
                cash |-> IF o[2] = "trial" THEN 1 ELSE 0]
Absent      == [state |-> "absent", seconds |-> 0, cash |-> 0]
Held(o)     == [state |-> "reserved", seconds |-> 1, cash |-> Reserved(o).cash]

Plus(a, b)  == [d \in Dims |-> a[d] + b[d]]
Fits(a, b)  == \A d \in Dims : a[d] =< b[d]

(* The accounting of a finished operation: a sum, or a cost nobody knows.   *)
Paid(n)   == [known |-> TRUE, sum |-> n]
Unpriced  == [known |-> FALSE, sum |-> 0]
CashFacts == {Paid(1), Paid(2), Unpriced}

JobStates   == {"none", "queued", "running", "cancelled", "indeterminate", "complete"}
Steps       == {"idle", "enqueuing", "ready", "claimed", "cost", "paying", "costing", "grader", "grading",
                "setup", "settingUp", "trial", "preflight", "invoking", "fitting",
                "recording", "completing", "admitting", "interrupted", "gone"}

TypeOK ==
  /\ grant \in [revoked : BOOLEAN, expired : BOOLEAN, limits : {Granted, Raised},
                spent : [Dims -> Nat]]
  /\ reviewed \subseteq Plans
  /\ ops \in [OpIds -> [state : {"absent", "reserved", "complete"},
                        seconds : Nat, cash : Nat]]
  /\ job \in [Plans -> JobStates]
  /\ admission \in [plan : Plans \cup {NoPlan}, revoked : BOOLEAN]
  /\ outdated \subseteq Plans
  /\ report \in [Plans -> [outcome : {"none", "useful", "other"}, stored : BOOLEAN]]
  /\ pc \in [Plans -> Steps]
  /\ trial \in [Plans -> 1 .. Trials + 1]
  /\ valid \in [Plans -> SUBSET (1 .. Trials)]
  /\ screened \in [Plans -> SUBSET {RouteOf[t] : t \in Screening}]
  /\ failed \in [Plans -> BOOLEAN]
  /\ command \in [Plans -> 0 .. MaxEvents]
  /\ withdrawn \in BOOLEAN
  /\ cancelled \subseteq Plans
  /\ discredited \subseteq Plans
  /\ events \in 0 .. MaxEvents

Init ==
  /\ grant = [revoked |-> FALSE, expired |-> FALSE, limits |-> Granted,
              spent |-> [d \in Dims |-> 0]]
  /\ reviewed = Plans
  /\ ops = [o \in OpIds |-> Absent]
  /\ job = [p \in Plans |-> "none"]
  /\ admission = [plan |-> NoPlan, revoked |-> FALSE]
  /\ outdated = {}
  /\ report = [p \in Plans |-> [outcome |-> "none", stored |-> FALSE]]
  /\ pc = [p \in Plans |-> "idle"]
  /\ trial = [p \in Plans |-> 1]
  /\ valid = [p \in Plans |-> {}]
  /\ screened = [p \in Plans |-> {}]
  /\ failed = [p \in Plans |-> FALSE]
  /\ command = [p \in Plans |-> 0]
  /\ withdrawn = FALSE
  /\ cancelled = {}
  /\ discredited = {}
  /\ events = 0

-----------------------------------------------------------------------------
(* The repository's transactions. *)

(* authorize: the grant is neither revoked nor expired and every definition *)
(* of the plan is under current review.                                     *)
Authorized(p) == ~grant.revoked /\ ~grant.expired /\ p \in reviewed

(* Mutant: the operation id is not looked up before it is reserved.         *)
ReservableBlind(p, o) ==
  /\ Authorized(p)
  /\ job[p] \notin {"cancelled", "indeterminate"}
  /\ Fits(Plus(grant.spent, Reserved(o)), grant.limits)

(* Mutant: a stopped job does not end the reservations.                     *)
ReservableStopped(p, o) ==
  /\ Authorized(p)
  /\ ops[o].state = "absent"
  /\ Fits(Plus(grant.spent, Reserved(o)), grant.limits)

(* reserve: authority, a job that was not stopped, an unused operation id   *)
(* and the effective limits are all checked in the transaction that debits. *)
Reservable(p, o) ==
  /\ Authorized(p)
  /\ job[p] \notin {"cancelled", "indeterminate"}
  /\ ops[o].state = "absent"
  /\ Fits(Plus(grant.spent, Reserved(o)), grant.limits)

Reserve(o) ==
  /\ ops' = [ops EXCEPT ![o] = Held(o)]
  /\ grant' = [grant EXCEPT !.spent = Plus(@, Reserved(o))]

Overspent(o, seconds, cash) ==
  \/ seconds > 1
  \/ Reserved(o).cash > 0 /\ ~cash.known
  \/ cash.sum > Reserved(o).cash

(* The cash an operation is charged: its reservation, or what it really     *)
(* cost when that is known and more.                                        *)
Charged(o, cash) ==
  Max({cash.sum, Reserved(o).cash})

(* Mutant: the measured seconds are given back, not the unused ones.        *)
SpentAfterMeasured(o, seconds, cash) ==
  [grant.spent EXCEPT !.seconds = @ - seconds,
                      !.cash = @ + Charged(o, cash) - Reserved(o).cash]

(* What the grant has spent once o is measured: unused seconds are given    *)
(* back, never below zero; operations and unused cash are not.              *)
SpentAfter(o, seconds, cash) ==
  [grant.spent EXCEPT !.seconds = Max({0, @ - (1 - seconds)}),
                      !.cash = @ + Charged(o, cash) - Reserved(o).cash]

(* finish_operation: only once; an overrun or an unknown cost revokes the   *)
(* grant.  cash is Paid(0) for the operations that carry no accounting.     *)
Finish(o, seconds, cash) ==
  /\ ops[o].state = "reserved"
  /\ ops' = [ops EXCEPT ![o] = [state |-> "complete", seconds |-> seconds,
                                cash |-> Charged(o, cash)]]
  /\ grant' = [grant EXCEPT !.revoked = @ \/ Overspent(o, seconds, cash),
                            !.spent = SpentAfter(o, seconds, cash)]

Event == events < MaxEvents /\ events' = events + 1

(* Reports created so far: their created_at is not after a revocation now. *)
Created == {p \in Plans : report[p].outcome # "none"}

WithdrawAdmission ==
  /\ admission' = [admission EXCEPT !.revoked = TRUE]
  /\ outdated' = Created
  /\ discredited' = discredited \cup {p \in Plans : report[p].outcome # "none"}

-----------------------------------------------------------------------------
(* The operator: grants, reviews, jobs, admissions. *)

(* enqueue: authority is looked at before the transaction that returns the  *)
(* plan's job when there is one, whatever its state, or makes one.          *)
Enqueue(p) ==
  /\ pc[p] = "idle" /\ job[p] = "none"
  /\ Authorized(p)
  /\ pc' = [pc EXCEPT ![p] = "enqueuing"]
  /\ UNCHANGED <<grant, reviewed, ops, job, admission, outdated, report, trial, valid,
                 screened, failed, command, withdrawn, cancelled, discredited, events>>

InsertJob(p) ==
  /\ pc[p] = "enqueuing" /\ job[p] = "none"
  /\ job' = [job EXCEPT ![p] = "queued"]
  /\ pc' = [pc EXCEPT ![p] = "idle"]
  /\ UNCHANGED <<grant, reviewed, ops, admission, outdated, report, trial, valid, screened,
                 failed, command, withdrawn, cancelled, discredited, events>>

(* cancel: a queued or a running job.                                       *)
Cancel(p) ==
  /\ Event
  /\ job[p] \in {"queued", "running"}
  /\ job' = [job EXCEPT ![p] = "cancelled"]
  /\ cancelled' = cancelled \cup {p}
  /\ UNCHANGED <<grant, reviewed, ops, admission, outdated, report, pc, trial, valid,
                 screened, failed, command, withdrawn, discredited>>

(* revoke: the grant and every admission that rests on it, together.        *)
RevokeGrant ==
  /\ Event
  /\ grant' = [grant EXCEPT !.revoked = TRUE]
  /\ withdrawn' = TRUE
  /\ IF admission.plan = NoPlan THEN UNCHANGED <<admission, outdated, discredited>>
                                ELSE WithdrawAdmission
  /\ UNCHANGED <<reviewed, ops, job, report, pc, trial, valid, screened, failed, command,
                 cancelled>>

(* The clock passes the expiry of the effective grant.                      *)
Expire ==
  /\ Event
  /\ ~grant.expired
  /\ grant' = [grant EXCEPT !.expired = TRUE]
  /\ UNCHANGED <<reviewed, ops, job, admission, outdated, report, pc, trial, valid, screened,
                 failed, command, withdrawn, cancelled, discredited>>

(* approve_budget_amendment: the root must be unrevoked, though it may have *)
(* expired; neither a limit nor the expiry may go down.                     *)
Amend ==
  /\ Event
  /\ ~grant.revoked
  /\ grant.limits # Raised
  /\ Fits(grant.limits, Raised)
  /\ grant' = [grant EXCEPT !.limits = Raised, !.expired = FALSE]
  /\ UNCHANGED <<reviewed, ops, job, admission, outdated, report, pc, trial, valid, screened,
                 failed, command, withdrawn, cancelled, discredited>>

(* review: a definition of the plan loses its review, or gets it back.      *)
Review(p) ==
  /\ Event
  /\ reviewed' = IF p \in reviewed THEN reviewed \ {p} ELSE reviewed \cup {p}
  /\ UNCHANGED <<grant, ops, job, admission, outdated, report, pc, trial, valid, screened,
                 failed, command, withdrawn, cancelled, discredited>>

(* The router revokes the admission of a candidate that drifted, broke its  *)
(* output contract or failed a verified production validation.              *)
RevokeAdmission ==
  /\ Event
  /\ admission.plan # NoPlan
  /\ WithdrawAdmission
  /\ UNCHANGED <<grant, reviewed, ops, job, report, pc, trial, valid, screened, failed,
                 command, withdrawn, cancelled>>

(* Mutant: authority is not checked again where the admission is written.   *)
AdmissibleUnchecked(p) ==
  /\ report[p].stored /\ report[p].outcome = "useful"
  /\ Paired \subseteq valid[p]
  /\ ops[<<p, "grader", 0>>].state = "complete"
  /\ admission.revoked => p \notin outdated /\ admission.plan # p

(* Mutant: a revoked admission is written over like a valid one. *)
AdmissibleOver(p) ==
  /\ report[p].stored /\ report[p].outcome = "useful"
  /\ Paired \subseteq valid[p]
  /\ ops[<<p, "grader", 0>>].state = "complete"
  /\ Authorized(p)

(* What admit looks at: the stored report and campaign, the completed       *)
(* grader validation, and, in the transaction that writes, the authority    *)
(* and the admission that is there already.                                 *)
Admissible(p) ==
  /\ report[p].stored /\ report[p].outcome = "useful"
  /\ Paired \subseteq valid[p]
  /\ ops[<<p, "grader", 0>>].state = "complete"
  /\ Authorized(p)
  /\ admission.revoked => p \notin outdated /\ admission.plan # p

(* An admission of the same report that is in force is returned unchanged.  *)
(* What the same transaction writes about the candidate, its qualification  *)
(* report and its row, is modelled in CandidateLifecycle.                   *)
Admit(p) ==
  /\ Admissible(p)
  /\ admission' = [plan |-> p, revoked |-> FALSE]
  /\ outdated' = {}

(* admit_resolved, on the operator's command for any stored report: every   *)
(* managed host of the mapping (whether there is one is left open) has its  *)
(* identity resolved first, as a reserved operation with a fresh id; the    *)
(* number of the command is that of the operation.  A plan has one such     *)
(* command at a time.                                                       *)
Identity(p) == <<p, "identity", command[p]>>
Resolved(p) == command[p] # 0 /\ ops[Identity(p)].state = "complete"

AdmitAgain(p) ==
  /\ Event
  /\ report[p].stored
  /\ \/ command[p] = 0 /\ Admit(p) /\ UNCHANGED <<grant, ops, command>>
     \/ /\ command[p] = 0 \/ Resolved(p)
        /\ Reservable(p, <<p, "identity", events + 1>>)
        /\ Reserve(<<p, "identity", events + 1>>)
        /\ command' = [command EXCEPT ![p] = events + 1]
        /\ UNCHANGED <<admission, outdated>>
  /\ UNCHANGED <<reviewed, job, report, pc, trial, valid, screened, failed, withdrawn,
                 cancelled, discredited>>

(* The host answers or raises; the operation is measured either way.        *)
ResolveIdentity(p) ==
  /\ command[p] # 0
  /\ \E seconds \in Elapsed : Finish(Identity(p), seconds, Paid(0))
  /\ command' \in {command, [command EXCEPT ![p] = 0]}
  /\ UNCHANGED <<reviewed, job, admission, outdated, report, pc, trial, valid, screened,
                 failed, withdrawn, cancelled, discredited, events>>

(* The command admits, or is refused: by admit, by the identities it has    *)
(* resolved or by the reservation for a further host.                       *)
AdmitResolved(p) ==
  /\ Resolved(p)
  /\ Admit(p) \/ UNCHANGED <<admission, outdated>>
  /\ command' = [command EXCEPT ![p] = 0]
  /\ UNCHANGED <<grant, reviewed, ops, job, report, pc, trial, valid, screened, failed,
                 withdrawn, cancelled, discredited, events>>

(* The process of the command dies; a reserved operation stays reserved.    *)
LoseCommand(p) ==
  /\ Event
  /\ command[p] # 0
  /\ command' = [command EXCEPT ![p] = 0]
  /\ UNCHANGED <<grant, reviewed, ops, job, admission, outdated, report, pc, trial, valid,
                 screened, failed, withdrawn, cancelled, discredited>>

-----------------------------------------------------------------------------
(* The worker: AssessmentService.run with the trial loop of the campaign. *)

At(p, step)   == pc[p] = step
Goto(p, step) == pc' = [pc EXCEPT ![p] = step]
Fail(p)       == failed' = [failed EXCEPT ![p] = TRUE] /\ Goto(p, "fitting")

operatorVars == <<reviewed, admission, outdated, command, withdrawn, cancelled, discredited>>
campaignVars == <<job, report, trial, valid, screened, events>>

(* run: status and authority first.                                         *)
BeginRun(p) ==
  /\ At(p, "idle")
  /\ job[p] \notin {"none", "complete"}
  /\ Authorized(p)
  /\ Goto(p, "ready")
  /\ UNCHANGED <<operatorVars, campaignVars, grant, ops, failed>>

(* The claim and the worker record, in one transaction.                     *)
Claim(p) ==
  /\ At(p, "ready")
  /\ IF job[p] = "queued"
       THEN job' = [job EXCEPT ![p] = "running"] /\ Goto(p, "claimed")
       ELSE UNCHANGED job /\ Goto(p, "idle")
  /\ UNCHANGED <<operatorVars, report, trial, valid, screened, events, grant, ops, failed>>

(* A reservation of the run: refused, it ends the campaign with an error    *)
(* code and the run goes on to its report.                                  *)
TryReserve(p, o, permitted, next) ==
  IF permitted /\ Reservable(p, o)
    THEN Reserve(o) /\ Goto(p, next) /\ UNCHANGED failed
    ELSE Fail(p) /\ UNCHANGED <<ops, grant>>

ReserveStage(p) ==
  /\ \/ At(p, "claimed") /\ TryReserve(p, <<p, "report", 0>>, TRUE, "cost")
     \/ At(p, "paying") /\ TryReserve(p, Cost, TRUE, "costing")
     \/ At(p, "grader") /\ TryReserve(p, <<p, "grader", 0>>, TRUE, "grading")
     \/ At(p, "setup") /\ TryReserve(p, <<p, "setup", 0>>, TRUE, "settingUp")
     \/ At(p, "trial")
          /\ TryReserve(p, <<p, "trial", trial[p]>>, job[p] = "running", "preflight")
  /\ UNCHANGED <<operatorVars, campaignVars>>

(* The shared setup cost is read before it is reserved.                     *)
ReadCost(p) ==
  /\ At(p, "cost")
  /\ CASE ops[Cost].state = "absent"   -> Goto(p, "paying") /\ UNCHANGED failed
       [] ops[Cost].state = "complete" -> Goto(p, "grader") /\ UNCHANGED failed
       [] ops[Cost].state = "reserved" -> Fail(p)
  /\ UNCHANGED <<operatorVars, campaignVars, grant, ops>>

(* The end of a stage that calls no candidate: measured whether it worked   *)
(* or raised.                                                               *)
FinishStage(p) ==
  /\ \E seconds \in Elapsed, ok \in BOOLEAN :
       \/ At(p, "costing") /\ ok
            /\ Finish(Cost, 1, Paid(0)) /\ Goto(p, "grader") /\ UNCHANGED failed
       \/ /\ At(p, "grading")
          /\ Finish(<<p, "grader", 0>>, seconds, Paid(0))
          /\ IF ok THEN Goto(p, "setup") /\ UNCHANGED failed ELSE Fail(p)
       \/ /\ At(p, "settingUp")
          /\ Finish(<<p, "setup", 0>>, seconds, Paid(0))
          /\ IF ok THEN Goto(p, "trial") /\ UNCHANGED failed ELSE Fail(p)
  /\ UNCHANGED <<operatorVars, campaignVars>>

(* Preflight of a trial, then check_current as the last thing before the    *)
(* candidate is called.  A trial that the check stops has no accounting,    *)
(* so its cost counts as unknown.                                           *)
Preflight(p) ==
  /\ At(p, "preflight")
  /\ \/ /\ Authorized(p) /\ job[p] = "running"
        /\ Goto(p, "invoking")
        /\ UNCHANGED <<grant, ops, failed>>
     \/ /\ \E seconds \in Elapsed, cash \in {Paid(0), Unpriced} :
             /\ Finish(<<p, "trial", trial[p]>>, seconds, cash)
             /\ cash = Unpriced => ~(Authorized(p) /\ job[p] = "running")
        /\ Fail(p)
  /\ UNCHANGED <<operatorVars, campaignVars>>

(* The trial after the one at hand: those of the routes in out are skipped. *)
NextTrial(p, out, t) ==
  /\ t \in trial[p] + 1 .. Trials + 1
  /\ \A u \in trial[p] + 1 .. t - 1 : RouteOf[u] \in out
  /\ t =< Trials => RouteOf[t] \notin out

(* The result of a trial, after_trial, and the next trial or the report.    *)
(* An invalid result in the screening puts the route out, unless the plan   *)
(* builds on a pilot; one that nothing has judged does not.                 *)
Answer(p) ==
  /\ At(p, "invoking")
  /\ \E seconds \in Elapsed, cash \in CashFacts :
       Finish(<<p, "trial", trial[p]>>, seconds, cash)
  /\ \/ /\ \/ valid' = [valid EXCEPT ![p] = @ \cup {trial[p]}] /\ UNCHANGED screened
           \/ UNCHANGED <<valid, screened>>
           \/ /\ trial[p] \in Screening
              /\ screened' = [screened EXCEPT ![p] = @ \cup {RouteOf[trial[p]]}]
              /\ UNCHANGED valid
        /\ \E t \in 1 .. Trials + 1 :
             /\ NextTrial(p, screened'[p], t)
             /\ trial' = [trial EXCEPT ![p] = t]
             /\ Goto(p, IF t > Trials THEN "fitting" ELSE "trial")
        /\ UNCHANGED failed
     \/ Fail(p) /\ UNCHANGED <<valid, screened, trial>>
  /\ UNCHANGED <<operatorVars, job, report, events>>

(* A signal, or the watcher of the worker that finds the job cancelled or   *)
(* the authority gone, cancels the task at its next await.                  *)
Interrupt(p) ==
  /\ pc[p] \in {"grading", "trial", "preflight", "invoking"}
  /\ \/ (job[p] = "cancelled" \/ ~Authorized(p)) /\ UNCHANGED events
     \/ Event
  /\ IF At(p, "grading")
       THEN \E seconds \in Elapsed : Finish(<<p, "grader", 0>>, seconds, Paid(0))
       ELSE UNCHANGED <<grant, ops>>
  /\ Goto(p, "interrupted")
  /\ UNCHANGED <<operatorVars, job, report, trial, valid, screened, failed>>

(* The handler of the interruption writes whatever the state was.           *)
MarkInterrupted(p) ==
  /\ At(p, "interrupted")
  /\ job' = [job EXCEPT ![p] = "indeterminate"]
  /\ Goto(p, "gone")
  /\ UNCHANGED <<operatorVars, report, trial, valid, screened, events, grant, ops, failed>>

(* fit_report compares the paired trials; the report operation is measured, *)
(* and an error code makes any outcome insufficient.                        *)
FitOutcomes(p) ==
  {"other"} \cup (IF Paired \subseteq valid[p] /\ ~failed[p] THEN {"useful"} ELSE {})

Fit(p) ==
  /\ At(p, "fitting")
  /\ \E outcome \in FitOutcomes(p) :
       report' = [report EXCEPT ![p].outcome = outcome]
  /\ IF ops[<<p, "report", 0>>].state = "reserved"
       THEN \E seconds \in Elapsed : Finish(<<p, "report", 0>>, seconds, Paid(0))
       ELSE UNCHANGED <<grant, ops>>
  /\ Goto(p, "recording")
  /\ UNCHANGED <<operatorVars, job, trial, valid, screened, events, failed>>

Record(p) ==
  /\ At(p, "recording")
  /\ report' = [report EXCEPT ![p].stored = TRUE]
  /\ Goto(p, "completing")
  /\ UNCHANGED <<operatorVars, job, trial, valid, screened, events, grant, ops, failed>>

(* The last update of the job does not look at its state either.            *)
Complete(p) ==
  /\ At(p, "completing")
  /\ job' = [job EXCEPT ![p] = "complete"]
  /\ Goto(p, IF report[p].outcome = "useful" THEN "admitting" ELSE "gone")
  /\ UNCHANGED <<operatorVars, report, trial, valid, screened, events, grant, ops, failed>>

(* Automatic admission; a refusal leaves only an error code.                *)
AdmitOwn(p) ==
  /\ At(p, "admitting")
  /\ IF Admissible(p) THEN Admit(p) ELSE UNCHANGED <<admission, outdated>>
  /\ Goto(p, "gone")
  /\ UNCHANGED <<reviewed, command, withdrawn, cancelled, discredited, campaignVars, grant,
                 ops, failed>>

Crash(p) ==
  /\ Event
  /\ pc[p] \notin {"idle", "enqueuing", "ready", "gone"}
  /\ Goto(p, "gone")
  /\ UNCHANGED <<operatorVars, job, report, trial, valid, screened, grant, ops, failed>>

(* mark_dead_worker, by anyone who asks for the status of the job.          *)
MarkDead(p) ==
  /\ At(p, "gone")
  /\ job[p] = "running"
  /\ job' = [job EXCEPT ![p] = "indeterminate"]
  /\ UNCHANGED <<operatorVars, report, trial, valid, screened, events, grant, ops, failed,
                 pc>>

Work(p) ==
  \/ BeginRun(p) \/ Claim(p) \/ ReserveStage(p) \/ ReadCost(p) \/ FinishStage(p)
  \/ Preflight(p) \/ Answer(p) \/ MarkInterrupted(p)
  \/ Fit(p) \/ Record(p) \/ Complete(p) \/ AdmitOwn(p)

Next ==
  \/ RevokeGrant \/ Expire \/ Amend \/ RevokeAdmission
  \/ \E p \in Plans : \/ Enqueue(p) \/ InsertJob(p) \/ Cancel(p) \/ Review(p)
                      \/ AdmitAgain(p) \/ ResolveIdentity(p) \/ AdmitResolved(p) \/ LoseCommand(p)
                      \/ Work(p) \/ Interrupt(p) \/ Crash(p) \/ MarkDead(p)

Spec == Init /\ [][Next]_vars

-----------------------------------------------------------------------------
(* Properties. *)

InForce == admission.plan # NoPlan /\ ~admission.revoked

(* reserve, finish_operation: through crashes, interruptions and two runs   *)
(* at once, what the grant has spent is exactly what its operations hold or *)
(* were measured at; an operation that nobody finished keeps its debit.  A  *)
(* grant over a limit is revoked, and operations are never over.            *)
SpentIsAccounted ==
  LET taken == {o \in OpIds : ops[o].state # "absent"}
  IN  /\ grant.spent.operations = Cardinality(taken)
      /\ grant.spent.seconds = SumFunctionOnSet([o \in taken |-> ops[o].seconds], taken)
      /\ grant.spent.cash = SumFunctionOnSet([o \in taken |-> ops[o].cash], taken)
      /\ grant.spent.operations =< grant.limits.operations
      /\ ~grant.revoked => Fits(grant.spent, grant.limits)

(* The operations of a run that its screening has not skipped.              *)
Planned(p) == {o \in RunOps(p) : o[2] = "trial" => RouteOf[o[3]] \notin screened[p]}

(* run, fit_report and admit: an admission in force rests on a useful       *)
(* report, of a campaign that put out none of the arms it compares, that    *)
(* measured the validation of the grader and every trial of every arm it    *)
(* did not put out, and in which nothing set an error code; and there is    *)
(* none once the operator has revoked the grant, whatever was on its way.   *)
AdmissionIsEarned ==
  InForce => LET p == admission.plan IN
    /\ ~withdrawn
    /\ report[p] = [outcome |-> "useful", stored |-> TRUE]
    /\ ~failed[p] /\ Paired \subseteq valid[p]
    /\ \A t \in Paired : RouteOf[t] \notin screened[p]
    /\ \A o \in Planned(p) : ops[o].state = "complete"

(* admit after a revocation: what brings a revoked admission back is a      *)
(* report that was created after every revocation there had been.           *)
RevivalIsFresh ==
  [][admission.revoked /\ ~admission'.revoked => admission'.plan \notin discredited]_vars

(* reserve: once the operator has revoked the grant nothing more is         *)
(* reserved under it, and for a plan whose job was cancelled nothing but    *)
(* the identities of a later admit, and that only because the run wrote     *)
(* "complete" over the cancellation.                                        *)
StoppedReservesNothing ==
  [][\A p \in Plans : \A o \in OpsOf(p) :
       ops[o].state = "absent" /\ ops'[o].state # "absent" =>
         /\ ~withdrawn
         /\ p \in cancelled => o[2] = "identity" /\ job[p] = "complete"]_vars
=============================================================================
