# TLA+ verification of AEEP router

AEEP routes an action to one of several executors, and for a priced executor it
prepares, reserves, invokes and settles under rules that must survive crashes,
retries and several processes working on one SQLite store.  This directory holds
TLA+ models translated from the code under `src/src/aeep`, TLC configurations
that check them on small instances, and TLAPS proofs of the central safety
properties for instances of every size.  Line numbers below refer to that
directory; `PROJECT.json` maps every definition to its lines.

## 1. The system

### 1.1 Components

| Component | State | Operations | Hard behaviour |
|---|---|---|---|
| Prepared execution (`router.py` 2399-4755, `store.py` 2086-3608) | prepared decisions and their claim token, transitions, execution attempts, receipts, evidence links | `prepare_route`, `execute_prepared`, `economic_recover`, `cancel_prepared`, `get_prepared_decision` | calls, recovery and operators in several processes, awaits between transactions, crashes anywhere |
| Idempotency records (`store.py` 6365-6450, 2789-3121, 5378-5475) | record per action key and per payment operation, binding rows | claim, executing, indeterminate, complete, abandon | key reuse across decisions and processes |
| Payments (`payments.py`, `store.py` 3819-4852, 5033-5332) | reservations, payment intents, settlements, refunds, adapter cache | `reserve_v2`, `settle_v2`, `release_v2`, `refund_v2`, `reconcile_v2` | a rail whose answers get lost, retries, budget and prepaid limits |
| Execution attempts and capacity (`attempts.py`, `store.py` 6943-7718, `capacity/`) | attempts with lease and version, capacity reservations, entitlements | create, claim, transition, reserve, claim, release, redeem | lease expiry against live workers, slots coupled to attempts |
| Ordinary execution (`router.py` 5922-6450) | fallback loop over candidates, action idempotency | `execute` | retry only when no effect can have happened |
| Workflows (`router.py` 6689-7460, `workflow.py`) | one checkpoint per workflow, external reports; outputs and receipts only in the outcome | `execute_workflow`, `resume_workflow` | steps of a wave run concurrently under one budget, a waiting outcome held by several callers |
| Stack runtime (`stack_runtime.py`) and planning (`stack_planning.py`) | one row per proposal: state, consumed attempts, deadline, progress of each node | `run`, `amend`, `reconcile`, `assemble` | a copy of the progress read before the claim, crashes between nodes, amendments of half-run stacks |
| Candidate lifecycle (`router.py` 4871-5500, `provider_ingest.py`, `qualification.py`, `store.py` 5520-6330) | route candidates, packages, evidence acceptances, snapshots, smoke and qualification reports; a registry in each process | ingest, smoke, qualify, activate, suspend, check before execution | every operation writes back the whole row it read earlier, in several processes |
| Quotes and trust (`economic/`) | quotes, nonces, offers, signing keys | request, verify, mark nonce | replay, revocation between check and use |
| Routing (`policy.py`, `scoring.py`, `estimator.py`) | none (pure) | filter, score, rank | none of a concurrent kind |
| Assessment (`assessment/`) | grants with limits and what they spent, operations, jobs, reports, admissions | grant, amend, review, revoke, enqueue, cancel, run, admit | minutes of trials between a check of authority and the write that rests on it; dead workers |
| Hosts and executors (`hosts/`, `executors/`, `mcp/`) | sessions, subprocesses, pending requests | start, turn, approve, cancel | answers, timeouts and cancellation out of order |
| Market server and discovery (`market_server/`, `discovery*.py`) | contributions, aggregates, registry cache | submit, publish, refresh | duplicates, stale cache |
| Command line, benchmark, proofs and packaging tools (`cli.py`, `benchmarking.py`, `proofs.py`) | files | batch commands | none of a concurrent kind |

### 1.2 How they interact

All components share one `ReceiptStore`.  A store method is one `BEGIN
IMMEDIATE` transaction, so two methods never overlap, but everything between
two methods can interleave with every other process, and every `await` with the
other tasks of the same process.  The payment rail and the provider are reached
through adapters and are outside every transaction.

### 1.3 What makes them correct

* an external action runs at most once per decision and per idempotency key;
* a released hold was never invoked, and an invoked one is never released;
* money is captured once, only on durable evidence, and what the store says is
  what the rail did;
* an uncertain outcome keeps its hold, its key and its evidence;
* recovery finishes what is durably decided and never repeats an action;
* workers together never hold more capacity than was reported, and a hold ends
  with the attempt it belongs to;
* another route is tried only after an outcome that is definite and repeatable;
* a workflow stays within its budget over its waves and continuations, gives
  back what it does not use and never repeats a write;
* a consequential node of a stack runs once along the amendments of a plan, under
  one allowance, whatever is crashed, reconciled or resumed;
* what is held and charged stays within the daily budget and the prepaid
  balance, and refunds within the capture they are of;
* an assessment spends what its operations account for, within its grant, and
  admits a route only on a complete campaign under authority that still stands;
* a route is qualified before it is activated, activated by an operator or by an
  assessment's admission before it runs, and neither is invented by a late write.

`PROJECT.json` lists under `hazards` where in the code each of these can go
wrong.

## 2. Modules

| Module | Content |
|---|---|
| `PreparedExecution` | prepared execution, idempotency records, payment operations, recovery; its properties and mutants |
| `PreparedInvariant` | the inductive invariant `Consistent`, as a conjunction of named parts |
| `PreparedProofs` | types, that the invariant is inductive, the safety properties and the transition table |
| `MCPrepared` | its instances for TLC |
| `ActionExecution`, `MCAction` | `execute`: key, fallback loop, attempts, capacity holds, task scope; instances |
| `ActionProofs` | its inductive invariant and safety properties |
| `StackRuntime`, `MCStack` | running, reconciling and amending reviewed stacks; instances |
| `StackProofs` | its inductive invariant, safety properties and `CompletedStays` |
| `Workflow`, `MCWorkflow` | waves of a caller's graph of steps, waiting and continuation; its instance |
| `WorkflowProofs` | its inductive invariant and safety properties |
| `PaymentLedger`, `MCLedger` | reservations, settlements and refunds with their amounts and days; its instance |
| `SpendingAccount` | what a prepaid balance promises, which `PaymentLedger` implements |
| `PaymentLedgerProofs` | the budgets, the refunds and the refinement of `SpendingAccount` |
| `Assessment`, `MCAssess` | grants, jobs, the worker's run, admissions; its instance |
| `AssessmentProofs` | its accounts, its admissions and what may follow a stop |
| `SumTheorems` | sums over finite sets, for the proofs about money, capacity and grants |
| `CandidateLifecycle`, `MCCandidate` | ingest, smoke, qualification, both ways of activation, and suspension of a route; its instance |
| `CandidateProofs` | types, `QualifiedBeforeUse` and `ActivatedBeforeUse` of `CandidateLifecycle` |

Definitions whose comment begins with *Mutant* are faulty variants of the
definition that follows them.  Nothing refers to them; replacing the definition
by its mutant shows that a property notices the fault.

### 2.1 PreparedExecution

A process is a call of `execute_prepared` (`Calls`), a process running
`economic_recover` (`Recoverers`) or a call of `cancel_prepared` (`Operators`).
`pc` is where it stands, `at` the decision it works on, `job` the payment
operation (or the dispute) it carries, `seen` the state recovery read when it
scanned, `ev` what the provider said about usage.

| Variables | Code |
|---|---|
| `state`, `token`, `expired` | `prepared_route_decisions`: state, claim token, whether `expires_at` has passed |
| `res`, `intent`, `settlement` | `payment_reservations_v2` and its operation intent, `settlement_receipts` |
| `op` | the payment operation records `reserve`, `settle` and the three release keys |
| `receipt`, `linked`, `statement` | the local receipt (whether the terms fix an amount for it), the authoritative evidence link, the usage statement |
| `keyrec`, `bound` | `idempotency_records` and the prepared binding rows |
| `attempt`, `latest` | execution attempts; the newest row of a decision, which is the one `execution_attempt_for_prepared` returns |
| `rail`, `wire` | operations the rail performed; requests on their way |
| `slip` | the receipt a process's adapter has cached, and whether the reservation row is newer |
| `invoked`, `returned` | history |

Each action is one store transaction or one external boundary.  Handlers that
are several transactions are several actions: `_mark_economic_indeterminate` is
`MarkReservation`, `MarkPrepared`, `MarkAttempt`, and for a dispute `Dispute`;
`settle_v2` and `release_v2` are `PayReplay`/`PayClaim`, `PayIntent`, `PayExec`,
`PayReply`, `PayStore`, `PayDone`, with their error exits.  An exception caught
by the code is followed to its handler; an exception that only propagates, and a
crash, is `Crash`.  A cancelled task (`asyncio.CancelledError` passes `except
Exception`) is `ReserveCancelled` and `PayCancelled`.

A pass of `economic_recover` works on the decisions that
`recoverable_prepared_decisions` lists (`store.py` 2745-2764): those in flight
and the claims that expired (`Incomplete`), in the order of `Created`, at most
`ScanLimit` of them (1000 in the code).  A decision that stays INDETERMINATE
stays on the list, so `ScanLimit` older ones keep a newer one from ever being
looked at (`Recoverable`, `Older`).  Keys of released decisions are another list
(`AbandonReleased`, `store.py` 3555-3610), read with a cursor and shrinking with
every item.

Abstractions.  Identifiers, digests, signatures and times are left out where a
refusal is all they can lead to: a re-check that fails is `Refused` or
`ReserveRefused`, which are always possible.  Amounts are reduced to what the
branches distinguish (`Results`, `Evidence`).  Time is the one event that a
decision's deadline passes; `Touch` keeps the only other time comparison, that a
settlement receipt may not be older than the reservation row.  A call handles
one decision and a process starts at most one call.

### 2.2 ActionExecution

`AEEPRouter.execute` (`router.py` 5922-6450) with the attempt and capacity
transactions of `store.py` 6943-7718.  A process is a call.  `key` is the
idempotency record, `attempt`, `via`, `receipts` the attempts with executor and
receipt, `latest` the attempt `execution_attempt_for_decision` returns, `hold`,
`lapsed`, `observed` the capacity reservations, their expiry and the last
observation.  `order`, `num`, `serial`, `rerouted`, `known` are locals of the
call: the ranked routes, the position in them, the attempt number, whether the
call was sent back to routing, and the observation it reserves against.
`outcome` is what the executor answered.

A call passes `ClaimKey`; per try `Snapshot`, `CreateAttempt`, `LookCapacity`,
`ReserveCapacity`, `AttemptReserved`, `Begin`, `KeyExecuting`, `Invoke`,
`Return`, `Settle`, `SaveReceipt`, `Terminal`, `Decide`; and at the end
`CompleteKey`, or `UncertainKey` and `AbandonKey` when an exception reaches the
outer frame.  The error exits are `RouteRefused`, `AdmissionFailed`,
`InvokeRaises`, `SettleRaises`.  A cancelled task passes the key's handler, as
`CancelledError` does.  `RecoverAfterLease` may strike a live worker: nothing in
`recover_after_lease` looks at the process.

Abstractions.  One resource pool with one window; estimates are `Cost`; the
ranked candidates are any of `Orders`, because scoring is not modelled here.
A changed quota is an arbitrary observation.  The expiry mark that a refused
claim writes is rolled back with its transaction (`store.py` 7126), so an
expired hold stays a row in state RESERVED that no longer counts.

### 2.3 StackRuntime

`state`, `attempts`, `progress`, `late` are the columns of `stack_runs` (`late`:
the deadline has passed).  A coordinator is a caller of `run`; `prior` is the
copy of the progress it read *before* it claimed the row, from which it works
throughout (`stack_runtime.py` 250, 284, 306), `index` where it is in the
compiled order and `try` the number of the node's attempt.  `invoked` holds the
dispatches by the idempotency key they run under, `receipted` those with a
verified successful receipt, `parked` the nodes whose child checkpoint waits.
`origin` is history: the proposal whose run a row continues by amendments.  Rows
of one origin are a lineage, what the properties speak of.

`Load` is the part of `run` before `_claim`; `Claim`, `Reserve`, `Complete`,
`Park`, `Fails`, `Pause`, `Finish` are its transactions, `Execute`, `Succeeds`,
`Resume` the dispatch; `PreflightFails`, `Unclear`, `ResumeFails` end in the
exception handler, which writes `uncertain` once something was dispatched and
`paused` otherwise.  `Reconcile` and `Amend` are the operator's.  What the
planner, the artifact checks and the setup decide is whether `PreflightFails` or
`Unclear` happens.  `Reconcile` assumes what `STACK_PLANNING.md` 142 demands,
that the old coordinator was stopped; `amend` needs no such assumption.  Any
proposal may be run at any time: `Load` asks for no amendment, and `Claimable` is
all that `_claim` tests (182-187).  A successor run before its predecessor is
therefore a lineage of its own, with an allowance of its own (section 2.9,
`MCReset`).  A key that was used before answers again: a delegated one that it is
delegated, so that `Execute` goes on to `Park`, any other without a receipt that
verifies.

### 2.4 Workflow

A run is one call of `execute_workflow` or `resume_workflow` for one workflow.
`outputs`, `receipts`, `wave` are its locals; `checkpoint`, `reported`,
`decision`, `maximum` are durable; `outcome` and `cash` say what became of a
dispatch, a step executed by a run.  `mode` is whether its waves are prepared
(evidence enabled, or `require_prepared`, which `resume_workflow` does not pass
on).  `source` is the run whose waiting outcome it continues and `root` the
start it goes back to.

A turn of the loop is `Prepare` or `RouteWave`, one `RunStep` for each step of
the wave in any order, and `CollectPrepared` or `CollectOrdinary`; `TurnFails`,
`PointerRaises`, `CancelUninvoked`, `CancelRaises` are its other exits, `Finish`
its end.  Every result is also written as the checkpoint (`Result`).
`resume_workflow` is `Resume`, the test against the checkpoint, and `Report` or
`ReportRefused`, the insertion of the external report: another process may come
between.  How a prepared decision is executed, released and settled is
`PreparedExecution`, and ordinary execution `ActionExecution`; here they are
their outcomes, among them an exception before the invocation (`refused`) and
after it (`lost`).

Which steps run alone is two different tests.  `PreparedWave` is the prepared
one (6833-6851): a step any of whose compatible routes might write or leave the
process is exclusive.  `RouteWave` is the ordinary one (7230-7236): it asks the
*selected* route only.  `Mixed` are the steps whose selected route may read while
a fallback of it writes; an ordinary wave may run them beside others.  Which of
them read is chosen anew each turn.

### 2.5 PaymentLedger

`PreparedExecution` leaves amounts out; here they are what matters.  `hold`,
`maximum`, `intent` are `payment_reservations_v2`, `charge` what the rail
captured, `settledOn` the settlement receipts by day; `auth`, `target`, `amount`
are `refund_authorizations_v2`, `refundedOn` the refund receipts, `op` the
operation record of a refund's idempotency key and `paid` what the rail gave
back.  `Committed(p)` is `committed_amount`: outstanding maxima, captures since
`p`, less refunds since `p`, but not below the outstanding maxima.

`reserve_v2` is `PeriodStart`, the computation of the day before the
transaction, and `Reserve`; `MarkIndeterminate`, `MarkDisputed`, `ReserveAgain`
and `ClaimIntent` move the row, `RailSettles`, `StoreSettlement` and
`StoreRelease` end it.  A caller of `refund_v2` passes `RefundClaim`,
`RefundAuthorize`, `RefundExecuting`, `RailRefunds`, `CompleteRefund`,
`CompleteOp`, or fails into `MarkAuthorization` and `MarkOp`;
`ReleaseAuthorization` and `ImportReceipt` are an operator's.  `Midnight` is the
clock.

`SpendingAccount` states what a prepaid balance promises: hold, charge at most
what was held, give back at most what was spent.  `KeepsAccount` is the
refinement, with what is held mapped to the outstanding maxima and what is spent
to the captures less the refunds.

### 2.6 Assessment

`grant` (revoked, expired, limits, spent), `reviewed`, `ops`, `job`,
`admission`, `outdated` and `report` are rows; `pc`, `trial`, `valid`, `failed`
belong to the worker of a plan.  A run is `BeginRun`, `Claim`, the stages
(`ReadCost`, `ReserveStage`, `FinishStage`), each trial with `Preflight`,
`ReserveStage` and `Answer`, then `Fit`, `Record`, `Complete` and `AdmitOwn`.
`Interrupt` is a signal or the worker's watcher, `MarkInterrupted` the handler
it ends in, `Crash` the end of the process and `MarkDead` what the next `status`
makes of its job.  Operators `Enqueue` (with `InsertJob`, its transaction), `Cancel`, `RevokeGrant`,
`Amend`, `Review` and `AdmitAgain`; `Expire` is the clock and `RevokeAdmission` the
router that finds that an admitted route failed.

`AdmitAgain` is `admit_resolved`: for a managed host it first reserves, awaits and
measures the resolution of the host's identity (`ResolveIdentity`,
`AdmitResolved`, `LoseCommand`; `service.py` 562-576), and the reservation looks
only at the state the job has by then.  `Answer` puts a route out when a trial of
its screening is invalid, and `NextTrial` skips what is left of the routes put out
(`benchmarking.py` 1874-1875, 1941-1942; `service.py` 345); `RouteOf`,
`Screening` and `Paired` say which arm a trial measures and which trials the
report compares.

`Reserve` and `Finish` are the two transactions through which everything is
spent: a reservation is debited at once, a measurement may be dearer than the
reservation, and an overrun or an unknown cost revokes the grant.

Abstractions.  The grant permits automatic admission; all reservations of a kind
are alike; whether a trial was valid, and whether the fitted outcome is useful,
are choices.  A plan has one `admit_resolved` at a time, numbered by its event.
Materialization, probes and warm-up trials reserve in the same way as the stages
and have no action of their own; trials that an earlier run stored are not
modelled, since a plan is run once.  What admission writes about the candidate in
the same transaction (714-729) is in `CandidateLifecycle`.

### 2.7 CandidateLifecycle

One route.  `row` is its line of `route_candidates` with the fields of its
verification snapshot (`fit`), `reports` the passed qualification reports,
`packages`, `accepted`, `latest` the package tables, `registry` what a process
has registered.  An operation is a pair: *Begin* reads the row and checks it,
*End* writes the copy back whole, as `save_route_candidate` does; between them
any other process may do anything.  In the code the time between is an `await`
(smoke, campaign) or only another process's transaction (activation,
suspension, claim); the model makes no difference.

Two operations make a row active.  `ActivateBegin` and `ActivateEnd` are
`activate_candidate`, which writes the copy it checked.  `AssessBegin` and
`AssessEnd` are an assessment and its admission (`service.py` 646-729): what it
compares with the planned spec is the *current* row, in the transaction that
writes, and it writes `active` whatever the status was, for rows of packages and
suspended ones too.  When such a report is earned and admitted is `Assessment`;
here every assessment that ends may be.  `RequireSmoke` is the manifest's
`require_local_smoke` (`router.py` 5309-5312).

`CheckPasses` and `CheckFails` are `_require_active_spec`, which goes on to
`Invoke` or to the suspension; the scope of an admission may refuse a call
besides.  `Restart` is `Router.__init__` on the store.

A version stands for everything a source declares; `reviewed` for whether the
safety properties are the inert ones of an import or those an operator or a
package gave at qualification.  The behaviour fingerprint tells exactly these
two apart.  A package is refused when it is ingested again, as the code does
(see 2.9).

Assumptions: a process does one lifecycle operation at a time; smoke results are
saved in the order in which they finish.

### 2.8 Runs

`CHECK_DEADLOCK FALSE` except in `MCCandidate` and `MCExact`: calls, coordinators
and operators are finite, and a decided system with nothing to recover may stop.

| Run | Instance | Checks |
|---|---|---|
| `MCPaid` | signed quote, key; one call, recoverer, operator; call and recoverer crash | `TypeOK`, `ReleasedNeverInvoked`, `CaptureIsEvidenced`, `LedgerMatchesRail`, `UncertainKeepsHold`, `Consistent` (the invariant of the proofs), `DecisionsFollowTable` |
| `MCShared` | two free decisions with one key; two calls, recoverer, operator; a call crashes | `AtMostOneInvocation`, `InvokedKeyStaysBound` |
| `MCFair` | fixed price, key; the call crashes; fair recovery | `OrphanClaimCancelled`, `InvocationIsResolved`, `ReleasedKeyFreed` |
| `MCAction` | three calls, two of them on one decision under one key, one of these in a task scope of two attempts with the third; a read or a write first, then a managed host with room for one; failures and timeouts; one call crashes | `TypeOK`, `KeyedActionOnce`, `RetryOnlyAfterDefinite`, `CapacityRespected`, `HoldFollowsAttempt`, `ScopeBarrier` |
| `MCStackRun` | proposal and successor, run in either order; a host's node, a read, a write that needs the read; two coordinators, both crash | `TypeOK`, `ConsequentialOnce`, `AllowanceRespected`, `OneCoordinator`, `CompletedStays` |
| `MCWorkflow` | two reads, a step that writes only where it falls back, and a write between two steps of a host; one start, two further calls, of which one crashes; both modes | `TypeOK`, `BudgetRespected`, `NothingLeftOpen`, `WriteOnce`, `AccountedOnSuccess` |
| `MCLedger` | two reservations of 1 to 3 under a daily limit of 2 and a balance of 3; two refunds, two callers; two days | `TypeOK`, `DailyBudget`, `RefundsWithinCapture`, `KeepsAccount` (`SpendingAccount`) |
| `MCAssess` | two plans of three trials, of a reference arm that is screened and a candidate, under one grant; any two of revocation, expiry, amendment, lost review, cancellation, operator's admission, signal, crash | `TypeOK`, `SpentIsAccounted`, `AdmissionIsEarned`, `RevivalIsFresh`, `StoppedReservesNothing` |
| `MCCandidate` | two processes, two versions of which one has trusted evidence; seven commands | `TypeOK`, `QualifiedBeforeUse`, `ActivatedBeforeUse` |

Bounds, prepared execution.  One decision suffices for everything about money,
because only the idempotency keys relate two decisions; two decisions and two
calls are the smallest instance in which a key is contended, and in which it is
given back and claimed again.  A recoverer scans for ever, so one recoverer
already gives any number of passes in sequence; operator and call provide the
concurrent payment operation.  The proofs remove these bounds for the safety
properties.  `ScanLimit` is 1:
in `MCShared` the older decision then hides the newer one from recovery.
Ordinary execution.  Two calls contend for a key and two for the host's room and
the scope; the call they share relates the two contests.  Two tries per call
(`MaxAttempts`), and as many again after the one rerouting, give a fallback, its
failure, and a fallback after rerouting.  A capacity of 1 with a cost of 1 lets
one hold fit and two not, so that a hold can expire while another call takes its
room.  Stacks.  Two
coordinators make every stale copy possible; a retry reserve of 1 and five
attempts allow each read to fail once and the goal to be amended and finished,
and not more; `MCReset` needs one coordinator and an allowance of three, enough
for one run of the goal; the successor changes the read, so the host's node is carried over
and the write is affected.  Workflows.  Two calls besides the start can
continue one outcome at the same time, or two outcomes in a row; a price of 2
against a budget of 3 lets each read of a wave fit and not both; waves of two
(eight in the code) leave ready steps behind.  Ledger.  A limit of 2 and a
balance of 3 against maxima up to 3 make each of the two refuse something the
other admits; two days are what a refund of yesterday's capture needs; two
callers retry one refund or make two.  Assessment.  The root limits are spent by
one plan and its overruns, the amended ones by both; the reference arm has a
trial before and one after the candidate's, so that a screening that puts it out
has a trial to skip; the candidate's is in the comparison; an operation takes 0
or 2 seconds where 1 was reserved.  Two events give a revocation after a crash,
and a cancellation, overwritten, before an operator's admission.
Candidates.  Two processes make every stale copy possible; seven commands allow
both versions to be ingested, one to be smoked, qualified, activated and
suspended, with one more command in its way; `RequireSmoke` is off, which refuses
less.

Fairness (`RecoveryFairness`, `MCFair` only).  Nothing is
assumed of calls, operators or crashes.  An operator keeps running
`economic_recover`.  A pass visits every item of its page, so a decision that is
on the page again and again is visited (strong fairness of `Scan`), and every key
that stays to be abandoned, because that list is read to its end with a cursor
(strong fairness of `AbandonReleased`); a pass that began takes its next step
(weak).  `Scan` is enabled for the decisions of the page only.  That a decision
does come onto the page is no fairness of the code: `OrphanClaimCancelled` and
`InvocationIsResolved` have it as their premise, `NotCrowdedOut`.  The instance
has one decision, of which the premise always holds; the premise says what the
two properties do not promise (see 2.9).  The rail performs what it was sent
(weak) and does not lose every answer of a repeated request (strong fairness of
`PayReply`).

### 2.9 Where the code does not keep what the repository says

Three runs check a sentence of the repository and TLC violates it.

* `MCLostReceipt`, `ReturnedIsPersisted`: `economic_recover` has no lease on an
  INVOKING decision.  It marks the attempt of a live call INDETERMINATE; when
  the provider answers, the compare-and-set to VALIDATING raises and the receipt
  is not saved (`router.py` 3173, comment at 3767).
* `MCReset`, `AllowanceNeverResets`: `_claim` looks from a successor to its
  predecessor only.  A successor that is run first, and the predecessor after it,
  have a full allowance each (`stack_runtime.py` 183; its own message in 184 is
  "executed predecessor requires explicit amendment; allowance cannot reset", and
  `STACK_PLANNING.md` 160 has an amendment preserve "consumed attempts").
* `MCExact`, `EvidenceIsExact`: `qualify_candidate_from_evidence` and activation
  take the accepted correctness rows of the executor id, of whichever package.
  A package with trusted evidence, then a changed one without any and a passed
  smoke of it: the changed route is qualified on the evidence of the first
  (`router.py` 5064; `EVIDENCE_REUSE.md` 22 has "Exact fingerprint/workload plus
  verified or attested evidence").

Seen while modelling, in the models, and not the subject of a run:

* `get_prepared_decision` also expires a claimed decision, whose key nothing can
  then abandon (`router.py` 2400-2416; its docstring speaks of "stale unclaimed
  decisions"), and a cancellation by an operator leaves the key of an orphaned
  claim bound as well; `OrphanClaimCancelled` promises the key back where
  recovery cancels.  The transition table in `SPEC.md` 757-766 lacks the two
  transitions of a confirmed-free action;
* recovery lists the 1000 oldest unresolved decisions, and those without evidence
  stay INDETERMINATE on the list: behind 1000 of them no newer decision is ever
  recovered (`store.py` 2745-2764, `router.py` 4352);
* `_create_claimed_attempt` looks at the latest attempt of a decision only
  (`router.py` 782), so of two tasks that execute one decision the one that
  fails definitely hides the one that is uncertain;
* an ordinary wave is taken in up to its first step that waits, fails or raises
  (`router.py` 7311): receipts and outputs of later steps that already ran are
  dropped, the steps run again after a continuation, and their cash is not in
  the total, while `SPEC.md` 497 has "Accounting includes every retry and
  fallback".  `AccountedOnSuccess` and `BudgetRespected` therefore speak of
  prepared waves.  The ordinary path also holds each step, and not the wave,
  against the remaining budget;
* the same drop hits a write when its step was run beside others because its
  selected route reads, and a fallback of it wrote (`router.py` 7230-7236, 5856-5877):
  it writes again after the continuation, while the comment at 7229 has "Side effects and
  explicit exclusive resources serialize deterministically".  `WriteOnce`
  therefore speaks of such steps (`Mixed`) in prepared waves only;
* the adapter caches the first settlement receipt; after any other write to the
  reservation row the store refuses it as older than the row, and every retry in
  that process presents it again (`payments.py` 251, `store.py` 4779).  A new
  process succeeds;
* a process that dies after `_claim`, or between two nodes, leaves a `running`
  row without a `started` node: `run` says "reconcile before resuming" and
  `reconcile` says "node is not an interrupted dispatch" (192, 150).  The same
  happens without a crash when a delegated output is refused (319, 386);
* a reservation whose call stalls over midnight between `period_start` and its
  transaction is counted from yesterday (`payments.py` 1345); `DailyBudget`
  excludes that case with `crossed`;
* `authorize_refund_v2` returns an authorization that was released meanwhile,
  and the call goes on to the rail with it;
* the last update of an assessment run sets the job complete whatever its state
  (`assessment/service.py` 1325), so a job cancelled during its last trial, or
  in the unwatched end of the run, ends complete and its report is admitted;
  a later `admit_resolved` then reserves and runs identity operations for the
  cancelled plan, the one exception `StoppedReservesNothing` makes.
  `ASSESSMENT.md` 281 has "New evidence after cancellation requires a new plan".
  The handler of an interruption likewise replaces `cancelled` by
  `indeterminate`;
* `admit` compares a report with the latest revocation of the admission only
  (628-645), so evidence that an earlier revocation discredited can come back
  through a newer admission of another plan, which `RevivalIsFresh` therefore
  leaves to the step that revives;
* a trial that `check_current` stops has no accounting; its unknown cost revokes
  the whole grant, and that revocation leaves the admissions of the grant in the
  table;
* an activation, a qualification or a smoke that began before a suspension
  writes the unsuspended copy back, and the admission of an assessment makes a
  suspended row active (`router.py` 5271, 5327, 5048; `SPEC.md` 491
  has suspension on drift); a process whose registry is out of date suspends a
  route that another one has just activated (5476);
* activation accepts the latest passed smoke of any version (5300, 5311);
* ingesting an unchanged package again is refused, because snapshot and
  acceptance ids are digests while their content holds the time
  (`provider_ingest.py` 391-435, `store.py` 5661-5712).

## 3. Proofs

Prepared execution.  The theorems are about `Spec`, for any sets of decisions,
calls, recoverers, operators and keys.  They assume only `ProcAssumption` (roles are disjoint and
`None` is none of them), `DecisionAssumption` (every decision has a kind and
possibly a key) and `ScanAssumption` (a page has an item, and decisions are
created one after another); TLC evaluates them in every run.  A page of any size,
as anything recovery may or may not see, is covered.

* `TypeCorrect`: `TypeOK` and `Control`.  `Control` says which role can be at
  which label and that a working process has a decision; without it the types of
  `at[x]` and `job[x]` are not inductive.
* `Consistency`: `Consistent` is an invariant.  The wanted properties are not
  inductive: that a released decision was never invoked needs to know who holds
  the claim token and at which labels the token's owner can still be
  (`Ownership`), that the key row and the binding row agree with it
  (`KeyOwnership`), that the store's reservation, its intent and the decision
  state move together (`Accounts`), that a process past `PayIntent` still owns
  the intent (`Committed`, `PayersCommitted`), that the rail and the wire hold
  only the owned operation (`RailAgrees`), and that whoever is about to settle
  has the evidence (`Evidences`, `CallEvidence`, `CapturesJustified`).
* `SingleInvocation`, `ReleaseSafety`, `CaptureSafety`, `LedgerAgreement`,
  `HoldRetention`, `KeyRetention` follow from `Consistent`; `TableFollowed`
  proves the action property from `Consistent` and one step of `Next`.

Each step lemma has one case per action.

Ordinary execution (`ActionProofs`).  For any calls, keys, decisions, routes,
policies and capacities, from `RouteAssumption` and `CallAssumption`: `ActionTypes`, `KeyedOnce`,
`RetryDefinite`, `HoldsFollow`, `CapacityKept`, `BarrierKept`.  The invariant ties
a call's label to the row of the attempt it works on (`Stage`), the try's serial
number to its place in the fallback order (`Numbering`), the hold to the attempt
(`Holds`) and the invocations of a call to one another: it comes to a further try
only with all of them closed and repeatable (`History`).  `KeyOwner`, `KeyStage`
and `KeyList` say that a key has one engaged call, what its record can be where
that call stands, and which receipts the completed record will list.
`StepKinds` reduces a step to what it does to the attempt, the hold and the key,
and each part of the invariant is shown kept by kind.

Stacks (`StackProofs`).  For any coordinators, nodes and allowance: `StackTypes`,
`DispatchedOnce`, `WithinAllowance`, `SingleCoordinator` and the action property
`CompletedKept`, from `StackAssumption` alone: any proposal may be run at any time.
The properties speak of lineages, which is what the code keeps; over two lineages
of one goal they are false (`MCReset`).  The invariant says that at most one row
of a lineage is active and that an amendment hands it on (`Succession`), that a
coordinator past its claim owns a running row (`Ownership`), that its copy is never ahead of the row (`Copies`), that every number below a row's count has
been used as a key (`Numbers`, `Attempting`), from which a consequential node is
dispatched under number 1 only, and that the attempts of the active row cover
every dispatch of its lineage (`Allowance`).

Workflows (`WorkflowProofs`).  For any graph of steps, any prices, budget and wave
size and any number of calls, from `WorkflowAssumption`: `WorkflowTypes`,
`BudgetHolds`, `NothingOpen`, `WrittenOnce`, `SuccessAccounted`.  The calls are
finitely many and the graph is given by a sequence of its steps, which is what
makes the sums finite.  Nothing about earlier calls is stored: a call knows them by
the outputs and receipts of the outcome it continues.  The argument is therefore
about chains.  One report of a waiting step is accepted, so the calls of one start
have a single end that nobody has continued (`Chain`).  That end has the output of
every write that ran (`Writing`; of a `Mixed` step, when all waves were prepared) and, when all waves were prepared, the receipt of
every invocation (`Covering`), except for the wave at hand, whose maxima fit the
budget beside what is accounted (`Funded`).  A call that failed or crashed is an
end too, and nobody goes on from it.  `Within`, that what a chain charged or may
have charged stays within the budget, is kept by any other step because no
invocation is added, and for the wave at hand it follows from the two (`WaveWithin`).

Ledger (`PaymentLedgerProofs`).  For any reservations, refunds, callers, days,
maxima and limits, from `LedgerAssumption`: `LedgerTypes`, `DailyBudgetHolds`,
`RefundsCovered`, `LedgerKeepsAccount`, `PrepaidCovered`.  `Records` is the
inductive part without sums (which rows go together, no row is dated after
today).  Every step is then one of six kinds by what it does to the totals: a new
hold, a settlement, a release, a refund receipt, midnight, or nothing.  `Within`
bounds the claims against each capture; without it a refund could make what is
spent negative and the account would not be implemented.  `PrepaidCovered` is the
promise of `SpendingAccount`, carried over the refinement.

Assessment (`AssessmentProofs`).  For any plans, trials, limits and events, from
`AssessmentAssumption`: `AssessmentTypes`, `SpentAccounted`, `AdmissionEarned`
and the action properties `RevivalFresh`, `StoppedQuiet`.  An admission rests on
a report, which was fitted long before, so the invariant follows the campaign:
which operations are measured at each label of the worker, but for the trials of
the routes that the screening put out (`Campaign`), where a
report can exist and what a useful one implies (`Reports`), which states a
stopped job can have (`Jobs`: a cancelled one is cancelled, indeterminate, or
complete once its run overwrote it), and what revocation leaves (`Admitted`).  On the
operations and the grant every step leaves them, reserves, or finishes one
(`OpsSteps`); `ReserveBooks` and `FinishBooks` are the bookkeeping.

Sums (`SumTheorems`).  The library's induction theorems have an operator
parameter and cannot be used.  What is proved here by induction over a finite set
is proved through a minimal member instead: a nonempty set of subsets of a finite
set has a member none of whose proper subsets is in it (`MinimalMember`), so the
subsets at which a statement fails have a smallest one, and taking one element
out of it is a contradiction.  With it: adding, removing and changing one element, monotonicity, and the
sum over a union or grouped by a function.

Candidates.  For any number of processes, versions and commands, from
`CandidateAssumption` (`None` is none of the values it stands in for):
`CandidateTypes`, `QualificationFirst` (`QualifiedBeforeUse`) and
`ActivationFirst` (`ActivatedBeforeUse`).  Neither property is inductive: a copy
that a process read long ago may become the row.  The invariant (`Lifecycle`)
therefore says of *every* copy what is wanted of the row (`Sound`), of every
registered spec that it was activated and has a report (`Usable`), and what a
process has in its hands where it stands (`Carries`).  It is kept because
reports and activations only grow; `SaveKeeps` is that argument, once, for any
operation that writes a sound row.

Each inductive invariant was checked by TLC on the instances of the runs before it
was proved.

Only model-checked: the liveness properties (fairness and ENABLED are outside
the prover) and the violations.  Every invariant of a passing run is proved.

## 4. Plan

The project stays at about a dozen runs: one per question, and one passing run
per component where one instance can answer for all its properties.  New
components therefore come with one run each, and a run of section 2.9 gives way
when its place is needed.

1. *Done*: `PreparedExecution`; `ActionExecution`; `StackRuntime`;
   `Workflow`; `PaymentLedger` with its abstract account; `Assessment`;
   `CandidateLifecycle`.
2. *Done*: the theorems of section 3, one for each invariant and action property
   of the passing runs.
3. `Quotes` (nonces, keys, revocation): a nonce is consumed once, also when a
   key is revoked between verification and use.
4. `MarketServer` (contribution windows) and `Hosts` (sessions, worker pool, the
   MCP client's request table).
5. Routing (`policy`, `scoring`) as pure operators against a reference
   definition; capacity entitlements as an extension of `ActionExecution`.

Not planned: the command line, benchmark, proof-report and packaging tools
(batch I/O), schema and format code, and telemetry.
