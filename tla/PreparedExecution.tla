-------------------------- MODULE PreparedExecution --------------------------
(***************************************************************************)
(* Execution of prepared route decisions against one durable store.        *)
(*                                                                         *)
(* A call of execute_prepared claims a decision, reserves its maximum at   *)
(* the payment rail, crosses the invocation gate, invokes the provider     *)
(* once, and settles.  economic_recover and cancel_prepared run in other   *)
(* processes against the same store.  Every action below is one store      *)
(* transaction (BEGIN IMMEDIATE) or one external boundary; everything      *)
(* between two of them may be interleaved with the steps of every other    *)
(* process.  Any crash, and any exception the code leaves to propagate,    *)
(* is the action Crash: the process stops and only the store survives.     *)
(***************************************************************************)
EXTENDS Naturals, FiniteSets

CONSTANTS
    Prepared,     \* prepared decisions
    Calls,        \* calls of execute_prepared; a call is also its claim token
    Recoverers,   \* processes running economic_recover
    Operators,    \* calls of cancel_prepared
    Keys,         \* action idempotency keys
    Kind,         \* authorization of a decision: "free", "quote" or "fixed"
    KeyOf,        \* idempotency key of a decision's action, or None
    Created,      \* place of a decision in the order of created_at, prepared_id
    ScanLimit,    \* decisions that one recovery pass looks at
    Crashable,    \* processes that may stop at any point
    None

Procs == Calls \cup Recoverers \cup Operators

(***************************************************************************)
(* The payment operations of a decision are told apart by their            *)
(* idempotency keys: "<id>:settle" and three release keys.                 *)
(***************************************************************************)
Releases == {"preinvoke", "recover", "cancel"}
Intents == Releases \cup {"settle"}
Ops == Intents \cup {"reserve"}

ASSUME ProcAssumption ==
    /\ Calls \cap Recoverers = {} /\ Calls \cap Operators = {}
    /\ Recoverers \cap Operators = {}
    /\ None \notin Procs \cup Prepared \cup Keys

ASSUME DecisionAssumption ==
    /\ Kind \in [Prepared -> {"free", "quote", "fixed"}]
    /\ KeyOf \in [Prepared -> Keys \cup {None}]
    /\ Crashable \subseteq Procs

ASSUME ScanAssumption ==
    /\ Created \in [Prepared -> Nat] /\ ScanLimit \in Nat \ {0}
    /\ \A p, q \in Prepared : Created[p] = Created[q] => p = q

PreparedStates == {"PREPARED", "RESERVED", "INVOKING", "AWAITING_USAGE", "SETTLING",
                   "SETTLED", "RELEASED", "INDETERMINATE", "DISPUTED", "CANCELLED", "EXPIRED"}
(* _PREPARED_TRANSITIONS                                                   *)
AllowedTransitions ==
    {"PREPARED"} \X {"RESERVED", "INVOKING", "CANCELLED", "EXPIRED"}
    \cup {"RESERVED"} \X {"INVOKING", "RELEASED", "CANCELLED", "INDETERMINATE"}
    \cup {"INVOKING"} \X {"AWAITING_USAGE", "SETTLING", "INDETERMINATE", "DISPUTED"}
    \cup {"AWAITING_USAGE"} \X {"SETTLING", "INDETERMINATE", "DISPUTED"}
    \cup {"SETTLING"} \X {"SETTLED", "INDETERMINATE", "DISPUTED"}
    \cup {"INDETERMINATE"} \X {"SETTLING", "SETTLED", "DISPUTED"}
    \cup {<<"DISPUTED", "SETTLED">>}
ReservationStates == {"none", "RESERVED", "SETTLING", "SETTLED", "RELEASED", "INDETERMINATE"}
OperationStates == {"absent", "claimed", "executing", "complete", "indeterminate"}
AttemptStates == {"none", "CLAIMED", "RESERVED", "INVOKING", "VALIDATING", "SETTLING",
                  "COMPLETED", "FAILED", "INDETERMINATE"}

(***************************************************************************)
(* What the billing terms make of the result ("billable" fixes an amount   *)
(* within the maximum), and what the provider said about usage: nothing,   *)
(* a consistent statement, an amount above the maximum (signed, or only in *)
(* the local accounting), a status that contradicts the local one, or a    *)
(* statement that does not verify.                                         *)
(***************************************************************************)
Results == {"billable", "unbillable"}
Evidence == {"none", "ok", "over", "localover", "conflict", "invalid"}

VARIABLES
    state, token, expired,              \* prepared_route_decisions
    res, intent, settlement,            \* payment_reservations_v2, settlement_receipts
    op,                                 \* payment operation records
    receipt, linked, statement,         \* receipts, evidence links, usage_statements
    keyrec, bound,                      \* idempotency_records and their binding rows
    attempt, latest,                    \* execution_attempts, newest one per decision
    rail, wire,                         \* operations performed / in flight at the rail
    slip,                               \* rail receipt held by a process's adapter
    pc, at, job, seen, ev, mustMark,    \* local state of the processes
    invoked, returned                   \* history: provider calls made / answered

decisionVars == <<state, token, expired>>
paymentVars == <<res, intent, settlement>>
evidenceVars == <<receipt, linked, statement>>
keyVars == <<keyrec, bound>>
attemptVars == <<attempt, latest>>
railVars == <<rail, wire>>
localVars == <<at, job, seen, ev, mustMark>>
historyVars == <<invoked, returned>>
vars == <<decisionVars, paymentVars, op, evidenceVars, keyVars, attemptVars, railVars,
          slip, pc, localVars, historyVars>>

Init ==
    /\ state = [p \in Prepared |-> "PREPARED"]
    /\ token = [p \in Prepared |-> None]
    /\ expired = {}
    /\ res = [p \in Prepared |-> "none"]
    /\ intent = [p \in Prepared |-> "none"]
    /\ settlement = [p \in Prepared |-> "none"]
    /\ op = [d \in Prepared \X Ops |-> "absent"]
    /\ receipt = [p \in Prepared |-> "none"]
    /\ linked = {}
    /\ statement = [p \in Prepared |-> "none"]
    /\ keyrec = [k \in Keys |-> "absent"]
    /\ bound = {}
    /\ attempt = [c \in Calls |-> "none"]
    /\ latest = [p \in Prepared |-> None]
    /\ rail = [p \in Prepared |-> {}]
    /\ wire = {}
    /\ slip = [d \in Procs \X Prepared |-> "none"]
    /\ pc = [x \in Procs |-> "idle"]
    /\ at = [x \in Procs |-> None]
    /\ job = [x \in Procs |-> "none"]
    /\ seen = [x \in Procs |-> "none"]
    /\ ev = [x \in Procs |-> "none"]
    /\ mustMark = {}
    /\ invoked = {}
    /\ returned = {}

-----------------------------------------------------------------------------
(* Control flow of a process.                                              *)

Goto(x, l) == pc' = [pc EXCEPT ![x] = l]

Stay == UNCHANGED localVars

(* The process is done with its decision: a recoverer goes on scanning.    *)
Leave(x) ==
    /\ pc' = [pc EXCEPT ![x] = IF x \in Recoverers THEN "idle" ELSE "done"]
    /\ at' = [at EXCEPT ![x] = None]
    /\ job' = [job EXCEPT ![x] = "none"]
    /\ seen' = [seen EXCEPT ![x] = "none"]
    /\ ev' = [ev EXCEPT ![x] = "none"]
    /\ mustMark' = mustMark \ {x}

Enter(x, p, l, j) ==
    /\ pc' = [pc EXCEPT ![x] = l]
    /\ at' = [at EXCEPT ![x] = p]
    /\ job' = [job EXCEPT ![x] = j]
    /\ UNCHANGED <<seen, ev, mustMark>>

Free(p) == Kind[p] = "free"
Keyed(p) == KeyOf[p] # None

MoveTo(p, s) == state' = [state EXCEPT ![p] = s]

AttemptTo(c, p, s) ==
    /\ attempt' = [attempt EXCEPT ![c] = s]
    /\ latest' = [latest EXCEPT ![p] = c]

(* A reservation row that is written again is newer than every settlement  *)
(* receipt an adapter has already issued for it.                           *)
Touch(p) ==
    slip' = [d \in Procs \X Prepared |->
                IF d[2] = p /\ slip[d] = "fresh" THEN "stale" ELSE slip[d]]

DropKey(p) ==
    /\ keyrec' = [keyrec EXCEPT ![KeyOf[p]] = "absent"]
    /\ bound' = bound \ {p}

CompleteKey(p) == keyrec' = [keyrec EXCEPT ![KeyOf[p]] = "complete"]

-----------------------------------------------------------------------------
(* execute_prepared, up to the invocation gate.                            *)

(* The decision is read and re-checked; the attempt is created after an    *)
(* await, so the decision may have moved meanwhile.                        *)
Start(c, p) ==
    /\ pc[c] = "idle"
    /\ state[p] = "PREPARED" /\ p \notin expired
    /\ Enter(c, p, "create", "none")
    /\ UNCHANGED <<decisionVars, paymentVars, op, evidenceVars, keyVars, attemptVars, railVars,
                   slip, historyVars>>

(* _create_claimed_attempt: an unresolved newest attempt denies a retry.   *)
CreateAttempt(c) ==
    LET a == latest[at[c]] IN
    /\ pc[c] = "create"
    /\ IF a # None /\ attempt[a] = "INDETERMINATE"
         THEN UNCHANGED attemptVars /\ Leave(c)
         ELSE AttemptTo(c, at[c], "CLAIMED") /\ Goto(c, "claim") /\ Stay
    /\ UNCHANGED <<decisionVars, paymentVars, op, evidenceVars, keyVars, railVars, slip,
                   historyVars>>

(* Mutant: the claim does not look for another decision under the key.     *)
KeyClaimableUnchecked(p) == TRUE

KeyClaimable(p) ==
    Keyed(p) => /\ keyrec[KeyOf[p]] \in {"absent", "claimed"}
                /\ \A q \in bound : KeyOf[q] = KeyOf[p] => q = p

Claimable(p) ==
    /\ state[p] = "PREPARED" /\ p \notin expired /\ token[p] = None
    /\ KeyClaimable(p)

Claim(c) ==
    LET p == at[c] IN
    /\ pc[c] = "claim"
    /\ Claimable(p)
    /\ token' = [token EXCEPT ![p] = c]
    /\ IF Keyed(p)
         THEN /\ keyrec' = [keyrec EXCEPT ![KeyOf[p]] = "claimed"]
              /\ bound' = bound \cup {p}
         ELSE UNCHANGED keyVars
    /\ Goto(c, IF Free(p) THEN "reserved" ELSE "reserve")
    /\ Stay
    /\ UNCHANGED <<state, expired, paymentVars, op, evidenceVars, attemptVars, railVars, slip,
                   historyVars>>

ClaimRefused(c) ==
    /\ pc[c] = "claim"
    /\ ~Claimable(at[c])
    /\ Goto(c, "attempt_fail")
    /\ Stay
    /\ UNCHANGED <<decisionVars, paymentVars, op, evidenceVars, keyVars, attemptVars, railVars,
                   slip, historyVars>>

(* reserve_v2: claim the operation, hold the budget and move the decision  *)
(* to RESERVED in one transaction, then call the rail.                     *)
Reserve(c) ==
    LET p == at[c] IN
    /\ pc[c] = "reserve"
    /\ state[p] = "PREPARED" /\ token[p] = c /\ p \notin expired /\ res[p] = "none"
    /\ MoveTo(p, "RESERVED")
    /\ res' = [res EXCEPT ![p] = "RESERVED"]
    /\ op' = [op EXCEPT ![<<p, "reserve">>] = "executing"]
    /\ wire' = wire \cup {<<p, "reserve">>}
    /\ Goto(c, "rail_reserve")
    /\ Stay
    /\ UNCHANGED <<token, expired, intent, settlement, evidenceVars, keyVars, attemptVars, rail,
                   slip, historyVars>>

(* The budget, the prepaid balance or a re-validated authorization refuses *)
(* the hold, or the decision is no longer PREPARED.                        *)
ReserveRefused(c) ==
    /\ pc[c] = "reserve"
    /\ op' = [op EXCEPT ![<<at[c], "reserve">>] = "claimed"]
    /\ Goto(c, "abandon")
    /\ Stay
    /\ UNCHANGED <<decisionVars, paymentVars, evidenceVars, keyVars, attemptVars, railVars, slip,
                   historyVars>>

ReserveReply(c) ==
    /\ pc[c] = "rail_reserve"
    /\ "reserve" \in rail[at[c]]
    /\ op' = [op EXCEPT ![<<at[c], "reserve">>] = "complete"]
    /\ Goto(c, "reserved")
    /\ Stay
    /\ UNCHANGED <<decisionVars, paymentVars, evidenceVars, keyVars, attemptVars, railVars, slip,
                   historyVars>>

(* The rail call raises; whether the hold exists at the rail is not known. *)
ReserveError(c) ==
    LET p == at[c] IN
    /\ pc[c] = "rail_reserve"
    /\ IF res[p] = "RESERVED"
         THEN /\ res' = [res EXCEPT ![p] = "INDETERMINATE"]
              /\ Touch(p)
         ELSE UNCHANGED <<res, slip>>
    /\ op' = [op EXCEPT ![<<p, "reserve">>] = "indeterminate"]
    /\ Goto(c, "abandon")
    /\ Stay
    /\ UNCHANGED <<decisionVars, intent, settlement, evidenceVars, keyVars, attemptVars, railVars,
                   historyVars>>

(* The awaiting task is cancelled: reserve_v2 catches only Exception, so   *)
(* nothing is recorded, and execute_prepared sees no reservation.          *)
ReserveCancelled(c) ==
    /\ pc[c] = "rail_reserve"
    /\ Goto(c, "abandon")
    /\ Stay
    /\ UNCHANGED <<decisionVars, paymentVars, op, evidenceVars, keyVars, attemptVars, railVars,
                   slip, historyVars>>

Reserved(c) ==
    /\ pc[c] = "reserved"
    /\ attempt[c] = "CLAIMED"
    /\ AttemptTo(c, at[c], "RESERVED")
    /\ Goto(c, "gate")
    /\ Stay
    /\ UNCHANGED <<decisionVars, paymentVars, op, evidenceVars, keyVars, railVars, slip,
                   historyVars>>

(* Mutant: the gate does not look at the payment operation.                *)
GateIgnoresRelease(c, p) ==
    /\ token[p] = c /\ p \notin expired
    /\ state[p] = IF Free(p) THEN "PREPARED" ELSE "RESERVED"

(* claim_prepared_for_paid_invocation / claim_prepared_for_invocation.     *)
GateOpen(c, p) ==
    /\ token[p] = c /\ p \notin expired
    /\ IF Free(p) THEN state[p] = "PREPARED"
       ELSE state[p] = "RESERVED" /\ res[p] = "RESERVED" /\ intent[p] = "none"

Gate(c) ==
    LET p == at[c] IN
    /\ pc[c] = "gate"
    /\ GateOpen(c, p)
    /\ MoveTo(p, "INVOKING")
    /\ Goto(c, "begin")
    /\ Stay
    /\ UNCHANGED <<token, expired, paymentVars, op, evidenceVars, keyVars, attemptVars, railVars,
                   slip, historyVars>>

(* A refused capacity hold, or a re-check of route, policy, fingerprint or *)
(* authorization after the reservation, stops the call before invocation.  *)
Refused(c) ==
    /\ pc[c] \in {"reserved", "gate"}
    /\ IF Free(at[c])
         THEN Goto(c, "abandon") /\ Stay
         ELSE /\ Goto(c, "pay_claim")
              /\ job' = [job EXCEPT ![c] = "preinvoke"]
              /\ UNCHANGED <<at, seen, ev, mustMark>>
    /\ UNCHANGED <<decisionVars, paymentVars, op, evidenceVars, keyVars, attemptVars, railVars,
                   slip, historyVars>>

(* Mutant: only claims that never reserved are abandoned.                  *)
AbandonablePrepared(p) ==
    /\ p \in bound /\ keyrec[KeyOf[p]] = "claimed"
    /\ state[p] = "PREPARED" /\ res[p] = "none"

(* abandon_prepared_action_idempotency by the claim's owner (errors are    *)
(* suppressed), only after a proven absence of invocation.                 *)
Abandonable(p) ==
    /\ p \in bound /\ keyrec[KeyOf[p]] = "claimed"
    /\ \/ state[p] = "PREPARED" /\ res[p] = "none"
       \/ state[p] = "RELEASED" /\ res[p] = "RELEASED" /\ settlement[p] \in Releases

Abandon(c) ==
    LET p == at[c] IN
    /\ pc[c] = "abandon"
    /\ IF Abandonable(p) /\ token[p] = c
         THEN /\ DropKey(p)
              /\ IF state[p] = "PREPARED" THEN MoveTo(p, "CANCELLED") ELSE UNCHANGED state
         ELSE UNCHANGED <<state, keyVars>>
    /\ Goto(c, "attempt_fail")
    /\ Stay
    /\ UNCHANGED <<token, expired, paymentVars, op, evidenceVars, attemptVars, railVars, slip,
                   historyVars>>

AttemptFail(c) ==
    /\ pc[c] = "attempt_fail"
    /\ IF attempt[c] \in {"CLAIMED", "RESERVED"}
         THEN AttemptTo(c, at[c], "FAILED")
         ELSE UNCHANGED attemptVars
    /\ Leave(c)
    /\ UNCHANGED <<decisionVars, paymentVars, op, evidenceVars, keyVars, railVars, slip,
                   historyVars>>

-----------------------------------------------------------------------------
(* execute_prepared, from the invocation gate to the durable receipt.      *)

(* Attempt to INVOKING; a recovery pass may have moved it meanwhile.       *)
Begin(c) ==
    /\ pc[c] = "begin"
    /\ IF attempt[c] = "RESERVED"
         THEN /\ AttemptTo(c, at[c], "INVOKING")
              /\ Goto(c, IF Keyed(at[c]) THEN "keyexec" ELSE "invoke")
         ELSE /\ Goto(c, "mark_res")
              /\ UNCHANGED attemptVars
    /\ Stay
    /\ UNCHANGED <<decisionVars, paymentVars, op, evidenceVars, keyVars, railVars, slip,
                   historyVars>>

(* mark_idempotency_executing: only a claimed key opens the invocation.    *)
KeyExecuting(c) ==
    LET k == KeyOf[at[c]] IN
    /\ pc[c] = "keyexec"
    /\ IF keyrec[k] = "claimed"
         THEN /\ keyrec' = [keyrec EXCEPT ![k] = "executing"]
              /\ Goto(c, "invoke")
         ELSE Goto(c, "mark_res") /\ UNCHANGED keyrec
    /\ Stay
    /\ UNCHANGED <<decisionVars, paymentVars, op, evidenceVars, bound, attemptVars, railVars,
                   slip, historyVars>>

Invoke(c) ==
    /\ pc[c] = "invoke"
    /\ invoked' = invoked \cup {<<at[c], c>>}
    /\ Goto(c, "provider")
    /\ Stay
    /\ UNCHANGED <<decisionVars, paymentVars, op, evidenceVars, keyVars, attemptVars, railVars,
                   slip, returned>>

(* The route was withdrawn before the call, or the call raised or was      *)
(* cancelled while the provider was running.                               *)
InvokeRaises(c) ==
    /\ pc[c] \in {"invoke", "provider"}
    /\ Goto(c, "mark_res")
    /\ Stay
    /\ UNCHANGED <<decisionVars, paymentVars, op, evidenceVars, keyVars, attemptVars, railVars,
                   slip, historyVars>>

(* The provider answered.  The answer is kept only if the attempt is still *)
(* the one this call saw: otherwise the compare-and-set raises.            *)
Return(c) ==
    /\ pc[c] = "provider"
    /\ returned' = returned \cup {<<at[c], c>>}
    /\ IF attempt[c] = "INVOKING"
         THEN AttemptTo(c, at[c], "VALIDATING") /\ Goto(c, "validate")
         ELSE UNCHANGED attemptVars /\ Goto(c, "mark_res")
    /\ Stay
    /\ UNCHANGED <<decisionVars, paymentVars, op, evidenceVars, keyVars, railVars, slip, invoked>>

(* Local validation, attempt to SETTLING, receipt saved before any usage   *)
(* parsing or payment call.                                                *)
Validate(c) ==
    LET p == at[c] IN
    /\ pc[c] = "validate"
    /\ IF attempt[c] = "VALIDATING"
         THEN \E r \in Results, e \in Evidence :
                /\ e \in {"ok", "over", "localover", "conflict"} => Kind[p] = "quote"
                /\ Free(p) => e = "none"
                /\ AttemptTo(c, p, "SETTLING")
                /\ receipt' = [receipt EXCEPT ![p] = r]
                /\ ev' = [ev EXCEPT ![c] = e]
                /\ Goto(c, IF Free(p) THEN "free_settling" ELSE "await_usage")
         ELSE UNCHANGED <<attemptVars, receipt, ev>> /\ Goto(c, "mark_res")
    /\ UNCHANGED <<at, job, seen, mustMark, decisionVars, paymentVars, op, linked, statement,
                   keyVars, railVars, slip, historyVars>>

-----------------------------------------------------------------------------
(* execute_prepared, settlement.                                           *)

(* A lost compare-and-set is a ConfigurationError outside every handler:   *)
(* the call ends and recovery finds the receipt.                           *)
Advance(c, l, from, to, next) ==
    /\ pc[c] = l
    /\ IF state[at[c]] = from
         THEN MoveTo(at[c], to) /\ Goto(c, next) /\ Stay
         ELSE UNCHANGED state /\ Leave(c)
    /\ UNCHANGED <<token, expired, paymentVars, op, evidenceVars, keyVars, attemptVars, railVars,
                   slip, historyVars>>

FreeSettling(c) == Advance(c, "free_settling", "INVOKING", "SETTLING", "free_settled")
FreeSettled(c) == Advance(c, "free_settled", "SETTLING", "SETTLED", "final")

AwaitUsage(c) ==
    LET p == at[c] IN
    /\ pc[c] = "await_usage"
    /\ IF state[p] = "INVOKING"
         THEN MoveTo(p, "AWAITING_USAGE") /\ Goto(c, "usage")
         ELSE UNCHANGED state /\ Goto(c, "mark_res")
    /\ Stay
    /\ UNCHANGED <<token, expired, paymentVars, op, evidenceVars, keyVars, attemptVars, railVars,
                   slip, historyVars>>

(* Mutant: whatever the provider sent is stored before it is verified.     *)
SaveUsageUnverified(c) ==
    /\ pc[c] = "usage"
    /\ statement' = [statement EXCEPT ![at[c]] = ev[c]]
    /\ Goto(c, IF ev[c] \in {"invalid", "conflict"} THEN "mark_res" ELSE "decide")
    /\ Stay
    /\ UNCHANGED <<decisionVars, paymentVars, op, receipt, linked, keyVars, attemptVars, railVars,
                   slip, historyVars>>

(* Verify and save the usage statement; a status conflict is saved too.    *)
SaveUsage(c) ==
    LET p == at[c] IN
    /\ pc[c] = "usage"
    /\ statement' = [statement EXCEPT ![p] =
                        IF ev[c] \in {"ok", "over", "conflict"} THEN ev[c] ELSE @]
    /\ Goto(c, IF ev[c] \in {"invalid", "conflict"} THEN "mark_res" ELSE "decide")
    /\ Stay
    /\ UNCHANGED <<decisionVars, paymentVars, op, receipt, linked, keyVars, attemptVars, railVars,
                   slip, historyVars>>

OverMaximum(c) == ev[c] \in {"over", "localover"}

(* No amount can be determined, or it exceeds the signed maximum.          *)
DecideUncertain(c) ==
    /\ pc[c] = "decide"
    /\ OverMaximum(c) \/ receipt[at[c]] = "unbillable"
    /\ job' = [job EXCEPT ![c] = IF OverMaximum(c) THEN "dispute" ELSE "none"]
    /\ Goto(c, "mark_res")
    /\ UNCHANGED <<at, seen, ev, mustMark, decisionVars, paymentVars, op, evidenceVars, keyVars,
                   attemptVars, railVars, slip, historyVars>>

DecideSettle(c) ==
    LET p == at[c] IN
    /\ pc[c] = "decide"
    /\ ~OverMaximum(c) /\ receipt[p] = "billable"
    /\ IF state[p] = "AWAITING_USAGE"
         THEN /\ MoveTo(p, "SETTLING")
              /\ Enter(c, p, "pay_claim", "settle")
         ELSE UNCHANGED state /\ Leave(c)
    /\ UNCHANGED <<token, expired, paymentVars, op, evidenceVars, keyVars, attemptVars, railVars,
                   slip, historyVars>>

(* Authoritative link, final receipt, attempt to its terminal state.       *)
Final(c) ==
    LET p == at[c] IN
    /\ pc[c] = "final"
    /\ linked' = IF Free(p) THEN linked ELSE linked \cup {p}
    /\ IF attempt[c] = "SETTLING"
         THEN /\ \E t \in {"COMPLETED", "FAILED", "INDETERMINATE"} : AttemptTo(c, p, t)
              /\ IF Keyed(p) THEN Goto(c, "complete") /\ Stay ELSE Leave(c)
         ELSE UNCHANGED attemptVars /\ Leave(c)
    /\ UNCHANGED <<decisionVars, paymentVars, op, receipt, statement, keyVars, railVars, slip,
                   historyVars>>

(* complete_idempotency (free), complete_prepared_action_idempotency.      *)
Completable(p) ==
    /\ p \in bound /\ state[p] = "SETTLED" /\ receipt[p] # "none"
    /\ ~Free(p) => res[p] = "SETTLED" /\ settlement[p] = "settle" /\ p \in linked
    /\ keyrec[KeyOf[p]] \in {"claimed", "executing", "indeterminate", "complete"}

Complete(c) ==
    LET p == at[c] IN
    /\ pc[c] = "complete"
    /\ IF IF Free(p) THEN keyrec[KeyOf[p]] \in {"claimed", "executing"} ELSE Completable(p)
         THEN CompleteKey(p)
         ELSE UNCHANGED keyrec
    /\ Leave(c)
    /\ UNCHANGED <<decisionVars, paymentVars, op, evidenceVars, bound, attemptVars, railVars,
                   slip, historyVars>>

-----------------------------------------------------------------------------
(* settle_v2 and release_v2, run by calls, recoverers and operators alike. *)

Required(o) == IF o = "settle" THEN "SETTLING" ELSE "RESERVED"

Succeeded(x) ==
    \/ /\ job[x] = "settle"
       /\ Goto(x, IF x \in Calls THEN "final" ELSE "rfinal") /\ Stay
    \/ job[x] # "settle" /\ x \in Calls /\ Goto(x, "abandon") /\ Stay
    \/ job[x] # "settle" /\ x \notin Calls /\ Leave(x)

Failed(x) ==
    \/ /\ job[x] = "settle"
       /\ Goto(x, IF x \in Calls THEN "mark_res" ELSE "rerror") /\ Stay
    \/ job[x] # "settle" /\ x \in Calls /\ Goto(x, "attempt_fail") /\ Stay
    \/ job[x] # "settle" /\ x \notin Calls /\ Leave(x)

(* Claim the operation record; a completed or stored result is returned.   *)
PayReplay(x) ==
    LET p == at[x] o == job[x] IN
    /\ pc[x] = "pay_claim"
    /\ op[<<p, o>>] = "complete" \/ settlement[p] = o
    /\ op' = [op EXCEPT ![<<p, o>>] = "complete"]
    /\ Succeeded(x)
    /\ UNCHANGED <<decisionVars, paymentVars, evidenceVars, keyVars, attemptVars, railVars, slip,
                   historyVars>>

PayClaim(x) ==
    LET p == at[x] o == job[x] IN
    /\ pc[x] = "pay_claim"
    /\ op[<<p, o>>] # "complete" /\ settlement[p] # o
    /\ op' = [op EXCEPT ![<<p, o>>] = IF @ = "absent" THEN "claimed" ELSE @]
    /\ IF state[p] = Required(o)
         THEN /\ Goto(x, "pay_intent")
              /\ mustMark' = IF op[<<p, o>>] = "executing" THEN mustMark ELSE mustMark \cup {x}
              /\ UNCHANGED <<at, job, seen, ev>>
         ELSE Failed(x)
    /\ UNCHANGED <<decisionVars, paymentVars, evidenceVars, keyVars, attemptVars, railVars, slip,
                   historyVars>>

(* _claim_payment_intent_v2: the first intent wins, and only its owner's   *)
(* key may resume it.  An intent-free INDETERMINATE hold may only settle,  *)
(* and only on durable execution evidence.                                 *)
IntentResumes(p, o) == res[p] = "SETTLING" /\ intent[p] = o
(* Mutants: the intent is claimed without re-reading the decision, or over *)
(* an uncertain operation of another owner.                                *)
IntentIgnoresDecision(p, o) ==
    res[p] \in {"RESERVED", "INDETERMINATE"} /\ intent[p] \in {o, "none"}
IntentTakesOver(p, o) ==
    res[p] \in {"RESERVED", "INDETERMINATE"} /\ state[p] = Required(o)

IntentOpens(p, o) ==
    \/ res[p] = "INDETERMINATE" /\ intent[p] = o /\ state[p] = Required(o)
    \/ /\ res[p] = "INDETERMINATE" /\ intent[p] = "none"
       /\ o = "settle" /\ state[p] = "SETTLING" /\ receipt[p] # "none"
       /\ Kind[p] = "quote" => statement[p] # "none"
    \/ res[p] = "RESERVED" /\ intent[p] = "none" /\ state[p] = Required(o)

PayIntent(x) ==
    LET p == at[x] o == job[x] IN
    /\ pc[x] = "pay_intent"
    /\ \/ /\ IntentResumes(p, o)
          /\ UNCHANGED <<res, intent, slip>>
       \/ /\ IntentOpens(p, o)
          /\ res' = [res EXCEPT ![p] = "SETTLING"]
          /\ intent' = [intent EXCEPT ![p] = o]
          /\ Touch(p)
    /\ Goto(x, "pay_exec")
    /\ Stay
    /\ UNCHANGED <<decisionVars, settlement, op, evidenceVars, keyVars, attemptVars, railVars,
                   historyVars>>

PayIntentRefused(x) ==
    /\ pc[x] = "pay_intent"
    /\ ~IntentResumes(at[x], job[x]) /\ ~IntentOpens(at[x], job[x])
    /\ Failed(x)
    /\ UNCHANGED <<decisionVars, paymentVars, op, evidenceVars, keyVars, attemptVars, railVars,
                   slip, historyVars>>

(* Mark the operation executing and call the adapter.  An adapter that     *)
(* already holds a receipt for the operation does not call the rail again. *)
PayExec(x) ==
    LET p == at[x] o == job[x] IN
    /\ pc[x] = "pay_exec"
    /\ IF x \in mustMark /\ op[<<p, o>>] \notin {"claimed", "indeterminate"}
         THEN Failed(x) /\ UNCHANGED <<op, wire>>
         ELSE /\ op' = IF x \in mustMark THEN [op EXCEPT ![<<p, o>>] = "executing"] ELSE op
              /\ wire' = IF slip[<<x, p>>] = "none" THEN wire \cup {<<p, o>>} ELSE wire
              /\ Goto(x, "pay_rail")
              /\ Stay
    /\ UNCHANGED <<decisionVars, paymentVars, evidenceVars, keyVars, attemptVars, rail, slip,
                   historyVars>>

PayReply(x) ==
    LET p == at[x] o == job[x] IN
    /\ pc[x] = "pay_rail"
    /\ o \in rail[p]
    /\ slip' = [slip EXCEPT ![<<x, p>>] = IF @ = "none" THEN "fresh" ELSE @]
    /\ Goto(x, "pay_store")
    /\ Stay
    /\ UNCHANGED <<decisionVars, paymentVars, op, evidenceVars, keyVars, attemptVars, railVars,
                   historyVars>>

(* save_settlement_receipt: one settlement per reservation, matching the   *)
(* claimed intent, not older than the reservation row.                     *)
Storable(x) ==
    LET p == at[x] o == job[x] IN
    /\ settlement[p] = "none" /\ intent[p] = o /\ slip[<<x, p>>] = "fresh"
    /\ res[p] \in {"SETTLING", "INDETERMINATE"}
    /\ state[p] \in IF o = "settle" THEN {"SETTLING", "INDETERMINATE", "DISPUTED"} ELSE {"RESERVED"}

PayStore(x) ==
    LET p == at[x] o == job[x] s == IF o = "settle" THEN "SETTLED" ELSE "RELEASED" IN
    /\ pc[x] = "pay_store"
    /\ Storable(x)
    /\ settlement' = [settlement EXCEPT ![p] = o]
    /\ res' = [res EXCEPT ![p] = s]
    /\ intent' = [intent EXCEPT ![p] = "none"]
    /\ MoveTo(p, s)
    /\ Goto(x, "pay_done")
    /\ Stay
    /\ UNCHANGED <<token, expired, op, evidenceVars, keyVars, attemptVars, railVars, slip,
                   historyVars>>

PayDone(x) ==
    /\ pc[x] = "pay_done"
    /\ op' = [op EXCEPT ![<<at[x], job[x]>>] = "complete"]
    /\ Succeeded(x)
    /\ UNCHANGED <<decisionVars, paymentVars, evidenceVars, keyVars, attemptVars, railVars, slip,
                   historyVars>>

(* The rail call raised (its effect unknown) or the receipt was refused.   *)
PayError(x) ==
    LET p == at[x] o == job[x] IN
    /\ \/ pc[x] = "pay_rail"
       \/ pc[x] = "pay_store" /\ ~Storable(x)
    /\ IF res[p] = "SETTLING"
         THEN res' = [res EXCEPT ![p] = "INDETERMINATE"] /\ Touch(p)
         ELSE UNCHANGED <<res, slip>>
    /\ op' = [op EXCEPT ![<<p, o>>] = IF @ = "executing" THEN "indeterminate" ELSE @]
    /\ Failed(x)
    /\ UNCHANGED <<decisionVars, intent, settlement, evidenceVars, keyVars, attemptVars, railVars,
                   historyVars>>

(* Cancellation of a settling call passes settle_v2 but not the outer      *)
(* boundary of execute_prepared.                                           *)
PayCancelled(c) ==
    /\ pc[c] = "pay_rail" /\ job[c] = "settle"
    /\ Goto(c, "mark_res")
    /\ Stay
    /\ UNCHANGED <<decisionVars, paymentVars, op, evidenceVars, keyVars, attemptVars, railVars,
                   slip, historyVars>>

(* The rail performs a request once per idempotency key, when it likes.    *)
(* That it never receives both a capture and a release, or two releases,   *)
(* is up to the callers.                                                   *)
RailPerform(p, o) ==
    /\ <<p, o>> \in wire
    /\ wire' = wire \ {<<p, o>>}
    /\ rail' = [rail EXCEPT ![p] = @ \cup {o}]
    /\ UNCHANGED <<decisionVars, paymentVars, op, evidenceVars, keyVars, attemptVars, slip, pc,
                   localVars, historyVars>>

-----------------------------------------------------------------------------
(* _mark_economic_indeterminate: hold, decision, newest attempt, in three  *)
(* transactions; then a dispute, and the caller's key.                     *)

MarkReservation(x) ==
    LET p == at[x] IN
    /\ pc[x] = "mark_res"
    /\ IF res[p] \in {"RESERVED", "SETTLING"}
         THEN res' = [res EXCEPT ![p] = "INDETERMINATE"] /\ Touch(p)
         ELSE UNCHANGED <<res, slip>>
    /\ Goto(x, "mark_prep")
    /\ Stay
    /\ UNCHANGED <<decisionVars, intent, settlement, op, evidenceVars, keyVars, attemptVars,
                   railVars, historyVars>>

(* Mutant: the decision is marked whatever became of it meanwhile.         *)
MarkPreparedBlindly(x) ==
    /\ pc[x] = "mark_prep"
    /\ MoveTo(at[x], "INDETERMINATE")
    /\ Goto(x, "mark_attempt")
    /\ Stay
    /\ UNCHANGED <<token, expired, paymentVars, op, evidenceVars, keyVars, attemptVars, railVars,
                   slip, historyVars>>

MarkPrepared(x) ==
    LET p == at[x] IN
    /\ pc[x] = "mark_prep"
    /\ IF state[p] \in {"INVOKING", "AWAITING_USAGE", "SETTLING"}
         THEN MoveTo(p, "INDETERMINATE")
         ELSE UNCHANGED state
    /\ Goto(x, "mark_attempt")
    /\ Stay
    /\ UNCHANGED <<token, expired, paymentVars, op, evidenceVars, keyVars, attemptVars, railVars,
                   slip, historyVars>>

AfterMark(x) == IF x \in Calls THEN Goto(x, "mark_key") /\ Stay ELSE Leave(x)

MarkAttempt(x) ==
    LET c == latest[at[x]] IN
    /\ pc[x] = "mark_attempt"
    /\ IF c # None /\ attempt[c] \in {"RESERVED", "INVOKING", "VALIDATING", "SETTLING"}
         THEN AttemptTo(c, at[x], "INDETERMINATE")
         ELSE UNCHANGED attemptVars
    /\ IF job[x] = "dispute" THEN Goto(x, "dispute") /\ Stay ELSE AfterMark(x)
    /\ UNCHANGED <<decisionVars, paymentVars, op, evidenceVars, keyVars, railVars, slip,
                   historyVars>>

Dispute(x) ==
    LET p == at[x] IN
    /\ pc[x] = "dispute"
    /\ IF state[p] = "INDETERMINATE" THEN MoveTo(p, "DISPUTED") ELSE UNCHANGED state
    /\ AfterMark(x)
    /\ UNCHANGED <<token, expired, paymentVars, op, evidenceVars, keyVars, attemptVars, railVars,
                   slip, historyVars>>

(* Mutant: the failed call gives the key back.                             *)
MarkKeyReopens(c) ==
    /\ pc[c] = "mark_key"
    /\ IF Keyed(at[c]) THEN DropKey(at[c]) ELSE UNCHANGED keyVars
    /\ Leave(c)
    /\ UNCHANGED <<decisionVars, paymentVars, op, evidenceVars, attemptVars, railVars, slip,
                   historyVars>>

MarkKey(c) ==
    LET k == KeyOf[at[c]] IN
    /\ pc[c] = "mark_key"
    /\ IF Keyed(at[c]) /\ keyrec[k] = "executing"
         THEN keyrec' = [keyrec EXCEPT ![k] = "indeterminate"]
         ELSE UNCHANGED keyrec
    /\ Leave(c)
    /\ UNCHANGED <<decisionVars, paymentVars, op, evidenceVars, bound, attemptVars, railVars,
                   slip, historyVars>>

-----------------------------------------------------------------------------
(* economic_recover: finish what is durably decided, then visit every      *)
(* recoverable decision with the state it had when it was scanned.         *)

FinalizeRelease(r, p) ==
    LET o == settlement[p] IN
    /\ pc[r] = "idle"
    /\ state[p] = "RELEASED" /\ res[p] = "RELEASED" /\ o \in Releases
    /\ op[<<p, o>>] \in {"claimed", "executing", "indeterminate"}
    /\ op' = [op EXCEPT ![<<p, o>>] = "complete"]
    /\ UNCHANGED <<decisionVars, paymentVars, evidenceVars, keyVars, attemptVars, railVars, slip,
                   pc, localVars, historyVars>>

AbandonReleased(r, p) ==
    /\ pc[r] = "idle"
    /\ state[p] = "RELEASED" /\ Abandonable(p)
    /\ DropKey(p)
    /\ UNCHANGED <<decisionVars, paymentVars, op, evidenceVars, attemptVars, railVars, slip, pc,
                   localVars, historyVars>>

(* settle_recovered_free_prepared: the one receipt proves the free result. *)
SettleFree(r, p) ==
    /\ pc[r] = "idle"
    /\ p \in bound /\ Free(p) /\ res[p] = "none" /\ receipt[p] # "none"
    /\ state[p] \in {"INVOKING", "SETTLING", "INDETERMINATE", "SETTLED"}
    /\ ~(state[p] = "SETTLED" /\ keyrec[KeyOf[p]] = "complete")
    /\ MoveTo(p, "SETTLED")
    /\ Enter(r, p, "rkey", "none")
    /\ UNCHANGED <<token, expired, paymentVars, op, evidenceVars, keyVars, attemptVars, railVars,
                   slip, historyVars>>

FinalizeSettled(r, p) ==
    /\ pc[r] = "idle"
    /\ state[p] = "SETTLED" /\ settlement[p] = "settle" /\ receipt[p] # "none"
    /\ \/ p \notin linked \/ op[<<p, "settle">>] # "complete"
       \/ p \in bound /\ keyrec[KeyOf[p]] # "complete"
    /\ Enter(r, p, "rfinal", "none")
    /\ UNCHANGED <<decisionVars, paymentVars, op, evidenceVars, keyVars, attemptVars, railVars,
                   slip, historyVars>>

(* _finalize_recovered_settlement: link and receipt, operation, then key.  *)
FinalizeLink(r) ==
    LET p == at[r] IN
    /\ pc[r] = "rfinal"
    /\ linked' = linked \cup {p}
    /\ op' = [op EXCEPT ![<<p, "settle">>] = "complete"]
    /\ IF p \in bound THEN Goto(r, "rkey") /\ Stay ELSE Leave(r)
    /\ UNCHANGED <<decisionVars, paymentVars, receipt, statement, keyVars, attemptVars, railVars,
                   slip, historyVars>>

FinalizeKey(r) ==
    /\ pc[r] = "rkey"
    /\ IF Completable(at[r]) THEN CompleteKey(at[r]) ELSE UNCHANGED keyrec
    /\ Leave(r)
    /\ UNCHANGED <<decisionVars, paymentVars, op, evidenceVars, bound, attemptVars, railVars,
                   slip, historyVars>>

PostInvocation == {"INVOKING", "AWAITING_USAGE", "SETTLING", "INDETERMINATE"}

(* recoverable_prepared_decisions: a decision that is not resolved, or a   *)
(* claim that expired.  A pass gets the oldest of them, ScanLimit at most, *)
(* and a decision without evidence stays among them for ever.              *)
Incomplete(p) ==
    \/ state[p] \in PostInvocation \cup {"RESERVED"}
    \/ state[p] = "PREPARED" /\ token[p] # None /\ p \in expired

Older(p) == {q \in Prepared : Incomplete(q) /\ Created[q] < Created[p]}

Recoverable(p) == Incomplete(p) /\ Cardinality(Older(p)) < ScanLimit

Scan(r, p) ==
    /\ pc[r] = "idle"
    /\ Recoverable(p)
    /\ pc' = [pc EXCEPT ![r] = "recover"]
    /\ at' = [at EXCEPT ![r] = p]
    /\ seen' = [seen EXCEPT ![r] = state[p]]
    /\ UNCHANGED <<job, ev, mustMark, decisionVars, paymentVars, op, evidenceVars, keyVars,
                   attemptVars, railVars, slip, historyVars>>

(* Mutant: the orphaned claim is cancelled, its key is not given back.     *)
CancelOrphanOnly(r) ==
    LET p == at[r] IN
    /\ pc[r] = "recover" /\ seen[r] = "PREPARED"
    /\ IF state[p] = "PREPARED" THEN MoveTo(p, "CANCELLED") ELSE UNCHANGED state
    /\ Leave(r)
    /\ UNCHANGED <<token, expired, paymentVars, op, evidenceVars, keyVars, attemptVars, railVars,
                   slip, historyVars>>

(* A claim that expired without a state change proves no invocation began. *)
CancelOrphan(r) ==
    LET p == at[r] IN
    /\ pc[r] = "recover" /\ seen[r] = "PREPARED"
    /\ \/ /\ p \in bound /\ Abandonable(p) /\ p \in expired
          /\ IF state[p] = "PREPARED" THEN MoveTo(p, "CANCELLED") ELSE UNCHANGED state
          /\ DropKey(p)
       \/ /\ p \notin bound /\ state[p] = "PREPARED"
          /\ MoveTo(p, "CANCELLED")
          /\ UNCHANGED keyVars
       \/ /\ IF p \in bound THEN ~(Abandonable(p) /\ p \in expired) ELSE state[p] # "PREPARED"
          /\ UNCHANGED <<state, keyVars>>
    /\ Leave(r)
    /\ UNCHANGED <<token, expired, paymentVars, op, evidenceVars, attemptVars, railVars, slip,
                   historyVars>>

(* A hold never invoked is released, under an existing release intent if   *)
(* there is one.                                                           *)
RecoverReserved(r) ==
    LET p == at[r] IN
    /\ pc[r] = "recover" /\ seen[r] = "RESERVED"
    /\ \/ /\ res[p] \notin {"SETTLING", "INDETERMINATE"}
          /\ Enter(r, p, "pay_claim", "recover")
       \/ /\ res[p] \in {"SETTLING", "INDETERMINATE"} /\ intent[p] \in Releases
          /\ Enter(r, p, "pay_claim", intent[p])
       \/ /\ res[p] \in {"SETTLING", "INDETERMINATE"} /\ intent[p] \notin Releases
          /\ Leave(r)
    /\ UNCHANGED <<decisionVars, paymentVars, op, evidenceVars, keyVars, attemptVars, railVars,
                   slip, historyVars>>

(* Mutant: a receipt alone settles a signed quote.                         *)
EvidencedByReceipt(p) == receipt[p] # "none" /\ ~Free(p)

(* What a recovery pass may settle from: the receipt, and for a signed     *)
(* quote also a usage statement that agrees with it.                       *)
Evidenced(p) ==
    /\ receipt[p] # "none"
    /\ \/ Kind[p] = "fixed"
       \/ Kind[p] = "quote" /\ statement[p] \in {"ok", "over"}

RecoverDispute(r) ==
    LET p == at[r] IN
    /\ pc[r] = "recover" /\ seen[r] \in PostInvocation
    /\ Evidenced(p) /\ statement[p] = "over"
    /\ Enter(r, p, "mark_res", "dispute")
    /\ UNCHANGED <<decisionVars, paymentVars, op, evidenceVars, keyVars, attemptVars, railVars,
                   slip, historyVars>>

(* Bring the decision to SETTLING and settle under the original key.  Only *)
(* a fixed authorization may still be INVOKING.                            *)
RecoverSettle(r) ==
    LET p == at[r] IN
    /\ pc[r] = "recover" /\ seen[r] \in PostInvocation
    /\ Evidenced(p) /\ statement[p] # "over"
    /\ \/ /\ receipt[p] = "billable" /\ Kind[p] = "fixed" /\ state[p] = "INVOKING"
          /\ MoveTo(p, "AWAITING_USAGE") /\ UNCHANGED pc /\ Stay
       \/ /\ receipt[p] = "billable"
          /\ state[p] \in {"AWAITING_USAGE", "INDETERMINATE", "SETTLING"}
          /\ MoveTo(p, "SETTLING") /\ Enter(r, p, "pay_claim", "settle")
       \/ /\ ~(receipt[p] = "billable" /\ Kind[p] = "fixed" /\ state[p] = "INVOKING")
          /\ ~(/\ receipt[p] = "billable"
               /\ state[p] \in {"AWAITING_USAGE", "INDETERMINATE", "SETTLING"})
          /\ UNCHANGED state /\ Goto(r, "rerror") /\ Stay
    /\ UNCHANGED <<token, expired, paymentVars, op, evidenceVars, keyVars, attemptVars, railVars,
                   slip, historyVars>>

(* Mutant: recovery leaves a decision without evidence as it is.           *)
RecoverNoEvidenceIgnored(r) ==
    /\ pc[r] = "recover" /\ seen[r] \in PostInvocation
    /\ ~Evidenced(at[r])
    /\ Leave(r)
    /\ UNCHANGED <<decisionVars, paymentVars, op, evidenceVars, keyVars, attemptVars, railVars,
                   slip, historyVars>>

RecoverNoEvidence(r) ==
    /\ pc[r] = "recover" /\ seen[r] \in PostInvocation
    /\ ~Evidenced(at[r])
    /\ IF seen[r] = "INDETERMINATE" THEN Leave(r) ELSE Goto(r, "mark_res") /\ Stay
    /\ UNCHANGED <<decisionVars, paymentVars, op, evidenceVars, keyVars, attemptVars, railVars,
                   slip, historyVars>>

RecoverError(r) ==
    /\ pc[r] = "rerror"
    /\ IF state[at[r]] = "INDETERMINATE"
         THEN Leave(r)
         ELSE /\ Goto(r, "mark_res")
              /\ job' = [job EXCEPT ![r] = "none"]
              /\ UNCHANGED <<at, seen, ev, mustMark>>
    /\ UNCHANGED <<decisionVars, paymentVars, op, evidenceVars, keyVars, attemptVars, railVars,
                   slip, historyVars>>

-----------------------------------------------------------------------------
(* cancel_prepared, the passing of a decision's deadline, crashes.         *)

CancelPrepared(o, p) ==
    /\ pc[o] = "idle"
    /\ \/ /\ state[p] = "RESERVED"
          /\ Enter(o, p, "pay_claim", "cancel")
          /\ UNCHANGED state
       \/ /\ state[p] = "PREPARED"
          /\ MoveTo(p, "CANCELLED")
          /\ Leave(o)
    /\ UNCHANGED <<token, expired, paymentVars, op, evidenceVars, keyVars, attemptVars, railVars,
                   slip, historyVars>>

(* get_prepared_decision: whoever looks at a decision past its deadline    *)
(* expires it, whether or not a call has claimed it.                       *)
ShowPrepared(p) ==
    /\ state[p] = "PREPARED" /\ p \in expired
    /\ MoveTo(p, "EXPIRED")
    /\ UNCHANGED <<token, expired, paymentVars, op, evidenceVars, keyVars, attemptVars, railVars,
                   slip, pc, localVars, historyVars>>

Expire(p) ==
    /\ p \notin expired
    /\ expired' = expired \cup {p}
    /\ UNCHANGED <<state, token, paymentVars, op, evidenceVars, keyVars, attemptVars, railVars,
                   slip, pc, localVars, historyVars>>

Crash(x) ==
    /\ x \in Crashable
    /\ pc[x] \notin {"idle", "done"}
    /\ slip' = [d \in Procs \X Prepared |-> IF d[1] = x THEN "none" ELSE slip[d]]
    /\ Leave(x)
    /\ UNCHANGED <<decisionVars, paymentVars, op, evidenceVars, keyVars, attemptVars, railVars,
                   historyVars>>

-----------------------------------------------------------------------------
BeforeGate(c) ==
    \/ CreateAttempt(c) \/ Claim(c) \/ ClaimRefused(c) \/ Reserve(c) \/ ReserveRefused(c) \/ ReserveReply(c)
    \/ ReserveError(c) \/ ReserveCancelled(c) \/ Reserved(c) \/ Gate(c) \/ Refused(c)
    \/ Abandon(c) \/ AttemptFail(c)
AfterGate(c) ==
    \/ Begin(c) \/ KeyExecuting(c) \/ Invoke(c) \/ InvokeRaises(c) \/ Return(c) \/ Validate(c)
    \/ FreeSettling(c) \/ FreeSettled(c) \/ AwaitUsage(c) \/ SaveUsage(c) \/ DecideUncertain(c)
    \/ DecideSettle(c) \/ Final(c) \/ Complete(c) \/ PayCancelled(c) \/ MarkKey(c)
Payment(x) ==
    \/ PayReplay(x) \/ PayClaim(x) \/ PayIntent(x) \/ PayIntentRefused(x) \/ PayExec(x)
    \/ PayReply(x) \/ PayStore(x) \/ PayDone(x) \/ PayError(x)
Mark(x) == MarkReservation(x) \/ MarkPrepared(x) \/ MarkAttempt(x) \/ Dispute(x)
Recover(r) ==
    \/ FinalizeLink(r) \/ FinalizeKey(r) \/ CancelOrphan(r) \/ RecoverReserved(r)
    \/ RecoverDispute(r) \/ RecoverSettle(r) \/ RecoverNoEvidence(r) \/ RecoverError(r)
Finalize(r, p) ==
    \/ FinalizeRelease(r, p) \/ AbandonReleased(r, p) \/ SettleFree(r, p) \/ FinalizeSettled(r, p)

Next ==
    \/ \E c \in Calls : BeforeGate(c) \/ AfterGate(c) \/ \E p \in Prepared : Start(c, p)
    \/ \E r \in Recoverers : Recover(r) \/ \E p \in Prepared : Finalize(r, p) \/ Scan(r, p)
    \/ \E o \in Operators, p \in Prepared : CancelPrepared(o, p)
    \/ \E x \in Procs : Payment(x) \/ Mark(x) \/ Crash(x)
    \/ \E p \in Prepared : Expire(p) \/ ShowPrepared(p) \/ \E o \in Ops : RailPerform(p, o)

Spec == Init /\ [][Next]_vars

(***************************************************************************)
(* Fairness of recovery.  An operator keeps running economic_recover, and  *)
(* one pass visits every decision on its page, so a decision that is on    *)
(* the page again and again is visited; a pass that started finishes.  The *)
(* abandonment of released keys has a page of its own, which it empties.   *)
(* The rail performs what it was sent and does not lose every answer.      *)
(* Nothing is assumed of the calls: a call may hang or crash for ever.     *)
(***************************************************************************)
RecoveryFairness ==
    /\ \A r \in Recoverers :
          /\ WF_vars(Recover(r)) /\ WF_vars(Mark(r)) /\ WF_vars(Payment(r))
          /\ SF_vars(PayReply(r))
          /\ \A p \in Prepared : /\ SF_vars(Scan(r, p))
                                /\ SF_vars(AbandonReleased(r, p))
    /\ \A p \in Prepared, o \in Ops : WF_vars(RailPerform(p, o))

FairSpec == Spec /\ RecoveryFairness

-----------------------------------------------------------------------------
Labels == {"idle", "done", "create", "claim", "reserve", "rail_reserve", "reserved", "gate", "abandon",
           "attempt_fail", "begin", "keyexec", "invoke", "provider", "validate",
           "free_settling", "free_settled", "await_usage", "usage", "decide", "final",
           "complete", "pay_claim", "pay_intent", "pay_exec", "pay_rail", "pay_store",
           "pay_done", "mark_res", "mark_prep", "mark_attempt", "dispute", "mark_key",
           "recover", "rerror", "rfinal", "rkey"}

DecisionTypes ==
    /\ state \in [Prepared -> PreparedStates]
    /\ token \in [Prepared -> Calls \cup {None}]
    /\ expired \in SUBSET Prepared
PaymentTypes ==
    /\ res \in [Prepared -> ReservationStates]
    /\ intent \in [Prepared -> Intents \cup {"none"}]
    /\ settlement \in [Prepared -> Intents \cup {"none"}]
    /\ op \in [Prepared \X Ops -> OperationStates]
EvidenceTypes ==
    /\ receipt \in [Prepared -> Results \cup {"none"}]
    /\ linked \in SUBSET Prepared
    /\ statement \in [Prepared -> {"none", "ok", "over", "conflict"}]
KeyTypes ==
    /\ keyrec \in [Keys -> OperationStates]
    /\ bound \in SUBSET Prepared
AttemptTypes ==
    /\ attempt \in [Calls -> AttemptStates]
    /\ latest \in [Prepared -> Calls \cup {None}]
RailTypes ==
    /\ rail \in [Prepared -> SUBSET Ops]
    /\ wire \in SUBSET (Prepared \X Ops)
    /\ slip \in [Procs \X Prepared -> {"none", "fresh", "stale"}]
LocalTypes ==
    /\ pc \in [Procs -> Labels]
    /\ at \in [Procs -> Prepared \cup {None}]
    /\ job \in [Procs -> Intents \cup {"none", "dispute"}]
    /\ seen \in [Procs -> PreparedStates \cup {"none"}]
    /\ ev \in [Procs -> Evidence]
    /\ mustMark \in SUBSET Procs
HistoryTypes ==
    /\ invoked \in SUBSET (Prepared \X Calls)
    /\ returned \in SUBSET (Prepared \X Calls)

(* The type invariant: the rows of the store, the rail, the processes and  *)
(* the history variables; only verified usage statements are stored.       *)
TypeOK ==
    /\ DecisionTypes /\ PaymentTypes /\ EvidenceTypes /\ KeyTypes
    /\ AttemptTypes /\ RailTypes /\ LocalTypes /\ HistoryTypes

(* An external action runs at most once: per decision, and per idempotency *)
(* key even when several prepared decisions carry it.                      *)
AtMostOneInvocation ==
    \A i, j \in invoked :
        (i[1] = j[1] \/ (Keyed(i[1]) /\ KeyOf[i[1]] = KeyOf[j[1]])) => i = j

(* What is released or cancelled was never invoked, at the store and at    *)
(* the rail: recovery, an operator and a live call race for a hold, and    *)
(* either the release intent or the invocation gate wins.                  *)
ReleasedNeverInvoked ==
    \A p \in Prepared :
        (state[p] \in {"RELEASED", "CANCELLED", "EXPIRED"} \/ rail[p] \cap Releases # {})
            => \A i \in invoked : i[1] # p

(* Money is captured only for an invoked action whose receipt is durable   *)
(* and fixes the amount, and never against a statement that is above the   *)
(* maximum or contradicts the local result.                                *)
CaptureIsEvidenced ==
    \A p \in Prepared :
        "settle" \in rail[p] =>
            /\ \E i \in invoked : i[1] = p
            /\ receipt[p] = "billable"
            /\ statement[p] \notin {"over", "conflict"}

(* The stored settlement is the rail's: one operation closes a reservation *)
(* at the rail, and the store records that operation and no other.         *)
LedgerMatchesRail ==
    \A p \in Prepared :
        /\ settlement[p] # "none" => rail[p] \cap Intents = {settlement[p]}
        /\ \A a, b \in rail[p] \cap Intents : a = b

(* A paid action whose outcome is uncertain keeps its hold: between the    *)
(* gate and the settlement the reservation stays outstanding.              *)
UncertainKeepsHold ==
    \A p \in Prepared :
        (~Free(p) /\ state[p] \in PostInvocation \cup {"DISPUTED"}) =>
            /\ res[p] \in {"RESERVED", "SETTLING", "INDETERMINATE"}
            /\ intent[p] \notin Releases
            /\ settlement[p] = "none"

(* The idempotency key of an invoked action stays bound to its decision:   *)
(* neither recovery nor a failed call can reopen it.                       *)
InvokedKeyStaysBound ==
    \A i \in invoked :
        Keyed(i[1]) => i[1] \in bound /\ keyrec[KeyOf[i[1]]] # "absent"

(* Every step of every process moves a decision along the allowed          *)
(* transitions, so none of them fails half-way on the store's own check;   *)
(* recovery of a free action takes two of them in one transaction.         *)
DecisionsFollowTable ==
    [][\A p \in Prepared :
          state'[p] # state[p] =>
            \/ <<state[p], state'[p]>> \in AllowedTransitions
            \/ Free(p) /\ state[p] = "INVOKING" /\ state'[p] = "SETTLED"]_vars

(* Recovery comes to a decision only if older ones, unresolved for ever,   *)
(* do not fill its page.                                                   *)
NotCrowdedOut(p) == []<>(Incomplete(p) => Recoverable(p))

(* A claim that was orphaned before the gate holds neither the decision    *)
(* nor its idempotency key for ever: recovery cancels the one and gives    *)
(* the other back, unless a reader expired the decision or an operator     *)
(* cancelled it before (get_prepared_decision, cancel_prepared): both      *)
(* leave the key as it is.                                                 *)
OrphanClaimCancelled ==
    \A p \in Prepared : NotCrowdedOut(p) =>
        (state[p] = "PREPARED" /\ token[p] # None /\ p \in expired) ~>
            \/ state[p] = "CANCELLED" /\ p \notin bound
            \/ state[p] = "EXPIRED"
            \/ state[p] = "CANCELLED" /\ \E o \in Operators : pc[o] = "done"

(* A decision whose call stopped after the gate does not stay in flight:   *)
(* recovery settles it or marks it uncertain (economic_recover).           *)
InvocationIsResolved ==
    \A p \in Prepared : NotCrowdedOut(p) =>
        state[p] \in {"INVOKING", "AWAITING_USAGE", "SETTLING"}
            ~> state[p] \in {"INDETERMINATE", "SETTLED", "DISPUTED"}

(* A released action gives its idempotency key back.                       *)
ReleasedKeyFreed ==
    \A p \in Prepared : (state[p] = "RELEASED" /\ p \in bound) ~> (p \notin bound)

-----------------------------------------------------------------------------
(* Statements of the repository that the code does not keep.               *)

(* The invocation's answer is persisted before anything else can fail, so  *)
(* that recovery never needs to repeat the action to prove it returned.    *)
ReturnedIsPersisted ==
    \A i \in returned : pc[i[2]] = "done" => receipt[i[1]] # "none"
=============================================================================
