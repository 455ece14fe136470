--------------------------- MODULE ActionExecution ---------------------------
(***************************************************************************)
(* Ordinary execution of actions (AEEPRouter.execute) by several workers   *)
(* that share one store: the idempotency key of the action, the fallback   *)
(* loop over ranked routes, one durable attempt per try, and the capacity  *)
(* hold of a managed host, which is claimed and released in the            *)
(* transaction that moves the attempt.                                     *)
(*                                                                         *)
(* An action of the model is one store transaction or one external         *)
(* boundary.  Exceptions are followed to their handler; a crash, like a    *)
(* cancelled task, leaves everything as the store has it.                  *)
(***************************************************************************)
EXTENDS Naturals, Sequences, FiniteSets, Functions

CONSTANTS
    Calls,               \* calls of execute
    Keys, KeyOf,         \* idempotency key of a call's action, or None
    Decisions, DecisionOf,   \* the route decision a call executes; calls may share one
    Routes, Orders,      \* executors; ranked candidate lists a decision may have
    Idempotent, Reads,   \* routes declared idempotent; routes that only read
    Managed, Cost,       \* managed hosts, and the usage estimate of each
    Capacity,            \* the most the one shared pool is ever reported to have
    MaxAttempts, AllowNonIdempotent, RetryTimeouts, RetryInvalid,
    Statuses,            \* the answers an executor may give
    Scoped, ScopeMax,    \* calls under one task scope, and its attempt allowance
    Crashable, None

ASSUME RouteAssumption ==
    /\ Idempotent \subseteq Routes /\ Reads \subseteq Routes /\ Managed \subseteq Routes
    /\ Cost \in [Managed -> Nat \ {0}] /\ Capacity \in Nat
    /\ Orders \subseteq Seq(Routes) /\ Orders # {}
    /\ \A s \in Orders : s # <<>>

ASSUME CallAssumption ==
    /\ Statuses \subseteq {"success", "invalid", "delegated", "failed", "rejected", "timeout", "unknown"}
    /\ KeyOf \in [Calls -> Keys \cup {None}] /\ None \notin Keys \cup Routes \cup Nat
    /\ DecisionOf \in [Calls -> Decisions] /\ Decisions \cap Calls = {}
    /\ Scoped \subseteq Calls /\ Crashable \subseteq Calls
    /\ MaxAttempts \in Nat \ {0} /\ ScopeMax \in Nat
    /\ {AllowNonIdempotent, RetryTimeouts, RetryInvalid} \subseteq BOOLEAN

(* A call makes at most MaxAttempts tries, and once more that many, under  *)
(* a decision of its own, when a changed quota has it routed again.        *)
Attempts == Calls \X (1 .. 2 * MaxAttempts)
Decision(a) == IF a[2] <= MaxAttempts THEN DecisionOf[a[1]] ELSE a[1]

Definite == {"COMPLETED", "FAILED", "REJECTED"}
Accepted == {"success", "delegated"}

VARIABLES
    key,                       \* idempotency_records
    attempt, via, receipts,    \* execution_attempts, their executor, saved receipts
    latest,                    \* the attempt of a decision that was updated last
    hold, lapsed, observed,    \* capacity reservations, expired ones, last observation
    pc, order, num, serial, rerouted, known,   \* local state of a call
    outcome, invoked           \* what the executor answered; invocations begun

callVars == <<order, num, serial, rerouted, known>>
capacityVars == <<hold, lapsed, observed>>
attemptVars == <<attempt, latest, via, receipts>>
historyVars == <<outcome, invoked>>
vars == <<key, attemptVars, capacityVars, pc, callVars, historyVars>>

Init ==
    /\ key = [k \in Keys |-> "absent"]
    /\ attempt = [a \in Attempts |-> "none"]
    /\ via = [a \in Attempts |-> None]
    /\ receipts = {}
    /\ latest = [d \in Decisions \cup Calls |-> None]
    /\ hold = [a \in Attempts |-> "none"]
    /\ lapsed = {}
    /\ observed = None
    /\ pc = [c \in Calls |-> "idle"]
    /\ order \in [Calls -> Orders]
    /\ num = [c \in Calls |-> 1]
    /\ serial = [c \in Calls |-> 0]
    /\ rerouted = {}
    /\ known = [c \in Calls |-> None]
    /\ outcome = [a \in Attempts |-> "none"]
    /\ invoked = {}

-----------------------------------------------------------------------------
Goto(c, l) == pc' = [pc EXCEPT ![c] = l]
Keyed(c) == KeyOf[c] # None
Route(c) == order[c][num[c]]
Current(c) == <<c, serial[c]>>

(* Mutant: one try more than there are candidates.                         *)
TriesOneMore(c) == MaxAttempts + 1

Tries(c) == IF Len(order[c]) < MaxAttempts THEN Len(order[c]) ELSE MaxAttempts

(* Only the outer frame of a keyed call handles an exception.              *)
Raise(c) == Goto(c, IF Keyed(c) THEN "except" ELSE "done")
Finish(c) == Goto(c, IF Keyed(c) THEN "complete" ELSE "done")

Move(a, s) ==
    /\ attempt' = [attempt EXCEPT ![a] = s]
    /\ latest' = [latest EXCEPT ![Decision(a)] = a]

-----------------------------------------------------------------------------
(* The key: claimed before anything else; a duplicate is answered from the *)
(* record or refused.                                                      *)

ClaimKey(c) ==
    /\ pc[c] = "idle"
    /\ IF ~Keyed(c) THEN Goto(c, "next") /\ UNCHANGED key
       ELSE IF key[KeyOf[c]] = "absent"
         THEN key' = [key EXCEPT ![KeyOf[c]] = "claimed"] /\ Goto(c, "next")
         ELSE Goto(c, "done") /\ UNCHANGED key
    /\ UNCHANGED <<attemptVars, capacityVars, callVars, historyVars>>

CompleteKey(c) ==
    /\ pc[c] = "complete"
    /\ key' = [key EXCEPT ![KeyOf[c]] = IF @ \in {"claimed", "executing"} THEN "complete" ELSE @]
    /\ Goto(c, "done")
    /\ UNCHANGED <<attemptVars, capacityVars, callVars, historyVars>>

(* Mutant: an exception always frees the key for a retry.                  *)
UncertainKeyReopened(c) ==
    /\ pc[c] = "except"
    /\ key' = [key EXCEPT ![KeyOf[c]] = IF @ = "executing" THEN "claimed" ELSE @]
    /\ Goto(c, "abandon")
    /\ UNCHANGED <<attemptVars, capacityVars, callVars, historyVars>>

UncertainKey(c) ==
    /\ pc[c] = "except"
    /\ key' = [key EXCEPT ![KeyOf[c]] = IF @ = "executing" THEN "indeterminate" ELSE @]
    /\ Goto(c, "abandon")
    /\ UNCHANGED <<attemptVars, capacityVars, callVars, historyVars>>

AbandonKey(c) ==
    /\ pc[c] = "abandon"
    /\ key' = [key EXCEPT ![KeyOf[c]] = IF @ = "claimed" THEN "absent" ELSE @]
    /\ Goto(c, "done")
    /\ UNCHANGED <<attemptVars, capacityVars, callVars, historyVars>>

-----------------------------------------------------------------------------
(* One try: admission.                                                     *)

(* A managed host's capacity is observed again; a quota that changed since *)
(* the decision sends the call back to routing, once.                      *)
Snapshot(c) ==
    /\ pc[c] = "next" /\ Route(c) \in Managed
    /\ observed' \in (0 .. Capacity) \cup {None}
    /\ \/ Goto(c, "create") /\ UNCHANGED callVars
       \/ /\ c \notin rerouted
          /\ rerouted' = rerouted \cup {c}
          /\ \E s \in Orders : order' = [order EXCEPT ![c] = s]
          /\ num' = [num EXCEPT ![c] = 1]
          /\ serial' = [serial EXCEPT ![c] = MaxAttempts]
          /\ UNCHANGED <<pc, known>>
    /\ UNCHANGED <<key, attemptVars, hold, lapsed, historyVars>>

(* The route is withdrawn, out of policy, unapproved or must be prepared.  *)
RouteRefused(c) ==
    /\ pc[c] \in {"next", "create"}
    /\ Raise(c)
    /\ UNCHANGED <<key, attemptVars, capacityVars, callVars, historyVars>>

ScopeAdmits(c) ==
    LET used == {a \in Attempts : a[1] \in Scoped /\ attempt[a] # "none"} IN
    c \in Scoped => Cardinality(used) < ScopeMax /\ \A a \in used : attempt[a] \in Definite

(* A decision whose latest attempt is uncertain is not tried again.  Only  *)
(* tasks of one process share a decision, and they do not yield between    *)
(* this check and the insertion.                                           *)
Unresolved(d) == latest[d] # None /\ attempt[latest[d]] = "INDETERMINATE"

CreateAttempt(c) ==
    LET a == <<c, serial[c] + 1>> IN
    /\ pc[c] = "create" \/ (pc[c] = "next" /\ Route(c) \notin Managed)
    /\ IF ScopeAdmits(c) /\ ~Unresolved(Decision(a))
         THEN /\ serial' = [serial EXCEPT ![c] = @ + 1]
              /\ via' = [via EXCEPT ![a] = Route(c)]
              /\ Move(a, "CLAIMED")
              /\ Goto(c, IF Route(c) \in Managed THEN "look" ELSE "reserved")
         ELSE Raise(c) /\ UNCHANGED <<serial, via, attempt, latest>>
    /\ UNCHANGED <<key, receipts, capacityVars, order, num, rerouted, known, historyVars>>

LookCapacity(c) ==
    /\ pc[c] = "look"
    /\ known' = [known EXCEPT ![c] = observed]
    /\ Goto(c, "reserve")
    /\ UNCHANGED <<key, attemptVars, capacityVars, order, num, serial, rerouted, historyVars>>

(* Holds that count: claimed ones always, reserved ones until they expire. *)
(* A pool that reports no absolute number is not reserved from.            *)
Live == {a \in Attempts : hold[a] = "CLAIMED" \/ (hold[a] = "RESERVED" /\ a \notin lapsed)}
Held == SumFunctionOnSet([a \in Live |-> Cost[via[a]]], Live)

ReserveCapacity(c) ==
    LET a == Current(c) IN
    /\ pc[c] = "reserve"
    /\ IF known[c] = None
         THEN Goto(c, "reserved") /\ UNCHANGED hold
       ELSE IF Held + Cost[Route(c)] <= known[c]
         THEN hold' = [hold EXCEPT ![a] = "RESERVED"] /\ Goto(c, "reserved")
         ELSE Goto(c, "refused") /\ UNCHANGED hold
    /\ known' = [known EXCEPT ![c] = None]
    /\ UNCHANGED <<key, attemptVars, lapsed, observed, order, num, serial, rerouted, historyVars>>

(* Mutant: an expired hold still opens the invocation.                     *)
HoldUsableLate(a) == hold[a] \in {"none", "RESERVED"}

HoldUsable(a) == hold[a] = "none" \/ (hold[a] = "RESERVED" /\ a \notin lapsed)

(* Bind the hold; if that fails it is given back before the try fails.     *)
AttemptReserved(c) ==
    LET a == Current(c) IN
    /\ pc[c] = "reserved"
    /\ IF HoldUsable(a)
         THEN Move(a, "RESERVED") /\ Goto(c, "begin") /\ UNCHANGED hold
         ELSE /\ hold' = [hold EXCEPT ![a] = "RELEASED"]
              /\ Goto(c, "refused") /\ UNCHANGED <<attempt, latest>>
    /\ UNCHANGED <<key, via, receipts, lapsed, observed, callVars, historyVars>>

Begin(c) ==
    LET a == Current(c) IN
    /\ pc[c] = "begin"
    /\ IF HoldUsable(a)
         THEN /\ Move(a, "INVOKING")
              /\ hold' = [hold EXCEPT ![a] = IF @ = "RESERVED" THEN "CLAIMED" ELSE @]
              /\ Goto(c, IF Keyed(c) /\ num[c] = 1 THEN "keyexec" ELSE "invoke")
         ELSE Goto(c, "refused") /\ UNCHANGED <<attempt, latest, hold>>
    /\ UNCHANGED <<key, via, receipts, lapsed, observed, callVars, historyVars>>

(* Mutant: a claimed hold is not released.                                 *)
ReleaseReserved(a) ==
    hold' = [hold EXCEPT ![a] = IF @ = "RESERVED" THEN "RELEASED" ELSE @]

(* A definite terminal state releases the hold in the same transaction.    *)
Release(a) ==
    hold' = [hold EXCEPT ![a] = IF @ = "none" THEN @ ELSE "RELEASED"]

AdmissionFailed(c) ==
    LET a == Current(c) IN
    /\ pc[c] = "refused"
    /\ Move(a, "FAILED")
    /\ IF attempt[a] = "RESERVED" THEN Release(a) ELSE UNCHANGED hold
    /\ Raise(c)
    /\ UNCHANGED <<key, via, receipts, lapsed, observed, callVars, historyVars>>

-----------------------------------------------------------------------------
(* One try: invocation and result.                                         *)

(* Only a claimed key opens the invocation.  A call that is routed again   *)
(* after a first try fails here, its attempt left INVOKING.                *)
KeyExecuting(c) ==
    /\ pc[c] = "keyexec"
    /\ IF key[KeyOf[c]] = "claimed"
         THEN key' = [key EXCEPT ![KeyOf[c]] = "executing"] /\ Goto(c, "invoke")
         ELSE Raise(c) /\ UNCHANGED key
    /\ UNCHANGED <<attemptVars, capacityVars, callVars, historyVars>>

Invoke(c) ==
    /\ pc[c] = "invoke"
    /\ invoked' = invoked \cup {Current(c)}
    /\ Goto(c, "executor")
    /\ UNCHANGED <<key, attemptVars, capacityVars, callVars, outcome>>

(* The last check before the call fails, or the call raises or is          *)
(* cancelled; a cancelled task passes the handler of the key.              *)
InvokeRaises(c) ==
    LET a == Current(c) IN
    /\ pc[c] \in {"invoke", "executor"}
    /\ IF attempt[a] = "INVOKING"
         THEN Move(a, "INDETERMINATE") /\ (Raise(c) \/ Goto(c, "done"))
         ELSE UNCHANGED <<attempt, latest>> /\ Raise(c)
    /\ UNCHANGED <<key, via, receipts, capacityVars, callVars, historyVars>>

Return(c) ==
    LET a == Current(c) IN
    /\ pc[c] = "executor"
    /\ \E s \in Statuses : outcome' = [outcome EXCEPT ![a] = s]
    /\ IF attempt[a] = "INVOKING"
         THEN Move(a, "VALIDATING") /\ Goto(c, "validate")
         ELSE UNCHANGED <<attempt, latest>> /\ Raise(c)
    /\ UNCHANGED <<key, via, receipts, capacityVars, callVars, invoked>>

Settle(c) ==
    LET a == Current(c) IN
    /\ pc[c] = "validate"
    /\ Move(a, "SETTLING")
    /\ Goto(c, "receipt")
    /\ UNCHANGED <<key, via, receipts, capacityVars, callVars, historyVars>>

(* A validator, the receipt's binding or the observation raises.           *)
SettleRaises(c) ==
    /\ pc[c] \in {"validate", "receipt", "terminal"}
    /\ Raise(c)
    /\ UNCHANGED <<key, attemptVars, capacityVars, callVars, historyVars>>

SaveReceipt(c) ==
    /\ pc[c] = "receipt"
    /\ receipts' = receipts \cup {Current(c)}
    /\ Goto(c, "terminal")
    /\ UNCHANGED <<key, attempt, latest, via, capacityVars, callVars, historyVars>>

RetryEligible(r) == r \in Idempotent \cap Reads

UnprovenWrite(a) == a[1] \in Scoped /\ via[a] \notin Reads
MayHaveRun(a) ==
    outcome[a] \in {"timeout", "unknown"} /\ (via[a] \in Managed \/ ~RetryEligible(via[a]))

(* Mutant: a failed write under a task scope is closed.                    *)
TerminalStateUnscoped(a) ==
    IF outcome[a] \in Accepted THEN "COMPLETED"
    ELSE IF MayHaveRun(a) THEN "INDETERMINATE"
    ELSE IF outcome[a] = "rejected" THEN "REJECTED" ELSE "FAILED"

TerminalState(a) ==
    IF outcome[a] \in Accepted THEN "COMPLETED"
    ELSE IF UnprovenWrite(a) \/ MayHaveRun(a) THEN "INDETERMINATE"
    ELSE IF outcome[a] = "rejected" THEN "REJECTED" ELSE "FAILED"

Terminal(c) ==
    LET a == Current(c) IN
    /\ pc[c] = "terminal"
    /\ Move(a, TerminalState(a))
    /\ IF TerminalState(a) \in Definite THEN Release(a) ELSE UNCHANGED hold
    /\ Goto(c, "decide")
    /\ UNCHANGED <<key, via, receipts, lapsed, observed, callVars, historyVars>>

(* Mutant: a failed write is tried again on the next route.                *)
CanFallbackAlways(a) == TRUE

CanFallback(a) ==
    /\ via[a] \in Idempotent \/ AllowNonIdempotent
    /\ outcome[a] = "timeout" => RetryTimeouts
    /\ outcome[a] = "invalid" => RetryInvalid

(* Success, the last try, an uncertain one or one the policy does not let  *)
(* be repeated ends the call; so does a failure that is a drift of the     *)
(* provider's schema.  Otherwise the next route is tried.                  *)
Decide(c) ==
    LET a == Current(c)
        last == \/ outcome[a] \in Accepted \/ num[c] >= Tries(c)
                \/ attempt[a] = "INDETERMINATE" \/ ~CanFallback(a)
    IN
    /\ pc[c] = "decide"
    /\ \/ (last \/ outcome[a] = "failed") /\ Finish(c) /\ UNCHANGED num
       \/ ~last /\ num' = [num EXCEPT ![c] = @ + 1] /\ Goto(c, "next")
    /\ UNCHANGED <<key, attemptVars, capacityVars, order, serial, rerouted, known, historyVars>>

-----------------------------------------------------------------------------
(* A hold's timeout passes; AttemptService.recover_after_lease, run by     *)
(* whoever inspects expired leases, also while the worker is alive.        *)

Lapse(a) ==
    /\ hold[a] = "RESERVED" /\ a \notin lapsed
    /\ lapsed' = lapsed \cup {a}
    /\ UNCHANGED <<key, attemptVars, hold, observed, pc, callVars, historyVars>>

RecoverAfterLease(a) ==
    /\ attempt[a] = "INVOKING"
    /\ Move(a, "INDETERMINATE")
    /\ UNCHANGED <<key, via, receipts, capacityVars, pc, callVars, historyVars>>

Crash(c) ==
    /\ c \in Crashable /\ pc[c] \notin {"idle", "done"}
    /\ Goto(c, "done")
    /\ UNCHANGED <<key, attemptVars, capacityVars, callVars, historyVars>>

KeySteps(c) == ClaimKey(c) \/ CompleteKey(c) \/ UncertainKey(c) \/ AbandonKey(c)
Admission(c) ==
    \/ Snapshot(c) \/ RouteRefused(c) \/ CreateAttempt(c) \/ LookCapacity(c)
    \/ ReserveCapacity(c)
    \/ AttemptReserved(c) \/ Begin(c) \/ AdmissionFailed(c)
Invocation(c) ==
    \/ KeyExecuting(c) \/ Invoke(c) \/ InvokeRaises(c) \/ Return(c) \/ Settle(c) \/ SettleRaises(c)
    \/ SaveReceipt(c) \/ Terminal(c) \/ Decide(c)

Next ==
    \/ \E c \in Calls : KeySteps(c) \/ Admission(c) \/ Invocation(c) \/ Crash(c)
    \/ \E a \in Attempts : Lapse(a) \/ RecoverAfterLease(a)

Spec == Init /\ [][Next]_vars

-----------------------------------------------------------------------------
Labels == {"idle", "next", "create", "look", "reserve", "reserved", "begin", "refused", "keyexec",
           "invoke", "executor", "validate", "receipt", "terminal", "decide", "complete",
           "except", "abandon", "done"}

(* The type invariant.                                                     *)
TypeOK ==
    /\ key \in [Keys -> {"absent", "claimed", "executing", "complete", "indeterminate"}]
    /\ attempt \in [Attempts -> {"none", "CLAIMED", "RESERVED", "INVOKING", "VALIDATING",
                                 "SETTLING", "INDETERMINATE"} \cup Definite]
    /\ via \in [Attempts -> Routes \cup {None}]
    /\ hold \in [Attempts -> {"none", "RESERVED", "CLAIMED", "RELEASED"}]
    /\ receipts \subseteq Attempts /\ lapsed \subseteq Attempts /\ invoked \subseteq Attempts
    /\ observed \in (0 .. Capacity) \cup {None}
    /\ pc \in [Calls -> Labels]
    /\ order \in [Calls -> Orders] /\ num \in [Calls -> Nat]
    /\ \A c \in Calls : num[c] \in 1 .. Len(order[c])
    /\ serial \in [Calls -> 0 .. 2 * MaxAttempts]
    /\ latest \in [Decisions \cup Calls -> Attempts \cup {None}]
    /\ rerouted \subseteq Calls /\ known \in [Calls -> (0 .. Capacity) \cup {None}]
    /\ outcome \in [Attempts -> Statuses \cup {"none"}]

(* The receipts that a completed key lists: those of the decision it       *)
(* completed under.                                                        *)
Listed(c) == {a \in receipts : a[1] = c /\ (c \in rerouted => a[2] > MaxAttempts)}

(* An action with an idempotency key is invoked by one call only, however  *)
(* calls fail, crash, are cancelled or give the key back, and a completed  *)
(* key lists the receipt of every invocation made under it.                *)
KeyedActionOnce ==
    \A a, b \in invoked : Keyed(a[1]) /\ KeyOf[a[1]] = KeyOf[b[1]] =>
        /\ a[1] = b[1]
        /\ key[KeyOf[a[1]]] = "complete" => a \in Listed(a[1])

(* A call tries another route only after every earlier invocation ended    *)
(* definitely and may be repeated: never after an uncertain one, and never *)
(* after a non-idempotent one unless the policy says so.                   *)
RetryOnlyAfterDefinite ==
    \A a, b \in invoked :
        a[1] = b[1] /\ a[2] < b[2] =>
            /\ attempt[a] \in Definite
            /\ via[a] \in Idempotent \/ AllowNonIdempotent
            /\ outcome[a] \in {"timeout", "unknown"} => RetryEligible(via[a])

(* Concurrent workers never hold more than the provider ever reported,     *)
(* although holds expire while their owner is still on its way.            *)
CapacityRespected == Held <= Capacity

(* A claimed hold belongs to an invocation that is not definitely over,    *)
(* and a definite end leaves none behind.                                  *)
HoldFollowsAttempt ==
    \A a \in Attempts :
        /\ hold[a] = "CLAIMED" => attempt[a] \in {"INVOKING", "VALIDATING", "SETTLING", "INDETERMINATE"}
        /\ attempt[a] \in Definite => hold[a] \in {"none", "RELEASED"}

(* A delegated write that did not succeed keeps the scope's barrier: at    *)
(* most one attempt of a task scope is open or uncertain.                  *)
ScopeBarrier ==
    \A a, b \in {x \in Attempts : x[1] \in Scoped /\ attempt[x] # "none"} :
        LET Open(x) == \/ attempt[x] \notin Definite
                       \/ x \in invoked /\ via[x] \notin Reads /\ outcome[x] \notin Accepted
        IN Open(a) /\ Open(b) => a = b
=============================================================================
