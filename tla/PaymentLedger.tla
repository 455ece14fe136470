---------------------------- MODULE PaymentLedger ----------------------------
(***************************************************************************)
(* The money of the store: reservations admitted under a daily budget and  *)
(* a prepaid balance, their settlement, and refunds (payments.py reserve_v2*)
(* and refund_v2 over the ledger transactions of store.py).  The prepared  *)
(* decision a reservation belongs to is the subject of PreparedExecution;  *)
(* here a reservation has its amounts, and every amount its day.           *)
(***************************************************************************)
EXTENDS Integers, FiniteSets, FiniteSetsExt

CONSTANTS
    Reservations, Refunds,   \* reservations; refunds by their idempotency key
    Callers,                 \* calls of refund_v2
    Maxima, Parts,           \* maxima of reservations; amounts of refunds
    DailyLimit, Prepaid,     \* daily_marketplace_limit_usd, prepaid_balance_usd
    LastDay, None

Days == 0 .. LastDay

ASSUME LedgerAssumption ==
    /\ IsFiniteSet(Reservations) /\ IsFiniteSet(Refunds)
    /\ Maxima \subseteq Nat \ {0} /\ Parts \subseteq Nat \ {0}
    /\ DailyLimit \in Nat /\ Prepaid \in Nat /\ LastDay \in Nat
    /\ None \notin Int \cup Reservations \cup Refunds

VARIABLES
    day,                          \* date by the clock
    period, crossed,              \* period_start a call computed; one was late
    hold, maximum, intent,        \* payment_reservations_v2
    charge, slip,                 \* captured at the rail; its receipt in hand, by day
    settledOn,                    \* settlement_receipts, by day
    auth, target, amount,         \* refund_authorizations_v2
    refundedOn,                   \* refund_receipts_v2, by day
    paid, op,                     \* refunds made by the rail; operation records
    pc, job, claim, answer        \* a call: where it stands, its refund, the
                                  \* record it found, the day of its receipt

reserveVars == <<period, crossed, hold, maximum, intent>>
settleVars == <<charge, slip, settledOn>>
authVars == <<auth, target, amount>>
callVars == <<pc, job, claim, answer>>
vars == <<day, reserveVars, settleVars, authVars, refundedOn, paid, op, callVars>>

Init ==
    /\ day = 0 /\ crossed = FALSE
    /\ period = [r \in Reservations |-> None]
    /\ hold = [r \in Reservations |-> "none"]
    /\ maximum = [r \in Reservations |-> 0]
    /\ intent = [r \in Reservations |-> "none"]
    /\ charge = [r \in Reservations |-> None]
    /\ slip = [r \in Reservations |-> None]
    /\ settledOn = [r \in Reservations |-> None]
    /\ auth = [f \in Refunds |-> "none"]
    /\ target = [f \in Refunds |-> None]
    /\ amount = [f \in Refunds |-> 0]
    /\ refundedOn = [f \in Refunds |-> None]
    /\ paid = {} /\ op = [f \in Refunds |-> "none"]
    /\ pc = [c \in Callers |-> "idle"]
    /\ job = [c \in Callers |-> None]
    /\ claim = [c \in Callers |-> "none"]
    /\ answer = [c \in Callers |-> None]

-----------------------------------------------------------------------------
(* What the ledger counts (committed_amount).                              *)

Held(S) == SumFunctionOnSet(maximum, S)
Charged(S) == SumFunctionOnSet(charge, S)
Refunded(S) == SumFunctionOnSet(amount, S)

Outstanding == {r \in Reservations : hold[r] \notin {"none", "settled", "released"}}

SettledSince(p) == {r \in Reservations : hold[r] = "settled" /\ settledOn[r] >= p}
RefundedSince(p) == {f \in Refunds : refundedOn[f] # None /\ refundedOn[f] >= p}

(* Mutant: refunds of earlier days make room today.                        *)
CommittedUnclamped(p) ==
    Held(Outstanding) + Charged(SettledSince(p)) - Refunded(RefundedSince(p))

Committed(p) ==
    Held(Outstanding) + Max({0, Charged(SettledSince(p)) - Refunded(RefundedSince(p))})

(* Outstanding authorizations of refunds of a settlement.                  *)
(* Mutant: an uncertain refund gives its claim on the capture back.        *)
PendingCertain(r) == {f \in Refunds : target[f] = r /\ auth[f] = "AUTHORIZED"}

Pending(r) == {f \in Refunds : target[f] = r /\ auth[f] \in {"AUTHORIZED", "INDETERMINATE"}}

Completed(r) == {f \in Refunds : target[f] = r /\ refundedOn[f] # None}

-----------------------------------------------------------------------------
(* Reservations.                                                           *)

Midnight ==
    /\ day < LastDay
    /\ day' = day + 1
    /\ UNCHANGED <<reserveVars, settleVars, authVars, refundedOn, paid, op, callVars>>

(* reserve_v2 reads the clock before the transaction that counts.          *)
PeriodStart(r) ==
    /\ hold[r] = "none" /\ period[r] = None
    /\ period' = [period EXCEPT ![r] = day]
    /\ UNCHANGED <<day, crossed, hold, maximum, intent, settleVars, authVars, refundedOn, paid, op, callVars>>

(* Mutant: the balance is checked before the maximum is added.             *)
AdmitsNext(r, m) == Committed(period[r]) + m <= DailyLimit /\ Committed(0) <= Prepaid

Admits(r, m) == Committed(period[r]) + m <= DailyLimit /\ Committed(0) + m <= Prepaid

Reserve(r, m) ==
    /\ hold[r] = "none" /\ period[r] # None
    /\ Admits(r, m)
    /\ hold' = [hold EXCEPT ![r] = "RESERVED"]
    /\ maximum' = [maximum EXCEPT ![r] = m]
    /\ crossed' = (crossed \/ period[r] # day)
    /\ period' = [period EXCEPT ![r] = None]
    /\ UNCHANGED <<day, intent, settleVars, authVars, refundedOn, paid, op, callVars>>

(* transition_payment_reservation_v2 and the claims of an intent.  A       *)
(* receipt older than the row is refused: an update voids the one in hand. *)
MoveHold(r, from, to) ==
    /\ hold[r] \in from
    /\ hold' = [hold EXCEPT ![r] = to]
    /\ slip' = [slip EXCEPT ![r] = None]
    /\ UNCHANGED <<day, period, crossed, maximum, charge, settledOn, authVars, refundedOn, paid,
                   op, callVars>>

MarkIndeterminate(r) == MoveHold(r, {"RESERVED", "SETTLING"}, "INDETERMINATE") /\ UNCHANGED intent
MarkDisputed(r) ==
    MoveHold(r, {"RESERVED", "SETTLING", "INDETERMINATE"}, "DISPUTED") /\ UNCHANGED intent
ReserveAgain(r) == MoveHold(r, {"INDETERMINATE"}, "RESERVED") /\ UNCHANGED intent

(* One intent per hold; an uncertain hold resumes its own, or settlement.  *)
(* Mutant: an uncertain hold may also change its intent.                   *)
ClaimableAnew(r, i) == hold[r] \in {"RESERVED", "INDETERMINATE"}

Claimable(r, i) ==
    \/ hold[r] = "RESERVED" /\ intent[r] = "none"
    \/ hold[r] = "INDETERMINATE" /\ intent[r] = "none" /\ i = "settle"
    \/ hold[r] = "INDETERMINATE" /\ intent[r] = i

ClaimIntent(r, i) ==
    /\ Claimable(r, i)
    /\ intent' = [intent EXCEPT ![r] = i]
    /\ MoveHold(r, {"RESERVED", "INDETERMINATE"}, "SETTLING")

(* The rail captures once, and answers a repetition with a receipt of the  *)
(* day it is asked; the answer may be lost, or arrive after another call   *)
(* has marked the row.                                                     *)
RailSettles(r) ==
    /\ intent[r] = "settle" /\ slip[r] = None
    /\ \E c \in 0 .. maximum[r] :
         charge' = [charge EXCEPT ![r] = IF @ = None THEN c ELSE @]
    /\ slip' = [slip EXCEPT ![r] = day]
    /\ UNCHANGED <<day, reserveVars, settledOn, authVars, refundedOn, paid, op, callVars>>

StoreSettlement(r) ==
    /\ hold[r] \in {"SETTLING", "INDETERMINATE", "DISPUTED"}
    /\ intent[r] = "settle" /\ slip[r] # None
    /\ hold' = [hold EXCEPT ![r] = "settled"]
    /\ intent' = [intent EXCEPT ![r] = "none"]
    /\ settledOn' = [settledOn EXCEPT ![r] = slip[r]]
    /\ slip' = [slip EXCEPT ![r] = None]
    /\ UNCHANGED <<day, period, crossed, maximum, charge, authVars, refundedOn, paid, op, callVars>>

StoreRelease(r) ==
    /\ hold[r] \in {"SETTLING", "INDETERMINATE"} /\ intent[r] = "release"
    /\ hold' = [hold EXCEPT ![r] = "released"]
    /\ intent' = [intent EXCEPT ![r] = "none"]
    /\ UNCHANGED <<day, period, crossed, maximum, settleVars, authVars, refundedOn, paid, op, callVars>>

-----------------------------------------------------------------------------
(* refund_v2.                                                              *)

Goto(c, l) == pc' = [pc EXCEPT ![c] = l]

(* A completed operation, and one whose receipt is there already, returns  *)
(* it; any other state of the record, also "executing", lets the call on.  *)
RefundClaim(c, f) ==
    /\ pc[c] = "idle"
    /\ job' = [job EXCEPT ![c] = f]
    /\ claim' = [claim EXCEPT ![c] = op[f]]
    /\ op' = [op EXCEPT ![f] = IF @ = "none" THEN "claimed" ELSE @]
    /\ Goto(c, IF op[f] = "complete" THEN "over"
               ELSE IF refundedOn[f] # None THEN "completeOp" ELSE "authorize")
    /\ UNCHANGED <<day, reserveVars, settleVars, authVars, refundedOn, paid, answer>>

(* authorize_refund_v2 looks at the identity of an existing authorization, *)
(* not at its state.                                                       *)
RefundAuthorize(c) ==
    LET f == job[c] IN
    /\ pc[c] = "authorize"
    /\ \/ auth[f] # "none" /\ UNCHANGED authVars
       \/ \E r \in SettledSince(0), x \in Parts :
            /\ auth[f] = "none"
            /\ Refunded(Completed(r)) + Refunded(Pending(r)) + x <= charge[r]
            /\ auth' = [auth EXCEPT ![f] = "AUTHORIZED"]
            /\ target' = [target EXCEPT ![f] = r]
            /\ amount' = [amount EXCEPT ![f] = x]
    /\ Goto(c, "executing")
    /\ UNCHANGED <<day, reserveVars, settleVars, refundedOn, paid, op, job, claim, answer>>

(* Whoever claimed the record moves it; a call that found it executing     *)
(* goes on beside the other one.                                           *)
RefundExecuting(c) ==
    LET f == job[c] IN
    /\ pc[c] = "executing"
    /\ \/ claim[c] = "executing" /\ Goto(c, "rail") /\ UNCHANGED op
       \/ /\ claim[c] # "executing" /\ op[f] \in {"claimed", "indeterminate"}
          /\ op' = [op EXCEPT ![f] = "executing"]
          /\ Goto(c, "rail")
       \/ /\ claim[c] # "executing" /\ op[f] \notin {"claimed", "indeterminate"}
          /\ Goto(c, "over") /\ UNCHANGED op
    /\ claim' = [claim EXCEPT ![c] = "none"]
    /\ UNCHANGED <<day, reserveVars, settleVars, authVars, refundedOn, paid, job, answer>>

(* The rail refunds once for a key; it may refuse, and its answer may not  *)
(* arrive.  The adapter dates the receipt when it has the answer.          *)
RailRefunds(c) ==
    /\ pc[c] = "rail"
    /\ \/ paid' = paid \cup {job[c]} /\ Goto(c, "complete") /\ answer' = [answer EXCEPT ![c] = day]
       \/ paid' \in {paid, paid \cup {job[c]}} /\ Goto(c, "failed") /\ UNCHANGED answer
    /\ UNCHANGED <<day, reserveVars, settleVars, authVars, refundedOn, op, job, claim>>

(* complete_refund_v2: refused when the authorization was released, or     *)
(* when another receipt of the refund is stored; the same one is accepted  *)
(* again.  Receipts of one day may be the same or not.                     *)
CompleteRefund(c) ==
    LET f == job[c]  r == target[f] IN
    /\ pc[c] = "complete"
    /\ \/ /\ auth[f] # "RELEASED"
          /\ \/ /\ refundedOn[f] = None
                /\ Refunded(Completed(r)) + Refunded(Pending(r) \ {f}) + amount[f] <= charge[r]
             \/ refundedOn[f] = answer[c]
          /\ refundedOn' = [refundedOn EXCEPT ![f] = answer[c]]
          /\ auth' = [auth EXCEPT ![f] = "COMPLETED"]
          /\ Goto(c, "completeOp")
       \/ /\ \/ auth[f] = "RELEASED" \/ refundedOn[f] # None
             \/ Refunded(Completed(r)) + Refunded(Pending(r) \ {f}) + amount[f] > charge[r]
          /\ Goto(c, "failed") /\ UNCHANGED <<refundedOn, auth>>
    /\ answer' = [answer EXCEPT ![c] = None]
    /\ UNCHANGED <<day, reserveVars, settleVars, target, amount, paid, op, job, claim>>

CompleteOp(c) ==
    /\ pc[c] = "completeOp"
    /\ op' = [op EXCEPT ![job[c]] = "complete"]
    /\ Goto(c, "over")
    /\ UNCHANGED <<day, reserveVars, settleVars, authVars, refundedOn, paid, job, claim, answer>>

(* The handler reads the authorization and marks it in a second step,      *)
(* which raises when it was completed or released in between.              *)
RefundFailed(c) ==
    /\ pc[c] = "failed"
    /\ Goto(c, IF auth[job[c]] = "COMPLETED" THEN "markOp" ELSE "mark")
    /\ UNCHANGED <<day, reserveVars, settleVars, authVars, refundedOn, paid, op, job, claim, answer>>

MarkAuthorization(c) ==
    LET f == job[c] IN
    /\ pc[c] = "mark"
    /\ IF auth[f] \in {"AUTHORIZED", "INDETERMINATE"}
         THEN auth' = [auth EXCEPT ![f] = "INDETERMINATE"] /\ Goto(c, "markOp")
         ELSE Goto(c, "over") /\ UNCHANGED auth
    /\ UNCHANGED <<day, reserveVars, settleVars, target, amount, refundedOn, paid, op, job, claim,
                   answer>>

MarkOp(c) ==
    /\ pc[c] = "markOp"
    /\ op' = [op EXCEPT ![job[c]] = IF @ = "executing" THEN "indeterminate" ELSE @]
    /\ Goto(c, "over")
    /\ UNCHANGED <<day, reserveVars, settleVars, authVars, refundedOn, paid, job, claim, answer>>

RefundRaises(c) ==
    /\ pc[c] \in {"authorize", "executing", "rail", "complete", "completeOp", "failed", "mark", "markOp"}
    /\ Goto(c, "over")
    /\ UNCHANGED <<day, reserveVars, settleVars, authVars, refundedOn, paid, op, job, claim, answer>>

(* Store operations for an operator: an authorization given up, and the    *)
(* import of a receipt the rail gave for a refund it made.                 *)
ReleaseAuthorization(f) ==
    /\ auth[f] \in {"AUTHORIZED", "INDETERMINATE"}
    /\ auth' = [auth EXCEPT ![f] = "RELEASED"]
    /\ UNCHANGED <<day, reserveVars, settleVars, target, amount, refundedOn, paid, op, callVars>>

ImportReceipt(f) ==
    LET r == target[f] IN
    /\ f \in paid /\ refundedOn[f] = None
    /\ Refunded(Completed(r)) + Refunded(Pending(r)) + amount[f] <= charge[r]
    /\ refundedOn' = [refundedOn EXCEPT ![f] = day]
    /\ UNCHANGED <<day, reserveVars, settleVars, authVars, paid, op, callVars>>

Next ==
    \/ Midnight
    \/ \E r \in Reservations :
         \/ PeriodStart(r) \/ MarkIndeterminate(r) \/ MarkDisputed(r) \/ ReserveAgain(r)
         \/ RailSettles(r) \/ StoreSettlement(r) \/ StoreRelease(r)
         \/ \E m \in Maxima : Reserve(r, m)
         \/ \E i \in {"settle", "release"} : ClaimIntent(r, i)
    \/ \E c \in Callers :
         \/ RefundAuthorize(c) \/ RefundExecuting(c) \/ RailRefunds(c) \/ CompleteRefund(c)
         \/ CompleteOp(c) \/ RefundFailed(c) \/ MarkAuthorization(c) \/ MarkOp(c)
         \/ RefundRaises(c)
         \/ \E f \in Refunds : RefundClaim(c, f)
    \/ \E f \in Refunds : ReleaseAuthorization(f) \/ ImportReceipt(f)

Spec == Init /\ [][Next]_vars

-----------------------------------------------------------------------------
(* Types; a settled reservation has its charge and its receipt, and a      *)
(* completed operation its refund receipt (refund_v2 and                   *)
(* store_settlement_and_transition).                                       *)
TypeOK ==
    /\ day \in Days /\ crossed \in BOOLEAN
    /\ period \in [Reservations -> Days \cup {None}]
    /\ hold \in [Reservations -> {"none", "RESERVED", "SETTLING", "INDETERMINATE", "DISPUTED",
                                  "settled", "released"}]
    /\ maximum \in [Reservations -> Maxima \cup {0}]
    /\ intent \in [Reservations -> {"none", "settle", "release"}]
    /\ charge \in [Reservations -> Nat \cup {None}]
    /\ slip \in [Reservations -> Days \cup {None}]
    /\ settledOn \in [Reservations -> Days \cup {None}]
    /\ \A r \in Reservations : hold[r] = "settled" <=> settledOn[r] # None
    /\ \A r \in Reservations : hold[r] = "released" => charge[r] = None
    /\ auth \in [Refunds -> {"none", "AUTHORIZED", "INDETERMINATE", "COMPLETED", "RELEASED"}]
    /\ target \in [Refunds -> Reservations \cup {None}] /\ amount \in [Refunds -> Parts \cup {0}]
    /\ refundedOn \in [Refunds -> Days \cup {None}] /\ paid \subseteq Refunds
    /\ op \in [Refunds -> {"none", "claimed", "executing", "indeterminate", "complete"}]
    /\ \A f \in Refunds : op[f] = "complete" => refundedOn[f] # None
    /\ pc \in [Callers -> {"idle", "authorize", "executing", "rail", "complete", "completeOp",
                           "failed", "mark", "markOp", "over"}]
    /\ job \in [Callers -> Refunds \cup {None}] /\ answer \in [Callers -> Days \cup {None}]
    /\ claim \in [Callers -> {"none", "claimed", "executing", "indeterminate", "complete"}]

Open == {r \in Reservations : hold[r] \in {"RESERVED", "SETTLING", "INDETERMINATE", "DISPUTED"}}

(* On every day, what is outstanding and what the day charged beyond its   *)
(* refunds stay within the daily budget: through uncertain holds, receipts *)
(* stored a day late and refunds of an earlier day's charges               *)
(* (reserve_payment_v2, "exceeds available daily budget").  It is claimed  *)
(* as long as no reservation was admitted with the period of a day before. *)
DailyBudget ==
    ~crossed => /\ Held(Open) <= DailyLimit
                /\ Held(Open) + Charged(SettledSince(day)) - Refunded(RefundedSince(day)) <= DailyLimit

(* What the rail has given back, or the ledger says it has, never exceeds  *)
(* what was captured: through concurrent calls for one refund, lost        *)
(* answers, repetitions and imports, except for refunds whose              *)
(* authorization was given up (authorize_refund_v2, "atomically reserve    *)
(* refundable capture before an external rail call").                      *)
RefundsWithinCapture ==
    \A r \in SettledSince(0) :
        LET given == {f \in paid : target[f] = r /\ auth[f] # "RELEASED"}
        IN  Refunded(given \cup Completed(r)) <= charge[r]

-----------------------------------------------------------------------------
Account == INSTANCE SpendingAccount
    WITH Balance <- Prepaid,
         held <- Held(Open),
         spent <- Charged(SettledSince(0)) - Refunded(RefundedSince(0))

(* The reservations, settlements and refunds of the store keep the promise *)
(* of a prepaid balance: every step holds, charges or gives back within it *)
(* (reserve_payment_v2, "exceeds available prepaid balance").              *)
KeepsAccount == Account!AccountSpec
=============================================================================
