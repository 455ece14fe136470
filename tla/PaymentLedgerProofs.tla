------------------------- MODULE PaymentLedgerProofs -------------------------
(***************************************************************************)
(* The ledger keeps its budgets for any number of reservations, refunds,   *)
(* calls and days.                                                         *)
(*                                                                         *)
(* Records is the inductive part without sums: which rows go together, and *)
(* that no row is dated after the day of the clock.  The sums rest on it.  *)
(***************************************************************************)
EXTENDS PaymentLedger, SumTheorems

ReservationRecords ==
    \A r \in Reservations :
        /\ intent[r] # "none" => hold[r] \in {"RESERVED", "SETTLING", "INDETERMINATE", "DISPUTED"}
        /\ charge[r] # None => /\ charge[r] <= maximum[r]
                               /\ intent[r] = "settle" \/ hold[r] = "settled"
        /\ hold[r] = "settled" => charge[r] # None
        /\ slip[r] # None => charge[r] # None /\ slip[r] <= day
        /\ settledOn[r] # None => settledOn[r] <= day

RefundRecords ==
    \A f \in Refunds :
        /\ auth[f] # "none" => target[f] \in Reservations /\ hold[target[f]] = "settled"
        /\ refundedOn[f] # None => auth[f] # "none" /\ refundedOn[f] <= day
        /\ f \in paid => auth[f] # "none"
        /\ auth[f] = "COMPLETED" => refundedOn[f] # None

CallRecords ==
    \A c \in Callers :
        /\ pc[c] # "idle" => job[c] \in Refunds
        /\ pc[c] \in {"executing", "rail", "complete", "failed", "mark", "markOp"} =>
               auth[job[c]] # "none"
        /\ pc[c] = "completeOp" => refundedOn[job[c]] # None
        /\ pc[c] = "complete" => answer[c] \in Days /\ answer[c] <= day

Records == TypeOK /\ ReservationRecords /\ RefundRecords /\ CallRecords

-----------------------------------------------------------------------------
(* Records is inductive.                                                   *)

LEMMA RecordsInit ==
    Init => Records
<1> SUFFICES ASSUME Init PROVE Records
  OBVIOUS
<1> USE LedgerAssumption DEF Init
<1>1. TypeOK
  <2>1. day \in Days
    BY DEF Days
  <2>4. crossed \in BOOLEAN
    BY Zenon
  <2>5. period \in [Reservations -> Days \cup {None}]
    OBVIOUS
  <2>2. \A r \in Reservations : hold[r] = "none" /\ settledOn[r] = None
    OBVIOUS
  <2>3. \A f \in Refunds : op[f] = "none"
    OBVIOUS
  <2> QED BY <2>1, <2>2, <2>3, <2>4, <2>5 DEF TypeOK
<1>2. ReservationRecords
  BY DEF ReservationRecords
<1>3. RefundRecords
  BY DEF RefundRecords
<1>4. CallRecords
  BY DEF CallRecords
<1> QED BY <1>1, <1>2, <1>3, <1>4 DEF Records

LEMMA RecordsClock ==
    ASSUME Records, Midnight
    PROVE  Records'
BY LedgerAssumption
   DEF Records, TypeOK, ReservationRecords, RefundRecords, CallRecords, Days, Midnight,
       reserveVars, settleVars, authVars, callVars

LEMMA RecordsReserve ==
    ASSUME Records, NEW r \in Reservations,
           PeriodStart(r) \/ \E m \in Maxima : Reserve(r, m)
    PROVE  Records'
<1> USE LedgerAssumption DEF Records, settleVars, authVars, callVars
<1>1. CASE PeriodStart(r)
  BY <1>1 DEF PeriodStart, TypeOK, ReservationRecords, RefundRecords, CallRecords, Days
<1>2. CASE \E m \in Maxima : Reserve(r, m)
  <2> PICK m \in Maxima : Reserve(r, m)
    BY <1>2
  <2> USE DEF Reserve
  <2>1. TypeOK'
    BY DEF TypeOK, ReservationRecords
  <2>2. ReservationRecords'
    BY DEF TypeOK, ReservationRecords, Days
  <2>3. RefundRecords' /\ CallRecords'
    BY DEF TypeOK, RefundRecords, CallRecords
  <2> QED BY <2>1, <2>2, <2>3
<1> QED BY <1>1, <1>2

LEMMA RecordsMove ==
    ASSUME Records, NEW r \in Reservations,
           \/ MarkIndeterminate(r) \/ MarkDisputed(r) \/ ReserveAgain(r)
           \/ \E i \in {"settle", "release"} : ClaimIntent(r, i)
    PROVE  Records'
<1> USE LedgerAssumption DEF Records, authVars, callVars, MoveHold
<1>1. CASE MarkIndeterminate(r) \/ MarkDisputed(r) \/ ReserveAgain(r)
  <2> USE <1>1 DEF MarkIndeterminate, MarkDisputed, ReserveAgain
  <2>1. TypeOK'
    BY DEF TypeOK, ReservationRecords
  <2>2. ReservationRecords'
    BY DEF TypeOK, ReservationRecords, Days
  <2>3. RefundRecords' /\ CallRecords'
    BY DEF TypeOK, RefundRecords, CallRecords
  <2> QED BY <2>1, <2>2, <2>3
<1>2. CASE \E i \in {"settle", "release"} : ClaimIntent(r, i)
  <2> PICK i \in {"settle", "release"} : ClaimIntent(r, i)
    BY <1>2
  <2> USE DEF ClaimIntent, Claimable
  <2>1. TypeOK'
    BY DEF TypeOK, ReservationRecords
  <2>2. ReservationRecords'
    BY DEF TypeOK, ReservationRecords, Days
  <2>3. RefundRecords' /\ CallRecords'
    BY DEF TypeOK, RefundRecords, CallRecords
  <2> QED BY <2>1, <2>2, <2>3
<1> QED BY <1>1, <1>2

LEMMA RecordsSettle ==
    ASSUME Records, NEW r \in Reservations,
           RailSettles(r) \/ StoreSettlement(r) \/ StoreRelease(r)
    PROVE  Records'
<1> USE LedgerAssumption DEF Records, authVars, callVars
<1>1. CASE RailSettles(r)
  <2> USE <1>1 DEF RailSettles, reserveVars
  <2>1. TypeOK'
    BY DEF TypeOK, ReservationRecords
  <2>2. ReservationRecords'
    BY DEF TypeOK, ReservationRecords, Days
  <2>3. RefundRecords' /\ CallRecords'
    BY DEF TypeOK, RefundRecords, CallRecords
  <2> QED BY <2>1, <2>2, <2>3
<1>2. CASE StoreSettlement(r)
  <2> USE <1>2 DEF StoreSettlement
  <2>1. TypeOK'
    BY DEF TypeOK, ReservationRecords
  <2>2. ReservationRecords'
    BY DEF TypeOK, ReservationRecords, Days
  <2>3. RefundRecords' /\ CallRecords'
    BY DEF TypeOK, RefundRecords, CallRecords
  <2> QED BY <2>1, <2>2, <2>3
<1>3. CASE StoreRelease(r)
  <2> USE <1>3 DEF StoreRelease, settleVars
  <2>1. TypeOK'
    BY DEF TypeOK, ReservationRecords
  <2>2. ReservationRecords'
    BY DEF TypeOK, ReservationRecords, Days
  <2>3. RefundRecords' /\ CallRecords'
    BY DEF TypeOK, RefundRecords, CallRecords
  <2> QED BY <2>1, <2>2, <2>3
<1> QED BY <1>1, <1>2, <1>3

LEMMA RecordsCall ==
    ASSUME Records, NEW c \in Callers,
           \/ RefundAuthorize(c) \/ RefundExecuting(c) \/ RailRefunds(c)
           \/ \E f \in Refunds : RefundClaim(c, f)
    PROVE  Records'
<1> USE LedgerAssumption DEF Records, reserveVars, settleVars, Goto
<1>1. CASE \E f \in Refunds : RefundClaim(c, f)
  <2> PICK f \in Refunds : RefundClaim(c, f)
    BY <1>1
  <2> USE DEF RefundClaim, authVars
  <2>1. TypeOK'
    BY DEF TypeOK
  <2>2. ReservationRecords' /\ RefundRecords'
    BY DEF TypeOK, ReservationRecords, RefundRecords
  <2>3. CallRecords'
    BY DEF TypeOK, CallRecords
  <2> QED BY <2>1, <2>2, <2>3
<1>2. CASE RefundAuthorize(c)
  <2>0. job[c] \in Refunds /\ pc[c] = "authorize"
    BY <1>2 DEF RefundAuthorize, CallRecords
  <2>1. CASE auth[job[c]] # "none"
    <3> USE <1>2, <2>0, <2>1 DEF RefundAuthorize, authVars
    <3>1. TypeOK'
      BY DEF TypeOK
    <3>2. ReservationRecords' /\ RefundRecords'
      BY DEF TypeOK, ReservationRecords, RefundRecords
    <3>3. CallRecords'
      BY DEF TypeOK, CallRecords
    <3> QED BY <3>1, <3>2, <3>3
  <2>2. CASE auth[job[c]] = "none"
    <3>1. PICK r \in SettledSince(0), x \in Parts :
              /\ auth' = [auth EXCEPT ![job[c]] = "AUTHORIZED"]
              /\ target' = [target EXCEPT ![job[c]] = r]
              /\ amount' = [amount EXCEPT ![job[c]] = x]
      BY <1>2, <2>0, <2>2 DEF RefundAuthorize
    <3>2. r \in Reservations /\ hold[r] = "settled"
      BY DEF SettledSince
    <3>3. /\ pc' = [pc EXCEPT ![c] = "executing"]
          /\ UNCHANGED <<day, reserveVars, settleVars, refundedOn, paid, op, job, claim, answer>>
      BY <1>2 DEF RefundAuthorize
    <3>4. TypeOK'
      BY <2>0, <3>1, <3>2, <3>3 DEF TypeOK
    <3>5. ReservationRecords'
      BY <3>3 DEF ReservationRecords
    <3>6. RefundRecords'
      BY <2>0, <3>1, <3>2, <3>3 DEF TypeOK, RefundRecords
    <3>7. CallRecords'
      BY <2>0, <3>1, <3>3 DEF TypeOK, CallRecords
    <3> QED BY <3>4, <3>5, <3>6, <3>7
  <2> QED BY <2>1, <2>2
<1>3. CASE RefundExecuting(c)
  <2> USE <1>3 DEF RefundExecuting, authVars
  <2>1. TypeOK'
    BY DEF TypeOK, CallRecords
  <2>2. ReservationRecords' /\ RefundRecords'
    BY DEF TypeOK, ReservationRecords, RefundRecords
  <2>3. CallRecords'
    BY DEF TypeOK, CallRecords
  <2> QED BY <2>1, <2>2, <2>3
<1>4. CASE RailRefunds(c)
  <2> USE <1>4 DEF RailRefunds, authVars
  <2>1. TypeOK'
    BY DEF TypeOK, CallRecords
  <2>2. ReservationRecords' /\ RefundRecords'
    BY DEF TypeOK, ReservationRecords, RefundRecords, CallRecords
  <2>3. CallRecords'
    BY DEF TypeOK, CallRecords, Days
  <2> QED BY <2>1, <2>2, <2>3
<1> QED BY <1>1, <1>2, <1>3, <1>4

LEMMA RecordsEnd ==
    ASSUME Records, NEW c \in Callers,
           \/ CompleteRefund(c) \/ CompleteOp(c) \/ RefundFailed(c) \/ MarkAuthorization(c)
           \/ MarkOp(c) \/ RefundRaises(c)
    PROVE  Records'
<1> USE LedgerAssumption DEF Records, reserveVars, settleVars, Goto
<1>1. CASE CompleteRefund(c)
  <2>0. /\ job[c] \in Refunds /\ auth[job[c]] # "none" /\ pc[c] = "complete"
        /\ answer[c] \in Days /\ answer[c] <= day
    BY <1>1 DEF CompleteRefund, CallRecords
  <2>1. \/ /\ refundedOn' = [refundedOn EXCEPT ![job[c]] = answer[c]]
           /\ auth' = [auth EXCEPT ![job[c]] = "COMPLETED"]
           /\ pc' = [pc EXCEPT ![c] = "completeOp"]
        \/ pc' = [pc EXCEPT ![c] = "failed"] /\ UNCHANGED <<refundedOn, auth>>
    BY <1>1 DEF CompleteRefund
  <2>2. /\ answer' = [answer EXCEPT ![c] = None]
        /\ UNCHANGED <<day, reserveVars, settleVars, target, amount, paid, op, job, claim>>
    BY <1>1 DEF CompleteRefund
  <2>3. TypeOK'
    BY <2>0, <2>1, <2>2 DEF TypeOK, Days
  <2>4. ReservationRecords'
    BY <2>2 DEF ReservationRecords
  <2>5. RefundRecords'
    BY <2>0, <2>1, <2>2 DEF TypeOK, RefundRecords, Days
  <2>6. CallRecords'
    BY <2>0, <2>1, <2>2 DEF TypeOK, CallRecords, Days
  <2> QED BY <2>3, <2>4, <2>5, <2>6
<1>2. CASE CompleteOp(c) \/ RefundFailed(c) \/ MarkOp(c) \/ RefundRaises(c)
  <2> USE <1>2 DEF CompleteOp, RefundFailed, MarkOp, RefundRaises, authVars
  <2>1. TypeOK'
    BY DEF TypeOK, CallRecords
  <2>2. ReservationRecords' /\ RefundRecords'
    BY DEF TypeOK, ReservationRecords, RefundRecords
  <2>3. CallRecords'
    BY DEF TypeOK, CallRecords
  <2> QED BY <2>1, <2>2, <2>3
<1>3. CASE MarkAuthorization(c)
  <2> USE <1>3 DEF MarkAuthorization
  <2>1. TypeOK'
    BY DEF TypeOK, CallRecords
  <2>2. ReservationRecords' /\ RefundRecords'
    BY DEF TypeOK, ReservationRecords, RefundRecords, CallRecords
  <2>3. CallRecords'
    BY DEF TypeOK, CallRecords
  <2> QED BY <2>1, <2>2, <2>3
<1> QED BY <1>1, <1>2, <1>3

LEMMA RecordsOperator ==
    ASSUME Records, NEW f \in Refunds, ReleaseAuthorization(f) \/ ImportReceipt(f)
    PROVE  Records'
<1> USE LedgerAssumption DEF Records, reserveVars, settleVars, callVars
<1>1. CASE ReleaseAuthorization(f)
  BY <1>1 DEF ReleaseAuthorization, TypeOK, ReservationRecords, RefundRecords, CallRecords
<1>2. CASE ImportReceipt(f)
  <2>1. /\ f \in paid /\ refundedOn' = [refundedOn EXCEPT ![f] = day]
        /\ UNCHANGED <<day, reserveVars, settleVars, authVars, paid, op, callVars>>
    BY <1>2 DEF ImportReceipt
  <2> QED BY <2>1 DEF authVars, TypeOK, ReservationRecords, RefundRecords, CallRecords, Days
<1> QED BY <1>1, <1>2

LEMMA RecordsStep ==
    ASSUME Records, [Next]_vars
    PROVE  Records'
<1>1. CASE UNCHANGED vars
  BY <1>1 DEF vars, reserveVars, settleVars, authVars, callVars, Records, TypeOK,
              ReservationRecords, RefundRecords, CallRecords
<1>2. CASE Next
  BY <1>2, RecordsClock, RecordsReserve, RecordsMove, RecordsSettle, RecordsCall, RecordsEnd,
     RecordsOperator DEF Next
<1> QED BY <1>1, <1>2

-----------------------------------------------------------------------------
(* The five totals, and how each transaction changes them.                 *)

SettledEver == SettledSince(0)
SettledToday == SettledSince(day)
RefundedEver == RefundedSince(0)
RefundedToday == RefundedSince(day)

(* Everything that counts against the capture of r.                        *)
Claims(r) == Completed(r) \cup Pending(r)

LEMMA Totals ==
    ASSUME Records
    PROVE  /\ IsFiniteSet(Open) /\ \A r \in Open : maximum[r] \in Nat
           /\ IsFiniteSet(SettledEver) /\ \A r \in SettledEver : charge[r] \in Nat
           /\ IsFiniteSet(SettledToday) /\ \A r \in SettledToday : charge[r] \in Nat
           /\ IsFiniteSet(RefundedEver) /\ IsFiniteSet(RefundedToday)
           /\ \A f \in Refunds : amount[f] \in Nat
           /\ Held(Open) \in Nat
           /\ Charged(SettledEver) \in Nat /\ Charged(SettledToday) \in Nat
           /\ Refunded(RefundedEver) \in Nat /\ Refunded(RefundedToday) \in Nat
<1>1. /\ Open \subseteq Reservations /\ SettledEver \subseteq Reservations
      /\ SettledToday \subseteq Reservations
      /\ RefundedEver \subseteq Refunds /\ RefundedToday \subseteq Refunds
  BY DEF Open, SettledEver, SettledToday, SettledSince, RefundedEver, RefundedToday, RefundedSince
<1>2. /\ IsFiniteSet(Open) /\ IsFiniteSet(SettledEver) /\ IsFiniteSet(SettledToday)
      /\ IsFiniteSet(RefundedEver) /\ IsFiniteSet(RefundedToday)
  BY <1>1, LedgerAssumption, FS_Subset
<1>3. /\ \A r \in Reservations : maximum[r] \in Nat
      /\ \A r \in Reservations : hold[r] = "settled" => charge[r] \in Nat
      /\ \A f \in Refunds : amount[f] \in Nat
  <2>1. Maxima \cup {0} \subseteq Nat /\ Parts \cup {0} \subseteq Nat
    BY LedgerAssumption
  <2>2. \A r \in Reservations : maximum[r] \in Nat
    BY <2>1 DEF Records, TypeOK
  <2>3. \A f \in Refunds : amount[f] \in Nat
    BY <2>1 DEF Records, TypeOK
  <2>4. \A r \in Reservations : hold[r] = "settled" => charge[r] \in Nat
    BY DEF Records, TypeOK, ReservationRecords
  <2> QED BY <2>2, <2>3, <2>4
<1>4. \A r \in SettledEver \cup SettledToday : hold[r] = "settled"
  BY DEF SettledEver, SettledToday, SettledSince
<1>5. /\ \A r \in Open : maximum[r] \in Nat
      /\ \A r \in SettledEver : charge[r] \in Nat
      /\ \A r \in SettledToday : charge[r] \in Nat
      /\ \A f \in RefundedEver : amount[f] \in Nat
      /\ \A f \in RefundedToday : amount[f] \in Nat
  BY <1>1, <1>3, <1>4
<1> QED BY <1>2, <1>3, <1>5, SumNat DEF Held, Charged, Refunded

(* A step that leaves the counted rows and their amounts alone leaves the  *)
(* totals alone.                                                           *)
LEMMA HeldSame ==
    ASSUME Records, Open' = Open, \A r \in Open : maximum'[r] = maximum[r]
    PROVE  Held(Open)' = Held(Open)
BY Totals, SumSame DEF Held

LEMMA ChargedSame ==
    ASSUME Records, \A r \in SettledEver : charge'[r] = charge[r]
    PROVE  /\ SettledEver' = SettledEver => Charged(SettledEver)' = Charged(SettledEver)
           /\ SettledToday' = SettledToday => Charged(SettledToday)' = Charged(SettledToday)
<1>1. SettledToday \subseteq SettledEver
  BY LedgerAssumption DEF SettledToday, SettledEver, SettledSince, Records, TypeOK, Days
<1>2. SumFunctionOnSet(charge', SettledEver) = SumFunctionOnSet(charge, SettledEver)
  BY Totals, SumSame
<1>3. SumFunctionOnSet(charge', SettledToday) = SumFunctionOnSet(charge, SettledToday)
  BY <1>1, Totals, SumSame
<1> QED BY <1>2, <1>3 DEF Charged

LEMMA RefundedSame ==
    ASSUME Records, \A f \in RefundedEver : amount'[f] = amount[f]
    PROVE  /\ RefundedEver' = RefundedEver => Refunded(RefundedEver)' = Refunded(RefundedEver)
           /\ RefundedToday' = RefundedToday => Refunded(RefundedToday)' = Refunded(RefundedToday)
<1>1. RefundedToday \subseteq RefundedEver
  BY LedgerAssumption DEF RefundedToday, RefundedEver, RefundedSince, Records, TypeOK, Days
<1>2. SumFunctionOnSet(amount', RefundedEver) = SumFunctionOnSet(amount, RefundedEver)
  BY Totals, SumSame
<1>3. SumFunctionOnSet(amount', RefundedToday) = SumFunctionOnSet(amount, RefundedToday)
  BY <1>1, Totals, SumSame
<1> QED BY <1>2, <1>3 DEF Refunded

(* Reserve adds the maximum to what is held.                               *)
LEMMA ReserveTotals ==
    ASSUME Records, NEW r \in Reservations, NEW m \in Maxima, Reserve(r, m)
    PROVE  /\ Held(Open)' = Held(Open) + m
           /\ Charged(SettledEver)' = Charged(SettledEver)
           /\ Charged(SettledToday)' = Charged(SettledToday)
           /\ Refunded(RefundedEver)' = Refunded(RefundedEver)
           /\ Refunded(RefundedToday)' = Refunded(RefundedToday)
<1>1. Open' = Open \cup {r} /\ r \notin Open
  BY DEF Reserve, Open, Records, TypeOK
<1>2. /\ \A x \in Open : maximum'[x] = maximum[x]
      /\ maximum'[r] = m
  BY <1>1 DEF Reserve, Open, Records, TypeOK
<1>3. SumFunctionOnSet(maximum', Open \cup {r}) = m + SumFunctionOnSet(maximum', Open)
  <2>1. \A x \in Open \cup {r} : maximum'[x] \in Int
    BY <1>2, Totals, LedgerAssumption
  <2> QED BY <1>1, <1>2, <2>1, Totals, SumAdd
<1>4. SumFunctionOnSet(maximum', Open) = SumFunctionOnSet(maximum, Open)
  BY <1>2, Totals, SumSame
<1>5. Held(Open)' = Held(Open) + m
  BY <1>1, <1>3, <1>4, Totals, LedgerAssumption DEF Held
<1>6. /\ SettledEver' = SettledEver /\ SettledToday' = SettledToday
      /\ RefundedEver' = RefundedEver /\ RefundedToday' = RefundedToday
      /\ charge' = charge /\ amount' = amount
  BY DEF Reserve, SettledEver, SettledToday, SettledSince, RefundedEver, RefundedToday,
         RefundedSince, Records, TypeOK, settleVars, authVars
<1> QED BY <1>5, <1>6, ChargedSame, RefundedSame

(* The end of a hold takes its maximum out, and a settlement counts what   *)
(* was captured: ever, and on the day of its receipt.                      *)
LEMMA CloseTotals ==
    ASSUME Records, NEW r \in Reservations, StoreSettlement(r) \/ StoreRelease(r)
    PROVE  /\ maximum[r] \in Nat /\ maximum[r] <= Held(Open)
           /\ Held(Open)' = Held(Open) - maximum[r]
           /\ Refunded(RefundedEver)' = Refunded(RefundedEver)
           /\ Refunded(RefundedToday)' = Refunded(RefundedToday)
<1>1. Open' = Open \ {r} /\ r \in Open
  BY DEF StoreSettlement, StoreRelease, Open, Records, TypeOK
<1>2. maximum' = maximum
  BY DEF StoreSettlement, StoreRelease
<1>3. SumFunctionOnSet(maximum, Open) = maximum[r] + SumFunctionOnSet(maximum, Open \ {r})
  BY <1>1, Totals, SumRemove
<1>4. SumFunctionOnSet(maximum, Open \ {r}) \in Nat
  <2>1. IsFiniteSet(Open \ {r}) /\ \A x \in Open \ {r} : maximum[x] \in Nat
    BY Totals, FS_RemoveElement
  <2> QED BY <2>1, SumNat
<1>5. maximum[r] \in Nat
  BY <1>1, Totals
<1>6. /\ RefundedEver' = RefundedEver /\ RefundedToday' = RefundedToday /\ amount' = amount
  BY DEF StoreSettlement, StoreRelease, RefundedEver, RefundedToday, RefundedSince, authVars
<1> QED BY <1>1, <1>2, <1>3, <1>4, <1>5, <1>6, RefundedSame DEF Held

LEMMA SettleTotals ==
    ASSUME Records, NEW r \in Reservations, StoreSettlement(r)
    PROVE  /\ charge[r] \in Nat /\ charge[r] <= maximum[r]
           /\ Charged(SettledEver)' = Charged(SettledEver) + charge[r]
           /\ \/ Charged(SettledToday)' = Charged(SettledToday)
              \/ Charged(SettledToday)' = Charged(SettledToday) + charge[r]
<1>1. charge[r] \in Nat /\ charge[r] <= maximum[r] /\ charge' = charge
  BY DEF StoreSettlement, Records, TypeOK, ReservationRecords
<1>2. r \notin SettledEver /\ r \notin SettledToday
  BY DEF StoreSettlement, SettledEver, SettledToday, SettledSince
<1>3. /\ SettledEver' = SettledEver \cup {r}
      /\ SettledToday' = SettledToday \/ SettledToday' = SettledToday \cup {r}
  BY LedgerAssumption
     DEF StoreSettlement, SettledEver, SettledToday, SettledSince, Records, TypeOK, Days
<1>4. SumFunctionOnSet(charge, SettledEver \cup {r}) = charge[r] + SumFunctionOnSet(charge, SettledEver)
  <2>1. \A x \in SettledEver \cup {r} : charge[x] \in Int
    BY <1>1, Totals
  <2> QED BY <1>2, <2>1, Totals, SumAdd
<1>5. SumFunctionOnSet(charge, SettledToday \cup {r}) = charge[r] + SumFunctionOnSet(charge, SettledToday)
  <2>1. \A x \in SettledToday \cup {r} : charge[x] \in Int
    BY <1>1, Totals
  <2> QED BY <1>2, <2>1, Totals, SumAdd
<1> QED BY <1>1, <1>3, <1>4, <1>5, Totals DEF Charged

LEMMA ReleaseTotals ==
    ASSUME Records, NEW r \in Reservations, StoreRelease(r)
    PROVE  /\ Charged(SettledEver)' = Charged(SettledEver)
           /\ Charged(SettledToday)' = Charged(SettledToday)
<1>1. /\ SettledEver' = SettledEver /\ SettledToday' = SettledToday /\ charge' = charge
  BY DEF StoreRelease, SettledEver, SettledToday, SettledSince, Records, TypeOK, settleVars
<1> QED BY <1>1, ChargedSame

(* A refund receipt counts ever, and on its day.                           *)
LEMMA RefundTotals ==
    ASSUME Records, NEW f \in Refunds, NEW d \in Days, refundedOn[f] = None,
           refundedOn' = [refundedOn EXCEPT ![f] = d],
           UNCHANGED <<day, reserveVars, settleVars, amount>>
    PROVE  /\ Held(Open)' = Held(Open)
           /\ Charged(SettledEver)' = Charged(SettledEver)
           /\ Charged(SettledToday)' = Charged(SettledToday)
           /\ Refunded(RefundedEver)' = Refunded(RefundedEver) + amount[f]
           /\ \/ Refunded(RefundedToday)' = Refunded(RefundedToday)
              \/ Refunded(RefundedToday)' = Refunded(RefundedToday) + amount[f]
<1>1. /\ Open' = Open /\ SettledEver' = SettledEver /\ SettledToday' = SettledToday
      /\ maximum' = maximum /\ charge' = charge /\ amount' = amount
  BY DEF Open, SettledEver, SettledToday, SettledSince, reserveVars, settleVars
<1>2. f \notin RefundedEver /\ f \notin RefundedToday
  BY DEF RefundedEver, RefundedToday, RefundedSince
<1>3. /\ RefundedEver' = RefundedEver \cup {f}
      /\ RefundedToday' = RefundedToday \/ RefundedToday' = RefundedToday \cup {f}
  BY LedgerAssumption DEF RefundedEver, RefundedToday, RefundedSince, Records, TypeOK, Days
<1>4. SumFunctionOnSet(amount, RefundedEver \cup {f}) = amount[f] + SumFunctionOnSet(amount, RefundedEver)
  <2>1. \A x \in RefundedEver \cup {f} : amount[x] \in Int
    BY Totals DEF RefundedEver, RefundedSince
  <2> QED BY <1>2, <2>1, Totals, SumAdd
<1>5. SumFunctionOnSet(amount, RefundedToday \cup {f}) = amount[f] + SumFunctionOnSet(amount, RefundedToday)
  <2>1. \A x \in RefundedToday \cup {f} : amount[x] \in Int
    BY Totals DEF RefundedToday, RefundedSince
  <2> QED BY <1>2, <2>1, Totals, SumAdd
<1>6. /\ Refunded(RefundedEver)' = Refunded(RefundedEver) + amount[f]
      /\ \/ Refunded(RefundedToday)' = Refunded(RefundedToday)
         \/ Refunded(RefundedToday)' = Refunded(RefundedToday) + amount[f]
  <2>1. amount[f] \in Nat /\ Refunded(RefundedEver) \in Nat /\ Refunded(RefundedToday) \in Nat
    BY Totals
  <2>2. Refunded(RefundedEver)' = amount[f] + Refunded(RefundedEver)
    BY <1>1, <1>3, <1>4 DEF Refunded
  <2>3. CASE RefundedToday' = RefundedToday
    BY <1>1, <2>1, <2>2, <2>3 DEF Refunded
  <2>4. CASE RefundedToday' = RefundedToday \cup {f}
    <3>1. Refunded(RefundedToday)' = amount[f] + Refunded(RefundedToday)
      BY <1>1, <1>5, <2>4 DEF Refunded
    <3> QED BY <2>1, <2>2, <3>1
  <2> QED BY <1>3, <2>3, <2>4
<1> QED BY <1>1, <1>6, HeldSame, ChargedSame

(* Every other step leaves the totals alone.                               *)
Quiet ==
    /\ day' = day /\ maximum' = maximum /\ settledOn' = settledOn /\ refundedOn' = refundedOn
    /\ Open' = Open
    /\ \A r \in Reservations : hold'[r] = "settled" <=> hold[r] = "settled"
    /\ \A r \in Reservations : hold[r] = "settled" => charge'[r] = charge[r]
    /\ \A f \in Refunds : refundedOn[f] # None => amount'[f] = amount[f]
    /\ crossed' = crossed

LEMMA QuietTotals ==
    ASSUME Records, Quiet
    PROVE  /\ Held(Open)' = Held(Open)
           /\ Charged(SettledEver)' = Charged(SettledEver)
           /\ Charged(SettledToday)' = Charged(SettledToday)
           /\ Refunded(RefundedEver)' = Refunded(RefundedEver)
           /\ Refunded(RefundedToday)' = Refunded(RefundedToday)
<1>1. SettledEver' = SettledEver /\ SettledToday' = SettledToday
  BY DEF Quiet, SettledEver, SettledToday, SettledSince
<1>2. RefundedEver' = RefundedEver /\ RefundedToday' = RefundedToday
  BY DEF Quiet, RefundedEver, RefundedToday, RefundedSince
<1>3. \A r \in SettledEver : charge'[r] = charge[r]
  BY DEF Quiet, SettledEver, SettledSince
<1>4. \A f \in RefundedEver : amount'[f] = amount[f]
  BY DEF Quiet, RefundedEver, RefundedSince
<1>5. Held(Open)' = Held(Open)
  BY HeldSame DEF Quiet
<1> QED BY <1>1, <1>2, <1>3, <1>4, <1>5, ChargedSame, RefundedSame

(* A receipt of a refund, from the call that made it or imported.          *)
Receipt(f, d) ==
    /\ d \in Days /\ refundedOn[f] = None
    /\ refundedOn' = [refundedOn EXCEPT ![f] = d]
    /\ UNCHANGED <<day, reserveVars, settleVars, target, amount, paid>>

LEMMA StepKinds ==
    ASSUME Records, [Next]_vars
    PROVE  \/ Midnight \/ Quiet
           \/ \E r \in Reservations : StoreSettlement(r) \/ StoreRelease(r)
           \/ \E r \in Reservations, m \in Maxima : Reserve(r, m)
           \/ \E f \in Refunds : (\E c \in Callers : CompleteRefund(c)) /\ Receipt(f, refundedOn'[f])
           \/ \E f \in Refunds : ImportReceipt(f) /\ Receipt(f, day)
<1> USE LedgerAssumption
<1>1. CASE UNCHANGED vars
  BY <1>1 DEF vars, reserveVars, settleVars, authVars, Quiet, Open
<1>2. ASSUME NEW r \in Reservations, PeriodStart(r)
      PROVE  Quiet
  BY <1>2 DEF PeriodStart, settleVars, authVars, Quiet, Open
<1>3. ASSUME NEW r \in Reservations,
             \/ MarkIndeterminate(r) \/ MarkDisputed(r) \/ ReserveAgain(r)
             \/ \E i \in {"settle", "release"} : ClaimIntent(r, i)
      PROVE  Quiet
  <2>1. /\ hold[r] \in {"RESERVED", "SETTLING", "INDETERMINATE"}
        /\ \E h \in {"RESERVED", "SETTLING", "INDETERMINATE", "DISPUTED"} :
               hold' = [hold EXCEPT ![r] = h]
        /\ UNCHANGED <<day, crossed, maximum, charge, settledOn, refundedOn, amount>>
    BY <1>3 DEF MarkIndeterminate, MarkDisputed, ReserveAgain, ClaimIntent, MoveHold, authVars
  <2> QED BY <2>1 DEF Quiet, Open, Records, TypeOK
<1>4. ASSUME NEW r \in Reservations, RailSettles(r)
      PROVE  Quiet
  BY <1>4 DEF RailSettles, reserveVars, authVars, Quiet, Open, Records, TypeOK, ReservationRecords
<1>5. ASSUME NEW c \in Callers, RefundAuthorize(c)
      PROVE  Quiet
  <2>1. job[c] \in Refunds
    BY <1>5 DEF RefundAuthorize, Records, CallRecords
  <2>2. /\ UNCHANGED <<day, reserveVars, settleVars, refundedOn>>
        /\ amount' = amount \/ (auth[job[c]] = "none" /\ \E x \in Parts : amount' = [amount EXCEPT ![job[c]] = x])
    BY <1>5 DEF RefundAuthorize, authVars
  <2>3. \A f \in Refunds : refundedOn[f] # None => amount'[f] = amount[f]
    BY <2>1, <2>2 DEF Records, RefundRecords, TypeOK
  <2> QED BY <2>2, <2>3 DEF Quiet, Open, reserveVars, settleVars
<1>6. ASSUME NEW c \in Callers,
             \/ RefundExecuting(c) \/ RailRefunds(c) \/ CompleteOp(c) \/ RefundFailed(c)
             \/ MarkAuthorization(c) \/ MarkOp(c) \/ RefundRaises(c)
             \/ \E f \in Refunds : RefundClaim(c, f)
      PROVE  Quiet
  <2>1. UNCHANGED <<day, reserveVars, settleVars, refundedOn, amount>>
    BY <1>6 DEF RefundExecuting, RailRefunds, CompleteOp, RefundFailed, MarkAuthorization, MarkOp,
                RefundRaises, RefundClaim, authVars
  <2> QED BY <2>1 DEF Quiet, Open, reserveVars, settleVars
<1>7. ASSUME NEW c \in Callers, CompleteRefund(c)
      PROVE  Quiet \/ \E f \in Refunds : CompleteRefund(c) /\ Receipt(f, refundedOn'[f])
  <2>1. job[c] \in Refunds /\ answer[c] \in Days
    BY <1>7 DEF CompleteRefund, Records, CallRecords
  <2>2. /\ UNCHANGED <<day, reserveVars, settleVars, target, amount, paid>>
        /\ \/ UNCHANGED refundedOn
           \/ /\ refundedOn[job[c]] = None
              /\ refundedOn' = [refundedOn EXCEPT ![job[c]] = answer[c]]
    BY <1>7 DEF CompleteRefund, Records, TypeOK
  <2>3. CASE UNCHANGED refundedOn
    BY <2>2, <2>3 DEF Quiet, Open, reserveVars, settleVars
  <2>4. CASE /\ refundedOn[job[c]] = None
             /\ refundedOn' = [refundedOn EXCEPT ![job[c]] = answer[c]]
    <3>1. refundedOn'[job[c]] = answer[c]
      BY <2>1, <2>4 DEF Records, TypeOK
    <3>2. Receipt(job[c], refundedOn'[job[c]])
      BY <2>1, <2>2, <2>4, <3>1 DEF Receipt
    <3> QED BY <1>7, <2>1, <3>2
  <2> QED BY <2>2, <2>3, <2>4
<1>8. ASSUME NEW f \in Refunds, ReleaseAuthorization(f)
      PROVE  Quiet
  BY <1>8 DEF ReleaseAuthorization, Quiet, Open, reserveVars, settleVars
<1>9. ASSUME NEW f \in Refunds, ImportReceipt(f)
      PROVE  Receipt(f, day)
  BY <1>9 DEF ImportReceipt, Receipt, authVars, Records, TypeOK
<1>10. CASE Next
  BY <1>2, <1>3, <1>4, <1>5, <1>6, <1>7, <1>8, <1>9, <1>10 DEF Next
<1> QED BY <1>1, <1>10

-----------------------------------------------------------------------------
(* The daily budget.                                                       *)

LEMMA MaxZero ==
    ASSUME NEW x \in Int
    PROVE  Max({0, x}) = IF x > 0 THEN x ELSE 0
<1> DEFINE y == IF x > 0 THEN x ELSE 0
<1>1. y \in {0, x} /\ \A z \in {0, x} : y >= z
  OBVIOUS
<1>2. ASSUME NEW w \in {0, x}, \A z \in {0, x} : w >= z
      PROVE  w = y
  BY <1>1, <1>2
<1>3. Max({0, x}) = CHOOSE w \in {0, x} : \A z \in {0, x} : w >= z
  BY DEF Max
<1>4. /\ Max({0, x}) \in {0, x}
      /\ \A z \in {0, x} : Max({0, x}) >= z
  <2> HIDE DEF y
  <2> QED BY <1>1, <1>3
<1> HIDE DEF y
<1>5. Max({0, x}) = y
  BY <1>2, <1>4
<1> QED BY <1>5 DEF y

LEMMA OpenIsOutstanding ==
    ASSUME Records
    PROVE  Outstanding = Open
BY DEF Records, TypeOK, Outstanding, Open

(* What admission has checked, in terms of the totals.                     *)
LEMMA Admitted ==
    ASSUME Records, NEW r \in Reservations, NEW m \in Maxima, Reserve(r, m)
    PROVE  /\ Held(Open) + m <= Prepaid
           /\ Held(Open) + (Charged(SettledEver) - Refunded(RefundedEver)) + m <= Prepaid
           /\ period[r] = day =>
                  /\ Held(Open) + m <= DailyLimit
                  /\ Held(Open) + (Charged(SettledToday) - Refunded(RefundedToday)) + m <= DailyLimit
<1>1. Committed(period[r]) + m <= DailyLimit /\ Committed(0) + m <= Prepaid
  BY DEF Reserve, Admits
<1>2. Committed(0) = Held(Open) + Max({0, Charged(SettledEver) - Refunded(RefundedEver)})
  BY OpenIsOutstanding DEF Committed, SettledEver, RefundedEver
<1>3. period[r] = day =>
        Committed(period[r]) = Held(Open) + Max({0, Charged(SettledToday) - Refunded(RefundedToday)})
  BY OpenIsOutstanding DEF Committed, SettledToday, RefundedToday
<1>4. /\ Held(Open) \in Nat /\ m \in Nat /\ DailyLimit \in Nat /\ Prepaid \in Nat
      /\ Charged(SettledEver) - Refunded(RefundedEver) \in Int
      /\ Charged(SettledToday) - Refunded(RefundedToday) \in Int
  BY Totals, LedgerAssumption
<1>5. LET x == Charged(SettledEver) - Refunded(RefundedEver)
      IN  Max({0, x}) = IF x > 0 THEN x ELSE 0
  BY <1>4, MaxZero
<1>6. LET x == Charged(SettledToday) - Refunded(RefundedToday)
      IN  Max({0, x}) = IF x > 0 THEN x ELSE 0
  BY <1>4, MaxZero
<1>7. /\ Held(Open) + m <= Prepaid
      /\ Held(Open) + (Charged(SettledEver) - Refunded(RefundedEver)) + m <= Prepaid
  BY <1>1, <1>2, <1>4, <1>5
<1>8. ASSUME period[r] = day
      PROVE  /\ Held(Open) + m <= DailyLimit
             /\ Held(Open) + (Charged(SettledToday) - Refunded(RefundedToday)) + m <= DailyLimit
  BY <1>1, <1>3, <1>4, <1>6, <1>8
<1> QED BY <1>7, <1>8

(* Tomorrow nothing has been settled or refunded yet.                      *)
LEMMA NewDay ==
    ASSUME Records, Midnight
    PROVE  /\ Held(Open)' = Held(Open)
           /\ Charged(SettledToday)' = 0 /\ Refunded(RefundedToday)' = 0
           /\ Charged(SettledEver)' = Charged(SettledEver)
           /\ Refunded(RefundedEver)' = Refunded(RefundedEver)
<1> USE LedgerAssumption
    DEF Midnight, reserveVars, settleVars, authVars
<1>1. SettledToday' = {}
  BY DEF SettledToday, SettledSince, Records, TypeOK, ReservationRecords, Days
<1>2. RefundedToday' = {}
  BY DEF RefundedToday, RefundedSince, Records, TypeOK, RefundRecords, Days
<1>3. /\ Open' = Open /\ SettledEver' = SettledEver /\ RefundedEver' = RefundedEver
      /\ maximum' = maximum /\ charge' = charge /\ amount' = amount
  BY DEF Open, SettledEver, SettledSince, RefundedEver, RefundedSince
<1> QED BY <1>1, <1>2, <1>3, SumEmpty DEF Held, Charged, Refunded

LEMMA DailyStep ==
    ASSUME Records, DailyBudget, [Next]_vars
    PROVE  DailyBudget'
<1>0. DailyBudget <=>
        (~crossed => /\ Held(Open) <= DailyLimit
                     /\ Held(Open) + Charged(SettledToday) - Refunded(RefundedToday) <= DailyLimit)
  BY DEF DailyBudget, SettledToday, RefundedToday
<1>1. DailyBudget' <=>
        (~crossed' =>
           /\ Held(Open)' <= DailyLimit
           /\ Held(Open)' + Charged(SettledToday)' - Refunded(RefundedToday)' <= DailyLimit)
  BY DEF DailyBudget, SettledToday, RefundedToday
<1>2. /\ Held(Open) \in Nat /\ Charged(SettledToday) \in Nat /\ Refunded(RefundedToday) \in Nat
      /\ DailyLimit \in Nat
  BY Totals, LedgerAssumption
<1>3. CASE Midnight
  <2>1. crossed' = crossed
    BY <1>3 DEF Midnight, reserveVars
  <2> QED BY <1>0, <1>1, <1>2, <1>3, <2>1, NewDay
<1>4. CASE Quiet
  <2>1. crossed' = crossed
    BY <1>4 DEF Quiet
  <2> QED BY <1>0, <1>1, <1>2, <1>4, <2>1, QuietTotals
<1>5. ASSUME NEW r \in Reservations, StoreSettlement(r)
      PROVE  DailyBudget'
  <2>1. crossed' = crossed
    BY <1>5 DEF StoreSettlement
  <2>2. /\ maximum[r] \in Nat /\ charge[r] \in Nat /\ charge[r] <= maximum[r]
        /\ Held(Open)' = Held(Open) - maximum[r]
        /\ Refunded(RefundedToday)' = Refunded(RefundedToday)
        /\ \/ Charged(SettledToday)' = Charged(SettledToday)
           \/ Charged(SettledToday)' = Charged(SettledToday) + charge[r]
    BY <1>5, CloseTotals, SettleTotals
  <2> QED BY <1>0, <1>1, <1>2, <2>1, <2>2
<1>6. ASSUME NEW r \in Reservations, StoreRelease(r)
      PROVE  DailyBudget'
  <2>1. crossed' = crossed
    BY <1>6 DEF StoreRelease
  <2>2. /\ maximum[r] \in Nat
        /\ Held(Open)' = Held(Open) - maximum[r]
        /\ Refunded(RefundedToday)' = Refunded(RefundedToday)
        /\ Charged(SettledToday)' = Charged(SettledToday)
    BY <1>6, CloseTotals, ReleaseTotals
  <2> QED BY <1>0, <1>1, <1>2, <2>1, <2>2
<1>7. ASSUME NEW r \in Reservations, NEW m \in Maxima, Reserve(r, m)
      PROVE  DailyBudget'
  <2>1. ~crossed' => period[r] = day
    BY <1>7 DEF Reserve
  <2>2. /\ Held(Open)' = Held(Open) + m
        /\ Charged(SettledToday)' = Charged(SettledToday)
        /\ Refunded(RefundedToday)' = Refunded(RefundedToday)
    BY <1>7, ReserveTotals
  <2>3. m \in Nat
    BY LedgerAssumption
  <2> QED BY <1>1, <1>2, <1>7, <2>1, <2>2, <2>3, Admitted
<1>8. ASSUME NEW f \in Refunds, NEW d \in Days, Receipt(f, d)
      PROVE  DailyBudget'
  <2>1. crossed' = crossed
    BY <1>8 DEF Receipt, reserveVars
  <2>2. /\ Held(Open)' = Held(Open)
        /\ Charged(SettledToday)' = Charged(SettledToday)
        /\ \/ Refunded(RefundedToday)' = Refunded(RefundedToday)
           \/ Refunded(RefundedToday)' = Refunded(RefundedToday) + amount[f]
    BY <1>8, RefundTotals DEF Receipt
  <2>3. amount[f] \in Nat
    BY Totals
  <2> QED BY <1>0, <1>1, <1>2, <2>1, <2>2, <2>3
<1>9. ASSUME NEW f \in Refunds, NEW d, Receipt(f, d)
      PROVE  DailyBudget'
  BY <1>8, <1>9 DEF Receipt
<1> QED BY <1>3, <1>4, <1>5, <1>6, <1>7, <1>9, StepKinds

-----------------------------------------------------------------------------
(* Refunds against the capture they belong to.                             *)

Within ==
    \A r \in Reservations : hold[r] = "settled" => Refunded(Claims(r)) <= charge[r]

LEMMA ClaimsTyped ==
    ASSUME Records, NEW r \in Reservations
    PROVE  /\ IsFiniteSet(Claims(r)) /\ Claims(r) \subseteq Refunds
           /\ IsFiniteSet(Completed(r)) /\ IsFiniteSet(Pending(r))
           /\ Refunded(Claims(r)) \in Nat
           /\ Refunded(Completed(r)) \in Nat /\ Refunded(Pending(r)) \in Nat
           /\ Refunded(Claims(r)) <= Refunded(Completed(r)) + Refunded(Pending(r))
           /\ hold[r] = "settled" => charge[r] \in Nat
<1>1. Completed(r) \subseteq Refunds /\ Pending(r) \subseteq Refunds /\ Claims(r) \subseteq Refunds
  BY DEF Completed, Pending, Claims
<1>2. IsFiniteSet(Completed(r)) /\ IsFiniteSet(Pending(r)) /\ IsFiniteSet(Claims(r))
  BY <1>1, LedgerAssumption, FS_Subset
<1>3. \A f \in Completed(r) \cup Pending(r) : amount[f] \in Nat
  BY <1>1, Totals
<1>4. Refunded(Completed(r)) \in Nat /\ Refunded(Pending(r)) \in Nat /\ Refunded(Claims(r)) \in Nat
  BY <1>2, <1>3, SumNat DEF Refunded, Claims
<1>5. Refunded(Claims(r)) <= Refunded(Completed(r)) + Refunded(Pending(r))
  BY <1>2, <1>3, SumUnionAtMost DEF Refunded, Claims
<1>6. hold[r] = "settled" => charge[r] \in Nat
  BY DEF Records, TypeOK, ReservationRecords
<1> QED BY <1>1, <1>2, <1>4, <1>5, <1>6

(* No step but an authorization and an import lets claims in.              *)
LEMMA ClaimsShrink ==
    ASSUME Records, Within, NEW r \in Reservations, hold[r] = "settled",
           charge'[r] = charge[r], Claims(r)' \subseteq Claims(r),
           \A f \in Claims(r) : amount'[f] = amount[f]
    PROVE  Refunded(Claims(r))' <= charge'[r]
<1> DEFINE S == Claims(r)
           T == Claims(r)'
<1>1. IsFiniteSet(S) /\ T \in SUBSET S /\ IsFiniteSet(T) /\ \A f \in S : amount[f] \in Nat
  BY ClaimsTyped, Totals, FS_Subset
<1>2. Refunded(Claims(r)) = SumFunctionOnSet(amount, S)
  BY DEF Refunded
<1>3. Refunded(Claims(r))' = SumFunctionOnSet(amount', T)
  BY DEF Refunded
<1>4. Refunded(Claims(r)) <= charge[r] /\ Refunded(Claims(r)) \in Nat /\ charge[r] \in Nat
  BY ClaimsTyped DEF Within
<1> HIDE DEF S, T
<1>5. SumFunctionOnSet(amount', T) = SumFunctionOnSet(amount, T)
  <2>1. \A f \in T : amount'[f] = amount[f]
    BY <1>1 DEF S
  <2> QED BY <1>1, <2>1, SumSame
<1>6. SumFunctionOnSet(amount, T) <= SumFunctionOnSet(amount, S)
  BY <1>1, SumSubset
<1>7. SumFunctionOnSet(amount, T) \in Nat
  BY <1>1, SumNat
<1> QED BY <1>2, <1>3, <1>4, <1>5, <1>6, <1>7

(* One claim more fits when it was counted on top of all the others.       *)
LEMMA ClaimsGrow ==
    ASSUME Records, NEW r \in Reservations, NEW f \in Refunds, hold[r] = "settled",
           charge'[r] = charge[r], Claims(r)' = Claims(r) \cup {f},
           \A g \in Claims(r) \ {f} : amount'[g] = amount[g],
           NEW x \in Nat, amount'[f] = x, f \notin Claims(r),
           Refunded(Completed(r)) + Refunded(Pending(r)) + x <= charge[r]
    PROVE  Refunded(Claims(r))' <= charge'[r]
<1> DEFINE S == Claims(r)
<1>1. IsFiniteSet(S) /\ f \notin S /\ \A g \in S : amount[g] \in Nat /\ amount'[g] = amount[g]
  BY ClaimsTyped, Totals
<1>2. Refunded(Claims(r)) = SumFunctionOnSet(amount, S)
  BY DEF Refunded
<1>3. Refunded(Claims(r))' = SumFunctionOnSet(amount', S \cup {f})
  BY DEF Refunded
<1> HIDE DEF S
<1>4. SumFunctionOnSet(amount', S \cup {f}) = x + SumFunctionOnSet(amount', S)
  <2>1. \A g \in S \cup {f} : amount'[g] \in Int
    BY <1>1
  <2> QED BY <1>1, <2>1, SumAdd
<1>5. SumFunctionOnSet(amount', S) = SumFunctionOnSet(amount, S)
  BY <1>1, SumSame
<1> QED BY <1>2, <1>3, <1>4, <1>5, ClaimsTyped

LEMMA WithinStep ==
    ASSUME Records, Within, [Next]_vars
    PROVE  Within'
<1> SUFFICES ASSUME NEW r \in Reservations, hold'[r] = "settled"
             PROVE  Refunded(Claims(r))' <= charge'[r]
  BY DEF Within
<1> USE LedgerAssumption
<1> DEFINE Same == /\ hold[r] = "settled" /\ charge'[r] = charge[r]
                   /\ Claims(r)' \subseteq Claims(r)
                   /\ \A f \in Claims(r) : amount'[f] = amount[f]
<1>0. ASSUME Same PROVE Refunded(Claims(r))' <= charge'[r]
  BY <1>0, ClaimsShrink
<1>1. ASSUME UNCHANGED <<hold, charge, authVars, refundedOn>>
      PROVE  Same
  BY <1>1 DEF authVars, Claims, Completed, Pending
<1>2. CASE UNCHANGED vars \/ Midnight
  BY <1>0, <1>1, <1>2 DEF vars, reserveVars, settleVars, Midnight
<1>3. ASSUME NEW q \in Reservations,
             \/ PeriodStart(q) \/ MarkIndeterminate(q) \/ MarkDisputed(q) \/ ReserveAgain(q)
             \/ StoreRelease(q)
             \/ \E m \in Maxima : Reserve(q, m)
             \/ \E i \in {"settle", "release"} : ClaimIntent(q, i)
      PROVE  Same
  <2>1. UNCHANGED <<charge, authVars, refundedOn>>
    BY <1>3 DEF PeriodStart, MarkIndeterminate, MarkDisputed, ReserveAgain, StoreRelease, Reserve,
                ClaimIntent, MoveHold, settleVars
  <2>2. hold' = hold \/ \E h : h # "settled" /\ hold' = [hold EXCEPT ![q] = h]
    BY <1>3 DEF PeriodStart, MarkIndeterminate, MarkDisputed, ReserveAgain, StoreRelease, Reserve,
                ClaimIntent, MoveHold
  <2>3. hold[r] = "settled"
    BY <2>2 DEF Records, TypeOK
  <2> QED BY <2>1, <2>3 DEF authVars, Claims, Completed, Pending
<1>4. ASSUME NEW q \in Reservations, RailSettles(q)
      PROVE  Same
  <2>1. hold' = hold /\ UNCHANGED <<authVars, refundedOn>>
    BY <1>4 DEF RailSettles, reserveVars
  <2>2. charge'[r] = charge[r]
    BY <1>4, <2>1 DEF RailSettles, Records, TypeOK, ReservationRecords
  <2> QED BY <2>1, <2>2 DEF authVars, Claims, Completed, Pending
<1>5. ASSUME NEW q \in Reservations, StoreSettlement(q)
      PROVE  Refunded(Claims(r))' <= charge'[r]
  <2>1. UNCHANGED <<charge, authVars, refundedOn>> /\ (r # q => hold[r] = "settled")
    BY <1>5 DEF StoreSettlement, Records, TypeOK
  <2>2. CASE r # q
    BY <1>0, <2>1, <2>2 DEF authVars, Claims, Completed, Pending
  <2>3. CASE r = q
    <3>1. hold[q] # "settled"
      BY <1>5 DEF StoreSettlement
    <3>2. Claims(r)' = {}
      BY <2>1, <2>3, <3>1 DEF authVars, Claims, Completed, Pending, Records, RefundRecords
    <3>3. Refunded(Claims(r))' = 0
      BY <3>2, SumEmpty DEF Refunded
    <3>4. charge'[r] \in Nat
      BY <1>5, <2>1, <2>3 DEF StoreSettlement, Records, TypeOK, ReservationRecords
    <3> QED BY <3>3, <3>4
  <2> QED BY <2>2, <2>3
<1>6. ASSUME NEW c \in Callers,
             \/ RefundExecuting(c) \/ RailRefunds(c) \/ CompleteOp(c) \/ RefundFailed(c)
             \/ MarkOp(c) \/ RefundRaises(c)
             \/ \E f \in Refunds : RefundClaim(c, f)
      PROVE  Same
  <2>1. UNCHANGED <<hold, charge, authVars, refundedOn>>
    BY <1>6 DEF RefundExecuting, RailRefunds, CompleteOp, RefundFailed, MarkOp, RefundRaises,
                RefundClaim, reserveVars, settleVars
  <2> QED BY <1>1, <2>1
<1>7. ASSUME NEW c \in Callers, RefundAuthorize(c)
      PROVE  Refunded(Claims(r))' <= charge'[r]
  <2> DEFINE f == job[c]
  <2>1. f \in Refunds /\ UNCHANGED <<hold, charge, refundedOn>>
    BY <1>7 DEF RefundAuthorize, Records, CallRecords, reserveVars, settleVars
  <2>2. CASE auth[f] # "none"
    <3>1. UNCHANGED authVars
      BY <1>7, <2>2 DEF RefundAuthorize
    <3> QED BY <1>0, <1>1, <2>1, <3>1
  <2>3. CASE auth[f] = "none"
    <3>1. PICK q \in SettledSince(0), x \in Parts :
            /\ Refunded(Completed(q)) + Refunded(Pending(q)) + x <= charge[q]
            /\ auth' = [auth EXCEPT ![f] = "AUTHORIZED"]
            /\ target' = [target EXCEPT ![f] = q]
            /\ amount' = [amount EXCEPT ![f] = x]
      BY <1>7, <2>3 DEF RefundAuthorize
    <3>2. x \in Nat /\ hold[r] = "settled" /\ charge'[r] = charge[r]
      BY <2>1
    <3>3. f \notin Claims(r)
      BY <2>1, <2>3 DEF Claims, Completed, Pending, Records, RefundRecords
    <3>4. \A g \in Claims(r) : amount'[g] = amount[g]
      BY <2>1, <3>1, <3>3 DEF Claims, Completed, Pending, Records, TypeOK
    <3>5. CASE r = q
      <4>1. Claims(r)' = Claims(r) \cup {f} /\ amount'[f] = x
        BY <2>1, <2>3, <3>1, <3>5 DEF Claims, Completed, Pending, Records, TypeOK
      <4>2. Refunded(Completed(r)) + Refunded(Pending(r)) + x <= charge[r]
        BY <3>1, <3>5
      <4> HIDE DEF f
      <4> QED BY <2>1, <3>2, <3>3, <3>4, <4>1, <4>2, ClaimsGrow
    <3>6. CASE r # q
      <4>1. Claims(r)' \subseteq Claims(r)
        BY <2>1, <2>3, <3>1, <3>6 DEF Claims, Completed, Pending, Records, TypeOK, RefundRecords
      <4> QED BY <1>0, <3>2, <3>4, <4>1
    <3> QED BY <3>5, <3>6
  <2> QED BY <2>2, <2>3
<1>8. ASSUME NEW c \in Callers, CompleteRefund(c)
      PROVE  Same
  <2> DEFINE f == job[c]
  <2>1. f \in Refunds /\ auth[f] # "none" /\ UNCHANGED <<hold, charge, target, amount>>
    BY <1>8 DEF CompleteRefund, Records, CallRecords, reserveVars, settleVars
  <2>2. \/ UNCHANGED <<auth, refundedOn>>
        \/ /\ auth[f] # "RELEASED" /\ (refundedOn[f] = None \/ refundedOn' = refundedOn)
           /\ refundedOn' = [refundedOn EXCEPT ![f] = answer[c]]
           /\ auth' = [auth EXCEPT ![f] = "COMPLETED"]
    BY <1>8 DEF CompleteRefund, Records, TypeOK
  <2>3. Claims(r)' \subseteq Claims(r)
    BY <2>1, <2>2 DEF Claims, Completed, Pending, Records, TypeOK, RefundRecords
  <2> QED BY <2>1, <2>3
<1>9. ASSUME NEW c \in Callers, MarkAuthorization(c)
      PROVE  Same
  <2>1. job[c] \in Refunds /\ UNCHANGED <<hold, charge, target, amount, refundedOn>>
    BY <1>9 DEF MarkAuthorization, Records, CallRecords, reserveVars, settleVars
  <2>2. Claims(r)' \subseteq Claims(r)
    BY <1>9, <2>1 DEF MarkAuthorization, Claims, Completed, Pending, Records, TypeOK
  <2> QED BY <2>1, <2>2
<1>10. ASSUME NEW f \in Refunds, ReleaseAuthorization(f)
       PROVE  Same
  BY <1>10 DEF ReleaseAuthorization, Claims, Completed, Pending, Records, TypeOK, reserveVars,
               settleVars
<1>11. ASSUME NEW f \in Refunds, ImportReceipt(f)
       PROVE  Refunded(Claims(r))' <= charge'[r]
  <2>1. /\ UNCHANGED <<hold, charge, authVars>> /\ f \in paid /\ auth[f] # "none"
        /\ refundedOn[f] = None /\ refundedOn' = [refundedOn EXCEPT ![f] = day]
        /\ Refunded(Completed(target[f])) + Refunded(Pending(target[f])) + amount[f] <= charge[target[f]]
    BY <1>11 DEF ImportReceipt, Records, RefundRecords, reserveVars, settleVars
  <2>2. CASE r = target[f] /\ f \notin Claims(r)
    <3>1. Claims(r)' = Claims(r) \cup {f}
      BY <2>1, <2>2 DEF Claims, Completed, Pending, Records, TypeOK, Days, authVars
    <3>2. amount[f] \in Nat /\ amount' = amount
      BY <2>1, Totals DEF authVars
    <3>3. Refunded(Completed(r)) + Refunded(Pending(r)) + amount[f] <= charge[r]
      BY <2>1, <2>2
    <3> QED BY <2>1, <2>2, <3>1, <3>2, <3>3, ClaimsGrow
  <2>3. CASE ~(r = target[f] /\ f \notin Claims(r))
    <3>1. Claims(r)' \subseteq Claims(r)
      BY <2>1, <2>3 DEF Claims, Completed, Pending, Records, TypeOK, authVars
    <3> QED BY <1>0, <2>1, <3>1 DEF authVars
  <2> QED BY <2>2, <2>3
<1>12. CASE Next
  <2> HIDE DEF Same
  <2> QED BY <1>0, <1>2, <1>3, <1>4, <1>5, <1>6, <1>7, <1>8, <1>9, <1>10, <1>11, <1>12 DEF Next
<1> QED BY <1>2, <1>12

(* What was refunded never exceeds what was captured, all in all.          *)
LEMMA SpentIsNat ==
    ASSUME Records, Within
    PROVE  Refunded(RefundedEver) <= Charged(SettledEver)
<1> DEFINE F == {f \in RefundedEver : target[f] \in SettledEver}
<1>1. RefundedEver \subseteq F
  BY LedgerAssumption
     DEF RefundedEver, RefundedSince, SettledEver, SettledSince, Records, TypeOK, RefundRecords, Days
<1>2. ASSUME NEW r \in SettledEver
      PROVE  SumFunctionOnSet(amount, {f \in RefundedEver : target[f] = r}) <= charge[r]
  <2> DEFINE G == {f \in RefundedEver : target[f] = r}
  <2>1. r \in Reservations /\ hold[r] = "settled"
    BY DEF SettledEver, SettledSince
  <2>2. G \in SUBSET Claims(r)
    BY DEF RefundedEver, RefundedSince, Claims, Completed
  <2>3. \A f \in Claims(r) : amount[f] \in Nat
    BY <2>1, ClaimsTyped, Totals
  <2>4. Refunded(Claims(r)) <= charge[r]
    BY <2>1 DEF Within
  <2> HIDE DEF G
  <2>5. SumFunctionOnSet(amount, G) <= SumFunctionOnSet(amount, Claims(r))
    BY <2>1, <2>2, <2>3, ClaimsTyped, SumSubset
  <2>6. SumFunctionOnSet(amount, G) \in Nat
    <3>1. IsFiniteSet(G) /\ \A f \in G : amount[f] \in Nat
      BY <2>1, <2>2, <2>3, ClaimsTyped, FS_Subset
    <3> QED BY <3>1, SumNat
  <2>7. SumFunctionOnSet(amount, G) <= charge[r]
    BY <2>1, <2>4, <2>5, <2>6, ClaimsTyped DEF Refunded
  <2> QED BY <2>7 DEF G
<1>3. \A f \in RefundedEver : amount[f] \in Nat
  BY Totals DEF RefundedEver, RefundedSince
<1>4. SumFunctionOnSet(amount, F) <= SumFunctionOnSet(charge, SettledEver)
  BY <1>2, <1>3, Totals, SumGrouped
<1>5. F = RefundedEver
  BY <1>1
<1> QED BY <1>4, <1>5 DEF Refunded, Charged

-----------------------------------------------------------------------------
(* The theorems.                                                           *)

(* The rows keep their types and go together through every order of        *)
(* settlements, refunds, losses and imports (refund_v2 and                 *)
(* store_settlement_and_transition).                                       *)
THEOREM LedgerTypes == Spec => []TypeOK
<1>1. Records /\ [Next]_vars => Records'
  BY RecordsStep
<1>2. Records => TypeOK
  BY DEF Records
<1> QED BY RecordsInit, <1>1, <1>2, PTL DEF Spec

LEMMA RecordsAlways == Spec => []Records
<1>1. Records /\ [Next]_vars => Records'
  BY RecordsStep
<1> QED BY RecordsInit, <1>1, PTL DEF Spec

LEMMA WithinAlways == Spec => []Within
<1>1. Init => Within
  BY DEF Init, Within
<1>2. Records /\ Within /\ [Next]_vars => Within'
  BY WithinStep
<1> QED BY <1>1, <1>2, RecordsAlways, PTL DEF Spec

(* On every day what is held and what the day charged stay within          *)
(* daily_marketplace_limit_usd, for any number of reservations, refunds    *)
(* and days (reserve_payment_v2).                                          *)
THEOREM DailyBudgetHolds == Spec => []DailyBudget
<1>1. Init => DailyBudget
  <2> SUFFICES ASSUME Init PROVE DailyBudget
    OBVIOUS
  <2>1. Open = {} /\ SettledSince(day) = {} /\ RefundedSince(day) = {}
    BY DEF Init, Open, SettledSince, RefundedSince
  <2> QED BY <2>1, SumEmpty, LedgerAssumption DEF DailyBudget, Held, Charged, Refunded
<1>2. Records /\ DailyBudget /\ [Next]_vars => DailyBudget'
  BY DailyStep
<1> QED BY <1>1, <1>2, RecordsAlways, PTL DEF Spec

(* Refunds that were made, or that the ledger says were made, never exceed *)
(* the capture, unless their authorization was given up                    *)
(* (authorize_refund_v2, complete_refund_v2).                              *)
THEOREM RefundsCovered == Spec => []RefundsWithinCapture
<1>1. ASSUME Records, Within
      PROVE  RefundsWithinCapture
  <2> SUFFICES ASSUME NEW r \in SettledSince(0)
               PROVE  Refunded({f \in paid : target[f] = r /\ auth[f] # "RELEASED"} \cup Completed(r))
                        <= charge[r]
    BY DEF RefundsWithinCapture
  <2> DEFINE G == {f \in paid : target[f] = r /\ auth[f] # "RELEASED"} \cup Completed(r)
  <2>1. r \in Reservations /\ hold[r] = "settled"
    BY DEF SettledSince
  <2>2. G \in SUBSET Claims(r)
    BY <1>1 DEF Claims, Completed, Pending, Records, TypeOK, RefundRecords
  <2>3. IsFiniteSet(G) /\ \A f \in Claims(r) : amount[f] \in Nat
    BY <1>1, <2>1, <2>2, ClaimsTyped, Totals, FS_Subset
  <2> HIDE DEF G
  <2>4. Refunded(G) <= Refunded(Claims(r))
    BY <1>1, <2>1, <2>2, <2>3, ClaimsTyped, SumSubset DEF Refunded
  <2>5. Refunded(G) \in Nat
    BY <2>2, <2>3, SumNat DEF Refunded
  <2>6. Refunded(G) <= charge[r]
    BY <1>1, <2>1, <2>4, <2>5, ClaimsTyped DEF Within
  <2> QED BY <2>6 DEF G
<1> QED BY <1>1, RecordsAlways, WithinAlways, PTL

(* The account that the ledger shows, in terms of its totals.              *)
LEMMA AccountShown ==
    /\ Account!Covered <=>
         /\ Held(Open) \in Nat /\ Charged(SettledEver) - Refunded(RefundedEver) \in Nat
         /\ Held(Open) + (Charged(SettledEver) - Refunded(RefundedEver)) <= Prepaid
    /\ Account!Covered' <=>
         /\ Held(Open)' \in Nat /\ Charged(SettledEver)' - Refunded(RefundedEver)' \in Nat
         /\ Held(Open)' + (Charged(SettledEver)' - Refunded(RefundedEver)') <= Prepaid
BY DEF Account!Covered, SettledEver, RefundedEver

TotalsOK ==
    /\ Held(Open) \in Nat
    /\ Charged(SettledEver) \in Nat /\ Refunded(RefundedEver) \in Nat
    /\ Refunded(RefundedEver) <= Charged(SettledEver)

LEMMA TotalsAreOK ==
    Records /\ Within => TotalsOK
BY Totals, SpentIsNat DEF TotalsOK

(* Each transaction is a step of the account, or none.                     *)
LEMMA AccountStep ==
    ASSUME Records, Within, Within', Account!Covered, [Next]_vars
    PROVE  [Account!AccountNext]_(Account!accountVars) /\ Account!Covered'
<1> DEFINE held == Held(Open)
           spent == Charged(SettledEver) - Refunded(RefundedEver)
<1>1. TotalsOK /\ TotalsOK'
  <2>1. Records'
    BY RecordsStep
  <2> QED BY <2>1, TotalsAreOK, PTL
<1>2. /\ held \in Nat /\ spent \in Nat /\ held + spent <= Prepaid /\ Prepaid \in Nat
      /\ held' \in Nat /\ spent' \in Nat
      /\ Charged(SettledEver) \in Nat /\ Refunded(RefundedEver) \in Nat
      /\ Charged(SettledEver)' \in Nat /\ Refunded(RefundedEver)' \in Nat
  BY <1>1, AccountShown, LedgerAssumption DEF TotalsOK
<1>3. /\ Account!accountVars = <<held, spent>>
      /\ Account!accountVars' = <<held', spent'>>
  BY DEF Account!accountVars, SettledEver, RefundedEver
<1>4. \A m, c \in 0 .. Prepaid :
        \/ held + spent + m <= Prepaid /\ held' = held + m /\ spent' = spent
        \/ c <= m /\ m <= held /\ held' = held - m /\ spent' = spent + c
        \/ m <= spent /\ spent' = spent - m /\ held' = held
        => Account!AccountNext
  BY DEF Account!AccountNext, Account!Hold, Account!Charge, Account!GiveBack, SettledEver,
         RefundedEver
<1>5. held' + spent' <= Prepaid => Account!Covered'
  BY <1>2, AccountShown
<1> DEFINE Goal == [Account!AccountNext]_(Account!accountVars) /\ Account!Covered'
<1>6. ASSUME held' = held, spent' = spent
      PROVE  Goal
  BY <1>2, <1>3, <1>5, <1>6
<1>7. ASSUME Midnight \/ Quiet
      PROVE  Goal
  BY <1>6, <1>7, NewDay, QuietTotals
<1>8. ASSUME NEW r \in Reservations, StoreSettlement(r)
      PROVE  Goal
  <2>1. /\ maximum[r] \in Nat /\ charge[r] \in Nat /\ charge[r] <= maximum[r] /\ maximum[r] <= held
        /\ held' = held - maximum[r] /\ spent' = spent + charge[r]
    BY <1>2, <1>8, CloseTotals, SettleTotals
  <2>2. maximum[r] \in 0 .. Prepaid /\ charge[r] \in 0 .. Prepaid /\ held' + spent' <= Prepaid
    BY <1>2, <2>1
  <2> HIDE DEF held, spent
  <2> QED BY <1>4, <1>5, <2>1, <2>2
<1>9. ASSUME NEW r \in Reservations, StoreRelease(r)
      PROVE  Goal
  <2>1. /\ maximum[r] \in Nat /\ maximum[r] <= held
        /\ held' = held - maximum[r] /\ spent' = spent + 0
    BY <1>2, <1>9, CloseTotals, ReleaseTotals
  <2>2. maximum[r] \in 0 .. Prepaid /\ 0 \in 0 .. Prepaid /\ held' + spent' <= Prepaid /\ 0 <= maximum[r]
    BY <1>2, <2>1
  <2> HIDE DEF held, spent
  <2> QED BY <1>4, <1>5, <2>1, <2>2
<1>10. ASSUME NEW r \in Reservations, NEW m \in Maxima, Reserve(r, m)
       PROVE  Goal
  <2>1. held' = held + m /\ spent' = spent /\ held + spent + m <= Prepaid /\ m \in Nat
    BY <1>2, <1>10, ReserveTotals, Admitted, LedgerAssumption
  <2>2. m \in 0 .. Prepaid /\ held' + spent' <= Prepaid
    BY <1>2, <2>1
  <2> HIDE DEF held, spent
  <2> QED BY <1>4, <1>5, <2>1, <2>2
<1>11. ASSUME NEW f \in Refunds, NEW d, Receipt(f, d)
       PROVE  Goal
  <2>0. /\ Held(Open)' = Held(Open) /\ Charged(SettledEver)' = Charged(SettledEver)
        /\ Refunded(RefundedEver)' = Refunded(RefundedEver) + amount[f]
    BY <1>11, RefundTotals DEF Receipt
  <2>1. held' = held /\ spent' = spent - amount[f] /\ amount[f] \in Nat
    BY <1>2, <2>0, Totals
  <2>2. amount[f] \in 0 .. Prepaid /\ amount[f] <= spent /\ held' + spent' <= Prepaid
    BY <1>2, <2>1
  <2> HIDE DEF held, spent
  <2> QED BY <1>4, <1>5, <2>1, <2>2
<1> HIDE DEF Goal
<1>12. Goal
  BY <1>7, <1>8, <1>9, <1>10, <1>11, StepKinds
<1> QED BY <1>12 DEF Goal

(* The store implements the spending account: every transaction holds,     *)
(* charges or gives back within the prepaid balance, or does not touch it  *)
(* (reserve_payment_v2, store_settlement_and_transition,                   *)
(* complete_refund_v2).                                                    *)
THEOREM LedgerKeepsAccount == Spec => KeepsAccount
<1>1. Init => Account!AccountInit /\ Account!Covered
  <2> SUFFICES ASSUME Init PROVE Account!AccountInit /\ Account!Covered
    OBVIOUS
  <2>1. Open = {} /\ SettledSince(0) = {} /\ RefundedSince(0) = {}
    BY DEF Init, Open, SettledSince, RefundedSince
  <2>2. Held(Open) = 0 /\ Charged(SettledSince(0)) = 0 /\ Refunded(RefundedSince(0)) = 0
    BY <2>1, SumEmpty DEF Held, Charged, Refunded
  <2> QED BY <2>2, LedgerAssumption DEF Account!AccountInit, Account!Covered
<1>2. Records /\ Within /\ Within' /\ Account!Covered /\ [Next]_vars
        => [Account!AccountNext]_(Account!accountVars) /\ Account!Covered'
  BY AccountStep
<1> QED BY <1>1, <1>2, RecordsAlways, WithinAlways, PTL
        DEF Spec, KeepsAccount, Account!AccountSpec

(* Each step of the account keeps what is held and spent within it.        *)
LEMMA AccountStepCovered ==
    ASSUME Account!Covered, [Account!AccountNext]_(Account!accountVars)
    PROVE  Account!Covered'
<1> DEFINE held == Held(Open)
           spent == Charged(SettledEver) - Refunded(RefundedEver)
<1>1. held \in Nat /\ spent \in Nat /\ held + spent <= Prepaid /\ Prepaid \in Nat
  BY AccountShown, LedgerAssumption
<1>2. held' \in Nat /\ spent' \in Nat /\ held' + spent' <= Prepaid => Account!Covered'
  BY AccountShown
<1>3. CASE Account!AccountNext
  <2>1. PICK m \in 0 .. Prepaid, c \in 0 .. Prepaid :
          \/ held + spent + m <= Prepaid /\ held' = held + m /\ spent' = spent
          \/ c <= m /\ m <= held /\ held' = held - m /\ spent' = spent + c
          \/ m <= spent /\ spent' = spent - m /\ held' = held
    BY <1>3 DEF Account!AccountNext, Account!Hold, Account!Charge, Account!GiveBack, SettledEver,
                RefundedEver
  <2> HIDE DEF held, spent
  <2> QED BY <1>1, <1>2, <2>1
<1>4. CASE UNCHANGED Account!accountVars
  <2>1. held' = held /\ spent' = spent
    BY <1>4 DEF Account!accountVars, SettledEver, RefundedEver
  <2> QED BY <1>1, <1>2, <2>1
<1> QED BY <1>3, <1>4

(* No sequence of authorizations, charges, releases and refunds takes the  *)
(* account beyond its balance (reserve_payment_v2, "exceeds available      *)
(* prepaid balance"); the ledger keeps that promise, because it implements *)
(* the account.                                                            *)
THEOREM PrepaidCovered == Spec => []Account!Covered
<1>1. Account!AccountInit => Account!Covered
  BY LedgerAssumption DEF Account!AccountInit, Account!Covered
<1>2. Account!Covered /\ [Account!AccountNext]_(Account!accountVars) => Account!Covered'
  BY AccountStepCovered
<1>3. Account!AccountSpec => []Account!Covered
  BY <1>1, <1>2, PTL DEF Account!AccountSpec
<1> QED BY <1>3, LedgerKeepsAccount, PTL DEF KeepsAccount
=============================================================================
