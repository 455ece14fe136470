--------------------------- MODULE SpendingAccount ---------------------------
(***************************************************************************)
(* What a prepaid balance promises, whatever happens to the reservations   *)
(* behind it: what is held for outstanding authorizations and what is      *)
(* spent never exceed it together.  PaymentLedger implements it.           *)
(***************************************************************************)
EXTENDS Integers

CONSTANT Balance

VARIABLES held, spent

accountVars == <<held, spent>>

AccountInit == held = 0 /\ spent = 0

(* Authorize a maximum.                                                    *)
Hold(m) == held + spent + m <= Balance /\ held' = held + m /\ spent' = spent

(* A hold of m ends with a charge of c; with none it is released.          *)
Charge(m, c) == c <= m /\ m <= held /\ held' = held - m /\ spent' = spent + c

(* Part of what was spent comes back.                                      *)
GiveBack(x) == x <= spent /\ spent' = spent - x /\ held' = held

AccountNext ==
    \E m, c \in 0 .. Balance : Hold(m) \/ Charge(m, c) \/ GiveBack(m)

AccountSpec == AccountInit /\ [][AccountNext]_accountVars

-----------------------------------------------------------------------------
(* The balance covers everything that is held or spent                     *)
(* (reserve_payment_v2, committed_amount over all time).                   *)
Covered == held \in Nat /\ spent \in Nat /\ held + spent <= Balance
=============================================================================
