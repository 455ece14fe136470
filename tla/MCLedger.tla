------------------------------ MODULE MCLedger ------------------------------
(* Two reservations over two days and two refunds by two calls.            *)
EXTENDS PaymentLedger, TLC

Symmetries == Permutations(Reservations) \cup Permutations(Refunds) \cup Permutations(Callers)
=============================================================================
