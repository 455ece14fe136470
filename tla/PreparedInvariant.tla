-------------------------- MODULE PreparedInvariant --------------------------
(***************************************************************************)
(* The inductive invariant behind the safety properties of                 *)
(* PreparedExecution, part by part: the control flow of a process, who     *)
(* owns a decision, who owns an idempotency key, what a decision's state   *)
(* says about its reservation, what may be at the rail, and what evidence  *)
(* justifies a capture.                                                    *)
(***************************************************************************)
EXTENDS PreparedExecution

PayLabels == {"pay_claim", "pay_intent", "pay_exec", "pay_rail", "pay_store", "pay_done"}
MarkLabels == {"mark_res", "mark_prep", "mark_attempt", "dispute"}

(* The labels of a call that holds the claim, before and after the gate.   *)
BeforeLabels == {"reserve", "rail_reserve", "reserved", "gate"}
UntilReceipt == {"begin", "keyexec", "invoke", "provider", "validate"}
AfterLabels == {"free_settling", "free_settled", "await_usage", "usage", "decide", "final",
                "complete", "mark_key"} \cup UntilReceipt \cup MarkLabels
PaidLabels == {"reserve", "rail_reserve", "await_usage", "usage", "decide"}

(* A call is past the gate: it may only settle or mark the decision.       *)
PastGate(c) == pc[c] \in AfterLabels \/ (pc[c] \in PayLabels /\ job[c] = "settle")
Owner(c) == pc[c] \in BeforeLabels \cup AfterLabels \cup PayLabels \cup {"abandon"}

Control ==
    /\ \A x \in Procs : pc[x] \notin {"idle", "done"} => at[x] \in Prepared
    /\ \A x \in Procs : pc[x] \in PayLabels => job[x] \in Intents
    /\ \A c \in Calls : /\ pc[c] \notin {"recover", "rerror", "rfinal", "rkey"}
                        /\ pc[c] \in PayLabels => job[c] \in {"preinvoke", "settle"}
    /\ \A r \in Recoverers : pc[r] \in PayLabels \cup MarkLabels
                                \cup {"idle", "recover", "rerror", "rfinal", "rkey"}
    /\ \A o \in Operators : /\ pc[o] \in PayLabels \cup {"idle", "done"}
                            /\ pc[o] \in PayLabels => job[o] = "cancel"

(* States in which no invocation has begun.                                *)
Uninvoked == {"PREPARED", "RESERVED", "RELEASED", "CANCELLED", "EXPIRED"}

Ownership ==
    /\ \A c \in Calls : Owner(c) => token[at[c]] = c
    /\ \A c \in Calls : PastGate(c) => state[at[c]] \notin Uninvoked
    /\ \A i \in invoked : token[i[1]] = i[2] /\ state[i[1]] \notin Uninvoked
    /\ \A p \in Prepared : state[p] \notin {"PREPARED", "CANCELLED", "EXPIRED"} => token[p] # None

KeyOwnership ==
    /\ \A p \in bound : Keyed(p) /\ keyrec[KeyOf[p]] # "absent"
    /\ \A p, q \in bound : KeyOf[p] = KeyOf[q] => p = q
    /\ \A p \in Prepared :
          (Keyed(p) /\ token[p] # None /\ state[p] \notin {"CANCELLED", "RELEASED", "EXPIRED"})
              => p \in bound

Untouched(p) == res[p] = "none" /\ intent[p] = "none" /\ settlement[p] = "none"
Held(p, os) == /\ res[p] \in {"RESERVED", "SETTLING", "INDETERMINATE"}
               /\ intent[p] \in os \cup {"none"} /\ settlement[p] = "none"
Closed(p, s, os) == res[p] = s /\ intent[p] = "none" /\ settlement[p] \in os

(* Only a decision that needs payment reaches a payment label.             *)
PaidOnly ==
    /\ \A x \in Procs : pc[x] \in PayLabels => ~Free(at[x])
    /\ \A c \in Calls : /\ pc[c] \in PaidLabels => ~Free(at[c])
                        /\ pc[c] \in {"free_settling", "free_settled"} => Free(at[c])
    /\ \A r \in Recoverers : pc[r] = "recover" /\ seen[r] = "RESERVED" => ~Free(at[r])
    /\ \A p \in Prepared : Free(p) => state[p] \notin {"RESERVED", "RELEASED"}

Accounts ==
    \A p \in Prepared :
        /\ state[p] \in {"PREPARED", "CANCELLED", "EXPIRED"} \/ Free(p) => Untouched(p)
        /\ ~Free(p) =>
             /\ state[p] = "RESERVED" => Held(p, Releases)
             /\ state[p] \in PostInvocation \cup {"DISPUTED"} => Held(p, {"settle"})
             /\ state[p] = "RELEASED" => Closed(p, "RELEASED", Releases)
             /\ state[p] = "SETTLED" => Closed(p, "SETTLED", {"settle"})

(* The operation that owns the decision's money: claimed, or stored.       *)
Committed(p, o) == intent[p] = o \/ settlement[p] = o

RailAgrees ==
    /\ \A p \in Prepared, o \in Intents : <<p, o>> \in wire \/ o \in rail[p] => Committed(p, o)
    /\ \A p \in Prepared : settlement[p] # "none" => settlement[p] \in rail[p]

PayersCommitted ==
    \A x \in Procs :
        /\ pc[x] \in {"pay_exec", "pay_rail", "pay_store", "pay_done"} => Committed(at[x], job[x])
        /\ pc[x] = "pay_store" => job[x] \in rail[at[x]]

(* Where the receipt and the usage statement of a decision come from.      *)
Evidences ==
    \A p \in Prepared :
        /\ token[p] = None => receipt[p] = "none"
        /\ receipt[p] = "none" => statement[p] = "none"
        /\ receipt[p] # "none" => \E i \in invoked : i[1] = p
        /\ Kind[p] = "fixed" => statement[p] = "none"

HeardLabels == {"await_usage", "usage", "decide"}

CallEvidence ==
    \A c \in Calls :
        /\ pc[c] \in BeforeLabels \cup UntilReceipt => receipt[at[c]] = "none"
        /\ pc[c] \in {"provider", "validate"} \cup HeardLabels => <<at[c], c>> \in invoked
        /\ pc[c] \in HeardLabels => receipt[at[c]] # "none"
        /\ pc[c] \in {"await_usage", "usage"} => statement[at[c]] = "none"
        /\ pc[c] \in HeardLabels /\ Kind[at[c]] = "fixed" => ev[c] \in {"none", "invalid"}
        /\ pc[c] = "decide"
              => statement[at[c]] = IF ev[c] \in {"ok", "over"} THEN ev[c] ELSE "none"

(* What justifies a capture, and that it stays justified: the statement is *)
(* stored, or the call that could store one is past that point.            *)
Unheard(c) == pc[c] \in BeforeLabels \cup UntilReceipt \cup {"await_usage", "usage"}
Capturable(p) ==
    /\ \E i \in invoked : i[1] = p
    /\ receipt[p] = "billable" /\ statement[p] \notin {"over", "conflict"}
    /\ \/ Kind[p] = "fixed" \/ statement[p] = "ok"
       \/ \A c \in Calls : at[c] = p => ~Unheard(c)

CapturesJustified ==
    /\ \A p \in Prepared : Committed(p, "settle") => Capturable(p)
    /\ \A x \in Procs : pc[x] \in PayLabels /\ job[x] = "settle" => Capturable(at[x])

(* The store, the rail and the processes agree on who owns each decision,  *)
(* its key and its money, after every step.                                *)
Consistent ==
    /\ TypeOK /\ Control /\ Ownership /\ KeyOwnership
    /\ PaidOnly /\ Accounts /\ RailAgrees /\ PayersCommitted
    /\ Evidences /\ CallEvidence /\ CapturesJustified
=============================================================================
