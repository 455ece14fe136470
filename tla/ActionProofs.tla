---------------------------- MODULE ActionProofs ----------------------------
(***************************************************************************)
(* The safety of ActionExecution, for any number of calls, keys, decisions *)
(* and routes, any policy and any reported capacity.                       *)
(***************************************************************************)
EXTENDS ActionExecution, SumTheorems

(* Where a call is: on its way to a try, in one before and after its       *)
(* invocation, or about to finish.                                         *)
Choosing == {"next", "create"}
Admitting == {"look", "reserve", "reserved", "begin", "refused", "keyexec", "invoke"}
Running == {"executor", "validate", "receipt", "terminal", "decide"}
Trying == Admitting \cup Running
Begun == {"INVOKING", "VALIDATING", "SETTLING", "INDETERMINATE"} \cup Definite
Base(c) == IF c \in rerouted THEN MaxAttempts ELSE 0

(* The number of a try follows from the candidate it is about.             *)
Numbering ==
    \A c \in Calls :
        /\ serial[c] \in Base(c) .. Base(c) + MaxAttempts
        /\ pc[c] = "idle" => serial[c] = 0 /\ c \notin rerouted /\ num[c] = 1
        /\ pc[c] \in Choosing => serial[c] = Base(c) + num[c] - 1 /\ num[c] <= MaxAttempts
        /\ pc[c] \in Trying => serial[c] = Base(c) + num[c] /\ num[c] <= MaxAttempts

(* The attempt at hand is the one its call is working on.                  *)
StageOf(c) ==
    LET a == Current(c) IN
    /\ pc[c] \in Trying => via[a] = Route(c)
    /\ pc[c] \in {"look", "reserve"} =>
           attempt[a] = "CLAIMED" /\ hold[a] = "none" /\ Route(c) \in Managed
    /\ pc[c] = "reserved" => attempt[a] = "CLAIMED" /\ hold[a] \in {"none", "RESERVED"}
    /\ pc[c] = "begin" => attempt[a] = "RESERVED"
    /\ pc[c] = "refused" => \/ attempt[a] = "CLAIMED" /\ hold[a] \in {"none", "RELEASED"}
                            \/ attempt[a] = "RESERVED"
    /\ pc[c] \in {"keyexec", "invoke", "executor"} => attempt[a] \in {"INVOKING", "INDETERMINATE"}
    /\ pc[c] = "validate" => attempt[a] = "VALIDATING"
    /\ pc[c] \in {"receipt", "terminal"} => attempt[a] = "SETTLING"
    /\ pc[c] = "decide" => attempt[a] = TerminalState(a)
    /\ pc[c] \in {"terminal", "decide"} => a \in receipts

Stage ==
    /\ \A a \in Attempts : attempt[a] # "none" => a[2] <= serial[a[1]]
    /\ \A c \in Calls : StageOf(c)

(* The hold of an attempt in each of its states.                           *)
Holds ==
    \A a \in Attempts :
        /\ attempt[a] = "none" => hold[a] = "none"
        /\ attempt[a] = "CLAIMED" => hold[a] # "CLAIMED"
        /\ attempt[a] = "RESERVED" => hold[a] \in {"none", "RESERVED"}
        /\ attempt[a] \in Begun \ Definite => hold[a] \in {"none", "CLAIMED"}
        /\ attempt[a] \in Definite => hold[a] \in {"none", "RELEASED"}
        /\ hold[a] # "none" => via[a] \in Managed

(* An invocation that is over for good, and may be followed by another.    *)
Closed(a) ==
    /\ a \in receipts /\ attempt[a] \in Definite
    /\ via[a] \in Idempotent \/ AllowNonIdempotent
    /\ outcome[a] \in {"timeout", "unknown"} => RetryEligible(via[a])

(* A call comes to a further try only with its invocations closed.         *)
History ==
    \A a \in invoked :
        /\ attempt[a] \in Begun
        /\ a[2] < serial[a[1]] => Closed(a)
        /\ pc[a[1]] \in Choosing => Closed(a)
        /\ pc[a[1]] \in Admitting => a[2] < serial[a[1]]
        /\ pc[a[1]] # "idle"

(* A key belongs to one call from its claim on, and to the call that       *)
(* invoked under it for ever.                                              *)
Engaged(c) == pc[c] \notin {"idle", "done"}

(* Only a keyed call comes to the steps about the key.                     *)
KeyHolder ==
    \A c \in Calls :
        pc[c] \in {"keyexec", "complete", "except", "abandon"} => Keyed(c) /\ (pc[c] = "keyexec" => num[c] = 1)

KeyOwner ==
    /\ \A c, d \in Calls : Engaged(c) /\ Engaged(d) /\ Keyed(c) /\ KeyOf[c] = KeyOf[d] => c = d
    /\ \A a \in invoked : Keyed(a[1]) => key[KeyOf[a[1]]] \in {"executing", "complete", "indeterminate"}
    /\ \A a \in invoked, c \in Calls :
           Engaged(c) /\ Keyed(c) /\ KeyOf[c] = KeyOf[a[1]] => c = a[1]
    /\ \A a, b \in invoked : Keyed(a[1]) /\ KeyOf[a[1]] = KeyOf[b[1]] => a[1] = b[1]

KeyStage ==
    \A c \in Calls : Keyed(c) =>
        LET k == key[KeyOf[c]] IN
        /\ Engaged(c) => k \in {"claimed", "executing", "indeterminate"}
        /\ pc[c] \in {"next", "create", "look", "reserve", "reserved", "begin", "refused", "keyexec", "except"} =>
               k \in {"claimed", "executing"}
        /\ pc[c] \in Choosing \cup Trying /\ num[c] > 1 => k = "executing"
        /\ pc[c] \in {"invoke", "complete"} \cup Running => k = "executing"
        /\ pc[c] = "abandon" => k \in {"claimed", "indeterminate"}

(* What the record of a completed key will list.                           *)
KeyList ==
    \A a \in invoked : Keyed(a[1]) =>
        /\ \/ pc[a[1]] \in Choosing \cup Trying /\ num[a[1]] > 1
           \/ pc[a[1]] \in {"invoke", "complete"} \cup Running
           => (a[1] \in rerouted => a[2] > MaxAttempts)
        /\ pc[a[1]] = "complete" => a \in receipts
        /\ key[KeyOf[a[1]]] = "complete" => a \in Listed(a[1])

(* A task scope has one attempt that is not definitely over, and a failed  *)
(* write never is.                                                         *)
Scope ==
    /\ \A a, b \in Attempts :
           /\ a[1] \in Scoped /\ attempt[a] \notin Definite \cup {"none"}
           /\ b[1] \in Scoped /\ attempt[b] \notin Definite \cup {"none"}
           => a = b
    /\ \A a \in invoked :
           a[1] \in Scoped /\ attempt[a] \in Definite => via[a] \in Reads \/ outcome[a] \in Accepted

Pool == IsFiniteSet(Live) /\ CapacityRespected

Inv ==
    /\ TypeOK /\ Numbering /\ Stage /\ Holds /\ History /\ KeyHolder /\ KeyOwner /\ KeyStage /\ KeyList
    /\ Scope /\ Pool

-----------------------------------------------------------------------------
(* The attempt that a call works on exists.                                *)
LEMMA CurrentIn ==
    ASSUME TypeOK, Numbering, NEW c \in Calls, pc[c] \in Trying
    PROVE  /\ Current(c) \in Attempts /\ Current(c)[1] = c /\ Current(c)[2] = serial[c]
           /\ Route(c) \in Routes
<1>1. MaxAttempts \in Nat \ {0} /\ serial[c] \in Nat /\ num[c] \in Nat /\ num[c] >= 1
  BY CallAssumption DEF TypeOK
<1>2. serial[c] \in 1 .. 2 * MaxAttempts
  <2>1. serial[c] = Base(c) + num[c] /\ num[c] <= MaxAttempts
    BY DEF Numbering
  <2>2. Base(c) \in {0, MaxAttempts}
    BY DEF Base
  <2> QED
    BY <1>1, <2>1, <2>2
<1>3. order[c] \in Seq(Routes) /\ num[c] \in 1 .. Len(order[c])
  BY RouteAssumption DEF TypeOK
<1>4. Route(c) \in Routes
  BY <1>3 DEF Route
<1> QED
  BY <1>2, <1>4 DEF Current, Attempts

(* So does the one it creates next.                                        *)
LEMMA NextIn ==
    ASSUME TypeOK, Numbering, NEW c \in Calls, pc[c] \in Choosing
    PROVE  /\ <<c, serial[c] + 1>> \in Attempts /\ serial[c] \in Nat
           /\ Route(c) \in Routes
<1>1. MaxAttempts \in Nat \ {0} /\ serial[c] \in Nat /\ num[c] \in Nat /\ num[c] >= 1
  BY CallAssumption DEF TypeOK
<1>2. serial[c] + 1 \in 1 .. 2 * MaxAttempts
  <2>1. serial[c] = Base(c) + num[c] - 1 /\ num[c] <= MaxAttempts
    BY DEF Numbering
  <2>2. Base(c) \in {0, MaxAttempts}
    BY DEF Base
  <2> QED
    BY <1>1, <2>1, <2>2
<1>3. order[c] \in Seq(Routes) /\ num[c] \in 1 .. Len(order[c])
  BY RouteAssumption DEF TypeOK
<1>4. Route(c) \in Routes
  BY <1>3 DEF Route
<1> QED
  BY <1>1, <1>2, <1>4 DEF Attempts

-----------------------------------------------------------------------------
(***************************************************************************)
(* The steps, by what they do to keys, attempts, holds and histories.      *)
(***************************************************************************)
attV == <<attempt, via, receipts>>
holdV == <<hold, lapsed>>
numV == <<order, num, serial, rerouted>>
hisV == <<outcome, invoked>>

Ends(c, l) == l = "done" \/ (l = "except" /\ Keyed(c))

Claims(c) ==
    /\ pc[c] = "idle" /\ pc' = [pc EXCEPT ![c] = "next"]
    /\ \/ ~Keyed(c) /\ UNCHANGED key
       \/ Keyed(c) /\ key[KeyOf[c]] = "absent" /\ key' = [key EXCEPT ![KeyOf[c]] = "claimed"]
    /\ UNCHANGED <<attV, holdV, numV, hisV>>

Stops(c) ==
    /\ \/ pc[c] # "done" /\ pc' = [pc EXCEPT ![c] = "done"]
       \/ pc[c] \in Choosing \cup Trying /\ Keyed(c) /\ pc' = [pc EXCEPT ![c] = "except"]
    /\ UNCHANGED <<key, attV, holdV, numV, hisV>>

Records(c) ==
    /\ Keyed(c)
    /\ \/ /\ pc[c] = "complete" /\ pc' = [pc EXCEPT ![c] = "done"]
          /\ key' = [key EXCEPT ![KeyOf[c]] = IF @ \in {"claimed", "executing"} THEN "complete" ELSE @]
       \/ /\ pc[c] = "except" /\ pc' = [pc EXCEPT ![c] = "abandon"]
          /\ key' = [key EXCEPT ![KeyOf[c]] = IF @ = "executing" THEN "indeterminate" ELSE @]
       \/ /\ pc[c] = "abandon" /\ pc' = [pc EXCEPT ![c] = "done"]
          /\ key' = [key EXCEPT ![KeyOf[c]] = IF @ = "claimed" THEN "absent" ELSE @]
    /\ UNCHANGED <<attV, holdV, numV, hisV>>

Passes(c) ==
    /\ \/ pc[c] = "next" /\ pc' = [pc EXCEPT ![c] = "create"]
       \/ pc[c] = "look" /\ pc' = [pc EXCEPT ![c] = "reserve"]
       \/ pc[c] = "reserve" /\ pc' = [pc EXCEPT ![c] = "reserved"]
       \/ pc[c] = "reserve" /\ pc' = [pc EXCEPT ![c] = "refused"]
       \/ pc[c] = "begin" /\ pc' = [pc EXCEPT ![c] = "refused"]
    /\ UNCHANGED <<key, attV, holdV, numV, hisV>>

Reroutes(c) ==
    /\ pc[c] = "next" /\ c \notin rerouted
    /\ rerouted' = rerouted \cup {c}
    /\ \E s \in Orders : order' = [order EXCEPT ![c] = s]
    /\ num' = [num EXCEPT ![c] = 1]
    /\ serial' = [serial EXCEPT ![c] = MaxAttempts]
    /\ UNCHANGED <<pc, key, attV, holdV, hisV>>

Creates(c) ==
    /\ pc[c] \in Choosing /\ ScopeAdmits(c)
    /\ serial' = [serial EXCEPT ![c] = @ + 1]
    /\ via' = [via EXCEPT ![<<c, serial[c] + 1>>] = Route(c)]
    /\ attempt' = [attempt EXCEPT ![<<c, serial[c] + 1>>] = "CLAIMED"]
    /\ \/ Route(c) \in Managed /\ pc' = [pc EXCEPT ![c] = "look"]
       \/ pc' = [pc EXCEPT ![c] = "reserved"]
    /\ UNCHANGED <<key, receipts, holdV, order, num, rerouted, hisV>>

Reserves(c) ==
    /\ pc[c] = "reserve" /\ pc' = [pc EXCEPT ![c] = "reserved"]
    /\ known[c] \in 0 .. Capacity /\ Held + Cost[Route(c)] <= known[c]
    /\ hold' = [hold EXCEPT ![Current(c)] = "RESERVED"]
    /\ UNCHANGED <<key, attV, lapsed, numV, hisV>>

Binds(c) ==
    /\ pc[c] = "reserved" /\ pc' = [pc EXCEPT ![c] = "begin"]
    /\ HoldUsable(Current(c))
    /\ attempt' = [attempt EXCEPT ![Current(c)] = "RESERVED"]
    /\ UNCHANGED <<key, via, receipts, holdV, numV, hisV>>

GivesBack(c) ==
    /\ pc[c] = "reserved" /\ pc' = [pc EXCEPT ![c] = "refused"]
    /\ ~HoldUsable(Current(c))
    /\ hold' = [hold EXCEPT ![Current(c)] = "RELEASED"]
    /\ UNCHANGED <<key, attV, lapsed, numV, hisV>>

Begins(c) ==
    /\ pc[c] = "begin" /\ HoldUsable(Current(c))
    /\ attempt' = [attempt EXCEPT ![Current(c)] = "INVOKING"]
    /\ hold' = [hold EXCEPT ![Current(c)] = IF @ = "RESERVED" THEN "CLAIMED" ELSE @]
    /\ \/ Keyed(c) /\ num[c] = 1 /\ pc' = [pc EXCEPT ![c] = "keyexec"]
       \/ ~(Keyed(c) /\ num[c] = 1) /\ pc' = [pc EXCEPT ![c] = "invoke"]
    /\ UNCHANGED <<key, via, receipts, lapsed, numV, hisV>>

Fails(c) ==
    /\ pc[c] = "refused"
    /\ attempt' = [attempt EXCEPT ![Current(c)] = "FAILED"]
    /\ \/ attempt[Current(c)] = "RESERVED" /\ Release(Current(c))
       \/ attempt[Current(c)] # "RESERVED" /\ UNCHANGED hold
    /\ \E l \in {"done", "except"} : Ends(c, l) /\ pc' = [pc EXCEPT ![c] = l]
    /\ UNCHANGED <<key, via, receipts, lapsed, numV, hisV>>

Opens(c) ==
    /\ pc[c] = "keyexec" /\ key[KeyOf[c]] = "claimed"
    /\ key' = [key EXCEPT ![KeyOf[c]] = "executing"]
    /\ pc' = [pc EXCEPT ![c] = "invoke"]
    /\ UNCHANGED <<attV, holdV, numV, hisV>>

Invokes(c) ==
    /\ pc[c] = "invoke" /\ pc' = [pc EXCEPT ![c] = "executor"]
    /\ invoked' = invoked \cup {Current(c)}
    /\ UNCHANGED <<key, attV, holdV, numV, outcome>>

Loses(c) ==
    /\ pc[c] \in {"invoke", "executor"} /\ attempt[Current(c)] = "INVOKING"
    /\ attempt' = [attempt EXCEPT ![Current(c)] = "INDETERMINATE"]
    /\ \E l \in {"done", "except"} : Ends(c, l) /\ pc' = [pc EXCEPT ![c] = l]
    /\ UNCHANGED <<key, via, receipts, holdV, numV, hisV>>

Returns(c) ==
    /\ pc[c] = "executor" /\ attempt[Current(c)] = "INVOKING"
    /\ \E s \in Statuses : outcome' = [outcome EXCEPT ![Current(c)] = s]
    /\ attempt' = [attempt EXCEPT ![Current(c)] = "VALIDATING"]
    /\ pc' = [pc EXCEPT ![c] = "validate"]
    /\ UNCHANGED <<key, via, receipts, holdV, numV, invoked>>

ReturnsLate(c) ==
    /\ pc[c] = "executor" /\ attempt[Current(c)] # "INVOKING"
    /\ \E s \in Statuses : outcome' = [outcome EXCEPT ![Current(c)] = s]
    /\ \E l \in {"done", "except"} : Ends(c, l) /\ pc' = [pc EXCEPT ![c] = l]
    /\ UNCHANGED <<key, attV, holdV, numV, invoked>>

Settles(c) ==
    /\ pc[c] = "validate" /\ pc' = [pc EXCEPT ![c] = "receipt"]
    /\ attempt' = [attempt EXCEPT ![Current(c)] = "SETTLING"]
    /\ UNCHANGED <<key, via, receipts, holdV, numV, hisV>>

Saves(c) ==
    /\ pc[c] = "receipt" /\ pc' = [pc EXCEPT ![c] = "terminal"]
    /\ receipts' = receipts \cup {Current(c)}
    /\ UNCHANGED <<key, attempt, via, holdV, numV, hisV>>

Terminates(c) ==
    /\ pc[c] = "terminal" /\ pc' = [pc EXCEPT ![c] = "decide"]
    /\ attempt' = [attempt EXCEPT ![Current(c)] = TerminalState(Current(c))]
    /\ \/ TerminalState(Current(c)) \in Definite /\ Release(Current(c))
       \/ TerminalState(Current(c)) \notin Definite /\ UNCHANGED hold
    /\ UNCHANGED <<key, via, receipts, lapsed, numV, hisV>>

Finishes(c) ==
    /\ pc[c] = "decide"
    /\ \/ Keyed(c) /\ pc' = [pc EXCEPT ![c] = "complete"]
       \/ ~Keyed(c) /\ pc' = [pc EXCEPT ![c] = "done"]
    /\ UNCHANGED <<key, attV, holdV, numV, hisV>>

FallsBack(c) ==
    /\ pc[c] = "decide" /\ pc' = [pc EXCEPT ![c] = "next"]
    /\ outcome[Current(c)] \notin Accepted /\ attempt[Current(c)] # "INDETERMINATE"
    /\ CanFallback(Current(c)) /\ num[c] < Tries(c)
    /\ num' = [num EXCEPT ![c] = @ + 1]
    /\ UNCHANGED <<key, attV, holdV, order, serial, rerouted, hisV>>

Expires(a) ==
    /\ lapsed' = lapsed \cup {a}
    /\ UNCHANGED <<pc, key, attV, hold, numV, hisV>>

Recovers(a) ==
    /\ attempt[a] = "INVOKING"
    /\ attempt' = [attempt EXCEPT ![a] = "INDETERMINATE"]
    /\ UNCHANGED <<pc, key, via, receipts, holdV, numV, hisV>>

Rests == UNCHANGED <<pc, key, attV, holdV, numV, hisV>>

Kinds ==
    \/ \E c \in Calls :
           \/ Claims(c) \/ Stops(c) \/ Records(c) \/ Passes(c) \/ Reroutes(c) \/ Creates(c)
           \/ Reserves(c) \/ Binds(c) \/ GivesBack(c) \/ Begins(c) \/ Fails(c) \/ Opens(c)
           \/ Invokes(c) \/ Loses(c) \/ Returns(c) \/ ReturnsLate(c) \/ Settles(c) \/ Saves(c)
           \/ Terminates(c) \/ Finishes(c) \/ FallsBack(c)
    \/ \E a \in Attempts : Expires(a) \/ Recovers(a)
    \/ Rests

(* Every step is of one of these kinds.                                    *)
LEMMA StepKinds ==
    ASSUME TypeOK, KeyHolder, [Next]_vars
    PROVE  Kinds
<1>0. \A c \in Calls : pc[c] \in {"complete", "except", "abandon"} => Keyed(c)
  BY DEF KeyHolder
<1>1. \A c \in Calls : known[c] # None => known[c] \in 0 .. Capacity
  BY DEF TypeOK
<1>2. ASSUME NEW c \in Calls, ClaimKey(c) PROVE Kinds
  <2>1. CASE ~Keyed(c)
    <3>1. Claims(c)
      BY <1>2, <2>1 DEF ClaimKey, Claims, attV, holdV, numV, hisV, attemptVars, capacityVars, callVars, historyVars, Goto
    <3> QED
      BY <3>1 DEF Kinds
  <2>2. CASE Keyed(c) /\ key[KeyOf[c]] = "absent"
    <3>1. Claims(c)
      BY <1>2, <2>2 DEF ClaimKey, Claims, attV, holdV, numV, hisV, attemptVars, capacityVars, callVars, historyVars, Goto
    <3> QED
      BY <3>1 DEF Kinds
  <2>3. CASE Keyed(c) /\ key[KeyOf[c]] # "absent"
    <3>1. Stops(c)
      BY <1>2, <2>3 DEF ClaimKey, Stops, attV, holdV, numV, hisV, attemptVars, capacityVars, callVars, historyVars, Goto
    <3> QED
      BY <3>1 DEF Kinds
  <2> QED
    BY <2>1, <2>2, <2>3 DEF ClaimKey
<1>3. ASSUME NEW c \in Calls, CompleteKey(c) PROVE Kinds
  <2>1. Records(c)
    BY <1>3, <1>0 DEF CompleteKey, Records, attV, holdV, numV, hisV, attemptVars, capacityVars, callVars, historyVars, Goto
  <2> QED
    BY <2>1 DEF Kinds
<1>4. ASSUME NEW c \in Calls, UncertainKey(c) PROVE Kinds
  <2>1. Records(c)
    BY <1>4, <1>0 DEF UncertainKey, Records, attV, holdV, numV, hisV, attemptVars, capacityVars, callVars, historyVars, Goto
  <2> QED
    BY <2>1 DEF Kinds
<1>5. ASSUME NEW c \in Calls, AbandonKey(c) PROVE Kinds
  <2>1. Records(c)
    BY <1>5, <1>0 DEF AbandonKey, Records, attV, holdV, numV, hisV, attemptVars, capacityVars, callVars, historyVars, Goto
  <2> QED
    BY <2>1 DEF Kinds
<1>6. ASSUME NEW c \in Calls, Snapshot(c) PROVE Kinds
  <2>1. CASE Goto(c, "create") /\ UNCHANGED callVars
    <3>1. Passes(c)
      BY <1>6, <2>1 DEF Snapshot, Passes, attV, holdV, numV, hisV, attemptVars, capacityVars, callVars, historyVars, Goto
    <3> QED
      BY <3>1 DEF Kinds
  <2>2. CASE ~(Goto(c, "create") /\ UNCHANGED callVars)
    <3>1. Reroutes(c)
      BY <1>6, <2>2 DEF Snapshot, Reroutes, attV, holdV, numV, hisV, attemptVars, capacityVars, callVars, historyVars, Goto
    <3> QED
      BY <3>1 DEF Kinds
  <2> QED
    BY <2>1, <2>2
<1>7. ASSUME NEW c \in Calls, RouteRefused(c) PROVE Kinds
  <2>1. Stops(c)
    BY <1>7 DEF RouteRefused, Stops, attV, holdV, numV, hisV, attemptVars, capacityVars, callVars, historyVars, Goto, Raise, Keyed, Ends, Choosing, Trying, Admitting, Running
  <2> QED
    BY <2>1 DEF Kinds
<1>8. ASSUME NEW c \in Calls, CreateAttempt(c) PROVE Kinds
  <2> DEFINE a == <<c, serial[c] + 1>>
  <2>1. CASE ScopeAdmits(c) /\ ~Unresolved(Decision(a))
    <3>1. Creates(c)
      BY <1>8, <2>1 DEF CreateAttempt, Creates, Move, Choosing, attV, holdV, numV, hisV, attemptVars, capacityVars, callVars, historyVars, Goto
    <3> QED
      BY <3>1 DEF Kinds
  <2>2. CASE ~(ScopeAdmits(c) /\ ~Unresolved(Decision(a)))
    <3>1. Stops(c)
      BY <1>8, <2>2 DEF CreateAttempt, Stops, attV, holdV, numV, hisV, attemptVars, capacityVars, callVars, historyVars, Goto, Raise, Keyed, Ends, Choosing, Trying, Admitting, Running
    <3> QED
      BY <3>1 DEF Kinds
  <2> QED
    BY <2>1, <2>2
<1>9. ASSUME NEW c \in Calls, LookCapacity(c) PROVE Kinds
  <2>1. Passes(c)
    BY <1>9 DEF LookCapacity, Passes, attV, holdV, numV, hisV, attemptVars, capacityVars, callVars, historyVars, Goto
  <2> QED
    BY <2>1 DEF Kinds
<1>10. ASSUME NEW c \in Calls, ReserveCapacity(c) PROVE Kinds
  <2>1. CASE known[c] = None
    <3>1. Passes(c)
      BY <1>10, <2>1 DEF ReserveCapacity, Passes, attV, holdV, numV, hisV, attemptVars, capacityVars, callVars, historyVars, Goto
    <3> QED
      BY <3>1 DEF Kinds
  <2>2. CASE known[c] # None /\ Held + Cost[Route(c)] <= known[c]
    <3>1. Reserves(c)
      BY <1>10, <2>2, <1>1 DEF ReserveCapacity, Reserves, attV, holdV, numV, hisV, attemptVars, capacityVars, callVars, historyVars, Goto
    <3> QED
      BY <3>1 DEF Kinds
  <2>3. CASE known[c] # None /\ ~(Held + Cost[Route(c)] <= known[c])
    <3>1. Passes(c)
      BY <1>10, <2>3 DEF ReserveCapacity, Passes, attV, holdV, numV, hisV, attemptVars, capacityVars, callVars, historyVars, Goto
    <3> QED
      BY <3>1 DEF Kinds
  <2> QED
    BY <2>1, <2>2, <2>3 DEF ReserveCapacity
<1>11. ASSUME NEW c \in Calls, AttemptReserved(c) PROVE Kinds
  <2>1. CASE HoldUsable(Current(c))
    <3>1. Binds(c)
      BY <1>11, <2>1 DEF AttemptReserved, Binds, attV, holdV, numV, hisV, attemptVars, capacityVars, callVars, historyVars, Goto, Move
    <3> QED
      BY <3>1 DEF Kinds
  <2>2. CASE ~HoldUsable(Current(c))
    <3>1. GivesBack(c)
      BY <1>11, <2>2 DEF AttemptReserved, GivesBack, attV, holdV, numV, hisV, attemptVars, capacityVars, callVars, historyVars, Goto
    <3> QED
      BY <3>1 DEF Kinds
  <2> QED
    BY <2>1, <2>2 DEF AttemptReserved
<1>12. ASSUME NEW c \in Calls, Begin(c) PROVE Kinds
  <2>1. CASE HoldUsable(Current(c))
    <3>1. Begins(c)
      BY <1>12, <2>1 DEF Begin, Begins, attV, holdV, numV, hisV, attemptVars, capacityVars, callVars, historyVars, Goto, Move
    <3> QED
      BY <3>1 DEF Kinds
  <2>2. CASE ~HoldUsable(Current(c))
    <3>1. Passes(c)
      BY <1>12, <2>2 DEF Begin, Passes, attV, holdV, numV, hisV, attemptVars, capacityVars, callVars, historyVars, Goto
    <3> QED
      BY <3>1 DEF Kinds
  <2> QED
    BY <2>1, <2>2 DEF Begin
<1>13. ASSUME NEW c \in Calls, AdmissionFailed(c) PROVE Kinds
  <2>1. Fails(c)
    BY <1>13 DEF AdmissionFailed, Fails, attV, holdV, numV, hisV, attemptVars, capacityVars, callVars, historyVars, Goto, Raise, Keyed, Ends, Choosing, Trying, Admitting, Running, Move
  <2> QED
    BY <2>1 DEF Kinds
<1>14. ASSUME NEW c \in Calls, KeyExecuting(c) PROVE Kinds
  <2>1. CASE key[KeyOf[c]] = "claimed"
    <3>1. Opens(c)
      BY <1>14, <2>1 DEF KeyExecuting, Opens, attV, holdV, numV, hisV, attemptVars, capacityVars, callVars, historyVars, Goto
    <3> QED
      BY <3>1 DEF Kinds
  <2>2. CASE key[KeyOf[c]] # "claimed"
    <3>1. Stops(c)
      BY <1>14, <2>2 DEF KeyExecuting, Stops, attV, holdV, numV, hisV, attemptVars, capacityVars, callVars, historyVars, Goto, Raise, Keyed, Ends, Choosing, Trying, Admitting, Running
    <3> QED
      BY <3>1 DEF Kinds
  <2> QED
    BY <2>1, <2>2 DEF KeyExecuting
<1>15. ASSUME NEW c \in Calls, Invoke(c) PROVE Kinds
  <2>1. Invokes(c)
    BY <1>15 DEF Invoke, Invokes, attV, holdV, numV, hisV, attemptVars, capacityVars, callVars, historyVars, Goto
  <2> QED
    BY <2>1 DEF Kinds
<1>16. ASSUME NEW c \in Calls, InvokeRaises(c) PROVE Kinds
  <2>1. CASE attempt[Current(c)] = "INVOKING"
    <3>1. Loses(c)
      BY <1>16, <2>1 DEF InvokeRaises, Loses, attV, holdV, numV, hisV, attemptVars, capacityVars, callVars, historyVars, Goto, Raise, Keyed, Ends, Choosing, Trying, Admitting, Running, Move
    <3> QED
      BY <3>1 DEF Kinds
  <2>2. CASE attempt[Current(c)] # "INVOKING"
    <3>1. Stops(c)
      BY <1>16, <2>2 DEF InvokeRaises, Stops, attV, holdV, numV, hisV, attemptVars, capacityVars, callVars, historyVars, Goto, Raise, Keyed, Ends, Choosing, Trying, Admitting, Running
    <3> QED
      BY <3>1 DEF Kinds
  <2> QED
    BY <2>1, <2>2 DEF InvokeRaises
<1>17. ASSUME NEW c \in Calls, Return(c) PROVE Kinds
  <2>1. CASE attempt[Current(c)] = "INVOKING"
    <3>1. Returns(c)
      BY <1>17, <2>1 DEF Return, Returns, attV, holdV, numV, hisV, attemptVars, capacityVars, callVars, historyVars, Goto, Move
    <3> QED
      BY <3>1 DEF Kinds
  <2>2. CASE attempt[Current(c)] # "INVOKING"
    <3>1. ReturnsLate(c)
      BY <1>17, <2>2 DEF Return, ReturnsLate, attV, holdV, numV, hisV, attemptVars, capacityVars, callVars, historyVars, Goto, Raise, Keyed, Ends, Choosing, Trying, Admitting, Running
    <3> QED
      BY <3>1 DEF Kinds
  <2> QED
    BY <2>1, <2>2 DEF Return
<1>18. ASSUME NEW c \in Calls, Settle(c) PROVE Kinds
  <2>1. Settles(c)
    BY <1>18 DEF Settle, Settles, attV, holdV, numV, hisV, attemptVars, capacityVars, callVars, historyVars, Goto, Move
  <2> QED
    BY <2>1 DEF Kinds
<1>19. ASSUME NEW c \in Calls, SettleRaises(c) PROVE Kinds
  <2>1. Stops(c)
    BY <1>19 DEF SettleRaises, Stops, attV, holdV, numV, hisV, attemptVars, capacityVars, callVars, historyVars, Goto, Raise, Keyed, Ends, Choosing, Trying, Admitting, Running
  <2> QED
    BY <2>1 DEF Kinds
<1>20. ASSUME NEW c \in Calls, SaveReceipt(c) PROVE Kinds
  <2>1. Saves(c)
    BY <1>20 DEF SaveReceipt, Saves, attV, holdV, numV, hisV, attemptVars, capacityVars, callVars, historyVars, Goto
  <2> QED
    BY <2>1 DEF Kinds
<1>21. ASSUME NEW c \in Calls, Terminal(c) PROVE Kinds
  <2>1. CASE TerminalState(Current(c)) \in Definite
    <3>1. Terminates(c)
      BY <1>21, <2>1 DEF Terminal, Terminates, attV, holdV, numV, hisV, attemptVars, capacityVars, callVars, historyVars, Goto, Move
    <3> QED
      BY <3>1 DEF Kinds
  <2>2. CASE TerminalState(Current(c)) \notin Definite
    <3>1. Terminates(c)
      BY <1>21, <2>2 DEF Terminal, Terminates, attV, holdV, numV, hisV, attemptVars, capacityVars, callVars, historyVars, Goto, Move
    <3> QED
      BY <3>1 DEF Kinds
  <2> QED
    BY <2>1, <2>2 DEF Terminal
<1>22. ASSUME NEW c \in Calls, Decide(c) PROVE Kinds
  <2>1. CASE Finish(c) /\ UNCHANGED num
    <3>1. Finishes(c)
      BY <1>22, <2>1 DEF Decide, Finishes, Finish, attV, holdV, numV, hisV, attemptVars, capacityVars, callVars, historyVars, Goto
    <3> QED
      BY <3>1 DEF Kinds
  <2>2. CASE ~(Finish(c) /\ UNCHANGED num)
    <3>1. num[c] \in Nat /\ Tries(c) \in Nat
      BY CallAssumption, RouteAssumption DEF TypeOK, Tries
    <3>2. FallsBack(c)
      BY <1>22, <2>2, <3>1 DEF Decide, FallsBack, attV, holdV, numV, hisV, attemptVars, capacityVars, callVars, historyVars, Goto
    <3> QED
      BY <3>2 DEF Kinds
  <2> QED
    BY <2>1, <2>2
<1>23. ASSUME NEW c \in Calls, Crash(c) PROVE Kinds
  <2>1. Stops(c)
    BY <1>23 DEF Crash, Stops, attV, holdV, numV, hisV, attemptVars, capacityVars, callVars, historyVars, Goto
  <2> QED
    BY <2>1 DEF Kinds
<1>24. ASSUME NEW a \in Attempts, Lapse(a) PROVE Kinds
  <2>1. Expires(a)
    BY <1>24 DEF Lapse, Expires, attV, holdV, numV, hisV, attemptVars, capacityVars, callVars, historyVars, Goto
  <2> QED
    BY <2>1 DEF Kinds
<1>25. ASSUME NEW a \in Attempts, RecoverAfterLease(a) PROVE Kinds
  <2>1. Recovers(a)
    BY <1>25 DEF RecoverAfterLease, Recovers, Move, attV, holdV, numV, hisV, attemptVars, capacityVars, callVars, historyVars, Goto
  <2> QED
    BY <2>1 DEF Kinds
<1>26. CASE UNCHANGED vars
  BY <1>26 DEF vars, Kinds, Rests, attV, holdV, numV, hisV, attemptVars, capacityVars, callVars, historyVars, Goto
<1> QED
  BY <1>2, <1>3, <1>4, <1>5, <1>6, <1>7, <1>8, <1>9, <1>10, <1>11, <1>12, <1>13, <1>14, <1>15, <1>16, <1>17, <1>18, <1>19, <1>20, <1>21, <1>22, <1>23, <1>24, <1>25, <1>26 DEF Next, KeySteps, Admission, Invocation

-----------------------------------------------------------------------------
(* The types of the tracked variables, and of the rest.                    *)
AttemptTypes ==
    /\ key \in [Keys -> {"absent", "claimed", "executing", "complete", "indeterminate"}]
    /\ attempt \in [Attempts -> {"none", "CLAIMED", "RESERVED", "INVOKING", "VALIDATING",
                                 "SETTLING", "INDETERMINATE"} \cup Definite]
    /\ via \in [Attempts -> Routes \cup {None}]
    /\ hold \in [Attempts -> {"none", "RESERVED", "CLAIMED", "RELEASED"}]
    /\ outcome \in [Attempts -> Statuses \cup {"none"}]
    /\ receipts \subseteq Attempts /\ lapsed \subseteq Attempts /\ invoked \subseteq Attempts

CallTypes ==
    /\ order \in [Calls -> Orders] /\ num \in [Calls -> Nat]
    /\ \A c \in Calls : num[c] \in 1 .. Len(order[c])
    /\ serial \in [Calls -> 0 .. 2 * MaxAttempts]
    /\ rerouted \subseteq Calls

SideTypes ==
    /\ latest \in [Decisions \cup Calls -> Attempts \cup {None}]
    /\ observed \in (0 .. Capacity) \cup {None}
    /\ known \in [Calls -> (0 .. Capacity) \cup {None}]

(* Every step keeps the types of keys, attempts and holds.                 *)
LEMMA AttemptTypesStep ==
    ASSUME TypeOK, Numbering, Kinds
    PROVE  AttemptTypes'
<1> USE DEF AttemptTypes, TypeOK, attV, holdV, numV, hisV, Choosing, Admitting, Running, Trying
<1>c. \A c \in Calls : pc[c] \in Trying => Current(c) \in Attempts /\ Route(c) \in Routes
  BY CurrentIn
<1>n. \A c \in Calls : pc[c] \in Choosing => <<c, serial[c] + 1>> \in Attempts /\ Route(c) \in Routes
  BY NextIn
<1>1. ASSUME NEW c \in Calls, Claims(c) PROVE AttemptTypes'
  BY <1>1, <1>c, <1>n DEF Claims
<1>2. ASSUME NEW c \in Calls, Stops(c) PROVE AttemptTypes'
  BY <1>2, <1>c, <1>n DEF Stops
<1>3. ASSUME NEW c \in Calls, Records(c) PROVE AttemptTypes'
  <2>1. KeyOf[c] \in Keys
    BY <1>3, CallAssumption DEF Records, Keyed
  <2>2. \E l \in {"absent", "claimed", "executing", "complete", "indeterminate"} : key' = [key EXCEPT ![KeyOf[c]] = l]
    BY <1>3, <2>1 DEF Records
  <2>3. UNCHANGED <<attV, holdV, numV, hisV>>
    BY <1>3 DEF Records
  <2> QED
    BY <2>2, <2>3
<1>4. ASSUME NEW c \in Calls, Passes(c) PROVE AttemptTypes'
  BY <1>4, <1>c, <1>n DEF Passes
<1>5. ASSUME NEW c \in Calls, Reroutes(c) PROVE AttemptTypes'
  BY <1>5, <1>c, <1>n DEF Reroutes
<1>6. ASSUME NEW c \in Calls, Creates(c) PROVE AttemptTypes'
  BY <1>6, <1>c, <1>n DEF Creates
<1>7. ASSUME NEW c \in Calls, Reserves(c) PROVE AttemptTypes'
  BY <1>7, <1>c, <1>n DEF Reserves
<1>8. ASSUME NEW c \in Calls, Binds(c) PROVE AttemptTypes'
  BY <1>8, <1>c, <1>n DEF Binds
<1>9. ASSUME NEW c \in Calls, GivesBack(c) PROVE AttemptTypes'
  BY <1>9, <1>c, <1>n DEF GivesBack
<1>10. ASSUME NEW c \in Calls, Begins(c) PROVE AttemptTypes'
  BY <1>10, <1>c, <1>n DEF Begins
<1>11. ASSUME NEW c \in Calls, Fails(c) PROVE AttemptTypes'
  <2>1. attempt' \in [Attempts -> {"none", "CLAIMED", "RESERVED", "INVOKING", "VALIDATING",
                                   "SETTLING", "INDETERMINATE"} \cup Definite]
    BY <1>11 DEF Fails, Definite
  <2>2. hold' \in [Attempts -> {"none", "RESERVED", "CLAIMED", "RELEASED"}]
    BY <1>11 DEF Fails, Release
  <2> QED
    BY <1>11, <2>1, <2>2 DEF Fails
<1>12. ASSUME NEW c \in Calls, Opens(c) PROVE AttemptTypes'
  BY <1>12, <1>c, <1>n DEF Opens
<1>13. ASSUME NEW c \in Calls, Invokes(c) PROVE AttemptTypes'
  BY <1>13, <1>c, <1>n DEF Invokes
<1>14. ASSUME NEW c \in Calls, Loses(c) PROVE AttemptTypes'
  BY <1>14, <1>c, <1>n DEF Loses
<1>15. ASSUME NEW c \in Calls, Returns(c) PROVE AttemptTypes'
  BY <1>15, <1>c, <1>n DEF Returns
<1>16. ASSUME NEW c \in Calls, ReturnsLate(c) PROVE AttemptTypes'
  BY <1>16, <1>c, <1>n DEF ReturnsLate
<1>17. ASSUME NEW c \in Calls, Settles(c) PROVE AttemptTypes'
  BY <1>17, <1>c, <1>n DEF Settles
<1>18. ASSUME NEW c \in Calls, Saves(c) PROVE AttemptTypes'
  BY <1>18, <1>c, <1>n DEF Saves
<1>19. ASSUME NEW c \in Calls, Terminates(c) PROVE AttemptTypes'
  BY <1>19, <1>c, <1>n DEF Terminates, Release, TerminalState, Definite
<1>20. ASSUME NEW c \in Calls, Finishes(c) PROVE AttemptTypes'
  BY <1>20, <1>c, <1>n DEF Finishes
<1>21. ASSUME NEW c \in Calls, FallsBack(c) PROVE AttemptTypes'
  BY <1>21, <1>c, <1>n DEF FallsBack
<1>22. ASSUME NEW a \in Attempts, Expires(a) PROVE AttemptTypes'
  BY <1>22, <1>c, <1>n DEF Expires
<1>23. ASSUME NEW a \in Attempts, Recovers(a) PROVE AttemptTypes'
  BY <1>23, <1>c, <1>n DEF Recovers
<1>24. ASSUME Rests PROVE AttemptTypes'
  BY <1>24, <1>c, <1>n DEF Rests
<1> QED
  BY <1>1, <1>2, <1>3, <1>4, <1>5, <1>6, <1>7, <1>8, <1>9, <1>10, <1>11, <1>12, <1>13, <1>14, <1>15, <1>16, <1>17, <1>18, <1>19, <1>20, <1>21, <1>22, <1>23, <1>24 DEF Kinds

(* Every step moves a call to another of its steps.                        *)
LEMMA LabelsStep ==
    ASSUME TypeOK, Kinds
    PROVE  pc' \in [Calls -> Labels]
<1>1. ASSUME NEW c \in Calls, Claims(c) PROVE pc' \in [Calls -> Labels]
  <2>1. \E l \in Labels : pc' = [pc EXCEPT ![c] = l]
    BY <1>1 DEF Claims, Labels
  <2> QED
    BY <2>1 DEF TypeOK
<1>2. ASSUME NEW c \in Calls, Stops(c) PROVE pc' \in [Calls -> Labels]
  <2>1. \E l \in Labels : pc' = [pc EXCEPT ![c] = l]
    BY <1>2 DEF Stops, Labels
  <2> QED
    BY <2>1 DEF TypeOK
<1>3. ASSUME NEW c \in Calls, Records(c) PROVE pc' \in [Calls -> Labels]
  <2>1. \E l \in Labels : pc' = [pc EXCEPT ![c] = l]
    BY <1>3 DEF Records, Labels
  <2> QED
    BY <2>1 DEF TypeOK
<1>4. ASSUME NEW c \in Calls, Passes(c) PROVE pc' \in [Calls -> Labels]
  <2>1. \E l \in Labels : pc' = [pc EXCEPT ![c] = l]
    BY <1>4 DEF Passes, Labels
  <2> QED
    BY <2>1 DEF TypeOK
<1>5. ASSUME NEW c \in Calls, Reroutes(c) PROVE pc' \in [Calls -> Labels]
  BY <1>5 DEF Reroutes, TypeOK
<1>6. ASSUME NEW c \in Calls, Creates(c) PROVE pc' \in [Calls -> Labels]
  <2>1. \E l \in Labels : pc' = [pc EXCEPT ![c] = l]
    BY <1>6 DEF Creates, Labels
  <2> QED
    BY <2>1 DEF TypeOK
<1>7. ASSUME NEW c \in Calls, Reserves(c) PROVE pc' \in [Calls -> Labels]
  <2>1. \E l \in Labels : pc' = [pc EXCEPT ![c] = l]
    BY <1>7 DEF Reserves, Labels
  <2> QED
    BY <2>1 DEF TypeOK
<1>8. ASSUME NEW c \in Calls, Binds(c) PROVE pc' \in [Calls -> Labels]
  <2>1. \E l \in Labels : pc' = [pc EXCEPT ![c] = l]
    BY <1>8 DEF Binds, Labels
  <2> QED
    BY <2>1 DEF TypeOK
<1>9. ASSUME NEW c \in Calls, GivesBack(c) PROVE pc' \in [Calls -> Labels]
  <2>1. \E l \in Labels : pc' = [pc EXCEPT ![c] = l]
    BY <1>9 DEF GivesBack, Labels
  <2> QED
    BY <2>1 DEF TypeOK
<1>10. ASSUME NEW c \in Calls, Begins(c) PROVE pc' \in [Calls -> Labels]
  <2>1. \E l \in Labels : pc' = [pc EXCEPT ![c] = l]
    BY <1>10 DEF Begins, Labels
  <2> QED
    BY <2>1 DEF TypeOK
<1>11. ASSUME NEW c \in Calls, Fails(c) PROVE pc' \in [Calls -> Labels]
  <2>1. \E l \in Labels : pc' = [pc EXCEPT ![c] = l]
    BY <1>11 DEF Fails, Labels
  <2> QED
    BY <2>1 DEF TypeOK
<1>12. ASSUME NEW c \in Calls, Opens(c) PROVE pc' \in [Calls -> Labels]
  <2>1. \E l \in Labels : pc' = [pc EXCEPT ![c] = l]
    BY <1>12 DEF Opens, Labels
  <2> QED
    BY <2>1 DEF TypeOK
<1>13. ASSUME NEW c \in Calls, Invokes(c) PROVE pc' \in [Calls -> Labels]
  <2>1. \E l \in Labels : pc' = [pc EXCEPT ![c] = l]
    BY <1>13 DEF Invokes, Labels
  <2> QED
    BY <2>1 DEF TypeOK
<1>14. ASSUME NEW c \in Calls, Loses(c) PROVE pc' \in [Calls -> Labels]
  <2>1. \E l \in Labels : pc' = [pc EXCEPT ![c] = l]
    BY <1>14 DEF Loses, Labels
  <2> QED
    BY <2>1 DEF TypeOK
<1>15. ASSUME NEW c \in Calls, Returns(c) PROVE pc' \in [Calls -> Labels]
  <2>1. \E l \in Labels : pc' = [pc EXCEPT ![c] = l]
    BY <1>15 DEF Returns, Labels
  <2> QED
    BY <2>1 DEF TypeOK
<1>16. ASSUME NEW c \in Calls, ReturnsLate(c) PROVE pc' \in [Calls -> Labels]
  <2>1. \E l \in Labels : pc' = [pc EXCEPT ![c] = l]
    BY <1>16 DEF ReturnsLate, Labels
  <2> QED
    BY <2>1 DEF TypeOK
<1>17. ASSUME NEW c \in Calls, Settles(c) PROVE pc' \in [Calls -> Labels]
  <2>1. \E l \in Labels : pc' = [pc EXCEPT ![c] = l]
    BY <1>17 DEF Settles, Labels
  <2> QED
    BY <2>1 DEF TypeOK
<1>18. ASSUME NEW c \in Calls, Saves(c) PROVE pc' \in [Calls -> Labels]
  <2>1. \E l \in Labels : pc' = [pc EXCEPT ![c] = l]
    BY <1>18 DEF Saves, Labels
  <2> QED
    BY <2>1 DEF TypeOK
<1>19. ASSUME NEW c \in Calls, Terminates(c) PROVE pc' \in [Calls -> Labels]
  <2>1. \E l \in Labels : pc' = [pc EXCEPT ![c] = l]
    BY <1>19 DEF Terminates, Labels
  <2> QED
    BY <2>1 DEF TypeOK
<1>20. ASSUME NEW c \in Calls, Finishes(c) PROVE pc' \in [Calls -> Labels]
  <2>1. \E l \in Labels : pc' = [pc EXCEPT ![c] = l]
    BY <1>20 DEF Finishes, Labels
  <2> QED
    BY <2>1 DEF TypeOK
<1>21. ASSUME NEW c \in Calls, FallsBack(c) PROVE pc' \in [Calls -> Labels]
  <2>1. \E l \in Labels : pc' = [pc EXCEPT ![c] = l]
    BY <1>21 DEF FallsBack, Labels
  <2> QED
    BY <2>1 DEF TypeOK
<1>22. ASSUME NEW a \in Attempts, Expires(a) PROVE pc' \in [Calls -> Labels]
  BY <1>22 DEF Expires, TypeOK
<1>23. ASSUME NEW a \in Attempts, Recovers(a) PROVE pc' \in [Calls -> Labels]
  BY <1>23 DEF Recovers, TypeOK
<1>24. ASSUME Rests PROVE pc' \in [Calls -> Labels]
  BY <1>24 DEF Rests, TypeOK
<1> QED
  BY <1>1, <1>2, <1>3, <1>4, <1>5, <1>6, <1>7, <1>8, <1>9, <1>10, <1>11, <1>12, <1>13, <1>14, <1>15, <1>16, <1>17, <1>18, <1>19, <1>20, <1>21, <1>22, <1>23, <1>24 DEF Kinds

(* Every step keeps the types of the local variables.                      *)
LEMMA CallTypesStep ==
    ASSUME TypeOK, Numbering, Kinds
    PROVE  CallTypes'
<1>c. /\ CallTypes /\ MaxAttempts \in Nat \ {0}
      /\ \A o \in Orders : Len(o) \in Nat /\ 1 \in 1 .. Len(o)
  <2>1. \A o \in Orders : o \in Seq(Routes) /\ o # <<>>
    BY RouteAssumption
  <2>2. \A o \in Orders : Len(o) \in Nat /\ Len(o) # 0
    BY <2>1
  <2> QED
    BY <2>2, CallAssumption DEF TypeOK, CallTypes
<1> USE <1>c
<1>1. ASSUME NEW c \in Calls, Claims(c) PROVE CallTypes'
  BY <1>1, <1>c DEF Claims, numV, CallTypes
<1>2. ASSUME NEW c \in Calls, Stops(c) PROVE CallTypes'
  BY <1>2, <1>c DEF Stops, numV, CallTypes
<1>3. ASSUME NEW c \in Calls, Records(c) PROVE CallTypes'
  BY <1>3, <1>c DEF Records, numV, CallTypes
<1>4. ASSUME NEW c \in Calls, Passes(c) PROVE CallTypes'
  BY <1>4, <1>c DEF Passes, numV, CallTypes
<1>5. ASSUME NEW c \in Calls, Reroutes(c) PROVE CallTypes'
  <2>1. PICK o \in Orders : order' = [order EXCEPT ![c] = o]
    BY <1>5 DEF Reroutes
  <2>2. order' \in [Calls -> Orders] /\ num' \in [Calls -> Nat] /\ rerouted' \subseteq Calls
    BY <1>5, <1>c, <2>1 DEF Reroutes, CallTypes
  <2>3. serial' \in [Calls -> 0 .. 2 * MaxAttempts]
    BY <1>5, <1>c DEF Reroutes, CallTypes
  <2>4. ASSUME NEW d \in Calls PROVE num'[d] \in 1 .. Len(order'[d])
    <3>1. CASE d = c
      <4>1. num'[d] = 1 /\ order'[d] = o
        BY <1>5, <2>1, <3>1 DEF Reroutes, CallTypes
      <4> QED
        BY <1>c, <2>1, <4>1
    <3>2. CASE d # c
      BY <1>5, <2>1, <3>2 DEF Reroutes, CallTypes
    <3> QED
      BY <3>1, <3>2
  <2> QED
    BY <2>2, <2>3, <2>4 DEF CallTypes
<1>6. ASSUME NEW c \in Calls, Creates(c) PROVE CallTypes'
  <2>1. serial[c] + 1 \in 0 .. 2 * MaxAttempts
    BY <1>6, NextIn DEF Creates, Attempts
  <2> QED
    BY <1>6, <2>1 DEF Creates, CallTypes
<1>7. ASSUME NEW c \in Calls, Reserves(c) PROVE CallTypes'
  BY <1>7, <1>c DEF Reserves, numV, CallTypes
<1>8. ASSUME NEW c \in Calls, Binds(c) PROVE CallTypes'
  BY <1>8, <1>c DEF Binds, numV, CallTypes
<1>9. ASSUME NEW c \in Calls, GivesBack(c) PROVE CallTypes'
  BY <1>9, <1>c DEF GivesBack, numV, CallTypes
<1>10. ASSUME NEW c \in Calls, Begins(c) PROVE CallTypes'
  BY <1>10, <1>c DEF Begins, numV, CallTypes
<1>11. ASSUME NEW c \in Calls, Fails(c) PROVE CallTypes'
  BY <1>11, <1>c DEF Fails, numV, CallTypes
<1>12. ASSUME NEW c \in Calls, Opens(c) PROVE CallTypes'
  BY <1>12, <1>c DEF Opens, numV, CallTypes
<1>13. ASSUME NEW c \in Calls, Invokes(c) PROVE CallTypes'
  BY <1>13, <1>c DEF Invokes, numV, CallTypes
<1>14. ASSUME NEW c \in Calls, Loses(c) PROVE CallTypes'
  BY <1>14, <1>c DEF Loses, numV, CallTypes
<1>15. ASSUME NEW c \in Calls, Returns(c) PROVE CallTypes'
  BY <1>15, <1>c DEF Returns, numV, CallTypes
<1>16. ASSUME NEW c \in Calls, ReturnsLate(c) PROVE CallTypes'
  BY <1>16, <1>c DEF ReturnsLate, numV, CallTypes
<1>17. ASSUME NEW c \in Calls, Settles(c) PROVE CallTypes'
  BY <1>17, <1>c DEF Settles, numV, CallTypes
<1>18. ASSUME NEW c \in Calls, Saves(c) PROVE CallTypes'
  BY <1>18, <1>c DEF Saves, numV, CallTypes
<1>19. ASSUME NEW c \in Calls, Terminates(c) PROVE CallTypes'
  BY <1>19, <1>c DEF Terminates, numV, CallTypes
<1>20. ASSUME NEW c \in Calls, Finishes(c) PROVE CallTypes'
  BY <1>20, <1>c DEF Finishes, numV, CallTypes
<1>21. ASSUME NEW c \in Calls, FallsBack(c) PROVE CallTypes'
  <2>1. num[c] \in Nat /\ num[c] + 1 \in 1 .. Len(order[c])
    BY <1>21, <1>c DEF FallsBack, Tries, CallTypes
  <2> QED
    BY <1>21, <2>1 DEF FallsBack, CallTypes
<1>22. ASSUME NEW a \in Attempts, Expires(a) PROVE CallTypes'
  BY <1>22, <1>c DEF Expires, numV, CallTypes
<1>23. ASSUME NEW a \in Attempts, Recovers(a) PROVE CallTypes'
  BY <1>23, <1>c DEF Recovers, numV, CallTypes
<1>24. ASSUME Rests PROVE CallTypes'
  BY <1>24, <1>c DEF Rests, numV, CallTypes
<1> QED
  BY <1>1, <1>2, <1>3, <1>4, <1>5, <1>6, <1>7, <1>8, <1>9, <1>10, <1>11, <1>12, <1>13, <1>14, <1>15, <1>16, <1>17, <1>18, <1>19, <1>20, <1>21, <1>22, <1>23, <1>24 DEF Kinds

(* Every step keeps the types of the other variables.                      *)
LEMMA SideTypesStep ==
    ASSUME TypeOK, Numbering, [Next]_vars
    PROVE  SideTypes'
<1> USE DEF TypeOK, SideTypes, Move, attemptVars, capacityVars, callVars
<1>c. \A c \in Calls : pc[c] \in Trying => Current(c) \in Attempts
  BY CurrentIn
<1>n. \A c \in Calls : pc[c] \in Choosing => <<c, serial[c] + 1>> \in Attempts
  BY NextIn
<1>1. ASSUME NEW c \in Calls, ClaimKey(c) PROVE SideTypes'
  BY <1>1 DEF ClaimKey
<1>2. ASSUME NEW c \in Calls, CompleteKey(c) PROVE SideTypes'
  BY <1>2 DEF CompleteKey
<1>3. ASSUME NEW c \in Calls, UncertainKey(c) PROVE SideTypes'
  BY <1>3 DEF UncertainKey
<1>4. ASSUME NEW c \in Calls, AbandonKey(c) PROVE SideTypes'
  BY <1>4 DEF AbandonKey
<1>5. ASSUME NEW c \in Calls, Snapshot(c) PROVE SideTypes'
  BY <1>5 DEF Snapshot
<1>6. ASSUME NEW c \in Calls, RouteRefused(c) PROVE SideTypes'
  BY <1>6 DEF RouteRefused
<1>7. ASSUME NEW c \in Calls, CreateAttempt(c) PROVE SideTypes'
  <2> DEFINE a == <<c, serial[c] + 1>>
  <2>1. CASE ScopeAdmits(c) /\ ~Unresolved(Decision(a))
    <3>1. a \in Attempts
      BY <1>7, <1>n DEF CreateAttempt, Choosing
    <3>2. latest' = [latest EXCEPT ![Decision(a)] = a] /\ UNCHANGED <<observed, known>>
      BY <1>7, <2>1 DEF CreateAttempt
    <3> HIDE DEF a
    <3> QED
      BY <3>1, <3>2
  <2>2. CASE ~(ScopeAdmits(c) /\ ~Unresolved(Decision(a)))
    BY <1>7, <2>2 DEF CreateAttempt
  <2> QED
    BY <2>1, <2>2
<1>8. ASSUME NEW c \in Calls, LookCapacity(c) PROVE SideTypes'
  BY <1>8 DEF LookCapacity
<1>9. ASSUME NEW c \in Calls, ReserveCapacity(c) PROVE SideTypes'
  BY <1>9 DEF ReserveCapacity
<1>10. ASSUME NEW c \in Calls, AttemptReserved(c) PROVE SideTypes'
  BY <1>10, <1>c DEF AttemptReserved, Trying, Admitting, Running
<1>11. ASSUME NEW c \in Calls, Begin(c) PROVE SideTypes'
  BY <1>11, <1>c DEF Begin, Trying, Admitting, Running
<1>12. ASSUME NEW c \in Calls, AdmissionFailed(c) PROVE SideTypes'
  BY <1>12, <1>c DEF AdmissionFailed, Trying, Admitting, Running
<1>13. ASSUME NEW c \in Calls, KeyExecuting(c) PROVE SideTypes'
  BY <1>13 DEF KeyExecuting
<1>14. ASSUME NEW c \in Calls, Invoke(c) PROVE SideTypes'
  BY <1>14 DEF Invoke
<1>15. ASSUME NEW c \in Calls, InvokeRaises(c) PROVE SideTypes'
  BY <1>15, <1>c DEF InvokeRaises, Trying, Admitting, Running
<1>16. ASSUME NEW c \in Calls, Return(c) PROVE SideTypes'
  BY <1>16, <1>c DEF Return, Trying, Admitting, Running
<1>17. ASSUME NEW c \in Calls, Settle(c) PROVE SideTypes'
  BY <1>17, <1>c DEF Settle, Trying, Admitting, Running
<1>18. ASSUME NEW c \in Calls, SettleRaises(c) PROVE SideTypes'
  BY <1>18 DEF SettleRaises
<1>19. ASSUME NEW c \in Calls, SaveReceipt(c) PROVE SideTypes'
  BY <1>19 DEF SaveReceipt
<1>20. ASSUME NEW c \in Calls, Terminal(c) PROVE SideTypes'
  BY <1>20, <1>c DEF Terminal, Trying, Admitting, Running
<1>21. ASSUME NEW c \in Calls, Decide(c) PROVE SideTypes'
  BY <1>21 DEF Decide
<1>22. ASSUME NEW c \in Calls, Crash(c) PROVE SideTypes'
  BY <1>22 DEF Crash
<1>23. ASSUME NEW a \in Attempts, Lapse(a) PROVE SideTypes'
  BY <1>23 DEF Lapse
<1>24. ASSUME NEW a \in Attempts, RecoverAfterLease(a) PROVE SideTypes'
  BY <1>24 DEF RecoverAfterLease
<1>25. CASE UNCHANGED vars
  BY <1>25 DEF vars
<1> QED
  BY <1>1, <1>2, <1>3, <1>4, <1>5, <1>6, <1>7, <1>8, <1>9, <1>10, <1>11, <1>12, <1>13, <1>14, <1>15, <1>16, <1>17, <1>18, <1>19, <1>20, <1>21, <1>22, <1>23, <1>24, <1>25 DEF Next, KeySteps, Admission, Invocation

(* Every step keeps the numbers of the tries.                              *)
LEMMA NumberingStep ==
    ASSUME TypeOK, Numbering, Kinds
    PROVE  Numbering'
<1> USE DEF TypeOK, Numbering, Base, Ends, attV, holdV, numV, hisV, Choosing, Admitting, Running, Trying
<1>0. MaxAttempts \in Nat \ {0} /\ \A c \in Calls : serial[c] \in Nat /\ num[c] \in Nat
  BY CallAssumption DEF TypeOK
<1>1. ASSUME NEW c \in Calls, Claims(c) PROVE Numbering'
  BY <1>1, <1>0 DEF Claims
<1>2. ASSUME NEW c \in Calls, Stops(c) PROVE Numbering'
  BY <1>2, <1>0 DEF Stops
<1>3. ASSUME NEW c \in Calls, Records(c) PROVE Numbering'
  BY <1>3, <1>0 DEF Records
<1>4. ASSUME NEW c \in Calls, Passes(c) PROVE Numbering'
  BY <1>4, <1>0 DEF Passes
<1>5. ASSUME NEW c \in Calls, Reroutes(c) PROVE Numbering'
  BY <1>5, <1>0 DEF Reroutes
<1>6. ASSUME NEW c \in Calls, Creates(c) PROVE Numbering'
  BY <1>6, <1>0 DEF Creates
<1>7. ASSUME NEW c \in Calls, Reserves(c) PROVE Numbering'
  BY <1>7, <1>0 DEF Reserves
<1>8. ASSUME NEW c \in Calls, Binds(c) PROVE Numbering'
  BY <1>8, <1>0 DEF Binds
<1>9. ASSUME NEW c \in Calls, GivesBack(c) PROVE Numbering'
  BY <1>9, <1>0 DEF GivesBack
<1>10. ASSUME NEW c \in Calls, Begins(c) PROVE Numbering'
  BY <1>10, <1>0 DEF Begins
<1>11. ASSUME NEW c \in Calls, Fails(c) PROVE Numbering'
  BY <1>11, <1>0 DEF Fails
<1>12. ASSUME NEW c \in Calls, Opens(c) PROVE Numbering'
  BY <1>12, <1>0 DEF Opens
<1>13. ASSUME NEW c \in Calls, Invokes(c) PROVE Numbering'
  BY <1>13, <1>0 DEF Invokes
<1>14. ASSUME NEW c \in Calls, Loses(c) PROVE Numbering'
  BY <1>14, <1>0 DEF Loses
<1>15. ASSUME NEW c \in Calls, Returns(c) PROVE Numbering'
  BY <1>15, <1>0 DEF Returns
<1>16. ASSUME NEW c \in Calls, ReturnsLate(c) PROVE Numbering'
  BY <1>16, <1>0 DEF ReturnsLate
<1>17. ASSUME NEW c \in Calls, Settles(c) PROVE Numbering'
  BY <1>17, <1>0 DEF Settles
<1>18. ASSUME NEW c \in Calls, Saves(c) PROVE Numbering'
  BY <1>18, <1>0 DEF Saves
<1>19. ASSUME NEW c \in Calls, Terminates(c) PROVE Numbering'
  BY <1>19, <1>0 DEF Terminates
<1>20. ASSUME NEW c \in Calls, Finishes(c) PROVE Numbering'
  BY <1>20, <1>0 DEF Finishes
<1>21. ASSUME NEW c \in Calls, FallsBack(c) PROVE Numbering'
  BY <1>21, <1>0 DEF FallsBack, Tries
<1>22. ASSUME NEW a \in Attempts, Expires(a) PROVE Numbering'
  BY <1>22, <1>0 DEF Expires
<1>23. ASSUME NEW a \in Attempts, Recovers(a) PROVE Numbering'
  BY <1>23, <1>0 DEF Recovers
<1>24. ASSUME Rests PROVE Numbering'
  BY <1>24, <1>0 DEF Rests
<1> QED
  BY <1>1, <1>2, <1>3, <1>4, <1>5, <1>6, <1>7, <1>8, <1>9, <1>10, <1>11, <1>12, <1>13, <1>14, <1>15, <1>16, <1>17, <1>18, <1>19, <1>20, <1>21, <1>22, <1>23, <1>24 DEF Kinds

(* Every step keeps holds in line with their attempts.                     *)
LEMMA HoldsStep ==
    ASSUME TypeOK, Numbering, Stage, Holds, Kinds
    PROVE  Holds'
<1> USE DEF TypeOK, Holds, Stage, StageOf, Begun, Definite, attV, holdV, numV, hisV, Choosing, Admitting, Running, Trying
<1>c. \A c \in Calls : pc[c] \in Trying =>
          /\ Current(c) \in Attempts /\ Current(c)[1] = c /\ Current(c)[2] = serial[c]
  BY CurrentIn
<1>n. \A c \in Calls : pc[c] \in Choosing => <<c, serial[c] + 1>> \in Attempts
  BY NextIn
<1>1. ASSUME NEW c \in Calls, Claims(c) PROVE Holds'
  BY <1>1, <1>c DEF Claims
<1>2. ASSUME NEW c \in Calls, Stops(c) PROVE Holds'
  BY <1>2, <1>c DEF Stops
<1>3. ASSUME NEW c \in Calls, Records(c) PROVE Holds'
  BY <1>3, <1>c DEF Records
<1>4. ASSUME NEW c \in Calls, Passes(c) PROVE Holds'
  BY <1>4, <1>c DEF Passes
<1>5. ASSUME NEW c \in Calls, Reroutes(c) PROVE Holds'
  BY <1>5, <1>c DEF Reroutes
<1>6. ASSUME NEW c \in Calls, Creates(c) PROVE Holds'
  BY <1>6, <1>c DEF Creates
<1>7. ASSUME NEW c \in Calls, Reserves(c) PROVE Holds'
  BY <1>7, <1>c DEF Reserves
<1>8. ASSUME NEW c \in Calls, Binds(c) PROVE Holds'
  BY <1>8, <1>c DEF Binds, HoldUsable
<1>9. ASSUME NEW c \in Calls, GivesBack(c) PROVE Holds'
  BY <1>9, <1>c DEF GivesBack, HoldUsable
<1>10. ASSUME NEW c \in Calls, Begins(c) PROVE Holds'
  BY <1>10, <1>c DEF Begins, HoldUsable
<1>11. ASSUME NEW c \in Calls, Fails(c) PROVE Holds'
  BY <1>11, <1>c DEF Fails, Release
<1>12. ASSUME NEW c \in Calls, Opens(c) PROVE Holds'
  BY <1>12, <1>c DEF Opens
<1>13. ASSUME NEW c \in Calls, Invokes(c) PROVE Holds'
  BY <1>13, <1>c DEF Invokes
<1>14. ASSUME NEW c \in Calls, Loses(c) PROVE Holds'
  BY <1>14, <1>c DEF Loses
<1>15. ASSUME NEW c \in Calls, Returns(c) PROVE Holds'
  BY <1>15, <1>c DEF Returns
<1>16. ASSUME NEW c \in Calls, ReturnsLate(c) PROVE Holds'
  BY <1>16, <1>c DEF ReturnsLate
<1>17. ASSUME NEW c \in Calls, Settles(c) PROVE Holds'
  BY <1>17, <1>c DEF Settles
<1>18. ASSUME NEW c \in Calls, Saves(c) PROVE Holds'
  BY <1>18, <1>c DEF Saves
<1>19. ASSUME NEW c \in Calls, Terminates(c) PROVE Holds'
  BY <1>19, <1>c DEF Terminates, Release, TerminalState, Definite
<1>20. ASSUME NEW c \in Calls, Finishes(c) PROVE Holds'
  BY <1>20, <1>c DEF Finishes
<1>21. ASSUME NEW c \in Calls, FallsBack(c) PROVE Holds'
  BY <1>21, <1>c DEF FallsBack
<1>22. ASSUME NEW a \in Attempts, Expires(a) PROVE Holds'
  BY <1>22, <1>c DEF Expires
<1>23. ASSUME NEW a \in Attempts, Recovers(a) PROVE Holds'
  BY <1>23, <1>c DEF Recovers
<1>24. ASSUME Rests PROVE Holds'
  BY <1>24, <1>c DEF Rests
<1> QED
  BY <1>1, <1>2, <1>3, <1>4, <1>5, <1>6, <1>7, <1>8, <1>9, <1>10, <1>11, <1>12, <1>13, <1>14, <1>15, <1>16, <1>17, <1>18, <1>19, <1>20, <1>21, <1>22, <1>23, <1>24 DEF Kinds

(* Every step keeps the key's steps to keyed calls.                        *)
LEMMA KeyHolderStep ==
    ASSUME TypeOK, KeyHolder, Kinds
    PROVE  KeyHolder'
<1> USE DEF TypeOK, KeyHolder, Ends, attV, holdV, numV, hisV, Choosing, Admitting, Running, Trying
<1>1. ASSUME NEW c \in Calls, Claims(c) PROVE KeyHolder'
  BY <1>1 DEF Claims
<1>2. ASSUME NEW c \in Calls, Stops(c) PROVE KeyHolder'
  BY <1>2 DEF Stops
<1>3. ASSUME NEW c \in Calls, Records(c) PROVE KeyHolder'
  BY <1>3 DEF Records
<1>4. ASSUME NEW c \in Calls, Passes(c) PROVE KeyHolder'
  BY <1>4 DEF Passes
<1>5. ASSUME NEW c \in Calls, Reroutes(c) PROVE KeyHolder'
  BY <1>5 DEF Reroutes
<1>6. ASSUME NEW c \in Calls, Creates(c) PROVE KeyHolder'
  BY <1>6 DEF Creates
<1>7. ASSUME NEW c \in Calls, Reserves(c) PROVE KeyHolder'
  BY <1>7 DEF Reserves
<1>8. ASSUME NEW c \in Calls, Binds(c) PROVE KeyHolder'
  BY <1>8 DEF Binds
<1>9. ASSUME NEW c \in Calls, GivesBack(c) PROVE KeyHolder'
  BY <1>9 DEF GivesBack
<1>10. ASSUME NEW c \in Calls, Begins(c) PROVE KeyHolder'
  BY <1>10 DEF Begins
<1>11. ASSUME NEW c \in Calls, Fails(c) PROVE KeyHolder'
  BY <1>11 DEF Fails
<1>12. ASSUME NEW c \in Calls, Opens(c) PROVE KeyHolder'
  BY <1>12 DEF Opens
<1>13. ASSUME NEW c \in Calls, Invokes(c) PROVE KeyHolder'
  BY <1>13 DEF Invokes
<1>14. ASSUME NEW c \in Calls, Loses(c) PROVE KeyHolder'
  BY <1>14 DEF Loses
<1>15. ASSUME NEW c \in Calls, Returns(c) PROVE KeyHolder'
  BY <1>15 DEF Returns
<1>16. ASSUME NEW c \in Calls, ReturnsLate(c) PROVE KeyHolder'
  BY <1>16 DEF ReturnsLate
<1>17. ASSUME NEW c \in Calls, Settles(c) PROVE KeyHolder'
  BY <1>17 DEF Settles
<1>18. ASSUME NEW c \in Calls, Saves(c) PROVE KeyHolder'
  BY <1>18 DEF Saves
<1>19. ASSUME NEW c \in Calls, Terminates(c) PROVE KeyHolder'
  BY <1>19 DEF Terminates
<1>20. ASSUME NEW c \in Calls, Finishes(c) PROVE KeyHolder'
  BY <1>20 DEF Finishes
<1>21. ASSUME NEW c \in Calls, FallsBack(c) PROVE KeyHolder'
  BY <1>21 DEF FallsBack
<1>22. ASSUME NEW a \in Attempts, Expires(a) PROVE KeyHolder'
  BY <1>22 DEF Expires
<1>23. ASSUME NEW a \in Attempts, Recovers(a) PROVE KeyHolder'
  BY <1>23 DEF Recovers
<1>24. ASSUME Rests PROVE KeyHolder'
  BY <1>24 DEF Rests
<1> QED
  BY <1>1, <1>2, <1>3, <1>4, <1>5, <1>6, <1>7, <1>8, <1>9, <1>10, <1>11, <1>12, <1>13, <1>14, <1>15, <1>16, <1>17, <1>18, <1>19, <1>20, <1>21, <1>22, <1>23, <1>24 DEF Kinds

(* Every step keeps the attempt at hand the one its call works on.         *)
LEMMA StageStep ==
    ASSUME TypeOK, Numbering, Stage, Holds, Kinds
    PROVE  Stage'
<1>0. MaxAttempts \in Nat \ {0} /\ \A c \in Calls : serial[c] \in Nat /\ num[c] \in Nat
  BY CallAssumption DEF TypeOK
<1>c. \A c \in Calls : pc[c] \in Trying =>
          /\ Current(c) \in Attempts /\ Current(c)[1] = c /\ Current(c)[2] = serial[c]
  BY CurrentIn
<1>n. \A c \in Calls : pc[c] \in Choosing => <<c, serial[c] + 1>> \in Attempts
  BY NextIn
<1>1. ASSUME NEW c \in Calls, Claims(c) PROVE Stage'
  BY <1>1, <1>0, <1>c DEF Claims, TypeOK, Stage, StageOf, Ends, Route, Current, TerminalState, UnprovenWrite, MayHaveRun, Definite, attV, holdV, numV, hisV, Choosing, Admitting, Running, Trying
<1>2. ASSUME NEW c \in Calls, Stops(c) PROVE Stage'
  BY <1>2, <1>0, <1>c DEF Stops, TypeOK, Stage, StageOf, Ends, Route, Current, TerminalState, UnprovenWrite, MayHaveRun, Definite, attV, holdV, numV, hisV, Choosing, Admitting, Running, Trying
<1>3. ASSUME NEW c \in Calls, Records(c) PROVE Stage'
  BY <1>3, <1>0, <1>c DEF Records, TypeOK, Stage, StageOf, Ends, Route, Current, TerminalState, UnprovenWrite, MayHaveRun, Definite, attV, holdV, numV, hisV, Choosing, Admitting, Running, Trying
<1>4. ASSUME NEW c \in Calls, Passes(c) PROVE Stage'
  BY <1>4, <1>0, <1>c DEF Passes, TypeOK, Stage, StageOf, Ends, Route, Current, TerminalState, UnprovenWrite, MayHaveRun, Definite, attV, holdV, numV, hisV, Choosing, Admitting, Running, Trying
<1>5. ASSUME NEW c \in Calls, Reroutes(c) PROVE Stage'
  <2>1. serial[c] <= MaxAttempts
    BY <1>5, <1>0 DEF Reroutes, Numbering, Base
  <2>2. \A a \in Attempts : attempt'[a] # "none" => a[2] <= serial'[a[1]]
    <3> SUFFICES ASSUME NEW a \in Attempts, attempt[a] # "none" PROVE a[2] <= serial'[a[1]]
      BY <1>5 DEF Reroutes, attV
    <3>1. a[1] \in Calls /\ a[2] \in Nat /\ a[2] <= serial[a[1]]
      BY DEF Attempts, Stage
    <3>2. CASE a[1] = c
      BY <1>5, <1>0, <2>1, <3>1, <3>2 DEF Reroutes, TypeOK
    <3>3. CASE a[1] # c
      BY <1>5, <3>1, <3>3 DEF Reroutes, TypeOK
    <3> QED
      BY <3>2, <3>3
  <2>3. ASSUME NEW d \in Calls, d # c PROVE StageOf(d)'
    <3>1. /\ pc'[d] = pc[d] /\ num'[d] = num[d] /\ order'[d] = order[d] /\ serial'[d] = serial[d]
          /\ Current(d)' = Current(d) /\ Route(d)' = Route(d)
      BY <1>5, <2>3 DEF Reroutes, TypeOK, Current, Route, numV
    <3>2. CASE pc[d] \notin Trying
      BY <3>1, <3>2 DEF StageOf, Trying, Admitting, Running
    <3>3. CASE pc[d] \in Trying
      <4>1. Current(d) \in Attempts /\ Current(d)[1] = d
        BY <1>c, <3>3
      <4>2. /\ attempt'[Current(d)] = attempt[Current(d)] /\ via'[Current(d)] = via[Current(d)]
            /\ hold'[Current(d)] = hold[Current(d)] /\ outcome'[Current(d)] = outcome[Current(d)]
            /\ Current(d) \in receipts => Current(d) \in receipts'
        BY <1>5, <1>c, <1>n, <2>3, <4>1 DEF Reroutes, TypeOK, Choosing, Trying, Admitting, Running, attV, holdV, numV, hisV
      <4>3. TerminalState(Current(d))' = TerminalState(Current(d))
        BY <3>1, <4>2 DEF TerminalState, UnprovenWrite, MayHaveRun
      <4> QED
        BY <3>1, <4>2, <4>3 DEF Stage, StageOf
    <3> QED
      BY <3>2, <3>3
  <2>4. StageOf(c)'
    BY <1>5 DEF Reroutes, StageOf, Trying, Admitting, Running
  <2> QED
    BY <2>2, <2>3, <2>4 DEF Stage
<1>6. ASSUME NEW c \in Calls, Creates(c) PROVE Stage'
  <2> DEFINE b == <<c, serial[c] + 1>>
  <2>1. b \in Attempts /\ b[1] = c /\ b[2] = serial[c] + 1 /\ attempt[b] = "none" /\ hold[b] = "none"
    <3>1. b \in Attempts /\ b[1] = c /\ b[2] = serial[c] + 1
      BY <1>6, <1>n DEF Creates
    <3>2. ~(serial[c] + 1 <= serial[c])
      BY <1>0
    <3> QED
      BY <3>1, <3>2 DEF Stage, Holds
  <2>2. \A x \in Attempts : attempt'[x] # "none" => x[2] <= serial'[x[1]]
    <3> SUFFICES ASSUME NEW x \in Attempts, attempt'[x] # "none" PROVE x[2] <= serial'[x[1]]
      OBVIOUS
    <3>1. x[1] \in Calls /\ x[2] \in Nat
      BY DEF Attempts
    <3>2. CASE x = b
      BY <1>6, <1>0, <3>2 DEF Creates, TypeOK
    <3>3. CASE x # b
      <4>1. attempt[x] # "none" /\ x[2] <= serial[x[1]]
        BY <1>6, <3>3 DEF Creates, TypeOK, Stage
      <4> QED
        BY <1>6, <1>0, <3>1, <4>1 DEF Creates, TypeOK
    <3> QED
      BY <3>2, <3>3
  <2>3. ASSUME NEW d \in Calls, d # c PROVE StageOf(d)'
    <3>1. /\ pc'[d] = pc[d] /\ num'[d] = num[d] /\ order'[d] = order[d] /\ serial'[d] = serial[d]
          /\ Current(d)' = Current(d) /\ Route(d)' = Route(d)
      BY <1>6, <2>3 DEF Creates, TypeOK, Current, Route, numV
    <3>2. CASE pc[d] \notin Trying
      BY <3>1, <3>2 DEF StageOf, Trying, Admitting, Running
    <3>3. CASE pc[d] \in Trying
      <4>1. Current(d) \in Attempts /\ Current(d)[1] = d
        BY <1>c, <3>3
      <4>2. /\ attempt'[Current(d)] = attempt[Current(d)] /\ via'[Current(d)] = via[Current(d)]
            /\ hold'[Current(d)] = hold[Current(d)] /\ outcome'[Current(d)] = outcome[Current(d)]
            /\ Current(d) \in receipts => Current(d) \in receipts'
        BY <1>6, <1>c, <1>n, <2>3, <4>1 DEF Creates, TypeOK, Choosing, Trying, Admitting, Running, attV, holdV, numV, hisV
      <4>3. TerminalState(Current(d))' = TerminalState(Current(d))
        BY <3>1, <4>2 DEF TerminalState, UnprovenWrite, MayHaveRun
      <4> QED
        BY <3>1, <4>2, <4>3 DEF Stage, StageOf
    <3> QED
      BY <3>2, <3>3
  <2>4. StageOf(c)'
    <3>1. Current(c)' = b /\ Route(c)' = Route(c)
      BY <1>6 DEF Creates, TypeOK, Current, Route
    <3>2. attempt'[b] = "CLAIMED" /\ via'[b] = Route(c) /\ hold'[b] = "none"
      BY <1>6, <2>1 DEF Creates, TypeOK, holdV
    <3>3. pc'[c] = "reserved" \/ (pc'[c] = "look" /\ Route(c) \in Managed)
      BY <1>6 DEF Creates, TypeOK
    <3> HIDE DEF b
    <3> QED
      BY <3>1, <3>2, <3>3 DEF StageOf
  <2> QED
    BY <2>2, <2>3, <2>4 DEF Stage
<1>7. ASSUME NEW c \in Calls, Reserves(c) PROVE Stage'
  BY <1>7, <1>0, <1>c DEF Reserves, TypeOK, Stage, StageOf, Ends, Route, Current, TerminalState, UnprovenWrite, MayHaveRun, Definite, attV, holdV, numV, hisV, Choosing, Admitting, Running, Trying
<1>8. ASSUME NEW c \in Calls, Binds(c) PROVE Stage'
  BY <1>8, <1>0, <1>c DEF Binds, HoldUsable, TypeOK, Stage, StageOf, Ends, Route, Current, TerminalState, UnprovenWrite, MayHaveRun, Definite, attV, holdV, numV, hisV, Choosing, Admitting, Running, Trying
<1>9. ASSUME NEW c \in Calls, GivesBack(c) PROVE Stage'
  BY <1>9, <1>0, <1>c DEF GivesBack, HoldUsable, Holds, TypeOK, Stage, StageOf, Ends, Route, Current, TerminalState, UnprovenWrite, MayHaveRun, Definite, attV, holdV, numV, hisV, Choosing, Admitting, Running, Trying
<1>10. ASSUME NEW c \in Calls, Begins(c) PROVE Stage'
  BY <1>10, <1>0, <1>c DEF Begins, TypeOK, Stage, StageOf, Ends, Route, Current, TerminalState, UnprovenWrite, MayHaveRun, Definite, attV, holdV, numV, hisV, Choosing, Admitting, Running, Trying
<1>11. ASSUME NEW c \in Calls, Fails(c) PROVE Stage'
  BY <1>11, <1>0, <1>c DEF Fails, Release, TypeOK, Stage, StageOf, Ends, Route, Current, TerminalState, UnprovenWrite, MayHaveRun, Definite, attV, holdV, numV, hisV, Choosing, Admitting, Running, Trying
<1>12. ASSUME NEW c \in Calls, Opens(c) PROVE Stage'
  BY <1>12, <1>0, <1>c DEF Opens, TypeOK, Stage, StageOf, Ends, Route, Current, TerminalState, UnprovenWrite, MayHaveRun, Definite, attV, holdV, numV, hisV, Choosing, Admitting, Running, Trying
<1>13. ASSUME NEW c \in Calls, Invokes(c) PROVE Stage'
  BY <1>13, <1>0, <1>c DEF Invokes, TypeOK, Stage, StageOf, Ends, Route, Current, TerminalState, UnprovenWrite, MayHaveRun, Definite, attV, holdV, numV, hisV, Choosing, Admitting, Running, Trying
<1>14. ASSUME NEW c \in Calls, Loses(c) PROVE Stage'
  BY <1>14, <1>0, <1>c DEF Loses, TypeOK, Stage, StageOf, Ends, Route, Current, TerminalState, UnprovenWrite, MayHaveRun, Definite, attV, holdV, numV, hisV, Choosing, Admitting, Running, Trying
<1>15. ASSUME NEW c \in Calls, Returns(c) PROVE Stage'
  BY <1>15, <1>0, <1>c DEF Returns, TypeOK, Stage, StageOf, Ends, Route, Current, TerminalState, UnprovenWrite, MayHaveRun, Definite, attV, holdV, numV, hisV, Choosing, Admitting, Running, Trying
<1>16. ASSUME NEW c \in Calls, ReturnsLate(c) PROVE Stage'
  BY <1>16, <1>0, <1>c DEF ReturnsLate, TypeOK, Stage, StageOf, Ends, Route, Current, TerminalState, UnprovenWrite, MayHaveRun, Definite, attV, holdV, numV, hisV, Choosing, Admitting, Running, Trying
<1>17. ASSUME NEW c \in Calls, Settles(c) PROVE Stage'
  BY <1>17, <1>0, <1>c DEF Settles, TypeOK, Stage, StageOf, Ends, Route, Current, TerminalState, UnprovenWrite, MayHaveRun, Definite, attV, holdV, numV, hisV, Choosing, Admitting, Running, Trying
<1>18. ASSUME NEW c \in Calls, Saves(c) PROVE Stage'
  BY <1>18, <1>0, <1>c DEF Saves, TypeOK, Stage, StageOf, Ends, Route, Current, TerminalState, UnprovenWrite, MayHaveRun, Definite, attV, holdV, numV, hisV, Choosing, Admitting, Running, Trying
<1>19. ASSUME NEW c \in Calls, Terminates(c) PROVE Stage'
  <2>1. Current(c) \in Attempts /\ Current(c) \in receipts /\ via[Current(c)] = Route(c)
        /\ attempt[Current(c)] = "SETTLING"
    BY <1>19, <1>c DEF Terminates, Stage, StageOf, Trying, Running
  <2>2. \A x \in Attempts : attempt'[x] # "none" => x[2] <= serial'[x[1]]
    BY <1>19, <2>1 DEF Terminates, TypeOK, Stage, numV
  <2>3. ASSUME NEW d \in Calls, d # c PROVE StageOf(d)'
    <3>1. /\ pc'[d] = pc[d] /\ num'[d] = num[d] /\ order'[d] = order[d] /\ serial'[d] = serial[d]
          /\ Current(d)' = Current(d) /\ Route(d)' = Route(d)
      BY <1>19, <2>3 DEF Terminates, TypeOK, Current, Route, numV
    <3>2. CASE pc[d] \notin Trying
      BY <3>1, <3>2 DEF StageOf, Trying, Admitting, Running
    <3>3. CASE pc[d] \in Trying
      <4>1. Current(d) \in Attempts /\ Current(d)[1] = d
        BY <1>c, <3>3
      <4>2. /\ attempt'[Current(d)] = attempt[Current(d)] /\ via'[Current(d)] = via[Current(d)]
            /\ hold'[Current(d)] = hold[Current(d)] /\ outcome'[Current(d)] = outcome[Current(d)]
            /\ Current(d) \in receipts => Current(d) \in receipts'
        BY <1>19, <1>c, <1>n, <2>3, <4>1 DEF Terminates, TypeOK, Choosing, Trying, Admitting, Running, attV, holdV, numV, hisV, Release
      <4>3. TerminalState(Current(d))' = TerminalState(Current(d))
        BY <3>1, <4>2 DEF TerminalState, UnprovenWrite, MayHaveRun
      <4> QED
        BY <3>1, <4>2, <4>3 DEF Stage, StageOf
    <3> QED
      BY <3>2, <3>3
  <2>4. StageOf(c)'
    <3>1. Current(c)' = Current(c) /\ Route(c)' = Route(c) /\ pc'[c] = "decide"
      BY <1>19 DEF Terminates, TypeOK, Current, Route, numV
    <3>2. TerminalState(Current(c))' = TerminalState(Current(c))
      BY <1>19, <3>1 DEF Terminates, TerminalState, UnprovenWrite, MayHaveRun, hisV
    <3>3. attempt'[Current(c)] = TerminalState(Current(c)) /\ via' = via /\ receipts' = receipts
      BY <1>19, <2>1 DEF Terminates, TypeOK
    <3> QED
      BY <2>1, <3>1, <3>2, <3>3 DEF StageOf
  <2> QED
    BY <2>2, <2>3, <2>4 DEF Stage
<1>20. ASSUME NEW c \in Calls, Finishes(c) PROVE Stage'
  BY <1>20, <1>0, <1>c DEF Finishes, TypeOK, Stage, StageOf, Ends, Route, Current, TerminalState, UnprovenWrite, MayHaveRun, Definite, attV, holdV, numV, hisV, Choosing, Admitting, Running, Trying
<1>21. ASSUME NEW c \in Calls, FallsBack(c) PROVE Stage'
  BY <1>21, <1>0, <1>c DEF FallsBack, TypeOK, Stage, StageOf, Ends, Route, Current, TerminalState, UnprovenWrite, MayHaveRun, Definite, attV, holdV, numV, hisV, Choosing, Admitting, Running, Trying
<1>22. ASSUME NEW a \in Attempts, Expires(a) PROVE Stage'
  BY <1>22, <1>0, <1>c DEF Expires, TypeOK, Stage, StageOf, Ends, Route, Current, TerminalState, UnprovenWrite, MayHaveRun, Definite, attV, holdV, numV, hisV, Choosing, Admitting, Running, Trying
<1>23. ASSUME NEW a \in Attempts, Recovers(a) PROVE Stage'
  <2>1. \A x \in Attempts : attempt'[x] # "none" => x[2] <= serial'[x[1]]
    BY <1>23 DEF Recovers, TypeOK, Stage, numV
  <2>2. ASSUME NEW d \in Calls PROVE StageOf(d)'
    <3>1. /\ pc' = pc /\ via' = via /\ hold' = hold /\ receipts' = receipts
          /\ Current(d)' = Current(d) /\ Route(d)' = Route(d)
          /\ TerminalState(Current(d))' = TerminalState(Current(d))
      BY <1>23 DEF Recovers, Current, Route, TerminalState, UnprovenWrite, MayHaveRun, attV, holdV, numV, hisV
    <3>2. TerminalState(Current(d)) # "INVOKING"
      BY DEF TerminalState
    <3>3. StageOf(d)
      BY DEF Stage
    <3>4. CASE pc[d] \notin Trying
      BY <3>1, <3>4 DEF StageOf, Trying, Admitting, Running
    <3>5. CASE pc[d] \in Trying
      <4>1. Current(d) \in Attempts
        BY <1>c, <3>5
      <4>2. \/ attempt'[Current(d)] = attempt[Current(d)]
            \/ attempt[Current(d)] = "INVOKING" /\ attempt'[Current(d)] = "INDETERMINATE"
        BY <1>23, <4>1 DEF Recovers, TypeOK
      <4> QED
        BY <3>1, <3>2, <3>3, <4>2 DEF StageOf
    <3> QED
      BY <3>4, <3>5
  <2> QED
    BY <2>1, <2>2 DEF Stage
<1>24. ASSUME Rests PROVE Stage'
  BY <1>24, <1>0, <1>c DEF Rests, TypeOK, Stage, StageOf, Ends, Route, Current, TerminalState, UnprovenWrite, MayHaveRun, Definite, attV, holdV, numV, hisV, Choosing, Admitting, Running, Trying
<1> QED
  BY <1>1, <1>2, <1>3, <1>4, <1>5, <1>6, <1>7, <1>8, <1>9, <1>10, <1>11, <1>12, <1>13, <1>14, <1>15, <1>16, <1>17, <1>18, <1>19, <1>20, <1>21, <1>22, <1>23, <1>24 DEF Kinds

(* An attempt is a call and a number.                                      *)
LEMMA AttemptPair ==
    ASSUME NEW x \in Attempts
    PROVE  x[1] \in Calls /\ x[2] \in Nat /\ x[2] >= 1 /\ x = <<x[1], x[2]>>
BY CallAssumption DEF Attempts

(* What is definite stays as it is.                                        *)
LEMMA Settled ==
    ASSUME TypeOK, Numbering, Stage, Kinds
    PROVE  \A x \in Attempts : attempt[x] \in Definite =>
               /\ attempt'[x] = attempt[x] /\ via'[x] = via[x] /\ outcome'[x] = outcome[x]
               /\ x \in receipts => x \in receipts'
<1> USE DEF TypeOK, Stage, StageOf, Definite, attV, holdV, numV, hisV, Choosing, Admitting, Running, Trying
<1>0. MaxAttempts \in Nat \ {0} /\ \A c \in Calls : serial[c] \in Nat /\ num[c] \in Nat
  BY CallAssumption DEF TypeOK
<1>c. \A c \in Calls : pc[c] \in Trying =>
          /\ Current(c) \in Attempts /\ Current(c)[1] = c /\ Current(c)[2] = serial[c]
  BY CurrentIn
<1>n. \A c \in Calls : pc[c] \in Choosing => <<c, serial[c] + 1>> \in Attempts
  BY NextIn
<1> DEFINE Kept ==
        \A x \in Attempts : attempt[x] \in Definite =>
            /\ attempt'[x] = attempt[x] /\ via'[x] = via[x] /\ outcome'[x] = outcome[x]
            /\ x \in receipts => x \in receipts'
<1>d. \A c \in Calls : pc[c] \in Choosing => attempt[<<c, serial[c] + 1>>] = "none"
  <2> SUFFICES ASSUME NEW c \in Calls, pc[c] \in Choosing PROVE attempt[<<c, serial[c] + 1>>] = "none"
    OBVIOUS
  <2>1. ~(serial[c] + 1 <= serial[c]) /\ <<c, serial[c] + 1>>[2] = serial[c] + 1 /\ <<c, serial[c] + 1>>[1] = c
    BY <1>0
  <2> QED
    BY <1>n, <2>1 DEF Stage
<1>1. ASSUME NEW c \in Calls, Claims(c) PROVE Kept
  BY <1>1, <1>c, <1>n, <1>d DEF Claims
<1>2. ASSUME NEW c \in Calls, Stops(c) PROVE Kept
  BY <1>2, <1>c, <1>n, <1>d DEF Stops
<1>3. ASSUME NEW c \in Calls, Records(c) PROVE Kept
  BY <1>3, <1>c, <1>n, <1>d DEF Records
<1>4. ASSUME NEW c \in Calls, Passes(c) PROVE Kept
  BY <1>4, <1>c, <1>n, <1>d DEF Passes
<1>5. ASSUME NEW c \in Calls, Reroutes(c) PROVE Kept
  BY <1>5, <1>c, <1>n, <1>d DEF Reroutes
<1>6. ASSUME NEW c \in Calls, Creates(c) PROVE Kept
  BY <1>6, <1>c, <1>n, <1>d DEF Creates
<1>7. ASSUME NEW c \in Calls, Reserves(c) PROVE Kept
  BY <1>7, <1>c, <1>n, <1>d DEF Reserves
<1>8. ASSUME NEW c \in Calls, Binds(c) PROVE Kept
  BY <1>8, <1>c, <1>n, <1>d DEF Binds
<1>9. ASSUME NEW c \in Calls, GivesBack(c) PROVE Kept
  BY <1>9, <1>c, <1>n, <1>d DEF GivesBack
<1>10. ASSUME NEW c \in Calls, Begins(c) PROVE Kept
  BY <1>10, <1>c, <1>n, <1>d DEF Begins
<1>11. ASSUME NEW c \in Calls, Fails(c) PROVE Kept
  BY <1>11, <1>c, <1>n, <1>d DEF Fails
<1>12. ASSUME NEW c \in Calls, Opens(c) PROVE Kept
  BY <1>12, <1>c, <1>n, <1>d DEF Opens
<1>13. ASSUME NEW c \in Calls, Invokes(c) PROVE Kept
  BY <1>13, <1>c, <1>n, <1>d DEF Invokes
<1>14. ASSUME NEW c \in Calls, Loses(c) PROVE Kept
  BY <1>14, <1>c, <1>n, <1>d DEF Loses
<1>15. ASSUME NEW c \in Calls, Returns(c) PROVE Kept
  BY <1>15, <1>c, <1>n, <1>d DEF Returns
<1>16. ASSUME NEW c \in Calls, ReturnsLate(c) PROVE Kept
  BY <1>16, <1>c, <1>n, <1>d DEF ReturnsLate
<1>17. ASSUME NEW c \in Calls, Settles(c) PROVE Kept
  BY <1>17, <1>c, <1>n, <1>d DEF Settles
<1>18. ASSUME NEW c \in Calls, Saves(c) PROVE Kept
  BY <1>18, <1>c, <1>n, <1>d DEF Saves
<1>19. ASSUME NEW c \in Calls, Terminates(c) PROVE Kept
  BY <1>19, <1>c, <1>n, <1>d DEF Terminates
<1>20. ASSUME NEW c \in Calls, Finishes(c) PROVE Kept
  BY <1>20, <1>c, <1>n, <1>d DEF Finishes
<1>21. ASSUME NEW c \in Calls, FallsBack(c) PROVE Kept
  BY <1>21, <1>c, <1>n, <1>d DEF FallsBack
<1>22. ASSUME NEW a \in Attempts, Expires(a) PROVE Kept
  BY <1>22, <1>c, <1>n, <1>d DEF Expires
<1>23. ASSUME NEW a \in Attempts, Recovers(a) PROVE Kept
  BY <1>23, <1>c, <1>n, <1>d DEF Recovers
<1>24. ASSUME Rests PROVE Kept
  BY <1>24, <1>c, <1>n, <1>d DEF Rests
<1> QED
  BY <1>1, <1>2, <1>3, <1>4, <1>5, <1>6, <1>7, <1>8, <1>9, <1>10, <1>11, <1>12, <1>13, <1>14, <1>15, <1>16, <1>17, <1>18, <1>19, <1>20, <1>21, <1>22, <1>23, <1>24 DEF Kinds

(* What has begun stays begun, by the same route.                          *)
LEMMA Ongoing ==
    ASSUME TypeOK, Numbering, Stage, Kinds
    PROVE  \A x \in Attempts : attempt[x] \in Begun => attempt'[x] \in Begun /\ via'[x] = via[x]
<1> USE DEF TypeOK, Stage, StageOf, Begun, Definite, attV, holdV, numV, hisV, Choosing, Admitting, Running, Trying
<1>0. MaxAttempts \in Nat \ {0} /\ \A c \in Calls : serial[c] \in Nat /\ num[c] \in Nat
  BY CallAssumption DEF TypeOK
<1>c. \A c \in Calls : pc[c] \in Trying =>
          /\ Current(c) \in Attempts /\ Current(c)[1] = c /\ Current(c)[2] = serial[c]
  BY CurrentIn
<1>n. \A c \in Calls : pc[c] \in Choosing => <<c, serial[c] + 1>> \in Attempts
  BY NextIn
<1> DEFINE Kept == \A x \in Attempts : attempt[x] \in Begun => attempt'[x] \in Begun /\ via'[x] = via[x]
<1>d. \A c \in Calls : pc[c] \in Choosing => attempt[<<c, serial[c] + 1>>] = "none"
  <2> SUFFICES ASSUME NEW c \in Calls, pc[c] \in Choosing PROVE attempt[<<c, serial[c] + 1>>] = "none"
    OBVIOUS
  <2>1. ~(serial[c] + 1 <= serial[c]) /\ <<c, serial[c] + 1>>[2] = serial[c] + 1 /\ <<c, serial[c] + 1>>[1] = c
    BY <1>0
  <2> QED
    BY <1>n, <2>1 DEF Stage
<1>1. ASSUME NEW c \in Calls, Claims(c) PROVE Kept
  BY <1>1, <1>c, <1>n, <1>d DEF Claims
<1>2. ASSUME NEW c \in Calls, Stops(c) PROVE Kept
  BY <1>2, <1>c, <1>n, <1>d DEF Stops
<1>3. ASSUME NEW c \in Calls, Records(c) PROVE Kept
  BY <1>3, <1>c, <1>n, <1>d DEF Records
<1>4. ASSUME NEW c \in Calls, Passes(c) PROVE Kept
  BY <1>4, <1>c, <1>n, <1>d DEF Passes
<1>5. ASSUME NEW c \in Calls, Reroutes(c) PROVE Kept
  BY <1>5, <1>c, <1>n, <1>d DEF Reroutes
<1>6. ASSUME NEW c \in Calls, Creates(c) PROVE Kept
  BY <1>6, <1>c, <1>n, <1>d DEF Creates
<1>7. ASSUME NEW c \in Calls, Reserves(c) PROVE Kept
  BY <1>7, <1>c, <1>n, <1>d DEF Reserves
<1>8. ASSUME NEW c \in Calls, Binds(c) PROVE Kept
  BY <1>8, <1>c, <1>n, <1>d DEF Binds
<1>9. ASSUME NEW c \in Calls, GivesBack(c) PROVE Kept
  BY <1>9, <1>c, <1>n, <1>d DEF GivesBack
<1>10. ASSUME NEW c \in Calls, Begins(c) PROVE Kept
  BY <1>10, <1>c, <1>n, <1>d DEF Begins
<1>11. ASSUME NEW c \in Calls, Fails(c) PROVE Kept
  BY <1>11, <1>c, <1>n, <1>d DEF Fails
<1>12. ASSUME NEW c \in Calls, Opens(c) PROVE Kept
  BY <1>12, <1>c, <1>n, <1>d DEF Opens
<1>13. ASSUME NEW c \in Calls, Invokes(c) PROVE Kept
  BY <1>13, <1>c, <1>n, <1>d DEF Invokes
<1>14. ASSUME NEW c \in Calls, Loses(c) PROVE Kept
  BY <1>14, <1>c, <1>n, <1>d DEF Loses
<1>15. ASSUME NEW c \in Calls, Returns(c) PROVE Kept
  BY <1>15, <1>c, <1>n, <1>d DEF Returns
<1>16. ASSUME NEW c \in Calls, ReturnsLate(c) PROVE Kept
  BY <1>16, <1>c, <1>n, <1>d DEF ReturnsLate
<1>17. ASSUME NEW c \in Calls, Settles(c) PROVE Kept
  BY <1>17, <1>c, <1>n, <1>d DEF Settles
<1>18. ASSUME NEW c \in Calls, Saves(c) PROVE Kept
  BY <1>18, <1>c, <1>n, <1>d DEF Saves
<1>19. ASSUME NEW c \in Calls, Terminates(c) PROVE Kept
  BY <1>19, <1>c, <1>n, <1>d DEF Terminates, TerminalState
<1>20. ASSUME NEW c \in Calls, Finishes(c) PROVE Kept
  BY <1>20, <1>c, <1>n, <1>d DEF Finishes
<1>21. ASSUME NEW c \in Calls, FallsBack(c) PROVE Kept
  BY <1>21, <1>c, <1>n, <1>d DEF FallsBack
<1>22. ASSUME NEW a \in Attempts, Expires(a) PROVE Kept
  BY <1>22, <1>c, <1>n, <1>d DEF Expires
<1>23. ASSUME NEW a \in Attempts, Recovers(a) PROVE Kept
  BY <1>23, <1>c, <1>n, <1>d DEF Recovers
<1>24. ASSUME Rests PROVE Kept
  BY <1>24, <1>c, <1>n, <1>d DEF Rests
<1> QED
  BY <1>1, <1>2, <1>3, <1>4, <1>5, <1>6, <1>7, <1>8, <1>9, <1>10, <1>11, <1>12, <1>13, <1>14, <1>15, <1>16, <1>17, <1>18, <1>19, <1>20, <1>21, <1>22, <1>23, <1>24 DEF Kinds

(* Every step keeps earlier invocations closed.                            *)
LEMMA HistoryStep ==
    ASSUME TypeOK, Numbering, Stage, History, Kinds
    PROVE  History'
<1> USE DEF TypeOK, History, Ends, attV, holdV, numV, hisV, Choosing, Admitting, Running, Trying
<1>0. MaxAttempts \in Nat \ {0} /\ \A c \in Calls : serial[c] \in Nat /\ num[c] \in Nat
  BY CallAssumption DEF TypeOK
<1>c. \A c \in Calls : pc[c] \in Trying =>
          /\ Current(c) \in Attempts /\ Current(c)[1] = c /\ Current(c)[2] = serial[c]
  BY CurrentIn
<1>n. \A c \in Calls : pc[c] \in Choosing => <<c, serial[c] + 1>> \in Attempts
  BY NextIn
<1>k. \A x \in invoked : x \in Attempts /\ (Closed(x) => Closed(x)')
  BY Settled DEF Closed, TypeOK
<1>b. \A x \in invoked : x \in Attempts /\ attempt'[x] \in Begun
  BY Ongoing DEF History, TypeOK
<1>s. \A x \in invoked : x[1] \in Calls /\ x[2] \in Nat /\ x[2] <= serial[x[1]]
  <2> SUFFICES ASSUME NEW x \in invoked PROVE x[1] \in Calls /\ x[2] \in Nat /\ x[2] <= serial[x[1]]
    OBVIOUS
  <2>1. x \in Attempts /\ attempt[x] # "none"
    BY DEF TypeOK, History, Begun, Definite
  <2> QED
    BY <2>1, AttemptPair DEF Stage
<1> DEFINE Goal ==
        \A x \in invoked' :
            /\ attempt'[x] \in Begun
            /\ x[2] < serial'[x[1]] => Closed(x)'
            /\ pc'[x[1]] \in Choosing => Closed(x)'
            /\ pc'[x[1]] \in Admitting => x[2] < serial'[x[1]]
            /\ pc'[x[1]] # "idle"
<1>1. ASSUME NEW c \in Calls, Claims(c) PROVE Goal
  BY <1>1, <1>0, <1>k, <1>b, <1>s DEF Claims
<1>2. ASSUME NEW c \in Calls, Stops(c) PROVE Goal
  BY <1>2, <1>0, <1>k, <1>b, <1>s DEF Stops
<1>3. ASSUME NEW c \in Calls, Records(c) PROVE Goal
  BY <1>3, <1>0, <1>k, <1>b, <1>s DEF Records
<1>4. ASSUME NEW c \in Calls, Passes(c) PROVE Goal
  BY <1>4, <1>0, <1>k, <1>b, <1>s DEF Passes
<1>5. ASSUME NEW c \in Calls, Reroutes(c) PROVE Goal
  BY <1>5, <1>0, <1>k, <1>b, <1>s DEF Reroutes
<1>6. ASSUME NEW c \in Calls, Creates(c) PROVE Goal
  BY <1>6, <1>0, <1>k, <1>b, <1>s DEF Creates
<1>7. ASSUME NEW c \in Calls, Reserves(c) PROVE Goal
  BY <1>7, <1>0, <1>k, <1>b, <1>s DEF Reserves
<1>8. ASSUME NEW c \in Calls, Binds(c) PROVE Goal
  BY <1>8, <1>0, <1>k, <1>b, <1>s DEF Binds
<1>9. ASSUME NEW c \in Calls, GivesBack(c) PROVE Goal
  BY <1>9, <1>0, <1>k, <1>b, <1>s DEF GivesBack
<1>10. ASSUME NEW c \in Calls, Begins(c) PROVE Goal
  BY <1>10, <1>0, <1>k, <1>b, <1>s DEF Begins
<1>11. ASSUME NEW c \in Calls, Fails(c) PROVE Goal
  BY <1>11, <1>0, <1>k, <1>b, <1>s DEF Fails
<1>12. ASSUME NEW c \in Calls, Opens(c) PROVE Goal
  BY <1>12, <1>0, <1>k, <1>b, <1>s DEF Opens
<1>13. ASSUME NEW c \in Calls, Invokes(c) PROVE Goal
  <2>1. Current(c) \in Attempts /\ Current(c)[1] = c /\ Current(c)[2] = serial[c]
        /\ attempt[Current(c)] \in {"INVOKING", "INDETERMINATE"}
    BY <1>13, <1>c DEF Invokes, Stage, StageOf
  <2>2. attempt' = attempt /\ serial' = serial /\ pc'[c] = "executor" /\ \A d \in Calls : d # c => pc'[d] = pc[d]
    BY <1>13 DEF Invokes
  <2>3. ~(serial[c] < serial[c])
    BY <1>0
  <2>4. \A x \in invoked' : x \in invoked \/ x = Current(c)
    BY <1>13 DEF Invokes
  <2> QED
    BY <1>k, <1>b, <1>s, <2>1, <2>2, <2>3, <2>4 DEF Begun
<1>14. ASSUME NEW c \in Calls, Loses(c) PROVE Goal
  BY <1>14, <1>0, <1>k, <1>b, <1>s DEF Loses
<1>15. ASSUME NEW c \in Calls, Returns(c) PROVE Goal
  BY <1>15, <1>0, <1>k, <1>b, <1>s DEF Returns
<1>16. ASSUME NEW c \in Calls, ReturnsLate(c) PROVE Goal
  BY <1>16, <1>0, <1>k, <1>b, <1>s DEF ReturnsLate
<1>17. ASSUME NEW c \in Calls, Settles(c) PROVE Goal
  BY <1>17, <1>0, <1>k, <1>b, <1>s DEF Settles
<1>18. ASSUME NEW c \in Calls, Saves(c) PROVE Goal
  BY <1>18, <1>0, <1>k, <1>b, <1>s DEF Saves
<1>19. ASSUME NEW c \in Calls, Terminates(c) PROVE Goal
  BY <1>19, <1>0, <1>k, <1>b, <1>s DEF Terminates
<1>20. ASSUME NEW c \in Calls, Finishes(c) PROVE Goal
  BY <1>20, <1>0, <1>k, <1>b, <1>s DEF Finishes
<1>21. ASSUME NEW c \in Calls, FallsBack(c) PROVE Goal
  <2>1. Closed(Current(c))
    <3>1. Current(c) \in receipts /\ attempt[Current(c)] = TerminalState(Current(c))
      BY <1>21 DEF FallsBack, Stage, StageOf
    <3>2. outcome[Current(c)] \notin Accepted /\ TerminalState(Current(c)) # "INDETERMINATE" /\ CanFallback(Current(c))
      BY <1>21, <3>1 DEF FallsBack
    <3>3. ~MayHaveRun(Current(c)) /\ TerminalState(Current(c)) \in Definite
      BY <3>2 DEF TerminalState, Definite
    <3> QED
      BY <3>1, <3>2, <3>3 DEF Closed, CanFallback, MayHaveRun
  <2>2. ASSUME NEW x \in invoked, x[1] = c PROVE Closed(x)
    <3>1. CASE x[2] = serial[c]
      BY <1>k, <2>1, <2>2, <3>1, AttemptPair DEF Current
    <3>2. CASE x[2] # serial[c]
      BY <1>0, <1>s, <2>2, <3>2
    <3> QED
      BY <3>1, <3>2
  <2>3. serial' = serial /\ invoked' = invoked /\ pc'[c] = "next" /\ \A d \in Calls : d # c => pc'[d] = pc[d]
    BY <1>21 DEF FallsBack
  <2> QED
    BY <1>k, <1>b, <1>s, <2>2, <2>3 DEF Choosing, Admitting
<1>22. ASSUME NEW a \in Attempts, Expires(a) PROVE Goal
  BY <1>22, <1>0, <1>k, <1>b, <1>s DEF Expires
<1>23. ASSUME NEW a \in Attempts, Recovers(a) PROVE Goal
  BY <1>23, <1>0, <1>k, <1>b, <1>s DEF Recovers
<1>24. ASSUME Rests PROVE Goal
  BY <1>24, <1>0, <1>k, <1>b, <1>s DEF Rests
<1>25. Goal
  BY <1>1, <1>2, <1>3, <1>4, <1>5, <1>6, <1>7, <1>8, <1>9, <1>10, <1>11, <1>12, <1>13, <1>14, <1>15, <1>16, <1>17, <1>18, <1>19, <1>20, <1>21, <1>22, <1>23, <1>24 DEF Kinds
<1> QED
  BY <1>25

(* Every step keeps a key to one call.                                      *)
LEMMA KeyOwnerStep ==
    ASSUME TypeOK, Numbering, KeyHolder, KeyOwner, KeyStage, Kinds
    PROVE  KeyOwner'
<1> USE DEF KeyOwner, KeyStage, Engaged, Ends, attV, holdV, numV, hisV, Choosing, Admitting, Running, Trying
<1>q. /\ \A c \in Calls : Keyed(c) => KeyOf[c] \in Keys
      /\ \A c, d \in Calls : KeyOf[c] = KeyOf[d] => (Keyed(c) <=> Keyed(d))
      /\ key \in [Keys -> {"absent", "claimed", "executing", "complete", "indeterminate"}] /\ pc \in [Calls -> Labels]
  BY CallAssumption DEF Keyed, TypeOK
<1>p. \A x \in invoked : x \in Attempts /\ x[1] \in Calls
  BY AttemptPair DEF TypeOK
<1>e. \A c \in Calls : pc[c] \in Trying => Current(c)[1] = c
  BY CurrentIn
<1> DEFINE Goal ==
        /\ \A c, d \in Calls : Engaged(c)' /\ Engaged(d)' /\ Keyed(c) /\ KeyOf[c] = KeyOf[d] => c = d
        /\ \A x \in invoked' : Keyed(x[1]) => key'[KeyOf[x[1]]] \in {"executing", "complete", "indeterminate"}
        /\ \A x \in invoked', c \in Calls : Engaged(c)' /\ Keyed(c) /\ KeyOf[c] = KeyOf[x[1]] => c = x[1]
        /\ \A x, y \in invoked' : Keyed(x[1]) /\ KeyOf[x[1]] = KeyOf[y[1]] => x[1] = y[1]
<1>1. ASSUME NEW c \in Calls, Claims(c) PROVE Goal
  <2>1. \A d \in Calls : Engaged(d)' => Engaged(d) \/ d = c
    BY <1>1, <1>q DEF Claims
  <2>2. invoked' = invoked
    BY <1>1 DEF Claims
  <2>3. CASE ~Keyed(c) /\ key' = key
    BY <1>p, <1>q, <2>1, <2>2, <2>3
  <2>4. CASE Keyed(c) /\ key[KeyOf[c]] = "absent" /\ key' = [key EXCEPT ![KeyOf[c]] = "claimed"]
    <3>1. \A d \in Calls : KeyOf[d] = KeyOf[c] => ~Engaged(d)
      BY <1>q, <2>4
    <3>2. \A x \in invoked : KeyOf[x[1]] # KeyOf[c]
      BY <1>p, <1>q, <2>4
    <3>3. \A k \in Keys : k # KeyOf[c] => key'[k] = key[k]
      BY <1>q, <2>4
    <3> HIDE DEF Engaged, KeyStage
    <3> QED
      BY <1>p, <1>q, <2>1, <2>2, <3>1, <3>2, <3>3
  <2> QED
    BY <1>1, <2>3, <2>4 DEF Claims
<1>2. ASSUME NEW c \in Calls, Stops(c) PROVE Goal
  BY <1>2, <1>p, <1>q DEF Stops
<1>3. ASSUME NEW c \in Calls, Records(c) PROVE Goal
  BY <1>3, <1>p, <1>q DEF Records
<1>4. ASSUME NEW c \in Calls, Passes(c) PROVE Goal
  BY <1>4, <1>p, <1>q DEF Passes
<1>5. ASSUME NEW c \in Calls, Reroutes(c) PROVE Goal
  BY <1>5, <1>p, <1>q DEF Reroutes
<1>6. ASSUME NEW c \in Calls, Creates(c) PROVE Goal
  BY <1>6, <1>p, <1>q DEF Creates
<1>7. ASSUME NEW c \in Calls, Reserves(c) PROVE Goal
  BY <1>7, <1>p, <1>q DEF Reserves
<1>8. ASSUME NEW c \in Calls, Binds(c) PROVE Goal
  BY <1>8, <1>p, <1>q DEF Binds
<1>9. ASSUME NEW c \in Calls, GivesBack(c) PROVE Goal
  BY <1>9, <1>p, <1>q DEF GivesBack
<1>10. ASSUME NEW c \in Calls, Begins(c) PROVE Goal
  BY <1>10, <1>p, <1>q DEF Begins
<1>11. ASSUME NEW c \in Calls, Fails(c) PROVE Goal
  BY <1>11, <1>p, <1>q DEF Fails
<1>12. ASSUME NEW c \in Calls, Opens(c) PROVE Goal
  BY <1>12, <1>p, <1>q DEF Opens
<1>13. ASSUME NEW c \in Calls, Invokes(c) PROVE Goal
  <2>1. Current(c)[1] = c /\ (Keyed(c) => key[KeyOf[c]] = "executing") /\ Engaged(c)
    BY <1>13, <1>e DEF Invokes
  <2>2. invoked' = invoked \cup {Current(c)} /\ key' = key
    BY <1>13 DEF Invokes
  <2>3. \A d \in Calls : Engaged(d)' => Engaged(d)
    BY <1>13, <1>q DEF Invokes
  <2> HIDE DEF Engaged, KeyStage
  <2> QED
    BY <1>q, <1>p, <2>1, <2>2, <2>3
<1>14. ASSUME NEW c \in Calls, Loses(c) PROVE Goal
  BY <1>14, <1>p, <1>q DEF Loses
<1>15. ASSUME NEW c \in Calls, Returns(c) PROVE Goal
  BY <1>15, <1>p, <1>q DEF Returns
<1>16. ASSUME NEW c \in Calls, ReturnsLate(c) PROVE Goal
  BY <1>16, <1>p, <1>q DEF ReturnsLate
<1>17. ASSUME NEW c \in Calls, Settles(c) PROVE Goal
  BY <1>17, <1>p, <1>q DEF Settles
<1>18. ASSUME NEW c \in Calls, Saves(c) PROVE Goal
  BY <1>18, <1>p, <1>q DEF Saves
<1>19. ASSUME NEW c \in Calls, Terminates(c) PROVE Goal
  BY <1>19, <1>p, <1>q DEF Terminates
<1>20. ASSUME NEW c \in Calls, Finishes(c) PROVE Goal
  BY <1>20, <1>p, <1>q DEF Finishes
<1>21. ASSUME NEW c \in Calls, FallsBack(c) PROVE Goal
  BY <1>21, <1>p, <1>q DEF FallsBack
<1>22. ASSUME NEW a \in Attempts, Expires(a) PROVE Goal
  BY <1>22, <1>p, <1>q DEF Expires
<1>23. ASSUME NEW a \in Attempts, Recovers(a) PROVE Goal
  BY <1>23, <1>p, <1>q DEF Recovers
<1>24. ASSUME Rests PROVE Goal
  BY <1>24, <1>p, <1>q DEF Rests
<1>25. Goal
  BY <1>1, <1>2, <1>3, <1>4, <1>5, <1>6, <1>7, <1>8, <1>9, <1>10, <1>11, <1>12, <1>13, <1>14, <1>15, <1>16, <1>17, <1>18, <1>19, <1>20, <1>21, <1>22, <1>23, <1>24 DEF Kinds
<1> QED
  BY <1>25 DEF Keyed

(* Every step keeps the record of the key in line with the call.            *)
LEMMA KeyStageStep ==
    ASSUME TypeOK, Numbering, KeyHolder, KeyOwner, KeyStage, Kinds
    PROVE  KeyStage'
<1> USE DEF KeyOwner, KeyStage, Engaged, Ends, attV, holdV, numV, hisV, Choosing, Admitting, Running, Trying, Labels
<1>q. /\ \A c \in Calls : Keyed(c) => KeyOf[c] \in Keys
      /\ \A c, d \in Calls : KeyOf[c] = KeyOf[d] => (Keyed(c) <=> Keyed(d))
      /\ key \in [Keys -> {"absent", "claimed", "executing", "complete", "indeterminate"}] /\ pc \in [Calls -> Labels]
  BY CallAssumption DEF Keyed, TypeOK
<1>p. \A x \in invoked : x \in Attempts /\ x[1] \in Calls
  BY AttemptPair DEF TypeOK
<1>e. \A c \in Calls : pc[c] \in Trying => Current(c)[1] = c
  BY CurrentIn
<1>0. \A c \in Calls : num[c] \in Nat /\ num[c] >= 1
  BY RouteAssumption DEF TypeOK
<1> DEFINE Goal == \A d \in Calls : Keyed(d) =>
        LET k == key'[KeyOf[d]] IN
        /\ Engaged(d)' => k \in {"claimed", "executing", "indeterminate"}
        /\ pc'[d] \in {"next", "create", "look", "reserve", "reserved", "begin", "refused", "keyexec", "except"} =>
               k \in {"claimed", "executing"}
        /\ pc'[d] \in Choosing \cup Trying /\ num'[d] > 1 => k = "executing"
        /\ pc'[d] \in {"invoke", "complete"} \cup Running => k = "executing"
        /\ pc'[d] = "abandon" => k \in {"claimed", "indeterminate"}
<1>1. ASSUME NEW c \in Calls, Claims(c) PROVE Goal
  <2>1. num[c] = 1 /\ num' = num /\ pc'[c] = "next" /\ \A d \in Calls : d # c => pc'[d] = pc[d]
    BY <1>1, <1>q DEF Claims, Numbering
  <2>2. CASE ~Keyed(c) /\ key' = key
    BY <1>q, <2>1, <2>2
  <2>3. CASE Keyed(c) /\ key[KeyOf[c]] = "absent" /\ key' = [key EXCEPT ![KeyOf[c]] = "claimed"]
    <3>1. \A d \in Calls : KeyOf[d] = KeyOf[c] => ~Engaged(d)
      BY <1>q, <2>3
    <3>2. key'[KeyOf[c]] = "claimed" /\ \A k \in Keys : k # KeyOf[c] => key'[k] = key[k]
      BY <1>q, <2>3
    <3> QED
      BY <1>0, <1>q, <2>1, <3>1, <3>2
  <2> QED
    BY <1>1, <2>2, <2>3 DEF Claims
<1>2. ASSUME NEW c \in Calls, Stops(c) PROVE Goal
  BY <1>2, <1>0, <1>q DEF Stops
<1>3. ASSUME NEW c \in Calls, Records(c) PROVE Goal
  BY <1>3, <1>0, <1>q DEF Records
<1>4. ASSUME NEW c \in Calls, Passes(c) PROVE Goal
  BY <1>4, <1>0, <1>q DEF Passes
<1>5. ASSUME NEW c \in Calls, Reroutes(c) PROVE Goal
  BY <1>5, <1>0, <1>q DEF Reroutes, TypeOK
<1>6. ASSUME NEW c \in Calls, Creates(c) PROVE Goal
  BY <1>6, <1>0, <1>q DEF Creates
<1>7. ASSUME NEW c \in Calls, Reserves(c) PROVE Goal
  BY <1>7, <1>0, <1>q DEF Reserves
<1>8. ASSUME NEW c \in Calls, Binds(c) PROVE Goal
  BY <1>8, <1>0, <1>q DEF Binds
<1>9. ASSUME NEW c \in Calls, GivesBack(c) PROVE Goal
  BY <1>9, <1>0, <1>q DEF GivesBack
<1>10. ASSUME NEW c \in Calls, Begins(c) PROVE Goal
  BY <1>10, <1>0, <1>q DEF Begins
<1>11. ASSUME NEW c \in Calls, Fails(c) PROVE Goal
  BY <1>11, <1>0, <1>q DEF Fails
<1>12. ASSUME NEW c \in Calls, Opens(c) PROVE Goal
  BY <1>12, <1>0, <1>q DEF Opens, KeyHolder
<1>13. ASSUME NEW c \in Calls, Invokes(c) PROVE Goal
  BY <1>13, <1>0, <1>q DEF Invokes
<1>14. ASSUME NEW c \in Calls, Loses(c) PROVE Goal
  BY <1>14, <1>0, <1>q DEF Loses
<1>15. ASSUME NEW c \in Calls, Returns(c) PROVE Goal
  BY <1>15, <1>0, <1>q DEF Returns
<1>16. ASSUME NEW c \in Calls, ReturnsLate(c) PROVE Goal
  BY <1>16, <1>0, <1>q DEF ReturnsLate
<1>17. ASSUME NEW c \in Calls, Settles(c) PROVE Goal
  BY <1>17, <1>0, <1>q DEF Settles
<1>18. ASSUME NEW c \in Calls, Saves(c) PROVE Goal
  BY <1>18, <1>0, <1>q DEF Saves
<1>19. ASSUME NEW c \in Calls, Terminates(c) PROVE Goal
  BY <1>19, <1>0, <1>q DEF Terminates
<1>20. ASSUME NEW c \in Calls, Finishes(c) PROVE Goal
  BY <1>20, <1>0, <1>q DEF Finishes
<1>21. ASSUME NEW c \in Calls, FallsBack(c) PROVE Goal
  BY <1>21, <1>0, <1>q DEF FallsBack, TypeOK
<1>22. ASSUME NEW a \in Attempts, Expires(a) PROVE Goal
  BY <1>22, <1>0, <1>q DEF Expires
<1>23. ASSUME NEW a \in Attempts, Recovers(a) PROVE Goal
  BY <1>23, <1>0, <1>q DEF Recovers
<1>24. ASSUME Rests PROVE Goal
  BY <1>24, <1>0, <1>q DEF Rests
<1>25. Goal
  BY <1>1, <1>2, <1>3, <1>4, <1>5, <1>6, <1>7, <1>8, <1>9, <1>10, <1>11, <1>12, <1>13, <1>14, <1>15, <1>16, <1>17, <1>18, <1>19, <1>20, <1>21, <1>22, <1>23, <1>24 DEF Kinds
<1> QED
  BY <1>25 DEF Keyed

(* Every step keeps the invocations that a key's record has to list.        *)
LEMMA KeyListStep ==
    ASSUME TypeOK, Numbering, Stage, History, KeyHolder, KeyOwner, KeyStage, KeyList, Kinds
    PROVE  KeyList'
<1> USE DEF KeyList, Engaged, Ends, attV, holdV, numV, hisV, Choosing, Admitting, Running, Trying
<1>q. /\ \A c \in Calls : Keyed(c) => KeyOf[c] \in Keys
      /\ \A c, d \in Calls : KeyOf[c] = KeyOf[d] => (Keyed(c) <=> Keyed(d))
      /\ key \in [Keys -> {"absent", "claimed", "executing", "complete", "indeterminate"}] /\ pc \in [Calls -> Labels]
  BY CallAssumption DEF Keyed, TypeOK
<1>p. \A x \in invoked : x \in Attempts /\ x[1] \in Calls
  BY AttemptPair DEF TypeOK
<1>e. \A c \in Calls : pc[c] \in Trying => Current(c)[1] = c
  BY CurrentIn
<1>0. MaxAttempts \in Nat \ {0} /\ \A c \in Calls : num[c] \in Nat /\ num[c] >= 1
  BY CallAssumption, RouteAssumption DEF TypeOK
<1>k. /\ \A c \in Calls : Keyed(c) /\ key[KeyOf[c]] = "complete" => ~Engaged(c)
      /\ \A x \in invoked : Keyed(x[1]) => key[KeyOf[x[1]]] # "claimed"
  BY <1>p DEF KeyStage, KeyOwner
<1>l. \A x \in receipts : x \in Listed(x[1]) <=> (x[1] \in rerouted => x[2] > MaxAttempts)
  BY DEF Listed
<1>m. \A x : x \in Listed(x[1]) => x \in receipts
  BY DEF Listed
<1> DEFINE Goal == \A x \in invoked' : Keyed(x[1]) =>
        /\ \/ pc'[x[1]] \in Choosing \cup Trying /\ num'[x[1]] > 1
           \/ pc'[x[1]] \in {"invoke", "complete"} \cup Running
           => (x[1] \in rerouted' => x[2] > MaxAttempts)
        /\ pc'[x[1]] = "complete" => x \in receipts'
        /\ key'[KeyOf[x[1]]] = "complete" => x \in receipts' /\ (x[1] \in rerouted' => x[2] > MaxAttempts)
<1>1. ASSUME NEW c \in Calls, Claims(c) PROVE Goal
  <2>1. num' = num /\ invoked' = invoked /\ receipts' = receipts /\ rerouted' = rerouted
        /\ \A d \in Calls : d # c => pc'[d] = pc[d]
    BY <1>1, <1>q DEF Claims
  <2>2. \A x \in invoked : x[1] # c
    BY <1>1 DEF Claims, History
  <2>3. \A x \in invoked : Keyed(x[1]) => key'[KeyOf[x[1]]] = key[KeyOf[x[1]]] \/ key'[KeyOf[x[1]]] # "complete"
    BY <1>1, <1>p, <1>q DEF Claims
  <2> QED
    BY <1>l, <1>m, <1>p, <2>1, <2>2, <2>3
<1>2. ASSUME NEW c \in Calls, Stops(c) PROVE Goal
  BY <1>2, <1>0, <1>k, <1>l, <1>m, <1>p, <1>q DEF Stops
<1>3. ASSUME NEW c \in Calls, Records(c) PROVE Goal
  <2>1. ASSUME NEW x \in invoked, Keyed(x[1]), key'[KeyOf[x[1]]] = "complete"
        PROVE  x \in receipts /\ (x[1] \in rerouted => x[2] > MaxAttempts)
    <3>1. CASE key[KeyOf[x[1]]] = "complete"
      BY <1>l, <1>m, <1>p, <2>1, <3>1
    <3>2. CASE key[KeyOf[x[1]]] # "complete"
      <4>1. KeyOf[x[1]] = KeyOf[c] /\ pc[c] = "complete"
        BY <1>3, <1>p, <1>q, <2>1, <3>2 DEF Records
      <4>2. x[1] = c
        BY <4>1, <1>3 DEF KeyOwner, Records
      <4> QED
        BY <2>1, <4>1, <4>2
    <3> QED
      BY <3>1, <3>2
  <2> QED
    BY <1>3, <1>p, <1>q, <2>1 DEF Records
<1>4. ASSUME NEW c \in Calls, Passes(c) PROVE Goal
  BY <1>4, <1>0, <1>k, <1>l, <1>m, <1>p, <1>q DEF Passes
<1>5. ASSUME NEW c \in Calls, Reroutes(c) PROVE Goal
  <2>1. pc' = pc /\ key' = key /\ invoked' = invoked /\ receipts' = receipts /\ pc[c] = "next"
        /\ num'[c] = 1 /\ \A d \in Calls : d # c => (num'[d] = num[d] /\ (d \in rerouted' <=> d \in rerouted))
    BY <1>5 DEF Reroutes, TypeOK
  <2>2. Engaged(c) /\ ~(num'[c] > 1)
    BY <2>1
  <2>3. ASSUME NEW x \in invoked, Keyed(x[1]), x[1] = c PROVE key[KeyOf[x[1]]] # "complete"
    BY <1>k, <1>p, <2>2, <2>3
  <2> QED
    BY <1>l, <1>m, <1>p, <2>1, <2>2, <2>3
<1>6. ASSUME NEW c \in Calls, Creates(c) PROVE Goal
  BY <1>6, <1>0, <1>k, <1>l, <1>m, <1>p, <1>q DEF Creates
<1>7. ASSUME NEW c \in Calls, Reserves(c) PROVE Goal
  BY <1>7, <1>0, <1>k, <1>l, <1>m, <1>p, <1>q DEF Reserves
<1>8. ASSUME NEW c \in Calls, Binds(c) PROVE Goal
  BY <1>8, <1>0, <1>k, <1>l, <1>m, <1>p, <1>q DEF Binds
<1>9. ASSUME NEW c \in Calls, GivesBack(c) PROVE Goal
  BY <1>9, <1>0, <1>k, <1>l, <1>m, <1>p, <1>q DEF GivesBack
<1>10. ASSUME NEW c \in Calls, Begins(c) PROVE Goal
  BY <1>10, <1>0, <1>k, <1>l, <1>m, <1>p, <1>q DEF Begins
<1>11. ASSUME NEW c \in Calls, Fails(c) PROVE Goal
  BY <1>11, <1>0, <1>k, <1>l, <1>m, <1>p, <1>q DEF Fails
<1>12. ASSUME NEW c \in Calls, Opens(c) PROVE Goal
  BY <1>12, <1>0, <1>k, <1>l, <1>m, <1>p, <1>q DEF Opens
<1>13. ASSUME NEW c \in Calls, Invokes(c) PROVE Goal
  <2>1. Current(c)[1] = c /\ Current(c)[2] = serial[c] /\ Engaged(c) /\ num[c] \in Nat /\ serial[c] \in Nat
    BY <1>13, CurrentIn, <1>0 DEF Invokes, TypeOK
  <2>2. c \in rerouted => Current(c)[2] > MaxAttempts
    <3>1. serial[c] = Base(c) + num[c]
      BY <1>13 DEF Invokes, Numbering
    <3> QED
      BY <1>0, <2>1, <3>1 DEF Base
  <2>3. \A x \in invoked' : x \in invoked \/ x = Current(c)
    BY <1>13 DEF Invokes
  <2>4. key' = key /\ rerouted' = rerouted /\ receipts' = receipts /\ num' = num
        /\ pc'[c] = "executor" /\ pc[c] = "invoke" /\ \A d \in Calls : d # c => pc'[d] = pc[d]
    BY <1>13, <1>q DEF Invokes
  <2> QED
    BY <1>k, <1>l, <1>m, <1>p, <2>1, <2>2, <2>3, <2>4
<1>14. ASSUME NEW c \in Calls, Loses(c) PROVE Goal
  BY <1>14, <1>0, <1>k, <1>l, <1>m, <1>p, <1>q DEF Loses
<1>15. ASSUME NEW c \in Calls, Returns(c) PROVE Goal
  BY <1>15, <1>0, <1>k, <1>l, <1>m, <1>p, <1>q DEF Returns
<1>16. ASSUME NEW c \in Calls, ReturnsLate(c) PROVE Goal
  BY <1>16, <1>0, <1>k, <1>l, <1>m, <1>p, <1>q DEF ReturnsLate
<1>17. ASSUME NEW c \in Calls, Settles(c) PROVE Goal
  BY <1>17, <1>0, <1>k, <1>l, <1>m, <1>p, <1>q DEF Settles
<1>18. ASSUME NEW c \in Calls, Saves(c) PROVE Goal
  BY <1>18, <1>0, <1>k, <1>l, <1>m, <1>p, <1>q DEF Saves
<1>19. ASSUME NEW c \in Calls, Terminates(c) PROVE Goal
  BY <1>19, <1>0, <1>k, <1>l, <1>m, <1>p, <1>q DEF Terminates
<1>20. ASSUME NEW c \in Calls, Finishes(c) PROVE Goal
  <2>1. \A x \in invoked : x[1] = c => x \in receipts
    <3> SUFFICES ASSUME NEW x \in invoked, x[1] = c PROVE x \in receipts
      OBVIOUS
    <3>0. attempt[x] # "none" /\ x \in Attempts /\ serial[c] \in Nat
      <4>1. attempt[x] # "none"
        BY DEF History, Begun, Definite
      <4>2. serial[c] \in 0 .. 2 * MaxAttempts
        BY DEF TypeOK
      <4> QED
        BY <1>0, <1>p, <4>1, <4>2
    <3>1. Current(c) \in receipts /\ attempt[x] # "none" /\ x \in Attempts /\ serial[c] \in Nat
      BY <1>20, <3>0 DEF Finishes, Stage, StageOf
    <3>2. x[2] \in Nat /\ x[2] <= serial[c] /\ x = <<x[1], x[2]>>
      BY <3>1, AttemptPair DEF Stage
    <3>3. CASE x[2] = serial[c]
      BY <3>1, <3>2, <3>3 DEF Current
    <3>4. CASE x[2] < serial[c]
      BY <3>4 DEF History, Closed
    <3> QED
      BY <3>1, <3>2, <3>3, <3>4
  <2> QED
    BY <1>20, <1>0, <1>k, <1>l, <1>m, <1>p, <1>q, <2>1 DEF Finishes
<1>21. ASSUME NEW c \in Calls, FallsBack(c) PROVE Goal
  BY <1>21, <1>0, <1>k, <1>l, <1>m, <1>p, <1>q DEF FallsBack, TypeOK
<1>22. ASSUME NEW a \in Attempts, Expires(a) PROVE Goal
  BY <1>22, <1>0, <1>k, <1>l, <1>m, <1>p, <1>q DEF Expires
<1>23. ASSUME NEW a \in Attempts, Recovers(a) PROVE Goal
  BY <1>23, <1>0, <1>k, <1>l, <1>m, <1>p, <1>q DEF Recovers
<1>24. ASSUME Rests PROVE Goal
  BY <1>24, <1>0, <1>k, <1>l, <1>m, <1>p, <1>q DEF Rests
<1>25. Goal
  BY <1>1, <1>2, <1>3, <1>4, <1>5, <1>6, <1>7, <1>8, <1>9, <1>10, <1>11, <1>12, <1>13, <1>14, <1>15, <1>16, <1>17, <1>18, <1>19, <1>20, <1>21, <1>22, <1>23, <1>24 DEF Kinds
<1> QED
  <2>1. \A x \in receipts' : (x[1] \in rerouted' => x[2] > MaxAttempts) => x \in Listed(x[1])'
    BY DEF Listed
  <2> QED
    BY <1>25, <2>1 DEF Keyed

(* Every step keeps a task scope to one open attempt.                       *)
LEMMA OneOpenStep ==
    ASSUME TypeOK, Numbering, Stage, Scope, Kinds
    PROVE  \A x, y \in Attempts :
               /\ x[1] \in Scoped /\ attempt'[x] \notin Definite \cup {"none"}
               /\ y[1] \in Scoped /\ attempt'[y] \notin Definite \cup {"none"}
               => x = y
<1> USE DEF Scope, attV, holdV, numV, hisV, Choosing, Admitting, Running, Trying
<1>0. MaxAttempts \in Nat \ {0} /\ \A c \in Calls : serial[c] \in Nat /\ num[c] \in Nat
  BY CallAssumption DEF TypeOK
<1>c. \A c \in Calls : pc[c] \in Trying =>
          /\ Current(c) \in Attempts /\ Current(c)[1] = c /\ Current(c)[2] = serial[c]
  BY CurrentIn
<1>n. \A c \in Calls : pc[c] \in Choosing => <<c, serial[c] + 1>> \in Attempts
  BY NextIn
<1>d. \A x \in Attempts : attempt[x] \in Definite => attempt'[x] \in Definite
  BY Settled
<1> DEFINE Over == Definite \cup {"none"}
           Goal == \A x \in Attempts : x[1] \in Scoped /\ attempt'[x] \notin Over =>
                       \A y \in Attempts : y[1] \in Scoped /\ attempt'[y] \notin Over => x = y
<1>g. ASSUME \A x \in Attempts : attempt[x] = "none" => attempt'[x] = "none"
      PROVE  Goal
  BY <1>d, <1>g
<1>1. ASSUME NEW c \in Calls, Claims(c) PROVE Goal
  <2>1. \A x \in Attempts : attempt[x] = "none" => attempt'[x] = "none"
    BY <1>1, <1>c DEF Claims, Stage, StageOf
  <2> QED
    BY <1>g, <2>1
<1>2. ASSUME NEW c \in Calls, Stops(c) PROVE Goal
  <2>1. \A x \in Attempts : attempt[x] = "none" => attempt'[x] = "none"
    BY <1>2, <1>c DEF Stops, Stage, StageOf
  <2> QED
    BY <1>g, <2>1
<1>3. ASSUME NEW c \in Calls, Records(c) PROVE Goal
  <2>1. \A x \in Attempts : attempt[x] = "none" => attempt'[x] = "none"
    BY <1>3, <1>c DEF Records, Stage, StageOf
  <2> QED
    BY <1>g, <2>1
<1>4. ASSUME NEW c \in Calls, Passes(c) PROVE Goal
  <2>1. \A x \in Attempts : attempt[x] = "none" => attempt'[x] = "none"
    BY <1>4, <1>c DEF Passes, Stage, StageOf
  <2> QED
    BY <1>g, <2>1
<1>5. ASSUME NEW c \in Calls, Reroutes(c) PROVE Goal
  <2>1. \A x \in Attempts : attempt[x] = "none" => attempt'[x] = "none"
    BY <1>5, <1>c DEF Reroutes, Stage, StageOf
  <2> QED
    BY <1>g, <2>1
<1>6. ASSUME NEW c \in Calls, Creates(c) PROVE Goal
  <2> DEFINE n == <<c, serial[c] + 1>>
  <2>1. n \in Attempts /\ n[1] = c
    BY <1>6, <1>n DEF Creates
  <2>2. \A x \in Attempts : x # n => attempt'[x] = attempt[x]
    BY <1>6, <2>1 DEF Creates, TypeOK
  <2>3. CASE c \notin Scoped
    BY <2>1, <2>2, <2>3
  <2>4. CASE c \in Scoped
    <3>1. \A x \in Attempts : x[1] \in Scoped /\ attempt[x] # "none" => attempt[x] \in Definite
      BY <1>6, <2>4 DEF Creates, ScopeAdmits
    <3> QED
      BY <2>2, <3>1
  <2> QED
    BY <2>3, <2>4
<1>7. ASSUME NEW c \in Calls, Reserves(c) PROVE Goal
  <2>1. \A x \in Attempts : attempt[x] = "none" => attempt'[x] = "none"
    BY <1>7, <1>c DEF Reserves, Stage, StageOf
  <2> QED
    BY <1>g, <2>1
<1>8. ASSUME NEW c \in Calls, Binds(c) PROVE Goal
  <2>1. \A x \in Attempts : attempt[x] = "none" => attempt'[x] = "none"
    BY <1>8, <1>c DEF Binds, Stage, StageOf
  <2> QED
    BY <1>g, <2>1
<1>9. ASSUME NEW c \in Calls, GivesBack(c) PROVE Goal
  <2>1. \A x \in Attempts : attempt[x] = "none" => attempt'[x] = "none"
    BY <1>9, <1>c DEF GivesBack, Stage, StageOf
  <2> QED
    BY <1>g, <2>1
<1>10. ASSUME NEW c \in Calls, Begins(c) PROVE Goal
  <2>1. \A x \in Attempts : attempt[x] = "none" => attempt'[x] = "none"
    BY <1>10, <1>c DEF Begins, Stage, StageOf
  <2> QED
    BY <1>g, <2>1
<1>11. ASSUME NEW c \in Calls, Fails(c) PROVE Goal
  <2>1. \A x \in Attempts : attempt[x] = "none" => attempt'[x] = "none"
    BY <1>11, <1>c DEF Fails, Stage, StageOf
  <2> QED
    BY <1>g, <2>1
<1>12. ASSUME NEW c \in Calls, Opens(c) PROVE Goal
  <2>1. \A x \in Attempts : attempt[x] = "none" => attempt'[x] = "none"
    BY <1>12, <1>c DEF Opens, Stage, StageOf
  <2> QED
    BY <1>g, <2>1
<1>13. ASSUME NEW c \in Calls, Invokes(c) PROVE Goal
  <2>1. \A x \in Attempts : attempt[x] = "none" => attempt'[x] = "none"
    BY <1>13, <1>c DEF Invokes, Stage, StageOf
  <2> QED
    BY <1>g, <2>1
<1>14. ASSUME NEW c \in Calls, Loses(c) PROVE Goal
  <2>1. \A x \in Attempts : attempt[x] = "none" => attempt'[x] = "none"
    BY <1>14, <1>c DEF Loses, Stage, StageOf
  <2> QED
    BY <1>g, <2>1
<1>15. ASSUME NEW c \in Calls, Returns(c) PROVE Goal
  <2>1. \A x \in Attempts : attempt[x] = "none" => attempt'[x] = "none"
    BY <1>15, <1>c DEF Returns, Stage, StageOf
  <2> QED
    BY <1>g, <2>1
<1>16. ASSUME NEW c \in Calls, ReturnsLate(c) PROVE Goal
  <2>1. \A x \in Attempts : attempt[x] = "none" => attempt'[x] = "none"
    BY <1>16, <1>c DEF ReturnsLate, Stage, StageOf
  <2> QED
    BY <1>g, <2>1
<1>17. ASSUME NEW c \in Calls, Settles(c) PROVE Goal
  <2>1. \A x \in Attempts : attempt[x] = "none" => attempt'[x] = "none"
    BY <1>17, <1>c DEF Settles, Stage, StageOf
  <2> QED
    BY <1>g, <2>1
<1>18. ASSUME NEW c \in Calls, Saves(c) PROVE Goal
  <2>1. \A x \in Attempts : attempt[x] = "none" => attempt'[x] = "none"
    BY <1>18, <1>c DEF Saves, Stage, StageOf
  <2> QED
    BY <1>g, <2>1
<1>19. ASSUME NEW c \in Calls, Terminates(c) PROVE Goal
  <2>1. \A x \in Attempts : attempt[x] = "none" => attempt'[x] = "none"
    BY <1>19, <1>c DEF Terminates, TerminalState, Stage, StageOf
  <2> QED
    BY <1>g, <2>1
<1>20. ASSUME NEW c \in Calls, Finishes(c) PROVE Goal
  <2>1. \A x \in Attempts : attempt[x] = "none" => attempt'[x] = "none"
    BY <1>20, <1>c DEF Finishes, Stage, StageOf
  <2> QED
    BY <1>g, <2>1
<1>21. ASSUME NEW c \in Calls, FallsBack(c) PROVE Goal
  <2>1. \A x \in Attempts : attempt[x] = "none" => attempt'[x] = "none"
    BY <1>21, <1>c DEF FallsBack, Stage, StageOf
  <2> QED
    BY <1>g, <2>1
<1>22. ASSUME NEW a \in Attempts, Expires(a) PROVE Goal
  <2>1. \A x \in Attempts : attempt[x] = "none" => attempt'[x] = "none"
    BY <1>22 DEF Expires, TypeOK
  <2> QED
    BY <1>g, <2>1
<1>23. ASSUME NEW a \in Attempts, Recovers(a) PROVE Goal
  <2>1. \A x \in Attempts : attempt[x] = "none" => attempt'[x] = "none"
    BY <1>23 DEF Recovers, TypeOK
  <2> QED
    BY <1>g, <2>1
<1>24. ASSUME Rests PROVE Goal
  <2>1. \A x \in Attempts : attempt[x] = "none" => attempt'[x] = "none"
    BY <1>24 DEF Rests, TypeOK
  <2> QED
    BY <1>g, <2>1
<1>25. Goal
  BY <1>1, <1>2, <1>3, <1>4, <1>5, <1>6, <1>7, <1>8, <1>9, <1>10, <1>11, <1>12, <1>13, <1>14, <1>15, <1>16, <1>17, <1>18, <1>19, <1>20, <1>21, <1>22, <1>23, <1>24 DEF Kinds
<1> QED
  BY <1>25

(* Every step keeps a failed write of a task scope open.                    *)
LEMMA WritesStep ==
    ASSUME TypeOK, Numbering, Stage, History, Scope, Kinds
    PROVE  \A x \in invoked' :
               x[1] \in Scoped /\ attempt'[x] \in Definite => via'[x] \in Reads \/ outcome'[x] \in Accepted
<1> USE DEF Scope, attV, holdV, numV, hisV, Choosing, Admitting, Running, Trying
<1>0. MaxAttempts \in Nat \ {0} /\ \A c \in Calls : serial[c] \in Nat /\ num[c] \in Nat
  BY CallAssumption DEF TypeOK
<1>c. \A c \in Calls : pc[c] \in Trying =>
          /\ Current(c) \in Attempts /\ Current(c)[1] = c /\ Current(c)[2] = serial[c]
  BY CurrentIn
<1>n. \A c \in Calls : pc[c] \in Choosing => <<c, serial[c] + 1>> \in Attempts
  BY NextIn
<1>p. \A x \in invoked : x \in Attempts /\ attempt[x] \in Begun
  BY DEF History, TypeOK
<1> DEFINE Goal == \A x \in invoked' :
        x[1] \in Scoped /\ attempt'[x] \in Definite => via'[x] \in Reads \/ outcome'[x] \in Accepted
<1>g. ASSUME invoked' = invoked, \A x \in invoked : attempt'[x] \in Definite => attempt[x] \in Definite
      PROVE  Goal
  BY <1>g, <1>p, Settled
<1>1. ASSUME NEW c \in Calls, Claims(c) PROVE Goal
  <2>1. invoked' = invoked /\ \A x \in invoked : attempt'[x] \in Definite => attempt[x] \in Definite
    BY <1>1, <1>c, <1>p DEF Claims, Stage, StageOf, Begun, Definite, TypeOK
  <2> QED
    BY <1>g, <2>1
<1>2. ASSUME NEW c \in Calls, Stops(c) PROVE Goal
  <2>1. invoked' = invoked /\ \A x \in invoked : attempt'[x] \in Definite => attempt[x] \in Definite
    BY <1>2, <1>c, <1>p DEF Stops, Stage, StageOf, Begun, Definite, TypeOK
  <2> QED
    BY <1>g, <2>1
<1>3. ASSUME NEW c \in Calls, Records(c) PROVE Goal
  <2>1. invoked' = invoked /\ \A x \in invoked : attempt'[x] \in Definite => attempt[x] \in Definite
    BY <1>3, <1>c, <1>p DEF Records, Stage, StageOf, Begun, Definite, TypeOK
  <2> QED
    BY <1>g, <2>1
<1>4. ASSUME NEW c \in Calls, Passes(c) PROVE Goal
  <2>1. invoked' = invoked /\ \A x \in invoked : attempt'[x] \in Definite => attempt[x] \in Definite
    BY <1>4, <1>c, <1>p DEF Passes, Stage, StageOf, Begun, Definite, TypeOK
  <2> QED
    BY <1>g, <2>1
<1>5. ASSUME NEW c \in Calls, Reroutes(c) PROVE Goal
  <2>1. invoked' = invoked /\ \A x \in invoked : attempt'[x] \in Definite => attempt[x] \in Definite
    BY <1>5, <1>c, <1>p DEF Reroutes, Stage, StageOf, Begun, Definite, TypeOK
  <2> QED
    BY <1>g, <2>1
<1>6. ASSUME NEW c \in Calls, Creates(c) PROVE Goal
  <2>1. invoked' = invoked /\ \A x \in invoked : attempt'[x] \in Definite => attempt[x] \in Definite
    BY <1>6, <1>n, <1>p DEF Creates, Stage, StageOf, Begun, Definite, TypeOK
  <2> QED
    BY <1>g, <2>1
<1>7. ASSUME NEW c \in Calls, Reserves(c) PROVE Goal
  <2>1. invoked' = invoked /\ \A x \in invoked : attempt'[x] \in Definite => attempt[x] \in Definite
    BY <1>7, <1>c, <1>p DEF Reserves, Stage, StageOf, Begun, Definite, TypeOK
  <2> QED
    BY <1>g, <2>1
<1>8. ASSUME NEW c \in Calls, Binds(c) PROVE Goal
  <2>1. invoked' = invoked /\ \A x \in invoked : attempt'[x] \in Definite => attempt[x] \in Definite
    BY <1>8, <1>c, <1>p DEF Binds, Stage, StageOf, Begun, Definite, TypeOK
  <2> QED
    BY <1>g, <2>1
<1>9. ASSUME NEW c \in Calls, GivesBack(c) PROVE Goal
  <2>1. invoked' = invoked /\ \A x \in invoked : attempt'[x] \in Definite => attempt[x] \in Definite
    BY <1>9, <1>c, <1>p DEF GivesBack, Stage, StageOf, Begun, Definite, TypeOK
  <2> QED
    BY <1>g, <2>1
<1>10. ASSUME NEW c \in Calls, Begins(c) PROVE Goal
  <2>1. invoked' = invoked /\ \A x \in invoked : attempt'[x] \in Definite => attempt[x] \in Definite
    BY <1>10, <1>c, <1>p DEF Begins, Stage, StageOf, Begun, Definite, TypeOK
  <2> QED
    BY <1>g, <2>1
<1>11. ASSUME NEW c \in Calls, Fails(c) PROVE Goal
  <2>1. invoked' = invoked /\ \A x \in invoked : attempt'[x] \in Definite => attempt[x] \in Definite
    BY <1>11, <1>c, <1>p DEF Fails, Stage, StageOf, Begun, Definite, TypeOK
  <2> QED
    BY <1>g, <2>1
<1>12. ASSUME NEW c \in Calls, Opens(c) PROVE Goal
  <2>1. invoked' = invoked /\ \A x \in invoked : attempt'[x] \in Definite => attempt[x] \in Definite
    BY <1>12, <1>c, <1>p DEF Opens, Stage, StageOf, Begun, Definite, TypeOK
  <2> QED
    BY <1>g, <2>1
<1>13. ASSUME NEW c \in Calls, Invokes(c) PROVE Goal
  <2>1. Current(c) \in Attempts /\ attempt[Current(c)] \notin Definite
    BY <1>13, <1>c DEF Invokes, Stage, StageOf, Definite
  <2> QED
    BY <1>13, <1>p, <2>1, Settled DEF Invokes
<1>14. ASSUME NEW c \in Calls, Loses(c) PROVE Goal
  <2>1. invoked' = invoked /\ \A x \in invoked : attempt'[x] \in Definite => attempt[x] \in Definite
    BY <1>14, <1>c, <1>p DEF Loses, Stage, StageOf, Begun, Definite, TypeOK
  <2> QED
    BY <1>g, <2>1
<1>15. ASSUME NEW c \in Calls, Returns(c) PROVE Goal
  <2>1. invoked' = invoked /\ \A x \in invoked : attempt'[x] \in Definite => attempt[x] \in Definite
    BY <1>15, <1>c, <1>p DEF Returns, Stage, StageOf, Begun, Definite, TypeOK
  <2> QED
    BY <1>g, <2>1
<1>16. ASSUME NEW c \in Calls, ReturnsLate(c) PROVE Goal
  <2>1. invoked' = invoked /\ \A x \in invoked : attempt'[x] \in Definite => attempt[x] \in Definite
    BY <1>16, <1>c, <1>p DEF ReturnsLate, Stage, StageOf, Begun, Definite, TypeOK
  <2> QED
    BY <1>g, <2>1
<1>17. ASSUME NEW c \in Calls, Settles(c) PROVE Goal
  <2>1. invoked' = invoked /\ \A x \in invoked : attempt'[x] \in Definite => attempt[x] \in Definite
    BY <1>17, <1>c, <1>p DEF Settles, Stage, StageOf, Begun, Definite, TypeOK
  <2> QED
    BY <1>g, <2>1
<1>18. ASSUME NEW c \in Calls, Saves(c) PROVE Goal
  <2>1. invoked' = invoked /\ \A x \in invoked : attempt'[x] \in Definite => attempt[x] \in Definite
    BY <1>18, <1>c, <1>p DEF Saves, Stage, StageOf, Begun, Definite, TypeOK
  <2> QED
    BY <1>g, <2>1
<1>19. ASSUME NEW c \in Calls, Terminates(c) PROVE Goal
  <2>1. /\ Current(c) \in Attempts /\ attempt' = [attempt EXCEPT ![Current(c)] = TerminalState(Current(c))]
        /\ via' = via /\ outcome' = outcome /\ invoked' = invoked
    BY <1>19, <1>c DEF Terminates
  <2>2. \A x \in Attempts : x # Current(c) => attempt'[x] = attempt[x]
    BY <2>1 DEF TypeOK
  <2>3. attempt'[Current(c)] = TerminalState(Current(c))
    BY <2>1 DEF TypeOK
  <2>4. ASSUME Current(c)[1] \in Scoped, TerminalState(Current(c)) \in Definite
        PROVE  via[Current(c)] \in Reads \/ outcome[Current(c)] \in Accepted
    BY <2>4 DEF TerminalState, UnprovenWrite, Definite
  <2> QED
    BY <1>p, <2>1, <2>2, <2>3, <2>4
<1>20. ASSUME NEW c \in Calls, Finishes(c) PROVE Goal
  <2>1. invoked' = invoked /\ \A x \in invoked : attempt'[x] \in Definite => attempt[x] \in Definite
    BY <1>20, <1>c, <1>p DEF Finishes, Stage, StageOf, Begun, Definite, TypeOK
  <2> QED
    BY <1>g, <2>1
<1>21. ASSUME NEW c \in Calls, FallsBack(c) PROVE Goal
  <2>1. invoked' = invoked /\ \A x \in invoked : attempt'[x] \in Definite => attempt[x] \in Definite
    BY <1>21, <1>c, <1>p DEF FallsBack, Stage, StageOf, Begun, Definite, TypeOK
  <2> QED
    BY <1>g, <2>1
<1>22. ASSUME NEW a \in Attempts, Expires(a) PROVE Goal
  <2>1. invoked' = invoked /\ \A x \in invoked : attempt'[x] \in Definite => attempt[x] \in Definite
    BY <1>22, <1>c, <1>p DEF Expires, Stage, StageOf, Begun, Definite, TypeOK
  <2> QED
    BY <1>g, <2>1
<1>23. ASSUME NEW a \in Attempts, Recovers(a) PROVE Goal
  <2>1. invoked' = invoked /\ \A x \in invoked : attempt'[x] \in Definite => attempt[x] \in Definite
    BY <1>23, <1>c, <1>p DEF Recovers, Stage, StageOf, Begun, Definite, TypeOK
  <2> QED
    BY <1>g, <2>1
<1>24. ASSUME Rests PROVE Goal
  <2>1. invoked' = invoked /\ \A x \in invoked : attempt'[x] \in Definite => attempt[x] \in Definite
    BY <1>24, <1>c, <1>p DEF Rests, Stage, StageOf, Begun, Definite, TypeOK
  <2> QED
    BY <1>g, <2>1
<1>25. Goal
  BY <1>1, <1>2, <1>3, <1>4, <1>5, <1>6, <1>7, <1>8, <1>9, <1>10, <1>11, <1>12, <1>13, <1>14, <1>15, <1>16, <1>17, <1>18, <1>19, <1>20, <1>21, <1>22, <1>23, <1>24 DEF Kinds
<1> QED
  BY <1>25

(* What a live hold counts for.                                            *)
LEMMA LiveCost ==
    ASSUME TypeOK, Holds
    PROVE  \A x \in Live : x \in Attempts /\ via[x] \in Managed /\ Cost[via[x]] \in Nat
BY RouteAssumption DEF Live, Holds

(* Giving holds back keeps the pool within its capacity.                   *)
LEMMA PoolShrinks ==
    ASSUME TypeOK, Holds, Pool, Live' \subseteq Live, \A x \in Live : via'[x] = via[x]
    PROVE  Pool'
<1> DEFINE L == Live
           M == Live'
           f == [a \in L |-> Cost[via[a]]]
           g == [a \in M |-> Cost[via'[a]]]
<1>1. IsFiniteSet(L) /\ M \subseteq L /\ SumFunctionOnSet(f, L) <= Capacity /\ Capacity \in Nat
  BY RouteAssumption DEF Pool, CapacityRespected, Held
<1>2. \A x \in L : f[x] \in Nat
  BY LiveCost
<1>3. \A x \in M : f[x] = g[x]
  OBVIOUS
<1>4. Held' = SumFunctionOnSet(g, M)
  BY DEF Held
<1> HIDE DEF f, g, L, M
<1>5. IsFiniteSet(M)
  BY <1>1, FS_Subset
<1>6. SumFunctionOnSet(f, M) <= SumFunctionOnSet(f, L)
  BY <1>1, <1>2, SumSubset
<1>7. SumFunctionOnSet(f, M) = SumFunctionOnSet(g, M)
  BY <1>3, <1>5, SumSame
<1>8. SumFunctionOnSet(f, L) \in Nat /\ SumFunctionOnSet(f, M) \in Nat
  <2>1. \A x \in M : f[x] \in Nat
    BY <1>1, <1>2
  <2> QED
    BY <1>1, <1>2, <1>5, <2>1, SumNat
<1>9. Held' <= Capacity
  BY <1>1, <1>4, <1>6, <1>7, <1>8
<1> QED
  BY <1>5, <1>9 DEF Pool, CapacityRespected, M

(* A reservation within what is known to be left does too.                 *)
LEMMA PoolGrows ==
    ASSUME TypeOK, Holds, Pool, NEW n \in Attempts, n \notin Live, Live' = Live \cup {n}, via' = via,
           via[n] \in Managed, NEW k \in 0 .. Capacity, Held + Cost[via[n]] <= k
    PROVE  Pool'
<1> DEFINE L == Live
           f == [a \in L |-> Cost[via[a]]]
           g == [a \in L \cup {n} |-> Cost[via[a]]]
<1>1. IsFiniteSet(L) /\ n \notin L /\ Held = SumFunctionOnSet(f, L) /\ Capacity \in Nat
  BY RouteAssumption DEF Pool, Held
<1>2. \A x \in L : f[x] \in Nat
  BY LiveCost
<1>3. (\A x \in L : f[x] = g[x]) /\ \A x \in L \cup {n} : g[x] \in Int
  BY LiveCost, RouteAssumption
<1>4. Held' = SumFunctionOnSet(g, L \cup {n}) /\ Live' = L \cup {n} /\ g[n] = Cost[via[n]] /\ Cost[via[n]] \in Nat
  BY RouteAssumption DEF Held
<1> HIDE DEF f, g, L
<1>5. SumFunctionOnSet(g, L \cup {n}) = g[n] + SumFunctionOnSet(g, L)
  BY <1>1, <1>3, SumAdd
<1>6. SumFunctionOnSet(f, L) = SumFunctionOnSet(g, L)
  BY <1>1, <1>3, SumSame
<1>7. SumFunctionOnSet(f, L) \in Nat
  BY <1>1, <1>2, SumNat
<1>8. Held' <= Capacity
  BY <1>1, <1>4, <1>5, <1>6, <1>7
<1>9. IsFiniteSet(Live')
  BY <1>1, <1>4, FS_AddElement
<1> QED
  BY <1>8, <1>9 DEF Pool, CapacityRespected

(* Every step keeps the holds within the capacity.                          *)
LEMMA PoolStep ==
    ASSUME TypeOK, Numbering, Stage, Holds, Pool, Kinds
    PROVE  Pool'
<1> USE DEF attV, holdV, numV, hisV, Choosing, Admitting, Running, Trying
<1>0. MaxAttempts \in Nat \ {0} /\ \A c \in Calls : serial[c] \in Nat /\ num[c] \in Nat
  BY CallAssumption DEF TypeOK
<1>c. \A c \in Calls : pc[c] \in Trying =>
          /\ Current(c) \in Attempts /\ Current(c)[1] = c /\ Current(c)[2] = serial[c]
  BY CurrentIn
<1>n. \A c \in Calls : pc[c] \in Choosing => <<c, serial[c] + 1>> \in Attempts
  BY NextIn
<1>d. \A c \in Calls : pc[c] \in Choosing => hold[<<c, serial[c] + 1>>] = "none"
  <2> SUFFICES ASSUME NEW c \in Calls, pc[c] \in Choosing PROVE hold[<<c, serial[c] + 1>>] = "none"
    OBVIOUS
  <2>1. ~(serial[c] + 1 <= serial[c]) /\ <<c, serial[c] + 1>>[2] = serial[c] + 1 /\ <<c, serial[c] + 1>>[1] = c
    BY <1>0
  <2>2. attempt[<<c, serial[c] + 1>>] = "none"
    BY <1>n, <2>1 DEF Stage
  <2> QED
    BY <1>n, <2>2 DEF Holds
<1>1. ASSUME NEW c \in Calls, Claims(c) PROVE Pool'
  <2>1. Live' \subseteq Live /\ \A x \in Live : via'[x] = via[x]
    BY <1>1 DEF Live, Claims
  <2> QED
    BY <2>1, PoolShrinks
<1>2. ASSUME NEW c \in Calls, Stops(c) PROVE Pool'
  <2>1. Live' \subseteq Live /\ \A x \in Live : via'[x] = via[x]
    BY <1>2 DEF Live, Stops
  <2> QED
    BY <2>1, PoolShrinks
<1>3. ASSUME NEW c \in Calls, Records(c) PROVE Pool'
  <2>1. Live' \subseteq Live /\ \A x \in Live : via'[x] = via[x]
    BY <1>3 DEF Live, Records
  <2> QED
    BY <2>1, PoolShrinks
<1>4. ASSUME NEW c \in Calls, Passes(c) PROVE Pool'
  <2>1. Live' \subseteq Live /\ \A x \in Live : via'[x] = via[x]
    BY <1>4 DEF Live, Passes
  <2> QED
    BY <2>1, PoolShrinks
<1>5. ASSUME NEW c \in Calls, Reroutes(c) PROVE Pool'
  <2>1. Live' \subseteq Live /\ \A x \in Live : via'[x] = via[x]
    BY <1>5 DEF Live, Reroutes
  <2> QED
    BY <2>1, PoolShrinks
<1>6. ASSUME NEW c \in Calls, Creates(c) PROVE Pool'
  <2>1. Live' \subseteq Live /\ \A x \in Live : via'[x] = via[x]
    BY <1>6, <1>n, <1>d DEF Live, Creates, TypeOK
  <2> QED
    BY <2>1, PoolShrinks
<1>7. ASSUME NEW c \in Calls, Reserves(c) PROVE Pool'
  <2>1. Current(c) \in Attempts /\ hold[Current(c)] = "none" /\ via[Current(c)] = Route(c) /\ Route(c) \in Managed
    BY <1>7, <1>c DEF Reserves, Stage, StageOf
  <2>2. Current(c) \notin Live
    BY <2>1 DEF Live
  <2>3. hold'[Current(c)] = "RESERVED" /\ lapsed' = lapsed /\ via' = via /\ \A x \in Attempts : x # Current(c) => hold'[x] = hold[x]
    BY <1>7, <2>1 DEF Reserves, TypeOK
  <2>4. CASE Current(c) \in lapsed
    <3>1. Live' \subseteq Live /\ \A x \in Live : via'[x] = via[x]
      BY <2>3, <2>4 DEF Live
    <3> QED
      BY <3>1, PoolShrinks
  <2>5. CASE Current(c) \notin lapsed
    <3>1. Live' = Live \cup {Current(c)}
      BY <2>1, <2>3, <2>5 DEF Live
    <3>2. known[c] \in 0 .. Capacity /\ Held + Cost[via[Current(c)]] <= known[c]
      BY <1>7, <2>1 DEF Reserves
    <3> QED
      BY <2>1, <2>2, <2>3, <3>1, <3>2, PoolGrows
  <2> QED
    BY <2>4, <2>5
<1>8. ASSUME NEW c \in Calls, Binds(c) PROVE Pool'
  <2>1. Live' \subseteq Live /\ \A x \in Live : via'[x] = via[x]
    BY <1>8 DEF Live, Binds
  <2> QED
    BY <2>1, PoolShrinks
<1>9. ASSUME NEW c \in Calls, GivesBack(c) PROVE Pool'
  <2>1. Live' \subseteq Live /\ \A x \in Live : via'[x] = via[x]
    BY <1>9, <1>c DEF Live, GivesBack, TypeOK
  <2> QED
    BY <2>1, PoolShrinks
<1>10. ASSUME NEW c \in Calls, Begins(c) PROVE Pool'
  <2>1. Live' \subseteq Live /\ \A x \in Live : via'[x] = via[x]
    BY <1>10, <1>c DEF Live, Begins, TypeOK, HoldUsable
  <2> QED
    BY <2>1, PoolShrinks
<1>11. ASSUME NEW c \in Calls, Fails(c) PROVE Pool'
  <2>1. Live' \subseteq Live /\ \A x \in Live : via'[x] = via[x]
    BY <1>11, <1>c DEF Live, Fails, TypeOK, Release
  <2> QED
    BY <2>1, PoolShrinks
<1>12. ASSUME NEW c \in Calls, Opens(c) PROVE Pool'
  <2>1. Live' \subseteq Live /\ \A x \in Live : via'[x] = via[x]
    BY <1>12 DEF Live, Opens
  <2> QED
    BY <2>1, PoolShrinks
<1>13. ASSUME NEW c \in Calls, Invokes(c) PROVE Pool'
  <2>1. Live' \subseteq Live /\ \A x \in Live : via'[x] = via[x]
    BY <1>13 DEF Live, Invokes
  <2> QED
    BY <2>1, PoolShrinks
<1>14. ASSUME NEW c \in Calls, Loses(c) PROVE Pool'
  <2>1. Live' \subseteq Live /\ \A x \in Live : via'[x] = via[x]
    BY <1>14 DEF Live, Loses
  <2> QED
    BY <2>1, PoolShrinks
<1>15. ASSUME NEW c \in Calls, Returns(c) PROVE Pool'
  <2>1. Live' \subseteq Live /\ \A x \in Live : via'[x] = via[x]
    BY <1>15 DEF Live, Returns
  <2> QED
    BY <2>1, PoolShrinks
<1>16. ASSUME NEW c \in Calls, ReturnsLate(c) PROVE Pool'
  <2>1. Live' \subseteq Live /\ \A x \in Live : via'[x] = via[x]
    BY <1>16 DEF Live, ReturnsLate
  <2> QED
    BY <2>1, PoolShrinks
<1>17. ASSUME NEW c \in Calls, Settles(c) PROVE Pool'
  <2>1. Live' \subseteq Live /\ \A x \in Live : via'[x] = via[x]
    BY <1>17 DEF Live, Settles
  <2> QED
    BY <2>1, PoolShrinks
<1>18. ASSUME NEW c \in Calls, Saves(c) PROVE Pool'
  <2>1. Live' \subseteq Live /\ \A x \in Live : via'[x] = via[x]
    BY <1>18 DEF Live, Saves
  <2> QED
    BY <2>1, PoolShrinks
<1>19. ASSUME NEW c \in Calls, Terminates(c) PROVE Pool'
  <2>1. Live' \subseteq Live /\ \A x \in Live : via'[x] = via[x]
    BY <1>19, <1>c DEF Live, Terminates, TypeOK, Release
  <2> QED
    BY <2>1, PoolShrinks
<1>20. ASSUME NEW c \in Calls, Finishes(c) PROVE Pool'
  <2>1. Live' \subseteq Live /\ \A x \in Live : via'[x] = via[x]
    BY <1>20 DEF Live, Finishes
  <2> QED
    BY <2>1, PoolShrinks
<1>21. ASSUME NEW c \in Calls, FallsBack(c) PROVE Pool'
  <2>1. Live' \subseteq Live /\ \A x \in Live : via'[x] = via[x]
    BY <1>21 DEF Live, FallsBack
  <2> QED
    BY <2>1, PoolShrinks
<1>22. ASSUME NEW a \in Attempts, Expires(a) PROVE Pool'
  <2>1. Live' \subseteq Live /\ \A x \in Live : via'[x] = via[x]
    BY <1>22 DEF Live, Expires, TypeOK
  <2> QED
    BY <2>1, PoolShrinks
<1>23. ASSUME NEW a \in Attempts, Recovers(a) PROVE Pool'
  <2>1. Live' \subseteq Live /\ \A x \in Live : via'[x] = via[x]
    BY <1>23 DEF Live, Recovers
  <2> QED
    BY <2>1, PoolShrinks
<1>24. ASSUME Rests PROVE Pool'
  <2>1. Live' \subseteq Live /\ \A x \in Live : via'[x] = via[x]
    BY <1>24 DEF Live, Rests
  <2> QED
    BY <2>1, PoolShrinks
<1> QED
  BY <1>1, <1>2, <1>3, <1>4, <1>5, <1>6, <1>7, <1>8, <1>9, <1>10, <1>11, <1>12, <1>13, <1>14, <1>15, <1>16, <1>17, <1>18, <1>19, <1>20, <1>21, <1>22, <1>23, <1>24 DEF Kinds

-----------------------------------------------------------------------------
LEMMA InvInit ==
    ASSUME Init
    PROVE  Inv
<1>0. MaxAttempts \in Nat \ {0} /\ 0 \in 0 .. 2 * MaxAttempts
  BY CallAssumption
<1>1. TypeOK
  <2>1. \A o \in Orders : 1 \in 1 .. Len(o)
    <3>1. \A o \in Orders : o \in Seq(Routes) /\ o # <<>>
      BY RouteAssumption
    <3> QED
      BY <3>1
  <2>2. CallTypes
    BY <1>0, <2>1 DEF Init, CallTypes
  <2>3. AttemptTypes
    BY DEF Init, AttemptTypes
  <2>4. SideTypes
    BY DEF Init, SideTypes
  <2>5. pc \in [Calls -> Labels]
    BY DEF Init, Labels
  <2> QED
    BY <2>2, <2>3, <2>4, <2>5 DEF TypeOK, CallTypes, AttemptTypes, SideTypes
<1>2. Numbering
  BY <1>0 DEF Init, Numbering, Base, Choosing, Trying, Admitting, Running
<1>3. Stage
  BY DEF Init, Stage, StageOf, Trying, Admitting, Running
<1>4. Holds
  BY DEF Init, Holds, Begun, Definite
<1>5. History /\ KeyList
  BY DEF Init, History, KeyList
<1>6. KeyHolder /\ KeyOwner /\ KeyStage
  BY DEF Init, KeyHolder, KeyOwner, KeyStage, Engaged, Choosing, Trying, Admitting, Running
<1>7. Scope
  BY DEF Init, Scope
<1>8. Pool
  <2>1. Live = {}
    BY DEF Init, Live
  <2>2. Held = SumFunctionOnSet([a \in {} |-> Cost[via[a]]], {})
    BY <2>1 DEF Held
  <2> QED
    BY <2>1, <2>2, SumEmpty, FS_EmptySet, RouteAssumption DEF Pool, CapacityRespected
<1> QED
  BY <1>1, <1>2, <1>3, <1>4, <1>5, <1>6, <1>7, <1>8 DEF Inv

LEMMA InvStep ==
    ASSUME Inv, [Next]_vars
    PROVE  Inv'
<1>a. TypeOK /\ Numbering /\ Stage /\ Holds /\ History /\ KeyHolder /\ KeyOwner /\ KeyStage /\ KeyList /\ Scope /\ Pool
  BY DEF Inv
<1>k. Kinds
  BY <1>a, StepKinds
<1>1. TypeOK'
  <2>1. AttemptTypes' /\ CallTypes' /\ SideTypes' /\ pc' \in [Calls -> Labels]
    BY <1>a, <1>k, AttemptTypesStep, CallTypesStep, SideTypesStep, LabelsStep
  <2> QED
    BY <2>1 DEF AttemptTypes, CallTypes, SideTypes, TypeOK
<1>2. Numbering' /\ Stage' /\ Holds' /\ History'
  BY <1>a, <1>k, NumberingStep, StageStep, HoldsStep, HistoryStep
<1>3. KeyHolder' /\ KeyOwner' /\ KeyStage' /\ KeyList'
  BY <1>a, <1>k, KeyHolderStep, KeyOwnerStep, KeyStageStep, KeyListStep
<1>4. Scope'
  BY <1>a, <1>k, OneOpenStep, WritesStep DEF Scope
<1>5. Pool'
  BY <1>a, <1>k, PoolStep
<1> QED
  BY <1>1, <1>2, <1>3, <1>4, <1>5 DEF Inv

LEMMA InvHolds == Spec => []Inv
<1>1. Init => Inv
  BY InvInit
<1>2. Inv /\ [Next]_vars => Inv'
  BY InvStep
<1> QED
  BY <1>1, <1>2, PTL DEF Spec

-----------------------------------------------------------------------------
(* The tables, holds and local variables of ordinary execution keep their  *)
(* types in every run, whatever routes a call is sent back to.             *)
THEOREM ActionTypes == Spec => []TypeOK
<1>1. Inv => TypeOK
  BY DEF Inv
<1> QED
  BY <1>1, InvHolds, PTL

(* One call only invokes an executor under an idempotency key, and the     *)
(* completed record lists the receipt of each of its invocations, for any  *)
(* number of calls that share, lose and give back the key.                 *)
THEOREM KeyedOnce == Spec => []KeyedActionOnce
<1>1. Inv => KeyedActionOnce
  BY DEF Inv, KeyedActionOnce, KeyOwner, KeyList
<1> QED
  BY <1>1, InvHolds, PTL

(* execute falls back to another route only when every invocation before   *)
(* it is definitely over and may be repeated, for every policy.            *)
THEOREM RetryDefinite == Spec => []RetryOnlyAfterDefinite
<1>1. ASSUME Inv, NEW a \in invoked, NEW b \in invoked, a[1] = b[1], a[2] < b[2]
      PROVE  Closed(a)
  <2>1. /\ a \in Attempts /\ b \in Attempts /\ attempt[b] # "none"
        /\ serial[b[1]] \in 0 .. 2 * MaxAttempts /\ MaxAttempts \in Nat
    BY <1>1, AttemptPair, CallAssumption DEF Inv, TypeOK, History, Begun, Definite
  <2>2. a[2] \in Nat /\ b[2] \in Nat /\ b[2] <= serial[b[1]]
    BY <1>1, <2>1, AttemptPair DEF Inv, Stage
  <2>3. a[2] < serial[a[1]]
    BY <1>1, <2>1, <2>2
  <2> QED
    BY <1>1, <2>3 DEF Inv, History
<1>2. Inv => RetryOnlyAfterDefinite
  BY <1>1 DEF RetryOnlyAfterDefinite, Closed
<1> QED
  BY <1>2, InvHolds, PTL

(* The capacity hold of a managed host moves with its attempt: claimed     *)
(* while an invocation may still run, gone once it definitely ended.       *)
THEOREM HoldsFollow == Spec => []HoldFollowsAttempt
<1>1. Inv => HoldFollowsAttempt
  BY DEF Inv, TypeOK, Holds, HoldFollowsAttempt, Begun, Definite
<1> QED
  BY <1>1, InvHolds, PTL

(* Workers never hold more of the shared pool together than was ever       *)
(* reported of it, for any number of workers, hosts and usage estimates.   *)
THEOREM CapacityKept == Spec => []CapacityRespected
<1>1. Inv => CapacityRespected
  BY DEF Inv, Pool
<1> QED
  BY <1>1, InvHolds, PTL

(* A task scope has at most one attempt that is open, uncertain or a write *)
(* that was not seen to succeed, whatever its allowance of attempts.       *)
THEOREM BarrierKept == Spec => []ScopeBarrier
<1>1. ASSUME Inv, NEW x \in Attempts, x[1] \in Scoped, attempt[x] # "none",
             \/ attempt[x] \notin Definite
             \/ x \in invoked /\ via[x] \notin Reads /\ outcome[x] \notin Accepted
      PROVE  attempt[x] \notin Definite \cup {"none"}
  BY <1>1 DEF Inv, Scope
<1>2. Inv => ScopeBarrier
  BY <1>1 DEF Inv, Scope, ScopeBarrier
<1> QED
  BY <1>2, InvHolds, PTL
=============================================================================
