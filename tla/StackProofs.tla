---------------------------- MODULE StackProofs -----------------------------
(***************************************************************************)
(* The safety of StackRuntime, for any number of coordinators, proposals   *)
(* and nodes and any allowance.  Nothing is assumed of the callers: any    *)
(* proposal may be run at any time, a successor before its predecessor     *)
(* too.  What is proved is proved of each lineage, a run and what          *)
(* continues it by amendments.                                             *)
(***************************************************************************)
EXTENDS StackRuntime, SumTheorems

States == {"none", "running", "paused", "waiting", "uncertain", "complete", "superseded"}
Marks == {"none", "started", "waiting", "retryable", "complete"}
Steps == {"idle", "claim", "node", "dispatch", "execute", "park", "pause", "complete"}
Entries == [st : Marks, tries : 0 .. RetryReserve + 1]

Active(p) == state[p] \notin {"none", "superseded"}
Working(c) == pc[c] \notin {"idle", "claim"}

(* The variables hold what their names say.                                *)
RowTypes ==
    /\ state \in [Proposals -> States]
    /\ attempts \in [Proposals -> 0 .. MaxAttempts]
    /\ progress \in [Proposals -> [Nodes -> Entries]]
    /\ late \subseteq Proposals
    /\ invoked \subseteq Proposals \X Nodes \X Nat
    /\ origin \in [Proposals -> Proposals]

LocalTypes ==
    /\ pc \in [Coordinators -> Steps]
    /\ at \in [Coordinators -> Proposals \cup {None}]
    /\ prior \in [Coordinators -> [Nodes -> Entries]]
    /\ index \in [Coordinators -> 1 .. Len(Order) + 1]
    /\ try \in [Coordinators -> 0 .. RetryReserve + 1]

Types == RowTypes /\ LocalTypes

(* One row of a lineage is active at a time, handed on by amendments from  *)
(* the row that started it; a row that does not exist has no history.      *)
Succession ==
    /\ \A p, q \in Proposals : Active(p) /\ Active(q) /\ origin[p] = origin[q] => p = q
    /\ \A p \in Proposals : state[p] = "none" => origin[p] = p /\ progress[p] = Fresh
    /\ \A p \in Proposals : state[p] # "none" => state[origin[p]] # "none"
    /\ \A p \in Proposals :
           state[p] # "none" => \E q \in Proposals : Active(q) /\ origin[q] = origin[p]
    /\ \A d \in invoked : state[d[1]] # "none"

(* A coordinator at work owns a running row, and is the only one at work   *)
(* on its lineage.                                                         *)
Ownership ==
    /\ \A c \in Coordinators : pc[c] = "idle" <=> at[c] = None
    /\ \A c \in Coordinators : Working(c) => state[at[c]] = "running"
    /\ OneCoordinator

(* It works on a node that is marked as started until the outcome of the   *)
(* attempt is recorded.                                                    *)
Holding ==
    \A c \in Coordinators :
        /\ pc[c] \in {"dispatch", "execute", "park", "complete"} => Pending(c) # {}
        /\ pc[c] \in {"dispatch", "execute", "park"} => progress[at[c]][Node(c)].st = "started"

(* A coordinator's copy is never ahead of the row.                         *)
Copied(p, n, e) ==
    /\ p # None /\ e.st # "complete" => e.tries <= progress[p][n].tries
    /\ e.st # "started"
    /\ e.st = "none" => e.tries = 0
    /\ e.st = "retryable" => n \in ReadOnly /\ n \notin Delegated
    /\ e.st # "complete" /\ n \in Delegated => e.tries <= 1

Copies == \A c \in Coordinators, n \in Nodes : Copied(at[c], n, prior[c][n])

(* The numbers below a row's count have been used as keys; a delegated     *)
(* node is only ever dispatched under number 1.                            *)
Numbered(p, n, e, used) ==
    /\ e.st = "none" => e.tries = 0
    /\ e.st = "waiting" => e.tries >= 1
    /\ e.st = "retryable" => n \in ReadOnly /\ n \notin Delegated
    /\ e.st = "waiting" /\ n \in Delegated => e.tries <= 1
    /\ e.st \in {"waiting", "retryable"} => \A k \in 1 .. e.tries : <<p, n, k>> \in used
    /\ e.st = "started" => \A k \in 1 .. e.tries - 1 : <<p, n, k>> \in used

Numbers == \A p \in Proposals, n \in Nodes : Numbered(p, n, progress[p][n], invoked)

(* The number of the attempt at hand is the row's, or its key was used.    *)
Attempting ==
    \A c \in Coordinators :
        /\ pc[c] \in {"dispatch", "execute", "park"} =>
               try[c] >= 1 /\ (Node(c) \in Delegated => try[c] = 1)
        /\ pc[c] = "dispatch" =>
               \/ Dispatch(c) \in invoked
               \/ try[c] = progress[at[c]][Node(c)].tries
        /\ pc[c] = "execute" =>
               /\ Dispatch(c) \in invoked /\ Node(c) \notin Delegated
               /\ try[c] = progress[at[c]][Node(c)].tries
        /\ pc[c] = "park" => Dispatch(c) \in invoked /\ Node(c) \in Delegated

(* A node that is not an idempotent read is dispatched under number 1, and *)
(* the active row of its lineage remembers it.                             *)
Consequential ==
    /\ \A d \in invoked : d[2] \notin ReadOnly => d[3] = 1
    /\ \A d \in invoked, p \in Proposals :
           d[2] \notin ReadOnly /\ Active(p) /\ origin[d[1]] = origin[p] =>
               progress[p][d[2]].st \in {"started", "waiting", "complete"}
    /\ \A c \in Coordinators :
           pc[c] = "dispatch" /\ Node(c) \notin ReadOnly =>
               /\ try[c] = 1
               /\ \A d \in invoked :
                      d[2] = Node(c) /\ origin[d[1]] = origin[at[c]] => Dispatch(c) \in invoked
    /\ \A d, e \in invoked :
           origin[d[1]] = origin[e[1]] /\ d[2] = e[2] /\ d[2] \notin ReadOnly => d = e

(* Each dispatch was paid for by an attempt of its lineage's active row.   *)
Allowance ==
    /\ IsFiniteSet(invoked)
    /\ \A p \in Proposals :
           Active(p) => Cardinality(Dispatches(origin[p])) <= attempts[p]
    /\ \A c \in Coordinators :
           pc[c] = "dispatch" => Cardinality(Dispatches(origin[at[c]])) < attempts[at[c]]

Inv ==
    /\ Types /\ Succession /\ Ownership /\ Holding /\ Copies /\ Numbers /\ Attempting
    /\ Consequential /\ Allowance

-----------------------------------------------------------------------------
(* The next node is the first one that the copy does not show complete.    *)
LEMMA MinInterval ==
    ASSUME NEW k \in Nat, NEW S, S \subseteq 1 .. k, S # {}
    PROVE  Min(S) \in S
<1> DEFINE B == {1 .. i : i \in S}
<1>1. B \subseteq SUBSET (1 .. k) /\ B # {}
  <2>1. \A i \in S : i \in 1 .. k
    OBVIOUS
  <2>2. \A i \in 1 .. k : 1 .. i \subseteq 1 .. k
    OBVIOUS
  <2>3. \A i \in S : 1 .. i \in SUBSET (1 .. k)
    BY <2>1, <2>2
  <2> QED
    BY <2>3
<1>2. IsFiniteSet(1 .. k)
  BY FS_Interval
<1>3. PICK m \in B : \A t \in B : t \subseteq m => t = m
  <2> DEFINE U == 1 .. k
  <2>1. IsFiniteSet(U)
    BY <1>2
  <2>2. B \subseteq SUBSET U
    BY <1>1
  <2>3. B # {}
    BY <1>1
  <2> HIDE DEF B, U
  <2> QED
    BY <2>1, <2>2, <2>3, MinimalMember
<1>4. PICK i \in S : m = 1 .. i
  OBVIOUS
<1>5. ASSUME NEW j \in S, ~(i <= j)
      PROVE  FALSE
  <2>1. i \in Nat /\ j \in Nat /\ j < i /\ 1 <= j
    BY <1>5
  <2>2. 1 .. j \subseteq 1 .. i /\ i \in 1 .. i /\ i \notin 1 .. j
    BY <2>1
  <2> QED
    BY <1>3, <1>4, <2>2
<1>6. \A j \in S : i <= j
  BY <1>5
<1> QED
  BY <1>6 DEF Min

LEMMA NodeExists ==
    ASSUME Types, NEW c \in Coordinators, Pending(c) # {}
    PROVE  /\ Min(Pending(c)) \in Pending(c)
           /\ Min(Pending(c)) \in 1 .. Len(Order)
           /\ Node(c) \in Nodes
           /\ prior[c][Node(c)].st # "complete"
<1>1. Len(Order) \in Nat
  BY StackAssumption
<1>2. Pending(c) \subseteq 1 .. Len(Order)
  BY <1>1 DEF Pending, Types, LocalTypes
<1>3. Min(Pending(c)) \in Pending(c)
  BY <1>1, <1>2, MinInterval
<1> QED
  BY <1>2, <1>3 DEF Node, Nodes, Pending

(* What a coordinator that holds a node knows of it.                       *)
LEMMA AtWork ==
    ASSUME Types, Ownership, NEW c \in Coordinators, pc[c] # "idle"
    PROVE  at[c] \in Proposals
BY DEF Types, LocalTypes, Ownership

(* A call that leaves keeps the types.                                     *)
LEMMA LeaveTypes ==
    ASSUME LocalTypes, NEW c \in Coordinators, Leave(c)
    PROVE  LocalTypes'
<1>1. /\ RetryReserve \in Nat /\ Len(Order) \in Nat
      /\ Fresh \in [Nodes -> Entries]
  BY StackAssumption DEF Fresh, Entries, Marks
<1>2. pc' \in [Coordinators -> Steps] /\ at' \in [Coordinators -> Proposals \cup {None}]
  BY DEF LocalTypes, Leave, Goto, Steps
<1>3. prior' \in [Coordinators -> [Nodes -> Entries]]
  BY <1>1 DEF LocalTypes, Leave
<1>4. index' \in [Coordinators -> 1 .. Len(Order) + 1] /\ try' \in [Coordinators -> 0 .. RetryReserve + 1]
  BY <1>1 DEF LocalTypes, Leave
<1> QED
  BY <1>2, <1>3, <1>4 DEF LocalTypes

(* Every step keeps the types of the local variables.                      *)
LEMMA LocalTypesStep ==
    ASSUME Types, Ownership, Holding, Copies, [Next]_vars
    PROVE  LocalTypes'
<1> USE DEF Types
<1>0. RetryReserve \in Nat /\ Len(Order) \in Nat
  BY StackAssumption
<1>1. ASSUME NEW c \in Coordinators, NEW p \in Proposals, Load(c, p) PROVE LocalTypes'
  BY <1>1 DEF Load, LocalTypes, RowTypes, Types, Goto, Steps, rowVars, effectVars
<1>2. ASSUME NEW c \in Coordinators, Claim(c) PROVE LocalTypes'
  <2>1. CASE Claimable(at[c])
    BY <1>2, <2>1 DEF Claim, LocalTypes, Goto, Steps, localVars
  <2>2. CASE ~Claimable(at[c])
    BY <1>2, <2>2, LeaveTypes DEF Claim
  <2> QED
    BY <2>1, <2>2
<1>3. ASSUME NEW c \in Coordinators, PreflightFails(c) PROVE LocalTypes'
  BY <1>3, LeaveTypes DEF PreflightFails, Stop
<1>4. ASSUME NEW c \in Coordinators, Reserve(c) PROVE LocalTypes'
  <2>1. CASE Reservable(at[c], Node(c))
    <3>1. at[c] \in Proposals /\ Node(c) \in Nodes /\ prior[c][Node(c)].st # "complete"
      BY <1>4, AtWork, NodeExists DEF Reserve
    <3>2. prior[c][Node(c)].tries + 1 \in 0 .. RetryReserve + 1
      <4>1. prior[c][Node(c)].tries \in Nat /\ progress[at[c]][Node(c)].tries \in Nat
        BY <3>1 DEF Types, LocalTypes, RowTypes, Entries
      <4>2. prior[c][Node(c)].tries <= progress[at[c]][Node(c)].tries
        BY <3>1, StackAssumption DEF Copies, Copied
      <4>3. progress[at[c]][Node(c)].tries <= RetryReserve
        BY <2>1 DEF Reservable
      <4> QED
        BY <4>1, <4>2, <4>3, <1>0
    <3> QED
      BY <1>4, <2>1, <3>2 DEF Reserve, LocalTypes, Goto, Steps
  <2>2. CASE ~Reservable(at[c], Node(c))
    BY <1>4, <2>2, LeaveTypes DEF Reserve, Stop
  <2> QED
    BY <2>1, <2>2
<1>5. ASSUME NEW c \in Coordinators, Execute(c) PROVE LocalTypes'
  <2>1. CASE Node(c) \notin Delegated /\ Dispatch(c) \in invoked
    BY <1>5, <2>1, LeaveTypes DEF Execute, Stop
  <2>2. CASE Node(c) \in Delegated \/ Dispatch(c) \notin invoked
    BY <1>5, <2>2 DEF Execute, LocalTypes, Goto, Steps, localVars
  <2> QED
    BY <2>1, <2>2
<1>6. ASSUME NEW c \in Coordinators, Park(c) PROVE LocalTypes'
  BY <1>6, LeaveTypes DEF Park, Stop
<1>7. ASSUME NEW c \in Coordinators, Succeeds(c) PROVE LocalTypes'
  BY <1>7 DEF Succeeds, LocalTypes, Goto, Steps, localVars
<1>8. ASSUME NEW c \in Coordinators, Fails(c) PROVE LocalTypes'
  <2>1. CASE SafeRetry(c)
    BY <1>8, <2>1 DEF Fails, LocalTypes, Goto, Steps, localVars
  <2>2. CASE ~SafeRetry(c)
    BY <1>8, <2>2, LeaveTypes DEF Fails, Stop
  <2> QED
    BY <2>1, <2>2
<1>9. ASSUME NEW c \in Coordinators, Pause(c) PROVE LocalTypes'
  BY <1>9, LeaveTypes DEF Pause, Stop
<1>10. ASSUME NEW c \in Coordinators, Unclear(c) PROVE LocalTypes'
  BY <1>10, LeaveTypes DEF Unclear, Stop
<1>11. ASSUME NEW c \in Coordinators, Resume(c) PROVE LocalTypes'
  <2>1. Node(c) \in Nodes
    BY <1>11, NodeExists DEF Resume
  <2>2. prior[c][Node(c)].tries \in 0 .. RetryReserve + 1
    BY <2>1 DEF LocalTypes, Entries
  <2> QED
    BY <1>11, <2>2 DEF Resume, LocalTypes, Goto, Steps
<1>12. ASSUME NEW c \in Coordinators, ResumeFails(c) PROVE LocalTypes'
  BY <1>12, LeaveTypes DEF ResumeFails, Stop
<1>13. ASSUME NEW c \in Coordinators, Complete(c) PROVE LocalTypes'
  <2>1. Pending(c) # {}
    BY <1>13 DEF Complete, Ownership, Holding
  <2>2. Min(Pending(c)) + 1 \in 1 .. Len(Order) + 1
    BY <1>0, <2>1, NodeExists
  <2> QED
    BY <1>13, <2>2, <1>0 DEF Complete, LocalTypes, Goto, Steps
<1>14. ASSUME NEW c \in Coordinators, Finish(c) PROVE LocalTypes'
  BY <1>14, LeaveTypes DEF Finish, Stop
<1>15. ASSUME NEW c \in Coordinators, Crash(c) PROVE LocalTypes'
  BY <1>15, LeaveTypes DEF Crash, Stop
<1>16. ASSUME NEW p \in Proposals, Deadline(p) PROVE LocalTypes'
  BY <1>16 DEF Deadline, LocalTypes, localVars
<1>17. ASSUME NEW p \in Proposals, NEW n \in Nodes, Reconcile(p, n) PROVE LocalTypes'
  BY <1>17 DEF Reconcile, LocalTypes, localVars
<1>18. ASSUME NEW p \in Proposals, NEW q \in Proposals, Amend(p, q) PROVE LocalTypes'
  BY <1>18 DEF Amend, LocalTypes, localVars
<1>19. CASE UNCHANGED vars
  BY <1>19 DEF vars, LocalTypes, localVars
<1> QED
  BY <1>1, <1>2, <1>3, <1>4, <1>5, <1>6, <1>7, <1>8, <1>9, <1>10, <1>11, <1>12, <1>13, <1>14, <1>15, <1>16, <1>17, <1>18, <1>19 DEF Next, Run

(* Every step keeps the types of the rows and of the dispatches.           *)
LEMMA RowTypesStep ==
    ASSUME Types, Ownership, Holding, [Next]_vars
    PROVE  RowTypes'
<1> USE DEF Types
<1>0. RetryReserve \in Nat /\ MaxAttempts \in Nat /\ Fresh \in [Nodes -> Entries]
  BY StackAssumption DEF Fresh, Entries, Marks
<1>1. ASSUME NEW c \in Coordinators, NEW p \in Proposals, Load(c, p) PROVE RowTypes'
  BY <1>1 DEF Load, RowTypes, rowVars, effectVars
<1>2. ASSUME NEW c \in Coordinators, Claim(c) PROVE RowTypes'
  <2>1. CASE Claimable(at[c])
    BY <1>2, <2>1 DEF Claim, SetState, RowTypes, States, effectVars
  <2>2. CASE ~Claimable(at[c])
    BY <1>2, <2>2 DEF Claim, RowTypes, effectVars
  <2> QED
    BY <2>1, <2>2
<1>3. ASSUME NEW c \in Coordinators, PreflightFails(c) PROVE RowTypes'
  BY <1>3 DEF PreflightFails, Stop, SetState, RowTypes, States, effectVars
<1>4. ASSUME NEW c \in Coordinators, Reserve(c) PROVE RowTypes'
  <2>1. CASE Reservable(at[c], Node(c))
    <3>1. at[c] \in Proposals /\ Node(c) \in Nodes
      BY <1>4, AtWork, NodeExists DEF Reserve
    <3>2. [st |-> "started", tries |-> progress[at[c]][Node(c)].tries + 1] \in Entries
      BY <1>0, <2>1, <3>1 DEF Reservable, RowTypes, Entries, Marks
    <3>3. progress' \in [Proposals -> [Nodes -> Entries]]
      <4>1. progress' = [progress EXCEPT ![at[c]][Node(c)] =
                            [st |-> "started", tries |-> progress[at[c]][Node(c)].tries + 1]]
        BY <1>4, <2>1 DEF Reserve
      <4> QED
        BY <3>1, <3>2, <4>1 DEF RowTypes
    <3>4. attempts' \in [Proposals -> 0 .. MaxAttempts]
      BY <1>4, <1>0, <2>1, <3>1 DEF Reserve, RowTypes, Reservable
    <3> QED
      BY <1>4, <2>1, <3>3, <3>4 DEF Reserve, RowTypes, effectVars
  <2>2. CASE ~Reservable(at[c], Node(c))
    BY <1>4, <2>2 DEF Reserve, Stop, SetState, RowTypes, States, effectVars
  <2> QED
    BY <2>1, <2>2
<1>5. ASSUME NEW c \in Coordinators, Execute(c) PROVE RowTypes'
  <2>1. at[c] \in Proposals /\ Node(c) \in Nodes /\ try[c] \in Nat
    BY <1>5, AtWork, NodeExists, <1>0 DEF Execute, Ownership, Holding, LocalTypes
  <2>2. Dispatch(c) \in Proposals \X Nodes \X Nat
    BY <2>1 DEF Dispatch
  <2>3. invoked' \subseteq Proposals \X Nodes \X Nat
    BY <1>5, <2>2 DEF Execute, RowTypes
  <2>4. state' \in [Proposals -> States]
    BY <1>5 DEF Execute, Stop, SetState, RowTypes, States
  <2> QED
    BY <1>5, <2>3, <2>4 DEF Execute, RowTypes
<1>6. ASSUME NEW c \in Coordinators, Park(c) PROVE RowTypes'
  <2>1. at[c] \in Proposals /\ Node(c) \in Nodes
    BY <1>6, AtWork, NodeExists DEF Park, Ownership, Holding
  <2>2. [st |-> "waiting", tries |-> try[c]] \in Entries
    BY <1>0 DEF LocalTypes, Entries, Marks
  <2>3. progress' \in [Proposals -> [Nodes -> Entries]]
    BY <1>6, <2>1, <2>2 DEF Park, RowTypes
  <2> QED
    BY <1>6, <2>3 DEF Park, Stop, SetState, RowTypes, States, effectVars
<1>7. ASSUME NEW c \in Coordinators, Succeeds(c) PROVE RowTypes'
  BY <1>7 DEF Succeeds, RowTypes, rowVars, effectVars
<1>8. ASSUME NEW c \in Coordinators, Fails(c) PROVE RowTypes'
  <2>1. CASE SafeRetry(c)
    <3>1. at[c] \in Proposals /\ Node(c) \in Nodes
      BY <1>8, AtWork, NodeExists DEF Fails, Ownership, Holding
    <3>2. [st |-> "retryable", tries |-> try[c]] \in Entries
      BY <1>0 DEF LocalTypes, Entries, Marks
    <3>3. progress' \in [Proposals -> [Nodes -> Entries]]
      <4>1. progress' = [progress EXCEPT ![at[c]][Node(c)] = [st |-> "retryable", tries |-> try[c]]]
        BY <1>8, <2>1 DEF Fails
      <4> QED
        BY <3>1, <3>2, <4>1 DEF RowTypes
    <3> QED
      BY <1>8, <2>1, <3>3 DEF Fails, RowTypes, effectVars
  <2>2. CASE ~SafeRetry(c)
    BY <1>8, <2>2 DEF Fails, Stop, SetState, RowTypes, States, effectVars
  <2> QED
    BY <2>1, <2>2
<1>9. ASSUME NEW c \in Coordinators, Pause(c) PROVE RowTypes'
  BY <1>9 DEF Pause, Stop, SetState, RowTypes, States, effectVars
<1>10. ASSUME NEW c \in Coordinators, Unclear(c) PROVE RowTypes'
  BY <1>10 DEF Unclear, Stop, SetState, RowTypes, States, effectVars
<1>11. ASSUME NEW c \in Coordinators, Resume(c) PROVE RowTypes'
  BY <1>11 DEF Resume, RowTypes, rowVars, effectVars
<1>12. ASSUME NEW c \in Coordinators, ResumeFails(c) PROVE RowTypes'
  BY <1>12 DEF ResumeFails, Stop, SetState, RowTypes, States, effectVars
<1>13. ASSUME NEW c \in Coordinators, Complete(c) PROVE RowTypes'
  <2>1. at[c] \in Proposals /\ Node(c) \in Nodes
    BY <1>13, AtWork, NodeExists DEF Complete, Ownership, Holding
  <2>2. progress[at[c]][Node(c)] \in Entries
    BY <2>1 DEF RowTypes
  <2>4. [progress[at[c]][Node(c)] EXCEPT !.st = "complete"] \in Entries
    BY <2>2 DEF Entries, Marks
  <2>3. progress' \in [Proposals -> [Nodes -> Entries]]
    BY <1>13, <2>1, <2>4 DEF Complete, RowTypes
  <2> QED
    BY <1>13, <2>3 DEF Complete, RowTypes, effectVars
<1>14. ASSUME NEW c \in Coordinators, Finish(c) PROVE RowTypes'
  BY <1>14 DEF Finish, Stop, SetState, RowTypes, States, effectVars
<1>15. ASSUME NEW c \in Coordinators, Crash(c) PROVE RowTypes'
  BY <1>15 DEF Crash, RowTypes, rowVars, effectVars
<1>16. ASSUME NEW p \in Proposals, Deadline(p) PROVE RowTypes'
  BY <1>16 DEF Deadline, RowTypes, effectVars
<1>17. ASSUME NEW p \in Proposals, NEW n \in Nodes, Reconcile(p, n) PROVE RowTypes'
  <2>0. progress[p][n] \in Entries
    BY DEF RowTypes
  <2>1. [progress[p][n] EXCEPT !.st = "complete"] \in Entries
    BY <2>0 DEF Entries, Marks
  <2>2. progress' \in [Proposals -> [Nodes -> Entries]]
    BY <1>17, <2>1 DEF Reconcile, RowTypes
  <2> QED
    BY <1>17, <2>2 DEF Reconcile, SetState, RowTypes, States, effectVars
<1>18. ASSUME NEW p \in Proposals, NEW q \in Proposals, Amend(p, q) PROVE RowTypes'
  <2>1. [m \in Nodes |-> IF m \in Preserved(p) THEN progress[p][m] ELSE Fresh[m]] \in [Nodes -> Entries]
    BY <1>0 DEF RowTypes
  <2>2. progress' \in [Proposals -> [Nodes -> Entries]]
    BY <1>18, <2>1 DEF Amend, RowTypes
  <2>3. attempts' \in [Proposals -> 0 .. MaxAttempts]
    BY <1>18 DEF Amend, Carried, RowTypes
  <2> QED
    BY <1>18, <2>2, <2>3 DEF Amend, RowTypes, States
<1>19. CASE UNCHANGED vars
  BY <1>19 DEF vars, RowTypes, rowVars, effectVars
<1> QED
  BY <1>1, <1>2, <1>3, <1>4, <1>5, <1>6, <1>7, <1>8, <1>9, <1>10, <1>11, <1>12, <1>13, <1>14, <1>15, <1>16, <1>17, <1>18, <1>19 DEF Next, Run

-----------------------------------------------------------------------------
(***************************************************************************)
(* The steps, by what they do to the rows and the dispatches.              *)
(***************************************************************************)
Loads(c, p) ==
    /\ pc[c] = "idle"
    /\ \A n \in Nodes : progress[p][n].st # "started"
    /\ at' = [at EXCEPT ![c] = p]
    /\ prior' = [prior EXCEPT ![c] = progress[p]]
    /\ pc' = [pc EXCEPT ![c] = "claim"]
    /\ UNCHANGED <<state, attempts, progress, invoked, origin, index, try>>

Claims(c) ==
    /\ pc[c] = "claim" /\ Claimable(at[c])
    /\ state' = [state EXCEPT ![at[c]] = "running"]
    /\ pc' = [pc EXCEPT ![c] = "node"]
    /\ UNCHANGED <<attempts, progress, invoked, origin, at, prior, index, try>>

Leaves(c) ==
    /\ pc[c] # "idle" /\ Leave(c)
    /\ \/ UNCHANGED state
       \/ /\ Working(c)
          /\ \E s \in {"paused", "waiting", "uncertain", "complete"} :
                 state' = [state EXCEPT ![at[c]] = s]
    /\ UNCHANGED <<attempts, progress, invoked, origin>>

Verifies(c) ==
    /\ pc[c] \in {"node", "execute"} /\ Pending(c) # {}
    /\ pc' = [pc EXCEPT ![c] = "complete"]
    /\ \A d \in Coordinators : d # c => try'[d] = try[d]
    /\ UNCHANGED <<state, attempts, progress, invoked, origin, at, prior, index>>

Reserves(c) ==
    /\ pc[c] = "node" /\ Pending(c) # {} /\ prior[c][Node(c)].st # "waiting"
    /\ Reservable(at[c], Node(c))
    /\ progress' = [progress EXCEPT ![at[c]][Node(c)] =
                       [st |-> "started", tries |-> progress[at[c]][Node(c)].tries + 1]]
    /\ attempts' = [attempts EXCEPT ![at[c]] = @ + 1]
    /\ try' = [try EXCEPT ![c] = prior[c][Node(c)].tries + 1]
    /\ pc' = [pc EXCEPT ![c] = "dispatch"]
    /\ UNCHANGED <<state, at, prior, index, invoked, origin>>

Executes(c) ==
    /\ pc[c] = "dispatch" /\ Dispatch(c) \notin invoked
    /\ invoked' = invoked \cup {Dispatch(c)}
    /\ \/ Node(c) \in Delegated /\ pc' = [pc EXCEPT ![c] = "park"]
       \/ Node(c) \notin Delegated /\ pc' = [pc EXCEPT ![c] = "execute"]
    /\ UNCHANGED <<state, attempts, progress, origin, at, prior, index, try>>

Replays(c) ==
    /\ pc[c] = "dispatch" /\ Dispatch(c) \in invoked /\ Node(c) \in Delegated
    /\ pc' = [pc EXCEPT ![c] = "park"]
    /\ UNCHANGED <<state, attempts, progress, invoked, origin, at, prior, index, try>>

Parks(c) ==
    /\ pc[c] = "park" /\ Leave(c)
    /\ progress' = [progress EXCEPT ![at[c]][Node(c)] = [st |-> "waiting", tries |-> try[c]]]
    /\ state' = [state EXCEPT ![at[c]] = "waiting"]
    /\ UNCHANGED <<attempts, invoked, origin>>

Retries(c) ==
    /\ pc[c] = "execute" /\ Node(c) \in ReadOnly
    /\ progress' = [progress EXCEPT ![at[c]][Node(c)] = [st |-> "retryable", tries |-> try[c]]]
    /\ pc' = [pc EXCEPT ![c] = "pause"]
    /\ UNCHANGED <<state, attempts, invoked, origin, at, prior, index, try>>

Completes(c) ==
    /\ pc[c] = "complete"
    /\ progress' = [progress EXCEPT ![at[c]][Node(c)].st = "complete"]
    /\ pc' = [pc EXCEPT ![c] = "node"]
    /\ \A d \in Coordinators : d # c => index'[d] = index[d] /\ try'[d] = try[d]
    /\ UNCHANGED <<state, attempts, invoked, origin, at, prior>>

Restores(p, n) ==
    /\ state[p] \in {"running", "uncertain"} /\ ~Coordinated(p)
    /\ progress[p][n].st = "started"
    /\ progress' = [progress EXCEPT ![p][n].st = "complete"]
    /\ state' = [state EXCEPT ![p] = "paused"]
    /\ UNCHANGED <<attempts, invoked, origin, pc, at, prior, index, try>>

Rests == UNCHANGED <<state, attempts, progress, invoked, origin, pc, at, prior, index, try>>

Kinds ==
    \/ \E c \in Coordinators :
           \/ \E p \in Proposals : Loads(c, p)
           \/ Claims(c) \/ Leaves(c) \/ Verifies(c) \/ Reserves(c) \/ Executes(c) \/ Replays(c)
           \/ Parks(c) \/ Retries(c) \/ Completes(c)
    \/ \E p \in Proposals, n \in Nodes : Restores(p, n)
    \/ \E p, q \in Proposals : Amend(p, q)
    \/ Rests

(* Every step is of one of these kinds.                                    *)
LEMMA StepKinds ==
    ASSUME Types, Holding, [Next]_vars
    PROVE  Kinds
<1>1. ASSUME NEW c \in Coordinators, NEW p \in Proposals, Load(c, p) PROVE Kinds
  BY <1>1 DEF Load, Kinds, Loads, Goto, rowVars, effectVars
<1>2. ASSUME NEW c \in Coordinators, Claim(c) PROVE Kinds
  <2>1. CASE Claimable(at[c])
    <3>1. Claims(c)
      BY <1>2, <2>1 DEF Claim, Claims, SetState, Goto, localVars, effectVars
    <3> QED
      BY <3>1 DEF Kinds
  <2>2. CASE ~Claimable(at[c])
    <3>1. Leaves(c)
      BY <1>2, <2>2 DEF Claim, Leaves, Stop, SetState, Working, effectVars
    <3> QED
      BY <3>1 DEF Kinds
  <2> QED
    BY <2>1, <2>2
<1>3. ASSUME NEW c \in Coordinators, PreflightFails(c) PROVE Kinds
  <2>1. Leaves(c)
    BY <1>3 DEF PreflightFails, Leaves, Stop, SetState, Working, effectVars
  <2> QED
    BY <2>1 DEF Kinds
<1>4. ASSUME NEW c \in Coordinators, Reserve(c) PROVE Kinds
  <2>1. CASE Reservable(at[c], Node(c))
    <3>1. Reserves(c)
      BY <1>4, <2>1 DEF Reserve, Reserves, Goto, effectVars
    <3> QED
      BY <3>1 DEF Kinds
  <2>2. CASE ~Reservable(at[c], Node(c))
    <3>1. Leaves(c)
      BY <1>4, <2>2 DEF Reserve, Leaves, Stop, SetState, Working, effectVars
    <3> QED
      BY <3>1 DEF Kinds
  <2> QED
    BY <2>1, <2>2
<1>5. ASSUME NEW c \in Coordinators, Execute(c) PROVE Kinds
  <2>1. CASE Node(c) \notin Delegated /\ Dispatch(c) \in invoked
    <3>1. invoked' = invoked /\ Stop(c, "uncertain") /\ UNCHANGED <<attempts, progress, origin>>
      BY <1>5, <2>1 DEF Execute
    <3>2. Leaves(c)
      BY <1>5, <3>1 DEF Execute, Leaves, Stop, SetState, Working
    <3> QED
      BY <3>2 DEF Kinds
  <2>2. CASE Dispatch(c) \notin invoked
    <3>1. Executes(c)
      BY <1>5, <2>2 DEF Execute, Executes, Goto, localVars
    <3> QED
      BY <3>1 DEF Kinds
  <2>3. CASE Node(c) \in Delegated /\ Dispatch(c) \in invoked
    <3>1. invoked' = invoked
      BY <1>5, <2>3 DEF Execute
    <3>2. Replays(c)
      BY <1>5, <2>3, <3>1 DEF Execute, Replays, Goto, localVars
    <3> QED
      BY <3>2 DEF Kinds
  <2> QED
    BY <2>1, <2>2, <2>3
<1>6. ASSUME NEW c \in Coordinators, Park(c) PROVE Kinds
  <2>1. Parks(c)
    BY <1>6 DEF Park, Parks, Stop, SetState, effectVars
  <2> QED
    BY <2>1 DEF Kinds
<1>7. ASSUME NEW c \in Coordinators, Succeeds(c) PROVE Kinds
  <2>1. Verifies(c)
    BY <1>7 DEF Succeeds, Verifies, Holding, Goto, rowVars, localVars
  <2> QED
    BY <2>1 DEF Kinds
<1>8. ASSUME NEW c \in Coordinators, Fails(c) PROVE Kinds
  <2>1. CASE SafeRetry(c)
    <3>1. Retries(c)
      BY <1>8, <2>1 DEF Fails, Retries, SafeRetry, Goto, localVars, effectVars
    <3> QED
      BY <3>1 DEF Kinds
  <2>2. CASE ~SafeRetry(c)
    <3>1. Leaves(c)
      BY <1>8, <2>2 DEF Fails, Leaves, Stop, SetState, Working, effectVars
    <3> QED
      BY <3>1 DEF Kinds
  <2> QED
    BY <2>1, <2>2
<1>9. ASSUME NEW c \in Coordinators, Pause(c) PROVE Kinds
  <2>1. Leaves(c)
    BY <1>9 DEF Pause, Leaves, Stop, SetState, Working, effectVars
  <2> QED
    BY <2>1 DEF Kinds
<1>10. ASSUME NEW c \in Coordinators, Unclear(c) PROVE Kinds
  <2>1. Leaves(c)
    BY <1>10 DEF Unclear, Leaves, Stop, SetState, Working, effectVars
  <2> QED
    BY <2>1 DEF Kinds
<1>11. ASSUME NEW c \in Coordinators, Resume(c) PROVE Kinds
  <2>1. Verifies(c)
    BY <1>11 DEF Resume, Verifies, Types, LocalTypes, Goto, rowVars
  <2> QED
    BY <2>1 DEF Kinds
<1>12. ASSUME NEW c \in Coordinators, ResumeFails(c) PROVE Kinds
  <2>1. Leaves(c)
    BY <1>12 DEF ResumeFails, Leaves, Stop, SetState, Working, effectVars
  <2> QED
    BY <2>1 DEF Kinds
<1>13. ASSUME NEW c \in Coordinators, Complete(c) PROVE Kinds
  <2>1. Completes(c)
    BY <1>13 DEF Complete, Completes, Types, LocalTypes, Goto, effectVars
  <2> QED
    BY <2>1 DEF Kinds
<1>14. ASSUME NEW c \in Coordinators, Finish(c) PROVE Kinds
  <2>1. Leaves(c)
    BY <1>14 DEF Finish, Leaves, Stop, SetState, Working, effectVars
  <2> QED
    BY <2>1 DEF Kinds
<1>15. ASSUME NEW c \in Coordinators, Crash(c) PROVE Kinds
  <2>1. Leaves(c)
    BY <1>15 DEF Crash, Leaves, rowVars, effectVars
  <2> QED
    BY <2>1 DEF Kinds
<1>16. ASSUME NEW p \in Proposals, Deadline(p) PROVE Kinds
  BY <1>16 DEF Deadline, Kinds, Rests, localVars, effectVars
<1>17. ASSUME NEW p \in Proposals, NEW n \in Nodes, Reconcile(p, n) PROVE Kinds
  <2>1. Restores(p, n)
    BY <1>17 DEF Reconcile, Restores, SetState, localVars, effectVars
  <2> QED
    BY <2>1 DEF Kinds
<1>18. ASSUME NEW p \in Proposals, NEW q \in Proposals, Amend(p, q) PROVE Kinds
  BY <1>18 DEF Kinds
<1>19. CASE UNCHANGED vars
  BY <1>19 DEF vars, Kinds, Rests, rowVars, localVars, effectVars
<1> QED
  BY <1>1, <1>2, <1>3, <1>4, <1>5, <1>6, <1>7, <1>8, <1>9, <1>10, <1>11, <1>12, <1>13, <1>14, <1>15, <1>16, <1>17, <1>18, <1>19 DEF Next, Run

(* Nobody who has started on a node changes node before its outcome.       *)
LEMMA SameWork ==
    ASSUME Types, Kinds
    PROVE  \A d \in Coordinators :
               pc'[d] \in {"dispatch", "execute", "park", "complete"} =>
                   /\ Pending(d)' = Pending(d) /\ Node(d)' = Node(d)
                   /\ at'[d] = at[d] /\ prior'[d] = prior[d]
                   /\ pc[d] \notin {"idle", "claim"}
<1> DEFINE Kept ==
        \A d \in Coordinators :
            pc'[d] \in {"dispatch", "execute", "park", "complete"} =>
                /\ prior'[d] = prior[d] /\ index'[d] = index[d] /\ at'[d] = at[d]
                /\ pc[d] \notin {"idle", "claim"}
<1> USE DEF Types, LocalTypes
<1>1. ASSUME NEW c \in Coordinators, NEW p \in Proposals, Loads(c, p) PROVE Kept
  BY <1>1 DEF Loads
<1>2. ASSUME NEW c \in Coordinators, Claims(c) PROVE Kept
  BY <1>2 DEF Claims
<1>3. ASSUME NEW c \in Coordinators, Leaves(c) PROVE Kept
  BY <1>3 DEF Leaves, Leave, Goto
<1>4. ASSUME NEW c \in Coordinators, Verifies(c) PROVE Kept
  BY <1>4 DEF Verifies
<1>5. ASSUME NEW c \in Coordinators, Reserves(c) PROVE Kept
  BY <1>5 DEF Reserves
<1>6. ASSUME NEW c \in Coordinators, Executes(c) PROVE Kept
  BY <1>6 DEF Executes
<1>7. ASSUME NEW c \in Coordinators, Replays(c) PROVE Kept
  BY <1>7 DEF Replays
<1>8. ASSUME NEW c \in Coordinators, Parks(c) PROVE Kept
  BY <1>8 DEF Parks, Leave, Goto
<1>9. ASSUME NEW c \in Coordinators, Retries(c) PROVE Kept
  BY <1>9 DEF Retries
<1>10. ASSUME NEW c \in Coordinators, Completes(c) PROVE Kept
  BY <1>10 DEF Completes
<1>11. ASSUME NEW p \in Proposals, NEW n \in Nodes, Restores(p, n) PROVE Kept
  BY <1>11 DEF Restores
<1>12. ASSUME NEW p \in Proposals, NEW q \in Proposals, Amend(p, q) PROVE Kept
  BY <1>12 DEF Amend, localVars
<1>13. ASSUME Rests PROVE Kept
  BY <1>13 DEF Rests
<1>14. Kept
  BY <1>1, <1>2, <1>3, <1>4, <1>5, <1>6, <1>7, <1>8, <1>9, <1>10, <1>11, <1>12, <1>13 DEF Kinds
<1> QED
  BY <1>14 DEF Pending, Node

(* What one coordinator does leaves the others at their work, each on a    *)
(* row of another lineage.                                                 *)
Acts(c) ==
    \/ Leaves(c) \/ Verifies(c) \/ Reserves(c) \/ Executes(c) \/ Replays(c) \/ Parks(c)
    \/ Retries(c) \/ Completes(c)

LEMMA Others ==
    ASSUME Types, Ownership, NEW c \in Coordinators, Acts(c),
           NEW d \in Coordinators, d # c, pc'[d] \notin {"idle", "claim"}
    PROVE  /\ Working(d) /\ pc'[d] = pc[d] /\ try'[d] = try[d]
           /\ at[d] \in Proposals /\ at'[d] = at[d]
           /\ progress'[at[d]] = progress[at[d]]
           /\ attempts'[at[d]] = attempts[at[d]]
           /\ state'[at[d]] = state[at[d]]
           /\ Working(c) => at[c] # at[d] /\ origin[at[c]] # origin[at[d]]
<1>1. pc'[d] = pc[d] /\ try'[d] = try[d] /\ at'[d] = at[d]
  BY DEF Acts, Leaves, Verifies, Reserves, Executes, Replays, Parks, Retries, Completes, Leave,
         Goto, Types, LocalTypes
<1>2. Working(d) /\ at[d] \in Proposals
  BY <1>1, AtWork DEF Working
<1>3. Working(c) => at[c] # at[d] /\ origin[at[c]] # origin[at[d]]
  BY <1>2 DEF Ownership, OneCoordinator, Working
<1>4. CASE Working(c)
  <2>1. at[c] \in Proposals /\ at[c] # at[d]
    BY <1>3, <1>4, AtWork DEF Working
  <2>2. progress'[at[d]] = progress[at[d]]
    BY <1>2, <2>1 DEF Acts, Leaves, Verifies, Reserves, Executes, Replays, Parks, Retries,
                      Completes, Types, RowTypes
  <2>3. attempts'[at[d]] = attempts[at[d]] /\ state'[at[d]] = state[at[d]]
    BY <1>2, <2>1 DEF Acts, Leaves, Verifies, Reserves, Executes, Replays, Parks, Retries,
                      Completes, Types, RowTypes
  <2> QED
    BY <1>1, <1>2, <1>3, <2>2, <2>3
<1>5. CASE ~Working(c)
  <2>1. Leaves(c) /\ UNCHANGED <<state, attempts, progress>>
    BY <1>5 DEF Acts, Leaves, Verifies, Reserves, Executes, Replays, Parks, Retries, Completes,
                Working
  <2> QED
    BY <1>1, <1>2, <1>5, <2>1
<1> QED
  BY <1>4, <1>5

(* Every step keeps one coordinator at work on a lineage's running row.    *)
LEMMA OwnershipStep ==
    ASSUME Types, Succession, Ownership, Kinds
    PROVE  Ownership'
<1>0. None \notin Proposals
  BY StackAssumption
<1> DEFINE Busy(d) == pc'[d] \notin {"idle", "claim"}
           Goal ==
            /\ \A d \in Coordinators : pc'[d] = "idle" <=> at'[d] = None
            /\ \A d \in Coordinators : Busy(d) => state'[at'[d]] = "running"
            /\ \A d, e \in Coordinators :
                   Busy(d) /\ Busy(e) /\ origin'[at'[d]] = origin'[at'[e]] => d = e
<1>o. /\ \A d \in Coordinators : pc[d] = "idle" <=> at[d] = None
      /\ \A d \in Coordinators : Working(d) => at[d] \in Proposals /\ state[at[d]] = "running"
      /\ \A d, e \in Coordinators :
             Working(d) /\ Working(e) /\ origin[at[d]] = origin[at[e]] => d = e
  BY AtWork DEF Ownership, OneCoordinator, Working
<1>1. ASSUME NEW c \in Coordinators, NEW p \in Proposals, Loads(c, p) PROVE Goal
  <2>1. /\ UNCHANGED <<state, origin>>
        /\ \A d \in Coordinators : Busy(d) => Working(d) /\ at'[d] = at[d]
        /\ \A d \in Coordinators : pc'[d] = "idle" <=> at'[d] = None
    BY <1>1, <1>0, <1>o DEF Loads, Types, LocalTypes, Working
  <2> QED
    BY <1>o, <2>1
<1>2. ASSUME NEW c \in Coordinators, Claims(c) PROVE Goal
  <2>1. at[c] \in Proposals
    BY <1>2, AtWork DEF Claims
  <2>2. \A d \in Coordinators : Working(d) => origin[at[d]] # origin[at[c]]
    <3> SUFFICES ASSUME NEW d \in Coordinators, Working(d), origin[at[d]] = origin[at[c]]
                 PROVE  FALSE
      OBVIOUS
    <3>1. at[d] \in Proposals /\ state[at[d]] = "running"
      BY <1>o
    <3>2. CASE state[at[c]] = "none"
      BY <2>1, <3>1, <3>2 DEF Succession
    <3>3. CASE state[at[c]] # "none"
      <4>1. Active(at[c]) /\ state[at[c]] # "running"
        BY <1>2, <3>3 DEF Claims, Claimable, Active
      <4> QED
        BY <2>1, <3>1, <4>1 DEF Succession, Active
    <3> QED
      BY <3>2, <3>3
  <2>3. /\ UNCHANGED <<origin, at>> /\ pc'[c] = "node"
        /\ \A d \in Coordinators : d # c => pc'[d] = pc[d]
        /\ pc[c] = "claim"
    BY <1>2 DEF Claims, Types, LocalTypes
  <2>4. state'[at[c]] = "running" /\ \A t \in Proposals : t # at[c] => state'[t] = state[t]
    BY <1>2, <2>1 DEF Claims, Types, RowTypes
  <2>5. \A d \in Coordinators : Busy(d) => d = c \/ Working(d)
    BY <2>3 DEF Working
  <2>6. \A d \in Coordinators : Busy(d) => state'[at[d]] = "running"
    BY <1>o, <2>4, <2>5
  <2>7. \A d, e \in Coordinators : Busy(d) /\ Busy(e) /\ origin[at[d]] = origin[at[e]] => d = e
    BY <1>o, <2>2, <2>5
  <2>8. \A d \in Coordinators : pc'[d] = "idle" <=> at[d] = None
    BY <1>o, <2>3
  <2> QED
    BY <2>3, <2>6, <2>7, <2>8
<1>3. ASSUME NEW c \in Coordinators, Leaves(c) PROVE Goal
  <2>1. /\ pc'[c] = "idle" /\ at'[c] = None /\ UNCHANGED origin
        /\ \A d \in Coordinators : d # c => pc'[d] = pc[d] /\ at'[d] = at[d]
    BY <1>3 DEF Leaves, Leave, Goto, Types, LocalTypes
  <2>2. \A d \in Coordinators :
            Busy(d) => Working(d) /\ at'[d] = at[d] /\ state'[at[d]] = state[at[d]]
    BY <1>3, <2>1, Others DEF Acts
  <2> QED
    BY <1>o, <2>1, <2>2
<1>4. ASSUME NEW c \in Coordinators, Verifies(c) PROVE Goal
  <2>1. /\ UNCHANGED <<state, origin, at>> /\ Working(c) /\ pc'[c] # "idle" /\ pc[c] # "idle"
        /\ \A d \in Coordinators : d # c => pc'[d] = pc[d]
    BY <1>4 DEF Verifies, Types, LocalTypes, Working
  <2> QED
    BY <1>o, <2>1 DEF Working
<1>5. ASSUME NEW c \in Coordinators, Reserves(c) PROVE Goal
  <2>1. /\ UNCHANGED <<state, origin, at>> /\ Working(c) /\ pc'[c] # "idle" /\ pc[c] # "idle"
        /\ \A d \in Coordinators : d # c => pc'[d] = pc[d]
    BY <1>5 DEF Reserves, Types, LocalTypes, Working
  <2> QED
    BY <1>o, <2>1 DEF Working
<1>6. ASSUME NEW c \in Coordinators, Executes(c) PROVE Goal
  <2>1. /\ UNCHANGED <<state, origin, at>> /\ Working(c) /\ pc'[c] # "idle" /\ pc[c] # "idle"
        /\ \A d \in Coordinators : d # c => pc'[d] = pc[d]
    BY <1>6 DEF Executes, Types, LocalTypes, Working
  <2> QED
    BY <1>o, <2>1 DEF Working
<1>7. ASSUME NEW c \in Coordinators, Replays(c) PROVE Goal
  <2>1. /\ UNCHANGED <<state, origin, at>> /\ Working(c) /\ pc'[c] # "idle" /\ pc[c] # "idle"
        /\ \A d \in Coordinators : d # c => pc'[d] = pc[d]
    BY <1>7 DEF Replays, Types, LocalTypes, Working
  <2> QED
    BY <1>o, <2>1 DEF Working
<1>8. ASSUME NEW c \in Coordinators, Parks(c) PROVE Goal
  <2>1. /\ pc'[c] = "idle" /\ at'[c] = None /\ UNCHANGED origin
        /\ \A d \in Coordinators : d # c => pc'[d] = pc[d] /\ at'[d] = at[d]
    BY <1>8 DEF Parks, Leave, Goto, Types, LocalTypes
  <2>2. \A d \in Coordinators :
            Busy(d) => Working(d) /\ at'[d] = at[d] /\ state'[at[d]] = state[at[d]]
    BY <1>8, <2>1, Others DEF Acts
  <2> QED
    BY <1>o, <2>1, <2>2
<1>9. ASSUME NEW c \in Coordinators, Retries(c) PROVE Goal
  <2>1. /\ UNCHANGED <<state, origin, at>> /\ Working(c) /\ pc'[c] # "idle" /\ pc[c] # "idle"
        /\ \A d \in Coordinators : d # c => pc'[d] = pc[d]
    BY <1>9 DEF Retries, Types, LocalTypes, Working
  <2> QED
    BY <1>o, <2>1 DEF Working
<1>10. ASSUME NEW c \in Coordinators, Completes(c) PROVE Goal
  <2>1. /\ UNCHANGED <<state, origin, at>> /\ Working(c) /\ pc'[c] # "idle" /\ pc[c] # "idle"
        /\ \A d \in Coordinators : d # c => pc'[d] = pc[d]
    BY <1>10 DEF Completes, Types, LocalTypes, Working
  <2> QED
    BY <1>o, <2>1 DEF Working
<1>11. ASSUME NEW p \in Proposals, NEW n \in Nodes, Restores(p, n) PROVE Goal
  <2>1. UNCHANGED <<origin, pc, at>> /\ \A t \in Proposals : t # p => state'[t] = state[t]
    BY <1>11 DEF Restores, Types, RowTypes
  <2>2. \A d \in Coordinators : Working(d) => at[d] # p
    BY <1>11 DEF Restores, Coordinated, Working
  <2> QED
    BY <1>o, <2>1, <2>2 DEF Working
<1>12. ASSUME NEW p \in Proposals, NEW q \in Proposals, Amend(p, q) PROVE Goal
  <2>1. UNCHANGED <<pc, at>> /\ state[p] # "running" /\ state[q] # "running"
    BY <1>12 DEF Amend, Amendable, localVars
  <2>2. \A t \in Proposals : t # p /\ t # q => state'[t] = state[t] /\ origin'[t] = origin[t]
    BY <1>12 DEF Amend, Types, RowTypes
  <2>3. \A d \in Coordinators :
            Working(d) => state'[at[d]] = state[at[d]] /\ origin'[at[d]] = origin[at[d]]
    BY <1>o, <2>1, <2>2
  <2> QED
    BY <1>o, <2>1, <2>3 DEF Working
<1>13. ASSUME Rests PROVE Goal
  BY <1>13, <1>o DEF Rests, Working
<1>14. Goal
  BY <1>1, <1>2, <1>3, <1>4, <1>5, <1>6, <1>7, <1>8, <1>9, <1>10, <1>11, <1>12, <1>13 DEF Kinds
<1> QED
  BY <1>14 DEF Ownership, OneCoordinator, Working

(* A step that only touches existing rows and keeps them in existence keeps *)
(* the succession.                                                         *)
LEMMA SuccessionKept ==
    ASSUME Types, Types', Succession, UNCHANGED origin,
           \A q \in Proposals : state'[q] = "none" <=> state[q] = "none",
           \A q \in Proposals :
               state'[q] \notin {"none", "superseded"} <=> state[q] \notin {"none", "superseded"},
           \A q \in Proposals : state[q] = "none" => progress'[q] = progress[q],
           \A d \in invoked' : d \in invoked \/ (d[1] \in Proposals /\ state[d[1]] # "none")
    PROVE  Succession'
<1>1. (\A d \in invoked : d[1] \in Proposals) /\ \A p \in Proposals : origin[p] \in Proposals
  BY DEF Types, RowTypes
<1>2. \A p, q \in Proposals :
          Active(p)' /\ Active(q)' /\ origin'[p] = origin'[q] => p = q
  BY DEF Succession, Active
<1>3. \A p \in Proposals : state'[p] = "none" => origin'[p] = p /\ progress'[p] = Fresh
  BY DEF Succession
<1>4. \A p \in Proposals : state'[p] # "none" => state'[origin'[p]] # "none"
  BY <1>1 DEF Succession
<1>5. \A p \in Proposals :
          state'[p] # "none" => \E q \in Proposals : Active(q)' /\ origin'[q] = origin'[p]
  BY DEF Succession, Active
<1>6. \A d \in invoked' : state'[d[1]] # "none"
  BY <1>1 DEF Succession
<1> QED
  BY <1>2, <1>3, <1>4, <1>5, <1>6 DEF Succession, Active, Fresh

(* Every step keeps one active row in a lineage.                           *)
LEMMA SuccessionStep ==
    ASSUME Types, Types', Succession, Ownership, Kinds
    PROVE  Succession'
<1>1. ASSUME NEW c \in Coordinators, NEW p \in Proposals, Loads(c, p) PROVE Succession'
  BY <1>1, SuccessionKept DEF Loads
<1>2. ASSUME NEW c \in Coordinators, Claims(c) PROVE Succession'
  <2>1. at[c] \in Proposals /\ UNCHANGED <<origin, progress, invoked>>
    BY <1>2, AtWork DEF Claims
  <2>2. state'[at[c]] = "running" /\ \A t \in Proposals : t # at[c] => state'[t] = state[t]
    BY <1>2, <2>1 DEF Claims, Types, RowTypes
  <2>3. CASE state[at[c]] # "none"
    <3>1. state[at[c]] # "superseded"
      BY <1>2, <2>3 DEF Claims, Claimable
    <3>2. /\ \A t \in Proposals : state'[t] = "none" <=> state[t] = "none"
          /\ \A t \in Proposals :
                 state'[t] \notin {"none", "superseded"} <=> state[t] \notin {"none", "superseded"}
      BY <2>2, <2>3, <3>1
    <3> QED
      BY <2>1, <3>2, SuccessionKept
  <2>4. CASE state[at[c]] = "none"
    <3>0. (\A d \in invoked : d[1] \in Proposals) /\ \A t \in Proposals : origin[t] \in Proposals
      BY DEF Types, RowTypes
    <3>1. origin[at[c]] = at[c] /\ \A t \in Proposals : origin[t] = at[c] => t = at[c]
      BY <2>1, <2>4 DEF Succession
    <3>2. \A t, u \in Proposals :
              state'[t] \notin {"none", "superseded"} /\ state'[u] \notin {"none", "superseded"}
              /\ origin[t] = origin[u] => t = u
      <4> SUFFICES ASSUME NEW t \in Proposals, NEW u \in Proposals,
                          state'[t] \notin {"none", "superseded"},
                          state'[u] \notin {"none", "superseded"}, origin[t] = origin[u]
                   PROVE  t = u
        OBVIOUS
      <4>1. CASE t = at[c] \/ u = at[c]
        BY <3>1, <4>1
      <4>2. CASE t # at[c] /\ u # at[c]
        BY <2>2, <4>2 DEF Succession, Active
      <4> QED
        BY <4>1, <4>2
    <3>3. \A t \in Proposals : state'[t] = "none" => origin[t] = t /\ progress[t] = Fresh
      BY <2>2 DEF Succession
    <3>4. \A t \in Proposals : state'[t] # "none" => state'[origin[t]] # "none"
      BY <2>2, <3>0, <3>1 DEF Succession
    <3>5. \A t \in Proposals : state'[t] # "none" =>
              \E u \in Proposals : state'[u] \notin {"none", "superseded"} /\ origin[u] = origin[t]
      <4> SUFFICES ASSUME NEW t \in Proposals, state'[t] # "none"
                   PROVE  \E u \in Proposals : /\ state'[u] \notin {"none", "superseded"}
                                               /\ origin[u] = origin[t]
        OBVIOUS
      <4>1. CASE t = at[c]
        BY <2>1, <2>2, <4>1
      <4>2. CASE t # at[c]
        <5>1. PICK u \in Proposals : Active(u) /\ origin[u] = origin[t]
          BY <2>2, <4>2 DEF Succession
        <5>2. u # at[c]
          BY <2>4, <5>1 DEF Active
        <5> QED
          BY <2>2, <5>1, <5>2 DEF Active
      <4> QED
        BY <4>1, <4>2
    <3>6. \A d \in invoked : state'[d[1]] # "none"
      BY <2>2, <3>0 DEF Succession
    <3> QED
      BY <2>1, <3>2, <3>3, <3>4, <3>5, <3>6 DEF Succession, Active, Fresh
  <2> QED
    BY <2>3, <2>4
<1>3. ASSUME NEW c \in Coordinators, Leaves(c) PROVE Succession'
  <2>1. CASE UNCHANGED state
    BY <1>3, <2>1, SuccessionKept DEF Leaves
  <2>2. CASE Working(c) /\ \E s \in {"paused", "waiting", "uncertain", "complete"} : state' = [state EXCEPT ![at[c]] = s]
    <3>1. at[c] \in Proposals /\ state[at[c]] = "running"
      BY <2>2, AtWork DEF Ownership, Working
    <3>2. /\ \A r \in Proposals : state'[r] = "none" <=> state[r] = "none"
          /\ \A r \in Proposals :
                 state'[r] \notin {"none", "superseded"} <=> state[r] \notin {"none", "superseded"}
      BY <2>2, <3>1 DEF Types, RowTypes
    <3> QED
      BY <1>3, <3>2, SuccessionKept DEF Leaves
  <2> QED
    BY <1>3, <2>1, <2>2 DEF Leaves
<1>4. ASSUME NEW c \in Coordinators, Verifies(c) PROVE Succession'
  BY <1>4, SuccessionKept DEF Verifies
<1>5. ASSUME NEW c \in Coordinators, Reserves(c) PROVE Succession'
  <2>1. at[c] \in Proposals /\ state[at[c]] = "running" /\ UNCHANGED origin
    BY <1>5, AtWork DEF Reserves, Ownership, Working
  <2>2. /\ \A r \in Proposals : state'[r] = "none" <=> state[r] = "none"
        /\ \A r \in Proposals :
               state'[r] \notin {"none", "superseded"} <=> state[r] \notin {"none", "superseded"}
    BY <1>5, <2>1 DEF Reserves, Types, RowTypes
  <2>3. \A r \in Proposals : state[r] = "none" => progress'[r] = progress[r]
    BY <1>5, <2>1 DEF Reserves, Types, RowTypes
  <2>4. \A d \in invoked' : d \in invoked \/ (d[1] \in Proposals /\ state[d[1]] # "none")
    BY <1>5, <2>1 DEF Reserves, Dispatch
  <2> QED
    BY <2>1, <2>2, <2>3, <2>4, SuccessionKept
<1>6. ASSUME NEW c \in Coordinators, Executes(c) PROVE Succession'
  <2>1. at[c] \in Proposals /\ state[at[c]] = "running" /\ UNCHANGED origin
    BY <1>6, AtWork DEF Executes, Ownership, Working
  <2>2. /\ \A r \in Proposals : state'[r] = "none" <=> state[r] = "none"
        /\ \A r \in Proposals :
               state'[r] \notin {"none", "superseded"} <=> state[r] \notin {"none", "superseded"}
    BY <1>6, <2>1 DEF Executes, Types, RowTypes
  <2>3. \A r \in Proposals : state[r] = "none" => progress'[r] = progress[r]
    BY <1>6, <2>1 DEF Executes, Types, RowTypes
  <2>4. \A d \in invoked' : d \in invoked \/ (d[1] \in Proposals /\ state[d[1]] # "none")
    BY <1>6, <2>1 DEF Executes, Dispatch
  <2> QED
    BY <2>1, <2>2, <2>3, <2>4, SuccessionKept
<1>7. ASSUME NEW c \in Coordinators, Replays(c) PROVE Succession'
  BY <1>7, SuccessionKept DEF Replays
<1>8. ASSUME NEW c \in Coordinators, Parks(c) PROVE Succession'
  <2>1. at[c] \in Proposals /\ state[at[c]] = "running" /\ UNCHANGED origin
    BY <1>8, AtWork DEF Parks, Ownership, Working
  <2>2. /\ \A r \in Proposals : state'[r] = "none" <=> state[r] = "none"
        /\ \A r \in Proposals :
               state'[r] \notin {"none", "superseded"} <=> state[r] \notin {"none", "superseded"}
    BY <1>8, <2>1 DEF Parks, Types, RowTypes
  <2>3. \A r \in Proposals : state[r] = "none" => progress'[r] = progress[r]
    BY <1>8, <2>1 DEF Parks, Types, RowTypes
  <2>4. \A d \in invoked' : d \in invoked \/ (d[1] \in Proposals /\ state[d[1]] # "none")
    BY <1>8, <2>1 DEF Parks, Dispatch
  <2> QED
    BY <2>1, <2>2, <2>3, <2>4, SuccessionKept
<1>9. ASSUME NEW c \in Coordinators, Retries(c) PROVE Succession'
  <2>1. at[c] \in Proposals /\ state[at[c]] = "running" /\ UNCHANGED origin
    BY <1>9, AtWork DEF Retries, Ownership, Working
  <2>2. /\ \A r \in Proposals : state'[r] = "none" <=> state[r] = "none"
        /\ \A r \in Proposals :
               state'[r] \notin {"none", "superseded"} <=> state[r] \notin {"none", "superseded"}
    BY <1>9, <2>1 DEF Retries, Types, RowTypes
  <2>3. \A r \in Proposals : state[r] = "none" => progress'[r] = progress[r]
    BY <1>9, <2>1 DEF Retries, Types, RowTypes
  <2>4. \A d \in invoked' : d \in invoked \/ (d[1] \in Proposals /\ state[d[1]] # "none")
    BY <1>9, <2>1 DEF Retries, Dispatch
  <2> QED
    BY <2>1, <2>2, <2>3, <2>4, SuccessionKept
<1>10. ASSUME NEW c \in Coordinators, Completes(c) PROVE Succession'
  <2>1. at[c] \in Proposals /\ state[at[c]] = "running" /\ UNCHANGED origin
    BY <1>10, AtWork DEF Completes, Ownership, Working
  <2>2. /\ \A r \in Proposals : state'[r] = "none" <=> state[r] = "none"
        /\ \A r \in Proposals :
               state'[r] \notin {"none", "superseded"} <=> state[r] \notin {"none", "superseded"}
    BY <1>10, <2>1 DEF Completes, Types, RowTypes
  <2>3. \A r \in Proposals : state[r] = "none" => progress'[r] = progress[r]
    BY <1>10, <2>1 DEF Completes, Types, RowTypes
  <2>4. \A d \in invoked' : d \in invoked \/ (d[1] \in Proposals /\ state[d[1]] # "none")
    BY <1>10, <2>1 DEF Completes, Dispatch
  <2> QED
    BY <2>1, <2>2, <2>3, <2>4, SuccessionKept
<1>11. ASSUME NEW p \in Proposals, NEW n \in Nodes, Restores(p, n) PROVE Succession'
  <2>1. /\ \A r \in Proposals : state'[r] = "none" <=> state[r] = "none"
        /\ \A r \in Proposals :
               state'[r] \notin {"none", "superseded"} <=> state[r] \notin {"none", "superseded"}
    BY <1>11 DEF Restores, Types, RowTypes
  <2>2. \A r \in Proposals : state[r] = "none" => progress'[r] = progress[r]
    BY <1>11 DEF Restores, Types, RowTypes
  <2> QED
    BY <1>11, <2>1, <2>2, SuccessionKept DEF Restores
<1>12. ASSUME NEW p \in Proposals, NEW q \in Proposals, Amend(p, q) PROVE Succession'
  <2>1. p # q /\ state[p] \in {"paused", "complete"} /\ state[q] = "none"
    BY <1>12 DEF Amend, Amendable
  <2>2. state'[p] = "superseded" /\ state'[q] = "paused"
        /\ \A r \in Proposals \ {p, q} : state'[r] = state[r]
    BY <1>12, <2>1 DEF Amend, Types, RowTypes
  <2>3. origin'[q] = origin[p] /\ \A r \in Proposals : r # q => origin'[r] = origin[r]
    BY <1>12 DEF Amend, Types, RowTypes
  <2>4. \A r \in Proposals : r # q => progress'[r] = progress[r]
    BY <1>12 DEF Amend, Types, RowTypes
  <2>5. (\A d \in invoked : d[1] \in Proposals) /\ invoked' = invoked
    BY <1>12 DEF Amend, Types, RowTypes
  <2>6. \A r \in Proposals : origin[r] \in Proposals
    BY DEF Types, RowTypes
  <2>7. \A r \in Proposals : r # p /\ Active(r) => origin[r] # origin[p]
    BY <2>1 DEF Succession, Active
  <2>8. \A r, t \in Proposals :
            state'[r] \notin {"none", "superseded"} /\ state'[t] \notin {"none", "superseded"}
            /\ origin'[r] = origin'[t] => r = t
    <3> SUFFICES ASSUME NEW r \in Proposals, NEW t \in Proposals,
                        state'[r] \notin {"none", "superseded"},
                        state'[t] \notin {"none", "superseded"}, origin'[r] = origin'[t]
                 PROVE  r = t
      OBVIOUS
    <3>1. r # p /\ t # p
      BY <2>2
    <3>2. r # q => Active(r)
      BY <2>2, <3>1 DEF Active
    <3>3. t # q => Active(t)
      BY <2>2, <3>1 DEF Active
    <3>4. CASE r # q /\ t # q
      BY <2>3, <3>2, <3>3, <3>4 DEF Succession
    <3>5. CASE r = q \/ t = q
      BY <2>3, <2>7, <3>1, <3>2, <3>3, <3>5
    <3> QED
      BY <3>4, <3>5
  <2>9. \A r \in Proposals : state'[r] = "none" => origin'[r] = r /\ progress'[r] = Fresh
    BY <2>2, <2>3, <2>4 DEF Succession
  <2>10. \A r \in Proposals : state'[r] # "none" => state'[origin'[r]] # "none"
    <3>1. \A r \in Proposals : state[r] # "none" => state'[r] # "none"
      BY <2>1, <2>2
    <3>2. state[origin[p]] # "none" /\ state'[origin[p]] # "none"
      BY <2>1, <2>6, <3>1 DEF Succession
    <3>3. \A r \in Proposals : r # q /\ state'[r] # "none" => state[r] # "none"
      BY <2>1, <2>2
    <3> QED
      BY <2>3, <2>6, <3>1, <3>2, <3>3 DEF Succession
  <2>11. \A r \in Proposals : state'[r] # "none" =>
            \E t \in Proposals : state'[t] \notin {"none", "superseded"} /\ origin'[t] = origin'[r]
    <3> SUFFICES ASSUME NEW r \in Proposals, state'[r] # "none"
                 PROVE  \E t \in Proposals : /\ state'[t] \notin {"none", "superseded"}
                                             /\ origin'[t] = origin'[r]
      OBVIOUS
    <3>1. CASE origin'[r] = origin[p]
      BY <2>2, <2>3, <3>1
    <3>2. CASE origin'[r] # origin[p]
      <4>1. r # q /\ r # p /\ state[r] # "none" /\ origin'[r] = origin[r]
        BY <2>1, <2>2, <2>3, <3>2
      <4>2. PICK t \in Proposals : Active(t) /\ origin[t] = origin[r]
        BY <4>1 DEF Succession
      <4>3. t # p /\ t # q
        BY <2>1, <3>2, <4>1, <4>2 DEF Active
      <4> QED
        BY <2>2, <2>3, <4>1, <4>2, <4>3 DEF Active
    <3> QED
      BY <3>1, <3>2
  <2>12. \A d \in invoked' : state'[d[1]] # "none"
    BY <2>1, <2>2, <2>5 DEF Succession
  <2> QED
    BY <2>8, <2>9, <2>10, <2>11, <2>12 DEF Succession, Active, Fresh
<1>13. ASSUME Rests PROVE Succession'
  BY <1>13, SuccessionKept DEF Rests
<1> QED
  BY <1>1, <1>2, <1>3, <1>4, <1>5, <1>6, <1>7, <1>8, <1>9, <1>10, <1>11, <1>12, <1>13 DEF Kinds

(* Every step keeps the node at hand marked as started.                    *)
LEMMA HoldingStep ==
    ASSUME Types, Ownership, Holding, Kinds
    PROVE  Holding'
<1>a. \A d \in Coordinators : Working(d) => at[d] \in Proposals /\ state[at[d]] = "running"
  BY AtWork DEF Ownership, Working
<1>b. \A d \in Coordinators :
          pc'[d] \in {"dispatch", "execute", "park", "complete"} =>
              /\ Pending(d)' = Pending(d) /\ Node(d)' = Node(d)
              /\ at'[d] = at[d] /\ prior'[d] = prior[d] /\ Working(d)
  BY SameWork DEF Working
<1> DEFINE Fit(d) ==
            /\ pc'[d] \in {"dispatch", "execute", "park", "complete"} => Pending(d) # {}
            /\ pc'[d] \in {"dispatch", "execute", "park"} => progress'[at[d]][Node(d)].st = "started"
           Held == \A d \in Coordinators : Fit(d)
<1>h. \A d \in Coordinators :
          /\ pc[d] \in {"dispatch", "execute", "park", "complete"} => Pending(d) # {}
          /\ pc[d] \in {"dispatch", "execute", "park"} => progress[at[d]][Node(d)].st = "started"
  BY DEF Holding
<1>1. ASSUME NEW c \in Coordinators, NEW p \in Proposals, Loads(c, p) PROVE Held
  <2>1. /\ UNCHANGED progress
        /\ \A d \in Coordinators :
               pc'[d] \in {"dispatch", "execute", "park", "complete"} => pc'[d] = pc[d]
    BY <1>1 DEF Loads, Types, LocalTypes
  <2> QED
    BY <1>h, <2>1
<1>2. ASSUME NEW c \in Coordinators, Claims(c) PROVE Held
  <2>1. /\ UNCHANGED progress
        /\ \A d \in Coordinators :
               pc'[d] \in {"dispatch", "execute", "park", "complete"} => pc'[d] = pc[d]
    BY <1>2 DEF Claims, Types, LocalTypes
  <2> QED
    BY <1>h, <2>1
<1>3. ASSUME NEW c \in Coordinators, Leaves(c) PROVE Held
  <2>1. pc'[c] = "idle"
    BY <1>3 DEF Leaves, Leave, Goto, Types, LocalTypes
  <2>3. Fit(c)
    BY <1>h, <2>1
  <2>4. \A d \in Coordinators : d # c => Fit(d)
    BY <1>3, <1>h, Others DEF Acts
  <2> QED
    BY <2>3, <2>4
<1>4. ASSUME NEW c \in Coordinators, Verifies(c) PROVE Held
  <2>1. pc'[c] = "complete" /\ Pending(c) # {}
    BY <1>4 DEF Verifies, Types, LocalTypes
  <2>3. Fit(c)
    BY <1>h, <2>1
  <2>4. \A d \in Coordinators : d # c => Fit(d)
    BY <1>4, <1>h, Others DEF Acts
  <2> QED
    BY <2>3, <2>4
<1>5. ASSUME NEW c \in Coordinators, Reserves(c) PROVE Held
  <2>1. at[c] \in Proposals /\ Node(c) \in Nodes /\ Pending(c) # {}
    BY <1>5, AtWork, NodeExists DEF Reserves
  <2>2. progress'[at[c]][Node(c)].st = "started"
    BY <1>5, <2>1 DEF Reserves, Types, RowTypes
  <2>3. Fit(c)
    BY <2>1, <2>2
  <2>4. \A d \in Coordinators : d # c => Fit(d)
    BY <1>5, <1>h, Others DEF Acts
  <2> QED
    BY <2>3, <2>4
<1>6. ASSUME NEW c \in Coordinators, Executes(c) PROVE Held
  <2>1. pc[c] = "dispatch" /\ UNCHANGED progress
    BY <1>6 DEF Executes, Types, LocalTypes
  <2>3. Fit(c)
    BY <1>h, <2>1
  <2>4. \A d \in Coordinators : d # c => Fit(d)
    BY <1>6, <1>h, Others DEF Acts
  <2> QED
    BY <2>3, <2>4
<1>7. ASSUME NEW c \in Coordinators, Replays(c) PROVE Held
  <2>1. pc[c] = "dispatch" /\ UNCHANGED progress
    BY <1>7 DEF Replays, Types, LocalTypes
  <2>3. Fit(c)
    BY <1>h, <2>1
  <2>4. \A d \in Coordinators : d # c => Fit(d)
    BY <1>7, <1>h, Others DEF Acts
  <2> QED
    BY <2>3, <2>4
<1>8. ASSUME NEW c \in Coordinators, Parks(c) PROVE Held
  <2>1. pc'[c] = "idle"
    BY <1>8 DEF Parks, Leave, Goto, Types, LocalTypes
  <2>3. Fit(c)
    BY <1>h, <2>1
  <2>4. \A d \in Coordinators : d # c => Fit(d)
    BY <1>8, <1>h, Others DEF Acts
  <2> QED
    BY <2>3, <2>4
<1>9. ASSUME NEW c \in Coordinators, Retries(c) PROVE Held
  <2>1. pc'[c] = "pause"
    BY <1>9 DEF Retries, Types, LocalTypes
  <2>3. Fit(c)
    BY <1>h, <2>1
  <2>4. \A d \in Coordinators : d # c => Fit(d)
    BY <1>9, <1>h, Others DEF Acts
  <2> QED
    BY <2>3, <2>4
<1>10. ASSUME NEW c \in Coordinators, Completes(c) PROVE Held
  <2>1. pc'[c] = "node"
    BY <1>10 DEF Completes, Types, LocalTypes
  <2>3. Fit(c)
    BY <1>h, <2>1
  <2>4. \A d \in Coordinators : d # c => Fit(d)
    BY <1>10, <1>h, Others DEF Acts
  <2> QED
    BY <2>3, <2>4
<1>11. ASSUME NEW p \in Proposals, NEW n \in Nodes, Restores(p, n) PROVE Held
  <2>1. \A d \in Coordinators : Working(d) => at[d] # p
    BY <1>11 DEF Restores, Coordinated, Working
  <2>2. UNCHANGED pc /\ \A t \in Proposals : t # p => progress'[t] = progress[t]
    BY <1>11 DEF Restores, Types, RowTypes
  <2>3. \A d \in Coordinators : Working(d) => progress'[at[d]] = progress[at[d]]
    BY <1>a, <2>1, <2>2
  <2> QED
    BY <1>h, <2>2, <2>3 DEF Working
<1>12. ASSUME NEW p \in Proposals, NEW q \in Proposals, Amend(p, q) PROVE Held
  <2>1. UNCHANGED pc /\ state[q] = "none" /\ \A t \in Proposals : t # q => progress'[t] = progress[t]
    BY <1>12 DEF Amend, Types, RowTypes
  <2>2. \A d \in Coordinators : Working(d) => progress'[at[d]] = progress[at[d]]
    BY <1>a, <2>1
  <2> QED
    BY <1>h, <2>1, <2>2 DEF Working
<1>13. ASSUME Rests PROVE Held
  BY <1>13, <1>h DEF Rests
<1>14. Held
  BY <1>1, <1>2, <1>3, <1>4, <1>5, <1>6, <1>7, <1>8, <1>9, <1>10, <1>11, <1>12, <1>13 DEF Kinds
<1> QED
  BY <1>14, <1>b DEF Holding

(* No step takes back the count of a node's attempts, but a replay of the  *)
(* first attempt of a delegated node.                                      *)
LEMMA TriesGrow ==
    ASSUME Types, Types', Succession, Ownership, Holding, Attempting, Kinds
    PROVE  \A p \in Proposals, n \in Nodes :
               \/ progress[p][n].tries <= progress'[p][n].tries
               \/ n \in Delegated /\ 1 <= progress'[p][n].tries
<1> DEFINE Grow ==
        \A p \in Proposals, n \in Nodes :
            \/ progress[p][n].tries <= progress'[p][n].tries
            \/ n \in Delegated /\ 1 <= progress'[p][n].tries
<1>0. \A p \in Proposals, n \in Nodes : progress[p][n].tries \in Nat /\ progress'[p][n].tries \in Nat
  BY StackAssumption DEF Types, RowTypes, Entries
<1>1. ASSUME NEW c \in Coordinators, NEW p \in Proposals, Loads(c, p) PROVE Grow
  BY <1>1, <1>0 DEF Loads
<1>2. ASSUME NEW c \in Coordinators, Claims(c) PROVE Grow
  BY <1>2, <1>0 DEF Claims
<1>3. ASSUME NEW c \in Coordinators, Leaves(c) PROVE Grow
  BY <1>3, <1>0 DEF Leaves
<1>4. ASSUME NEW c \in Coordinators, Verifies(c) PROVE Grow
  BY <1>4, <1>0 DEF Verifies
<1>5. ASSUME NEW c \in Coordinators, Reserves(c) PROVE Grow
  <2>1. at[c] \in Proposals /\ Node(c) \in Nodes
    BY <1>5, AtWork, NodeExists DEF Reserves
  <2>2. progress'[at[c]][Node(c)].tries = progress[at[c]][Node(c)].tries + 1
    BY <1>5, <2>1 DEF Reserves, Types, RowTypes
  <2>3. \A p \in Proposals, n \in Nodes : p # at[c] \/ n # Node(c) => progress'[p][n] = progress[p][n]
    BY <1>5, <2>1 DEF Reserves, Types, RowTypes
  <2> QED
    BY <1>0, <2>2, <2>3
<1>6. ASSUME NEW c \in Coordinators, Executes(c) PROVE Grow
  BY <1>6, <1>0 DEF Executes
<1>7. ASSUME NEW c \in Coordinators, Replays(c) PROVE Grow
  BY <1>7, <1>0 DEF Replays
<1>8. ASSUME NEW c \in Coordinators, Parks(c) PROVE Grow
  <2>1. at[c] \in Proposals /\ Node(c) \in Nodes
    BY <1>8, AtWork, NodeExists DEF Parks, Holding
  <2>2. try[c] = 1 /\ Node(c) \in Delegated
    BY <1>8 DEF Parks, Attempting
  <2>3. progress'[at[c]][Node(c)].tries = 1
    BY <1>8, <2>1, <2>2 DEF Parks, Types, RowTypes
  <2>4. \A p \in Proposals, n \in Nodes : p # at[c] \/ n # Node(c) => progress'[p][n] = progress[p][n]
    BY <1>8, <2>1 DEF Parks, Types, RowTypes
  <2> QED
    BY <1>0, <2>2, <2>3, <2>4
<1>9. ASSUME NEW c \in Coordinators, Retries(c) PROVE Grow
  <2>1. at[c] \in Proposals /\ Node(c) \in Nodes
    BY <1>9, AtWork, NodeExists DEF Retries, Holding
  <2>2. try[c] = progress[at[c]][Node(c)].tries
    BY <1>9 DEF Retries, Attempting
  <2>3. progress'[at[c]][Node(c)].tries = progress[at[c]][Node(c)].tries
    BY <1>9, <2>1, <2>2 DEF Retries, Types, RowTypes
  <2>4. \A p \in Proposals, n \in Nodes : p # at[c] \/ n # Node(c) => progress'[p][n] = progress[p][n]
    BY <1>9, <2>1 DEF Retries, Types, RowTypes
  <2> QED
    BY <1>0, <2>3, <2>4
<1>10. ASSUME NEW c \in Coordinators, Completes(c) PROVE Grow
  <2>1. at[c] \in Proposals /\ Node(c) \in Nodes
    BY <1>10, AtWork, NodeExists DEF Completes, Holding
  <2>2. \A p \in Proposals, n \in Nodes : progress'[p][n].tries = progress[p][n].tries
    BY <1>10, <2>1 DEF Completes, Types, RowTypes, Entries
  <2> QED
    BY <1>0, <2>2
<1>11. ASSUME NEW p \in Proposals, NEW n \in Nodes, Restores(p, n) PROVE Grow
  <2>1. \A r \in Proposals, m \in Nodes : progress'[r][m].tries = progress[r][m].tries
    BY <1>11 DEF Restores, Types, RowTypes, Entries
  <2> QED
    BY <1>0, <2>1
<1>12. ASSUME NEW p \in Proposals, NEW q \in Proposals, Amend(p, q) PROVE Grow
  <2>1. \A m \in Nodes : progress[q][m].tries = 0
    BY <1>12 DEF Amend, Succession, Fresh
  <2>2. \A r \in Proposals : r # q => progress'[r] = progress[r]
    BY <1>12 DEF Amend, Types, RowTypes
  <2> QED
    BY <1>0, <2>1, <2>2
<1>13. ASSUME Rests PROVE Grow
  BY <1>13, <1>0 DEF Rests
<1> QED
  BY <1>1, <1>2, <1>3, <1>4, <1>5, <1>6, <1>7, <1>8, <1>9, <1>10, <1>11, <1>12, <1>13 DEF Kinds

(* Every step keeps the copies behind their rows.                          *)
LEMMA CopiesStep ==
    ASSUME Types, Types', Succession, Ownership, Holding, Copies, Numbers, Attempting, Kinds
    PROVE  Copies'
<1> DEFINE Good(a, b, n) ==
            /\ a # None /\ b.st # "complete" => b.tries <= progress'[a][n].tries
            /\ b.st # "started"
            /\ b.st = "none" => b.tries = 0
            /\ b.st = "retryable" => n \in ReadOnly /\ n \notin Delegated
            /\ b.st # "complete" /\ n \in Delegated => b.tries <= 1
           Goal == \A d \in Coordinators, n \in Nodes : Good(at'[d], prior'[d][n], n)
<1>0. \A p \in Proposals, n \in Nodes : progress[p][n].tries \in Nat /\ progress'[p][n].tries \in Nat
  BY StackAssumption DEF Types, RowTypes, Entries
<1>c. \A d \in Coordinators, n \in Nodes : Good(at[d], prior[d][n], n)
  <2> SUFFICES ASSUME NEW d \in Coordinators, NEW n \in Nodes PROVE Good(at[d], prior[d][n], n)
    OBVIOUS
  <2>1. prior[d][n].tries \in Nat /\ (at[d] # None => at[d] \in Proposals)
    BY StackAssumption DEF Types, LocalTypes, Entries
  <2>2. Copied(at[d], n, prior[d][n])
    BY DEF Copies
  <2>3. at[d] # None => \/ progress[at[d]][n].tries <= progress'[at[d]][n].tries
                        \/ n \in Delegated /\ 1 <= progress'[at[d]][n].tries
    BY <2>1, TriesGrow
  <2>4. at[d] # None /\ prior[d][n].st # "complete" => prior[d][n].tries <= progress'[at[d]][n].tries
    BY <1>0, <2>1, <2>2, <2>3 DEF Copied
  <2> QED
    BY <2>2, <2>4 DEF Copied
<1>1. ASSUME NEW c \in Coordinators, NEW p \in Proposals, Loads(c, p) PROVE Goal
  <2>1. /\ \A n \in Nodes : prior'[c][n] = progress[p][n] /\ progress' = progress
        /\ at'[c] = p
        /\ \A d \in Coordinators : d # c => at'[d] = at[d] /\ prior'[d] = prior[d]
    BY <1>1 DEF Loads, Types, LocalTypes, RowTypes
  <2>2. \A n \in Nodes : /\ progress[p][n].st # "started"
                         /\ progress[p][n].tries <= progress[p][n].tries
    BY <1>1, <1>0 DEF Loads
  <2>3. \A n \in Nodes :
            /\ progress[p][n].st = "none" => progress[p][n].tries = 0
            /\ progress[p][n].st = "retryable" => n \in ReadOnly /\ n \notin Delegated
            /\ progress[p][n].st = "waiting" /\ n \in Delegated => progress[p][n].tries <= 1
    BY DEF Numbers, Numbered
  <2>4. \A n \in Nodes : progress[p][n].st \in Marks
    BY DEF Types, RowTypes, Entries
  <2>5. \A n \in Nodes : progress[p][n].st # "complete" /\ n \in Delegated => progress[p][n].tries <= 1
    BY <2>2, <2>3, <2>4 DEF Marks
  <2>6. \A n \in Nodes : Good(p, progress[p][n], n)
    BY <2>1, <2>2, <2>3, <2>5
  <2> QED
    BY <1>c, <2>1, <2>6
<1>2. ASSUME NEW c \in Coordinators, Claims(c) PROVE Goal
  <2>1. at' = at /\ prior' = prior
    BY <1>2 DEF Claims, localVars
  <2> QED
    BY <1>c, <2>1
<1>3. ASSUME NEW c \in Coordinators, Leaves(c) PROVE Goal
  <2>1. /\ at'[c] = None /\ prior'[c] = Fresh
        /\ \A d \in Coordinators : d # c => at'[d] = at[d] /\ prior'[d] = prior[d]
    BY <1>3 DEF Leaves, Leave, Types, LocalTypes
  <2>2. \A n \in Nodes : prior'[c][n] = [st |-> "none", tries |-> 0]
    BY <2>1 DEF Fresh
  <2>3. \A n \in Nodes : Good(at'[c], prior'[c][n], n)
    BY <2>1, <2>2
  <2> QED
    BY <1>c, <2>1, <2>3
<1>4. ASSUME NEW c \in Coordinators, Verifies(c) PROVE Goal
  <2>1. at' = at /\ prior' = prior
    BY <1>4 DEF Verifies, localVars
  <2> QED
    BY <1>c, <2>1
<1>5. ASSUME NEW c \in Coordinators, Reserves(c) PROVE Goal
  <2>1. at' = at /\ prior' = prior
    BY <1>5 DEF Reserves, localVars
  <2> QED
    BY <1>c, <2>1
<1>6. ASSUME NEW c \in Coordinators, Executes(c) PROVE Goal
  <2>1. at' = at /\ prior' = prior
    BY <1>6 DEF Executes, localVars
  <2> QED
    BY <1>c, <2>1
<1>7. ASSUME NEW c \in Coordinators, Replays(c) PROVE Goal
  <2>1. at' = at /\ prior' = prior
    BY <1>7 DEF Replays, localVars
  <2> QED
    BY <1>c, <2>1
<1>8. ASSUME NEW c \in Coordinators, Parks(c) PROVE Goal
  <2>1. /\ at'[c] = None /\ prior'[c] = Fresh
        /\ \A d \in Coordinators : d # c => at'[d] = at[d] /\ prior'[d] = prior[d]
    BY <1>8 DEF Parks, Leave, Types, LocalTypes
  <2>2. \A n \in Nodes : prior'[c][n] = [st |-> "none", tries |-> 0]
    BY <2>1 DEF Fresh
  <2>3. \A n \in Nodes : Good(at'[c], prior'[c][n], n)
    BY <2>1, <2>2
  <2> QED
    BY <1>c, <2>1, <2>3
<1>9. ASSUME NEW c \in Coordinators, Retries(c) PROVE Goal
  <2>1. at' = at /\ prior' = prior
    BY <1>9 DEF Retries, localVars
  <2> QED
    BY <1>c, <2>1
<1>10. ASSUME NEW c \in Coordinators, Completes(c) PROVE Goal
  <2>1. at' = at /\ prior' = prior
    BY <1>10 DEF Completes, localVars
  <2> QED
    BY <1>c, <2>1
<1>11. ASSUME NEW p \in Proposals, NEW n \in Nodes, Restores(p, n) PROVE Goal
  <2>1. at' = at /\ prior' = prior
    BY <1>11 DEF Restores, localVars
  <2> QED
    BY <1>c, <2>1
<1>12. ASSUME NEW p \in Proposals, NEW q \in Proposals, Amend(p, q) PROVE Goal
  <2>1. at' = at /\ prior' = prior
    BY <1>12 DEF Amend, localVars
  <2> QED
    BY <1>c, <2>1
<1>13. ASSUME Rests PROVE Goal
  <2>1. at' = at /\ prior' = prior
    BY <1>13 DEF Rests, localVars
  <2> QED
    BY <1>c, <2>1
<1>14. Goal
  BY <1>1, <1>2, <1>3, <1>4, <1>5, <1>6, <1>7, <1>8, <1>9, <1>10, <1>11, <1>12, <1>13 DEF Kinds
<1> QED
  BY <1>14 DEF Copies, Copied

(* Every step keeps the numbers below a row's count used.                  *)
LEMMA NumbersStep ==
    ASSUME Types, Types', Succession, Ownership, Holding, Numbers, Attempting, Kinds
    PROVE  Numbers'
<1> DEFINE Goal == \A r \in Proposals, m \in Nodes : Numbered(r, m, progress'[r][m], invoked')
<1>0. invoked \subseteq invoked'
  BY DEF Kinds, Loads, Claims, Leaves, Verifies, Reserves, Executes, Replays, Parks, Retries,
         Completes, Restores, Amend, Rests, effectVars
<1>a. \A r \in Proposals, m \in Nodes :
          /\ Numbered(r, m, progress[r][m], invoked')
          /\ Numbered(r, m, progress'[r][m], invoked) => Numbered(r, m, progress'[r][m], invoked')
  BY <1>0 DEF Numbers, Numbered
<1>1. ASSUME NEW c \in Coordinators, NEW p \in Proposals, Loads(c, p) PROVE Goal
  BY <1>1, <1>a DEF Loads
<1>2. ASSUME NEW c \in Coordinators, Claims(c) PROVE Goal
  BY <1>2, <1>a DEF Claims
<1>3. ASSUME NEW c \in Coordinators, Leaves(c) PROVE Goal
  BY <1>3, <1>a DEF Leaves
<1>4. ASSUME NEW c \in Coordinators, Verifies(c) PROVE Goal
  BY <1>4, <1>a DEF Verifies
<1>5. ASSUME NEW c \in Coordinators, Reserves(c) PROVE Goal
  <2>1. at[c] \in Proposals /\ Node(c) \in Nodes
    BY <1>5, AtWork, NodeExists DEF Reserves, Holding
  <2>2. \A p \in Proposals, n \in Nodes : p # at[c] \/ n # Node(c) => progress'[p][n] = progress[p][n]
    BY <1>5, <2>1 DEF Reserves, Types, RowTypes
  <2>3. progress'[at[c]][Node(c)] = [st |-> "started", tries |-> progress[at[c]][Node(c)].tries + 1]
    BY <1>5, <2>1 DEF Reserves, Types, RowTypes
  <2>4. progress[at[c]][Node(c)] \in Entries /\ progress[at[c]][Node(c)].tries \in Nat
    BY <2>1, StackAssumption DEF Types, RowTypes, Entries
  <2>5. progress[at[c]][Node(c)].st \in {"none", "waiting", "retryable"}
    BY <1>5, <2>4 DEF Reserves, Reservable, Entries, Marks
  <2>6. Numbered(at[c], Node(c), progress[at[c]][Node(c)], invoked)
    BY <2>1 DEF Numbers
  <2>7. \A k \in 1 .. progress[at[c]][Node(c)].tries : <<at[c], Node(c), k>> \in invoked
    BY <2>5, <2>6 DEF Numbered
  <2>8. /\ progress'[at[c]][Node(c)].st = "started"
        /\ progress'[at[c]][Node(c)].tries - 1 = progress[at[c]][Node(c)].tries
    BY <2>3, <2>4
  <2>9. Numbered(at[c], Node(c), progress'[at[c]][Node(c)], invoked)
    BY <2>7, <2>8 DEF Numbered
  <2> QED
    BY <1>5, <1>a, <2>2, <2>9 DEF Reserves
<1>6. ASSUME NEW c \in Coordinators, Executes(c) PROVE Goal
  BY <1>6, <1>a DEF Executes
<1>7. ASSUME NEW c \in Coordinators, Replays(c) PROVE Goal
  BY <1>7, <1>a DEF Replays
<1>8. ASSUME NEW c \in Coordinators, Parks(c) PROVE Goal
  <2>1. at[c] \in Proposals /\ Node(c) \in Nodes
    BY <1>8, AtWork, NodeExists DEF Parks, Holding
  <2>2. \A p \in Proposals, n \in Nodes : p # at[c] \/ n # Node(c) => progress'[p][n] = progress[p][n]
    BY <1>8, <2>1 DEF Parks, Types, RowTypes
  <2>3. progress'[at[c]][Node(c)] = [st |-> "waiting", tries |-> try[c]]
    BY <1>8, <2>1 DEF Parks, Types, RowTypes
  <2>4. try[c] = 1 /\ <<at[c], Node(c), 1>> \in invoked
    BY <1>8 DEF Parks, Attempting, Dispatch
  <2>5. \A k \in 1 .. 1 : <<at[c], Node(c), k>> \in invoked
    BY <2>4
  <2>9. Numbered(at[c], Node(c), progress'[at[c]][Node(c)], invoked)
    BY <2>3, <2>4, <2>5 DEF Numbered
  <2> QED
    BY <1>8, <1>a, <2>2, <2>9 DEF Parks
<1>9. ASSUME NEW c \in Coordinators, Retries(c) PROVE Goal
  <2>1. at[c] \in Proposals /\ Node(c) \in Nodes
    BY <1>9, AtWork, NodeExists DEF Retries, Holding
  <2>2. \A p \in Proposals, n \in Nodes : p # at[c] \/ n # Node(c) => progress'[p][n] = progress[p][n]
    BY <1>9, <2>1 DEF Retries, Types, RowTypes
  <2>3. progress'[at[c]][Node(c)] = [st |-> "retryable", tries |-> try[c]]
    BY <1>9, <2>1 DEF Retries, Types, RowTypes
  <2>4. /\ progress[at[c]][Node(c)].st = "started" /\ try[c] \in Nat /\ try[c] >= 1
        /\ try[c] = progress[at[c]][Node(c)].tries /\ <<at[c], Node(c), try[c]>> \in invoked
        /\ Node(c) \in ReadOnly /\ Node(c) \notin Delegated
    BY <1>9, StackAssumption DEF Retries, Attempting, Holding, Types, LocalTypes, Dispatch
  <2>5. Numbered(at[c], Node(c), progress[at[c]][Node(c)], invoked)
    BY <2>1 DEF Numbers
  <2>6. \A k \in 1 .. try[c] - 1 : <<at[c], Node(c), k>> \in invoked
    BY <2>4, <2>5 DEF Numbered
  <2>7. \A k \in 1 .. try[c] : k = try[c] \/ k \in 1 .. try[c] - 1
    BY <2>4
  <2>8. \A k \in 1 .. try[c] : <<at[c], Node(c), k>> \in invoked
    BY <2>4, <2>6, <2>7
  <2>9. Numbered(at[c], Node(c), progress'[at[c]][Node(c)], invoked)
    BY <2>3, <2>4, <2>8 DEF Numbered
  <2> QED
    BY <1>9, <1>a, <2>2, <2>9 DEF Retries
<1>10. ASSUME NEW c \in Coordinators, Completes(c) PROVE Goal
  <2>1. at[c] \in Proposals /\ Node(c) \in Nodes
    BY <1>10, AtWork, NodeExists DEF Completes, Holding
  <2>2. \A p \in Proposals, n \in Nodes : p # at[c] \/ n # Node(c) => progress'[p][n] = progress[p][n]
    BY <1>10, <2>1 DEF Completes, Types, RowTypes
  <2>3. progress'[at[c]][Node(c)].st = "complete"
    BY <1>10, <2>1 DEF Completes, Types, RowTypes, Entries
  <2>9. Numbered(at[c], Node(c), progress'[at[c]][Node(c)], invoked)
    BY <2>3 DEF Numbered
  <2> QED
    BY <1>10, <1>a, <2>2, <2>9 DEF Completes
<1>11. ASSUME NEW p \in Proposals, NEW n \in Nodes, Restores(p, n) PROVE Goal
  <2>2. \A r \in Proposals, m \in Nodes : r # p \/ m # n => progress'[r][m] = progress[r][m]
    BY <1>11 DEF Restores, Types, RowTypes
  <2>3. progress'[p][n].st = "complete"
    BY <1>11 DEF Restores, Types, RowTypes, Entries
  <2>9. Numbered(p, n, progress'[p][n], invoked)
    BY <2>3 DEF Numbered
  <2> QED
    BY <1>11, <1>a, <2>2, <2>9 DEF Restores
<1>12. ASSUME NEW p \in Proposals, NEW q \in Proposals, Amend(p, q) PROVE Goal
  <2>1. invoked' = invoked /\ \A r \in Proposals : r # q => progress'[r] = progress[r]
    BY <1>12 DEF Amend, Types, RowTypes
  <2>2. \A m \in Nodes : progress'[q][m] = IF m \in Preserved(p) THEN progress[p][m] ELSE Fresh[m]
    BY <1>12 DEF Amend, Types, RowTypes
  <2>3. \A m \in Nodes : \/ progress'[q][m].st = "complete"
                         \/ progress'[q][m].st = "none" /\ progress'[q][m].tries = 0
    BY <2>2 DEF Preserved, Fresh
  <2>9. \A m \in Nodes : Numbered(q, m, progress'[q][m], invoked)
    BY <2>3 DEF Numbered
  <2> QED
    BY <1>a, <2>1, <2>9
<1>13. ASSUME Rests PROVE Goal
  BY <1>13, <1>a DEF Rests
<1>14. Goal
  BY <1>1, <1>2, <1>3, <1>4, <1>5, <1>6, <1>7, <1>8, <1>9, <1>10, <1>11, <1>12, <1>13 DEF Kinds
<1> QED
  BY <1>14 DEF Numbers

(* Every step keeps the number of the attempt at hand in line with the row. *)
LEMMA AttemptingStep ==
    ASSUME Types, Types', Ownership, Holding, Copies, Numbers, Attempting, Kinds
    PROVE  Attempting'
<1>0. None \notin Proposals
  BY StackAssumption
<1>a. \A d \in Coordinators : Working(d) => at[d] \in Proposals /\ state[at[d]] = "running"
  BY AtWork DEF Ownership, Working
<1>b. \A d \in Coordinators :
          pc'[d] \in {"dispatch", "execute", "park", "complete"} =>
              /\ Pending(d)' = Pending(d) /\ Node(d)' = Node(d)
              /\ at'[d] = at[d] /\ prior'[d] = prior[d] /\ Working(d)
  BY SameWork DEF Working
<1> DEFINE Fit(d) ==
            /\ pc'[d] \in {"dispatch", "execute", "park"} =>
                   try'[d] >= 1 /\ (Node(d) \in Delegated => try'[d] = 1)
            /\ pc'[d] = "dispatch" => \/ <<at[d], Node(d), try'[d]>> \in invoked'
                                      \/ try'[d] = progress'[at[d]][Node(d)].tries
            /\ pc'[d] = "execute" => /\ <<at[d], Node(d), try'[d]>> \in invoked'
                                     /\ Node(d) \notin Delegated
                                     /\ try'[d] = progress'[at[d]][Node(d)].tries
            /\ pc'[d] = "park" => <<at[d], Node(d), try'[d]>> \in invoked' /\ Node(d) \in Delegated
           Goal == \A d \in Coordinators : Fit(d)
<1>d. \A d \in Coordinators :
          /\ pc[d] \in {"dispatch", "execute", "park"} =>
                 try[d] >= 1 /\ (Node(d) \in Delegated => try[d] = 1)
          /\ pc[d] = "dispatch" => \/ <<at[d], Node(d), try[d]>> \in invoked
                                   \/ try[d] = progress[at[d]][Node(d)].tries
          /\ pc[d] = "execute" => /\ <<at[d], Node(d), try[d]>> \in invoked
                                  /\ Node(d) \notin Delegated
                                  /\ try[d] = progress[at[d]][Node(d)].tries
          /\ pc[d] = "park" => <<at[d], Node(d), try[d]>> \in invoked /\ Node(d) \in Delegated
  BY DEF Attempting, Dispatch
<1>i. invoked \subseteq invoked'
  BY DEF Kinds, Loads, Claims, Leaves, Verifies, Reserves, Executes, Replays, Parks, Retries,
         Completes, Restores, Amend, Rests
<1>e. ASSUME NEW c \in Coordinators, Acts(c), NEW d \in Coordinators, d # c PROVE Fit(d)
  BY <1>d, <1>e, <1>i, Others
<1>1. ASSUME NEW c \in Coordinators, NEW p \in Proposals, Loads(c, p) PROVE Goal
  <2>1. /\ progress' = progress /\ invoked' = invoked /\ try' = try
        /\ \A d \in Coordinators : pc'[d] \in {"dispatch", "execute", "park"} => pc'[d] = pc[d]
    BY <1>1 DEF Loads, Types, LocalTypes
  <2> QED
    BY <1>d, <2>1
<1>2. ASSUME NEW c \in Coordinators, Claims(c) PROVE Goal
  <2>1. /\ progress' = progress /\ invoked' = invoked /\ try' = try
        /\ \A d \in Coordinators : pc'[d] \in {"dispatch", "execute", "park"} => pc'[d] = pc[d]
    BY <1>2 DEF Claims, Types, LocalTypes
  <2> QED
    BY <1>d, <2>1
<1>3. ASSUME NEW c \in Coordinators, Leaves(c) PROVE Goal
  <2>1. pc'[c] \notin {"dispatch", "execute", "park"}
    BY <1>3 DEF Leaves, Types, LocalTypes, Leave, Goto
  <2>z. \A d \in Coordinators : d # c => Fit(d)
    BY <1>3, <1>e DEF Acts
  <2> QED
    BY <2>1, <2>z
<1>4. ASSUME NEW c \in Coordinators, Verifies(c) PROVE Goal
  <2>1. pc'[c] \notin {"dispatch", "execute", "park"}
    BY <1>4 DEF Verifies, Types, LocalTypes, Leave, Goto
  <2>z. \A d \in Coordinators : d # c => Fit(d)
    BY <1>4, <1>e DEF Acts
  <2> QED
    BY <2>1, <2>z
<1>5. ASSUME NEW c \in Coordinators, Reserves(c) PROVE Goal
  <2>1. at[c] \in Proposals /\ Node(c) \in Nodes /\ prior[c][Node(c)].st # "complete"
    BY <1>5, AtWork, NodeExists DEF Reserves, Holding
  <2>2. try'[c] = prior[c][Node(c)].tries + 1 /\ invoked' = invoked /\ pc'[c] = "dispatch"
    BY <1>5 DEF Reserves, Types, LocalTypes
  <2>3. progress'[at[c]][Node(c)].tries = progress[at[c]][Node(c)].tries + 1
    BY <1>5, <2>1 DEF Reserves, Types, RowTypes
  <2>4. prior[c][Node(c)].tries \in Nat /\ progress[at[c]][Node(c)].tries \in Nat
        /\ prior[c][Node(c)].st \in Marks
    BY <2>1, StackAssumption DEF Types, LocalTypes, RowTypes, Entries
  <2>c. Copied(at[c], Node(c), prior[c][Node(c)])
    BY <2>1 DEF Copies
  <2>5. prior[c][Node(c)].tries <= progress[at[c]][Node(c)].tries
    BY <2>1, <2>c, <1>0 DEF Copied
  <2>d. Node(c) \in Delegated => try'[c] = 1
    <3>1. prior[c][Node(c)].st # "waiting"
      BY <1>5 DEF Reserves
    <3>2. Node(c) \in Delegated => prior[c][Node(c)].tries = 0
      BY <2>1, <2>4, <2>c, <3>1 DEF Copied, Marks
    <3> QED
      BY <2>2, <3>2
  <2>6. \A k \in 1 .. progress[at[c]][Node(c)].tries : <<at[c], Node(c), k>> \in invoked
    <3>1. progress[at[c]][Node(c)] \in Entries
      BY <2>1 DEF Types, RowTypes
    <3>2. progress[at[c]][Node(c)].st \in {"none", "waiting", "retryable"}
      BY <1>5, <3>1 DEF Reserves, Reservable, Entries, Marks
    <3> QED
      BY <2>1, <3>2 DEF Numbers, Numbered
  <2>7. \/ try'[c] = progress'[at[c]][Node(c)].tries
        \/ try'[c] \in 1 .. progress[at[c]][Node(c)].tries
    BY <2>2, <2>3, <2>4, <2>5
  <2>8. try'[c] >= 1 /\ (<<at[c], Node(c), try'[c]>> \in invoked' \/ try'[c] = progress'[at[c]][Node(c)].tries)
    BY <2>2, <2>4, <2>6, <2>7
  <2>9. Fit(c)
    BY <2>2, <2>8, <2>d
  <2>z. \A d \in Coordinators : d # c => Fit(d)
    BY <1>5, <1>e DEF Acts
  <2> QED
    BY <2>9, <2>z
<1>6. ASSUME NEW c \in Coordinators, Executes(c) PROVE Goal
  <2>1. try' = try /\ progress' = progress /\ pc[c] = "dispatch"
        /\ \/ pc'[c] = "execute" /\ Node(c) \notin Delegated
           \/ pc'[c] = "park" /\ Node(c) \in Delegated
    BY <1>6 DEF Executes, Types, LocalTypes
  <2>2. try[c] = progress[at[c]][Node(c)].tries /\ <<at[c], Node(c), try[c]>> \in invoked'
    BY <1>6 DEF Executes, Attempting, Dispatch
  <2>3. Fit(c)
    BY <1>d, <2>1, <2>2
  <2>z. \A d \in Coordinators : d # c => Fit(d)
    BY <1>6, <1>e DEF Acts
  <2> QED
    BY <2>3, <2>z
<1>7. ASSUME NEW c \in Coordinators, Replays(c) PROVE Goal
  <2>1. try' = try /\ invoked' = invoked /\ pc[c] = "dispatch" /\ pc'[c] = "park"
        /\ Node(c) \in Delegated /\ <<at[c], Node(c), try[c]>> \in invoked
    BY <1>7 DEF Replays, Dispatch, Types, LocalTypes
  <2>3. Fit(c)
    BY <1>d, <2>1
  <2>z. \A d \in Coordinators : d # c => Fit(d)
    BY <1>7, <1>e DEF Acts
  <2> QED
    BY <2>3, <2>z
<1>8. ASSUME NEW c \in Coordinators, Parks(c) PROVE Goal
  <2>1. pc'[c] \notin {"dispatch", "execute", "park"}
    BY <1>8 DEF Parks, Types, LocalTypes, Leave, Goto
  <2>z. \A d \in Coordinators : d # c => Fit(d)
    BY <1>8, <1>e DEF Acts
  <2> QED
    BY <2>1, <2>z
<1>9. ASSUME NEW c \in Coordinators, Retries(c) PROVE Goal
  <2>1. pc'[c] \notin {"dispatch", "execute", "park"}
    BY <1>9 DEF Retries, Types, LocalTypes, Leave, Goto
  <2>z. \A d \in Coordinators : d # c => Fit(d)
    BY <1>9, <1>e DEF Acts
  <2> QED
    BY <2>1, <2>z
<1>10. ASSUME NEW c \in Coordinators, Completes(c) PROVE Goal
  <2>1. pc'[c] \notin {"dispatch", "execute", "park"}
    BY <1>10 DEF Completes, Types, LocalTypes, Leave, Goto
  <2>z. \A d \in Coordinators : d # c => Fit(d)
    BY <1>10, <1>e DEF Acts
  <2> QED
    BY <2>1, <2>z
<1>11. ASSUME NEW p \in Proposals, NEW n \in Nodes, Restores(p, n) PROVE Goal
  <2>1. \A d \in Coordinators : Working(d) => at[d] # p
    BY <1>11, <1>a DEF Restores, Coordinated, Working
  <2>2. \A t \in Proposals : t # p => progress'[t] = progress[t]
    BY <1>11 DEF Restores, Types, RowTypes
  <2>3. try' = try /\ invoked' = invoked /\ pc' = pc
    BY <1>11 DEF Restores
  <2>4. \A d \in Coordinators : Working(d) => progress'[at[d]] = progress[at[d]]
    BY <1>a, <2>1, <2>2
  <2> QED
    BY <1>d, <2>3, <2>4 DEF Working
<1>12. ASSUME NEW p \in Proposals, NEW q \in Proposals, Amend(p, q) PROVE Goal
  <2>1. \A d \in Coordinators : Working(d) => at[d] # q
    BY <1>12, <1>a DEF Amend
  <2>2. \A t \in Proposals : t # q => progress'[t] = progress[t]
    BY <1>12 DEF Amend, Types, RowTypes
  <2>3. try' = try /\ invoked' = invoked /\ pc' = pc
    BY <1>12 DEF Amend, localVars
  <2>4. \A d \in Coordinators : Working(d) => progress'[at[d]] = progress[at[d]]
    BY <1>a, <2>1, <2>2
  <2> QED
    BY <1>d, <2>3, <2>4 DEF Working
<1>13. ASSUME Rests PROVE Goal
  <2>1. /\ progress' = progress /\ invoked' = invoked /\ try' = try
        /\ \A d \in Coordinators : pc'[d] \in {"dispatch", "execute", "park"} => pc'[d] = pc[d]
    BY <1>13 DEF Rests, Types, LocalTypes
  <2> QED
    BY <1>d, <2>1
<1>14. Goal
  BY <1>1, <1>2, <1>3, <1>4, <1>5, <1>6, <1>7, <1>8, <1>9, <1>10, <1>11, <1>12, <1>13 DEF Kinds
<1> QED
  BY <1>14, <1>b DEF Attempting, Dispatch

(* Before the first claim nothing of the lineage has been dispatched.      *)
LEMMA NothingInvoked ==
    ASSUME Types, Succession, NEW p \in Proposals, state[p] = "none"
    PROVE  origin[p] = p /\ \A d \in invoked : origin[d[1]] # p
<1>1. origin[p] = p
  BY DEF Succession
<1>2. \A d \in invoked : d[1] \in Proposals /\ state[d[1]] # "none"
  BY DEF Types, RowTypes, Succession
<1>3. \A d \in invoked : state[origin[d[1]]] # "none"
  BY <1>2 DEF Succession
<1> QED
  BY <1>1, <1>3

(* Every step keeps consequential nodes remembered.                        *)
LEMMA ConsequentialStep ==
    ASSUME Types, Types', Succession, Ownership, Holding, Copies, Numbers, Consequential, Kinds
    PROVE  Consequential'
<1>a. \A d \in Coordinators : Working(d) => at[d] \in Proposals /\ state[at[d]] = "running"
  BY AtWork DEF Ownership, Working
<1>b. \A d \in Coordinators :
          pc'[d] \in {"dispatch", "execute", "park", "complete"} =>
              /\ Pending(d)' = Pending(d) /\ Node(d)' = Node(d)
              /\ at'[d] = at[d] /\ prior'[d] = prior[d] /\ Working(d)
  BY SameWork DEF Working
<1> DEFINE First == \A d \in invoked' : d[2] \notin ReadOnly => d[3] = 1
           Kept ==
            \A d \in invoked', t \in Proposals :
                d[2] \notin ReadOnly /\ state'[t] \notin {"none", "superseded"}
                /\ origin'[d[1]] = origin'[t] =>
                    progress'[t][d[2]].st \in {"started", "waiting", "complete"}
           Fit(d) ==
            pc'[d] = "dispatch" /\ Node(d) \notin ReadOnly =>
                /\ try'[d] = 1
                /\ \A e \in invoked' : e[2] = Node(d) /\ origin'[e[1]] = origin'[at[d]] =>
                                           <<at[d], Node(d), 1>> \in invoked'
           Fits == \A d \in Coordinators : Fit(d)
           Once ==
            \A d, e \in invoked' :
                origin'[d[1]] = origin'[e[1]] /\ d[2] = e[2] /\ d[2] \notin ReadOnly => d = e
           Goal == First /\ Kept /\ Fits /\ Once
<1>d. /\ \A d \in invoked : d[2] \notin ReadOnly => d[3] = 1
      /\ \A d \in invoked, t \in Proposals :
             d[2] \notin ReadOnly /\ state[t] \notin {"none", "superseded"}
             /\ origin[d[1]] = origin[t] =>
                 progress[t][d[2]].st \in {"started", "waiting", "complete"}
      /\ \A d \in Coordinators :
             pc[d] = "dispatch" /\ Node(d) \notin ReadOnly =>
                 /\ try[d] = 1
                 /\ \A e \in invoked : e[2] = Node(d) /\ origin[e[1]] = origin[at[d]] =>
                                           <<at[d], Node(d), 1>> \in invoked
      /\ \A d, e \in invoked :
             origin[d[1]] = origin[e[1]] /\ d[2] = e[2] /\ d[2] \notin ReadOnly => d = e
  <2>1. \A d \in Coordinators :
            pc[d] = "dispatch" /\ Node(d) \notin ReadOnly =>
                /\ try[d] = 1
                /\ \A e \in invoked : e[2] = Node(d) /\ origin[e[1]] = origin[at[d]] =>
                                          <<at[d], Node(d), 1>> \in invoked
    BY DEF Consequential, Dispatch
  <2> QED
    BY <2>1 DEF Consequential, Active
<1>f. \A d \in invoked : d[1] \in Proposals /\ d[2] \in Nodes
  BY DEF Types, RowTypes
<1>g. ASSUME UNCHANGED <<invoked, origin>> PROVE First /\ Once
  BY <1>d, <1>g
<1>h. ASSUME UNCHANGED <<invoked, origin>>, NEW c \in Coordinators, Acts(c), pc'[c] # "dispatch"
      PROVE  Fits
  <2>1. ASSUME NEW d \in Coordinators, d # c PROVE Fit(d)
    BY <1>d, <1>h, <2>1, Others
  <2>2. Fit(c)
    BY <1>h
  <2> QED
    BY <2>1, <2>2
<1>1. ASSUME NEW c \in Coordinators, NEW p \in Proposals, Loads(c, p) PROVE Goal
  <2>1. /\ UNCHANGED <<state, progress, invoked, origin, try>>
        /\ \A d \in Coordinators : pc'[d] = "dispatch" => pc[d] = "dispatch"
    BY <1>1 DEF Loads, Types, LocalTypes
  <2> QED
    BY <2>1, <1>d
<1>2. ASSUME NEW c \in Coordinators, Claims(c) PROVE Goal
  <2>1. /\ UNCHANGED <<progress, invoked, origin, try>>
        /\ \A d \in Coordinators : pc'[d] = "dispatch" => pc[d] = "dispatch"
    BY <1>2 DEF Claims, Types, LocalTypes
  <2>2. at[c] \in Proposals /\ \A p \in Proposals : p # at[c] => state'[p] = state[p]
    BY <1>2, AtWork DEF Claims, Types, RowTypes
  <2>3. Fits
    BY <2>1, <1>d
  <2>4. CASE state[at[c]] = "none"
    <3>1. \A d \in invoked : origin[d[1]] # origin[at[c]]
      BY <2>2, <2>4, NothingInvoked
    <3>2. Kept
      BY <2>1, <2>2, <3>1, <1>d
    <3> QED
      BY <2>1, <2>3, <3>2, <1>g
  <2>5. CASE state[at[c]] # "none"
    <3>1. state[at[c]] \notin {"none", "superseded"}
      BY <1>2, <2>5 DEF Claims, Claimable
    <3>2. Kept
      BY <2>1, <2>2, <3>1, <1>d
    <3> QED
      BY <2>1, <2>3, <3>2, <1>g
  <2> QED
    BY <2>4, <2>5
<1>3. ASSUME NEW c \in Coordinators, Leaves(c) PROVE Goal
  <2>1. UNCHANGED <<progress, invoked, origin>> /\ pc'[c] # "dispatch"
    BY <1>3 DEF Leaves, Leave, Goto, Types, LocalTypes
  <2>2. \A p \in Proposals : state'[p] \notin {"none", "superseded"} => state[p] \notin {"none", "superseded"}
    BY <1>3, <1>a DEF Leaves, Types, RowTypes
  <2>3. Kept
    BY <2>1, <2>2, <1>d
  <2>4. Fits
    BY <1>3, <2>1, <1>h DEF Acts
  <2> QED
    BY <2>1, <2>3, <2>4, <1>g
<1>4. ASSUME NEW c \in Coordinators, Verifies(c) PROVE Goal
  <2>1. UNCHANGED <<state, progress, invoked, origin>> /\ pc'[c] # "dispatch"
    BY <1>4 DEF Verifies, Types, LocalTypes
  <2>3. Kept
    BY <2>1, <1>d
  <2>4. Fits
    BY <1>4, <2>1, <1>h DEF Acts
  <2> QED
    BY <2>1, <2>3, <2>4, <1>g
<1>5. ASSUME NEW c \in Coordinators, Reserves(c) PROVE Goal
  <2>1. at[c] \in Proposals /\ Node(c) \in Nodes /\ prior[c][Node(c)].st # "complete"
    BY <1>5, AtWork, NodeExists DEF Reserves, Holding
  <2>2. progress'[at[c]][Node(c)].st = "started"
    BY <1>5, <2>1 DEF Reserves, Types, RowTypes
  <2>3. \A p \in Proposals, n \in Nodes : p # at[c] \/ n # Node(c) => progress'[p][n] = progress[p][n]
    BY <1>5, <2>1 DEF Reserves, Types, RowTypes
  <2>4. UNCHANGED <<state, invoked, origin>> /\ try'[c] = prior[c][Node(c)].tries + 1
    BY <1>5 DEF Reserves, Types, LocalTypes
  <2>c. Copied(at[c], Node(c), prior[c][Node(c)])
    BY <2>1 DEF Copies
  <2>5. ASSUME Node(c) \notin ReadOnly PROVE try'[c] = 1
    <3>1. prior[c][Node(c)].st \in Marks /\ prior[c][Node(c)].st # "waiting"
      BY <1>5, <2>1 DEF Reserves, Types, LocalTypes, Entries
    <3>2. prior[c][Node(c)].st = "none"
      BY <2>1, <2>5, <2>c, <3>1 DEF Copied, Marks
    <3>3. prior[c][Node(c)].tries = 0
      BY <2>c, <3>2 DEF Copied
    <3> QED
      BY <2>4, <3>3
  <2>6. ASSUME Node(c) \notin ReadOnly, NEW d \in invoked, d[2] = Node(c),
               origin[d[1]] = origin[at[c]]
        PROVE  <<at[c], Node(c), 1>> \in invoked
    <3>1. progress[at[c]][Node(c)].st \in {"started", "waiting", "complete"}
      BY <1>5, <1>a, <1>d, <2>1, <2>6 DEF Reserves, Working
    <3>2. progress[at[c]][Node(c)].st = "waiting"
      BY <1>5, <3>1 DEF Reserves, Reservable
    <3>3. progress[at[c]][Node(c)].tries \in Nat
      BY <2>1, StackAssumption DEF Types, RowTypes, Entries
    <3> QED
      BY <2>1, <3>2, <3>3 DEF Numbers, Numbered
  <2>7. Fit(c)
    BY <2>4, <2>5, <2>6
  <2>8. ASSUME NEW d \in Coordinators, d # c PROVE Fit(d)
    BY <1>5, <1>d, <2>4, <2>8, Others DEF Acts
  <2>9. Kept
    BY <2>1, <2>2, <2>3, <2>4, <1>d, <1>f
  <2> QED
    BY <2>4, <2>7, <2>8, <2>9, <1>g
<1>6. ASSUME NEW c \in Coordinators, Executes(c) PROVE Goal
  <2>1. at[c] \in Proposals /\ Node(c) \in Nodes
    BY <1>6, AtWork, NodeExists DEF Executes, Holding
  <2>2. pc'[c] # "dispatch"
    BY <1>6 DEF Executes, Types, LocalTypes
  <2>3. /\ UNCHANGED <<state, progress, origin>> /\ Dispatch(c) \notin invoked
        /\ invoked' = invoked \cup {Dispatch(c)} /\ Dispatch(c) = <<at[c], Node(c), try[c]>>
    BY <1>6 DEF Executes, Dispatch
  <2>4. ASSUME Node(c) \notin ReadOnly
        PROVE  /\ try[c] = 1
               /\ \A d \in invoked : origin[d[1]] = origin[at[c]] => d[2] # Node(c)
    BY <1>6, <2>3, <2>4, <1>d DEF Executes
  <2>5. \A t \in Proposals :
            state[t] \notin {"none", "superseded"} /\ origin[t] = origin[at[c]] => t = at[c]
    BY <1>6, <1>a, <2>1 DEF Executes, Succession, Active, Working
  <2>6. progress[at[c]][Node(c)].st = "started"
    BY <1>6 DEF Executes, Holding
  <2>7. /\ Dispatch(c)[1] = at[c] /\ Dispatch(c)[2] = Node(c) /\ Dispatch(c)[3] = try[c]
    BY <2>3
  <2>8. \A d \in invoked' : d \in invoked \/ d = Dispatch(c)
    BY <2>3
  <2>9. First
    BY <2>4, <2>7, <2>8, <1>d
  <2>10. Kept
    BY <2>3, <2>5, <2>6, <2>7, <2>8, <1>d
  <2>11. Once
    BY <2>3, <2>4, <2>7, <2>8, <1>d
  <2>12. ASSUME NEW d \in Coordinators, d # c, pc'[d] = "dispatch", Node(d) \notin ReadOnly
         PROVE  /\ try'[d] = 1
                /\ \A e \in invoked' : e[2] = Node(d) /\ origin'[e[1]] = origin'[at[d]] =>
                                           <<at[d], Node(d), 1>> \in invoked'
    <3>1. pc[d] = "dispatch" /\ try'[d] = try[d] /\ origin[at[c]] # origin[at[d]]
      BY <1>6, <2>12, Others DEF Acts, Executes, Working
    <3> QED
      BY <2>3, <2>7, <2>8, <2>12, <3>1, <1>d
  <2>13. Fits
    BY <2>2, <2>12
  <2> QED
    BY <2>9, <2>10, <2>11, <2>13
<1>7. ASSUME NEW c \in Coordinators, Replays(c) PROVE Goal
  <2>1. UNCHANGED <<state, progress, invoked, origin>> /\ pc'[c] # "dispatch"
    BY <1>7 DEF Replays, Types, LocalTypes
  <2>3. Kept
    BY <2>1, <1>d
  <2>4. Fits
    BY <1>7, <2>1, <1>h DEF Acts
  <2> QED
    BY <2>1, <2>3, <2>4, <1>g
<1>8. ASSUME NEW c \in Coordinators, Parks(c) PROVE Goal
  <2>1. at[c] \in Proposals /\ Node(c) \in Nodes
    BY <1>8, AtWork, NodeExists DEF Parks, Holding
  <2>2. UNCHANGED <<invoked, origin>> /\ pc'[c] # "dispatch"
    BY <1>8 DEF Parks, Types, LocalTypes, Leave, Goto
  <2>3. \A p \in Proposals, n \in Nodes : p # at[c] \/ n # Node(c) => progress'[p][n] = progress[p][n]
    BY <1>8, <2>1 DEF Parks, Types, RowTypes
  <2>4. progress'[at[c]][Node(c)].st = "waiting"
    BY <1>8, <2>1 DEF Parks, Types, RowTypes, Entries
  <2>5. \A p \in Proposals :
            state'[p] \notin {"none", "superseded"} => state[p] \notin {"none", "superseded"}
    BY <1>8, <1>a DEF Parks, Working, Types, RowTypes
  <2>6. Kept
    BY <2>1, <2>2, <2>3, <2>4, <2>5, <1>d, <1>f
  <2>7. Fits
    BY <1>8, <2>2, <1>h DEF Acts
  <2> QED
    BY <2>2, <2>6, <2>7, <1>g
<1>9. ASSUME NEW c \in Coordinators, Retries(c) PROVE Goal
  <2>1. at[c] \in Proposals /\ Node(c) \in Nodes
    BY <1>9, AtWork, NodeExists DEF Retries, Holding
  <2>2. UNCHANGED <<invoked, origin>> /\ pc'[c] # "dispatch"
    BY <1>9 DEF Retries, Types, LocalTypes
  <2>3. \A p \in Proposals, n \in Nodes : p # at[c] \/ n # Node(c) => progress'[p][n] = progress[p][n]
    BY <1>9, <2>1 DEF Retries, Types, RowTypes
  <2>4. progress'[at[c]][Node(c)].st = "retryable" /\ Node(c) \in ReadOnly
    BY <1>9, <2>1 DEF Retries, Types, RowTypes, Entries
  <2>5. \A p \in Proposals :
            state'[p] \notin {"none", "superseded"} => state[p] \notin {"none", "superseded"}
    BY <1>9, <1>a DEF Retries, Working, Types, RowTypes
  <2>6. Kept
    BY <2>1, <2>2, <2>3, <2>4, <2>5, <1>d, <1>f
  <2>7. Fits
    BY <1>9, <2>2, <1>h DEF Acts
  <2> QED
    BY <2>2, <2>6, <2>7, <1>g
<1>10. ASSUME NEW c \in Coordinators, Completes(c) PROVE Goal
  <2>1. at[c] \in Proposals /\ Node(c) \in Nodes
    BY <1>10, AtWork, NodeExists DEF Completes, Holding
  <2>2. UNCHANGED <<invoked, origin>> /\ pc'[c] # "dispatch"
    BY <1>10 DEF Completes, Types, LocalTypes
  <2>3. \A p \in Proposals, n \in Nodes : p # at[c] \/ n # Node(c) => progress'[p][n] = progress[p][n]
    BY <1>10, <2>1 DEF Completes, Types, RowTypes
  <2>4. progress'[at[c]][Node(c)].st = "complete"
    BY <1>10, <2>1 DEF Completes, Types, RowTypes, Entries
  <2>5. \A p \in Proposals :
            state'[p] \notin {"none", "superseded"} => state[p] \notin {"none", "superseded"}
    BY <1>10, <1>a DEF Completes, Working, Types, RowTypes
  <2>6. Kept
    BY <2>1, <2>2, <2>3, <2>4, <2>5, <1>d, <1>f
  <2>7. Fits
    BY <1>10, <2>2, <1>h DEF Acts
  <2> QED
    BY <2>2, <2>6, <2>7, <1>g
<1>11. ASSUME NEW p \in Proposals, NEW n \in Nodes, Restores(p, n) PROVE Goal
  <2>1. \A r \in Proposals, m \in Nodes : r # p \/ m # n => progress'[r][m] = progress[r][m]
    BY <1>11 DEF Restores, Types, RowTypes
  <2>2. progress'[p][n].st = "complete"
    BY <1>11 DEF Restores, Types, RowTypes, Entries
  <2>3. UNCHANGED <<invoked, origin, pc, try>> /\ \A r \in Proposals :
            state'[r] \notin {"none", "superseded"} => state[r] \notin {"none", "superseded"}
    BY <1>11 DEF Restores, Types, RowTypes
  <2>4. Kept
    BY <2>1, <2>2, <2>3, <1>d, <1>f
  <2>5. Fits
    BY <2>3, <1>d
  <2> QED
    BY <2>3, <2>4, <2>5, <1>g
<1>12. ASSUME NEW p \in Proposals, NEW q \in Proposals, Amend(p, q) PROVE Goal
  <2>1. UNCHANGED <<invoked, pc, try>>
    BY <1>12 DEF Amend, localVars
  <2>2. p # q /\ state[p] \in {"paused", "complete"} /\ state[q] = "none"
    BY <1>12 DEF Amend, Amendable
  <2>3. /\ state'[p] = "superseded" /\ \A r \in Proposals : r # p /\ r # q => state'[r] = state[r]
        /\ \A r \in Proposals : r # q => progress'[r] = progress[r] /\ origin'[r] = origin[r]
        /\ origin'[q] = origin[p]
    BY <1>12, <2>2 DEF Amend, Types, RowTypes
  <2>4. \A d \in invoked : d[1] # q /\ origin'[d[1]] = origin[d[1]]
    BY <2>2, <2>3, <1>f DEF Succession
  <2>5. ASSUME NEW d \in invoked, d[2] \notin ReadOnly, origin[d[1]] = origin[p]
        PROVE  progress'[q][d[2]].st = "complete"
    <3>1. d[2] \in Nodes /\ progress[p][d[2]].st \in {"started", "waiting", "complete"}
      BY <1>d, <1>f, <2>2, <2>5
    <3>2. progress[p][d[2]].st = "complete" /\ d[2] \notin Affected
      BY <1>12, <2>5, <3>1 DEF Amend, Amendable
    <3>3. d[2] \in Preserved(p)
      BY <3>1, <3>2 DEF Preserved
    <3>4. progress'[q][d[2]] = progress[p][d[2]]
      BY <1>12, <3>1, <3>3 DEF Amend, Types, RowTypes
    <3> QED
      BY <3>2, <3>4
  <2>6. First /\ Once
    BY <2>1, <2>4, <1>d
  <2>7. ASSUME NEW d \in invoked', NEW t \in Proposals, d[2] \notin ReadOnly,
               state'[t] \notin {"none", "superseded"}, origin'[d[1]] = origin'[t]
        PROVE  progress'[t][d[2]].st \in {"started", "waiting", "complete"}
    <3>1. d \in invoked /\ origin[d[1]] = origin'[t] /\ t # p
      BY <2>1, <2>3, <2>4, <2>7
    <3>2. CASE t = q
      BY <2>3, <2>5, <2>7, <3>1, <3>2
    <3>3. CASE t # q
      BY <2>3, <2>7, <3>1, <3>3, <1>d
    <3> QED
      BY <3>2, <3>3
  <2>8. ASSUME NEW d \in Coordinators PROVE Fit(d)
    <3>1. pc[d] = "dispatch" => at[d] \in Proposals /\ at[d] # q
      BY <1>a, <2>2 DEF Working
    <3>2. pc[d] = "dispatch" => origin'[at[d]] = origin[at[d]]
      BY <2>3, <3>1
    <3> QED
      BY <2>1, <2>4, <3>2, <1>d
  <2>9. Kept
    BY <2>7
  <2> QED
    BY <2>6, <2>8, <2>9
<1>13. ASSUME Rests PROVE Goal
  <2>1. UNCHANGED <<state, progress, invoked, origin, try, pc>>
    BY <1>13 DEF Rests
  <2> QED
    BY <2>1, <1>d
<1>14. Goal
  BY <1>1, <1>2, <1>3, <1>4, <1>5, <1>6, <1>7, <1>8, <1>9, <1>10, <1>11, <1>12, <1>13 DEF Kinds
<1>15. \A d \in Coordinators :
           pc'[d] = "dispatch" /\ Node(d)' \notin ReadOnly =>
               /\ try'[d] = 1
               /\ \A e \in invoked' :
                      e[2] = Node(d)' /\ origin'[e[1]] = origin'[at'[d]] => Dispatch(d)' \in invoked'
  BY <1>14, <1>b DEF Dispatch
<1> QED
  BY <1>14, <1>15 DEF Consequential, Active

(* Every step keeps the dispatches within what the active row has counted. *)
LEMMA AllowanceStep ==
    ASSUME Types, Types', Succession, Ownership, Allowance, Kinds
    PROVE  Allowance'
<1>a. \A d \in Coordinators : Working(d) => at[d] \in Proposals /\ state[at[d]] = "running"
  BY AtWork DEF Ownership, Working
<1>b. \A d \in Coordinators :
          pc'[d] \in {"dispatch", "execute", "park", "complete"} =>
              /\ Pending(d)' = Pending(d) /\ Node(d)' = Node(d)
              /\ at'[d] = at[d] /\ prior'[d] = prior[d] /\ Working(d)
  BY SameWork DEF Working
<1> DEFINE D(o) == {d \in invoked : origin[d[1]] = o}
           E(o) == {d \in invoked' : origin'[d[1]] = o}
           Paid ==
            \A t \in Proposals :
                state'[t] \notin {"none", "superseded"} => Cardinality(E(origin'[t])) <= attempts'[t]
           Fit(d) == pc'[d] = "dispatch" => Cardinality(E(origin'[at[d]])) < attempts'[at[d]]
           Goal == IsFiniteSet(invoked') /\ Paid /\ \A d \in Coordinators : Fit(d)
<1>d. /\ IsFiniteSet(invoked)
      /\ \A t \in Proposals : state[t] \notin {"none", "superseded"} =>
                                  Cardinality(D(origin[t])) <= attempts[t]
      /\ \A d \in Coordinators : pc[d] = "dispatch" => Cardinality(D(origin[at[d]])) < attempts[at[d]]
  BY DEF Allowance, Active, Dispatches
<1>c. /\ \A o : IsFiniteSet(D(o)) /\ Cardinality(D(o)) \in Nat
      /\ \A t \in Proposals : attempts[t] \in Nat
  <2>1. \A o : D(o) \subseteq invoked
    OBVIOUS
  <2>2. \A o : IsFiniteSet(D(o))
    BY <1>d, <2>1, FS_Subset
  <2>3. \A o : Cardinality(D(o)) \in Nat
    BY <2>2, FS_CardinalityType
  <2>4. \A t \in Proposals : attempts[t] \in Nat
    BY StackAssumption DEF Types, RowTypes
  <2> QED
    BY <2>2, <2>3, <2>4
<1>f. \A d \in invoked : d[1] \in Proposals
  BY DEF Types, RowTypes
<1>g. ASSUME UNCHANGED <<invoked, origin>> PROVE \A o : E(o) = D(o)
  BY <1>g
<1> HIDE DEF D, E
<1>h. ASSUME UNCHANGED <<invoked, origin>>, NEW c \in Coordinators, Acts(c), pc'[c] # "dispatch"
      PROVE  \A d \in Coordinators : Fit(d)
  <2>1. ASSUME NEW d \in Coordinators, d # c PROVE Fit(d)
    BY <1>d, <1>g, <1>h, <2>1, Others
  <2>2. Fit(c)
    BY <1>h
  <2> QED
    BY <2>1, <2>2
<1>1. ASSUME NEW c \in Coordinators, NEW p \in Proposals, Loads(c, p) PROVE Goal
  <2>1. /\ UNCHANGED <<state, attempts, invoked, origin>>
        /\ \A d \in Coordinators : pc'[d] = "dispatch" => pc[d] = "dispatch"
    BY <1>1 DEF Loads, Types, LocalTypes
  <2>2. \A o : E(o) = D(o)
    BY <2>1, <1>g
  <2> QED
    BY <2>1, <2>2, <1>d
<1>2. ASSUME NEW c \in Coordinators, Claims(c) PROVE Goal
  <2>1. /\ UNCHANGED <<attempts, invoked, origin>>
        /\ \A d \in Coordinators : pc'[d] = "dispatch" => pc[d] = "dispatch"
    BY <1>2 DEF Claims, Types, LocalTypes
  <2>2. at[c] \in Proposals /\ \A p \in Proposals : p # at[c] => state'[p] = state[p]
    BY <1>2, AtWork DEF Claims, Types, RowTypes
  <2>3. \A o : E(o) = D(o)
    BY <2>1, <1>g
  <2>4. Cardinality(D(origin[at[c]])) <= attempts[at[c]]
    <3>1. CASE state[at[c]] = "none"
      <4>1. D(origin[at[c]]) = {}
        BY <2>2, <3>1, NothingInvoked DEF D
      <4> QED
        BY <2>2, <4>1, <1>c, FS_EmptySet
    <3>2. CASE state[at[c]] # "none"
      BY <1>2, <2>2, <3>2, <1>d DEF Claims, Claimable
    <3> QED
      BY <3>1, <3>2
  <2>5. Paid
    BY <2>1, <2>2, <2>3, <2>4, <1>d
  <2> QED
    BY <2>1, <2>3, <2>5, <1>d
<1>3. ASSUME NEW c \in Coordinators, Leaves(c) PROVE Goal
  <2>1. UNCHANGED <<attempts, invoked, origin>> /\ pc'[c] # "dispatch"
    BY <1>3 DEF Leaves, Types, LocalTypes, Leave, Goto
  <2>2. \A p \in Proposals : state'[p] \notin {"none", "superseded"} => state[p] \notin {"none", "superseded"}
    BY <1>3, <1>a DEF Leaves, Working, Types, RowTypes
  <2>3. \A o : E(o) = D(o)
    BY <2>1, <1>g
  <2>4. \A d \in Coordinators : Fit(d)
    BY <1>3, <2>1, <1>h DEF Acts
  <2> QED
    BY <2>1, <2>2, <2>3, <2>4, <1>d
<1>4. ASSUME NEW c \in Coordinators, Verifies(c) PROVE Goal
  <2>1. UNCHANGED <<attempts, invoked, origin>> /\ pc'[c] # "dispatch"
    BY <1>4 DEF Verifies, Types, LocalTypes
  <2>2. \A p \in Proposals : state'[p] \notin {"none", "superseded"} => state[p] \notin {"none", "superseded"}
    BY <1>4, <1>a DEF Verifies, Working, Types, RowTypes
  <2>3. \A o : E(o) = D(o)
    BY <2>1, <1>g
  <2>4. \A d \in Coordinators : Fit(d)
    BY <1>4, <2>1, <1>h DEF Acts
  <2> QED
    BY <2>1, <2>2, <2>3, <2>4, <1>d
<1>5. ASSUME NEW c \in Coordinators, Reserves(c) PROVE Goal
  <2>1. at[c] \in Proposals /\ Working(c)
    BY <1>5, AtWork DEF Reserves, Working
  <2>2. UNCHANGED <<state, invoked, origin>> /\ attempts'[at[c]] = attempts[at[c]] + 1
        /\ \A p \in Proposals : p # at[c] => attempts'[p] = attempts[p]
    BY <1>5, <2>1 DEF Reserves, Types, RowTypes
  <2>3. \A o : E(o) = D(o)
    BY <2>2, <1>g
  <2>4. Cardinality(D(origin[at[c]])) <= attempts[at[c]]
    BY <2>1, <1>a, <1>d
  <2>5. Cardinality(D(origin[at[c]])) < attempts'[at[c]] /\ attempts'[at[c]] \in Nat
    BY <2>1, <2>2, <2>4, <1>c
  <2>6. Paid
    BY <2>1, <2>2, <2>3, <2>5, <1>c, <1>d
  <2>7. ASSUME NEW d \in Coordinators, d # c PROVE Fit(d)
    BY <1>5, <2>2, <2>3, <2>7, <1>d, Others DEF Acts
  <2>8. Fit(c)
    BY <2>2, <2>3, <2>5
  <2> QED
    BY <2>2, <2>6, <2>7, <2>8, <1>d
<1>6. ASSUME NEW c \in Coordinators, Executes(c) PROVE Goal
  <2>1. at[c] \in Proposals /\ Working(c) /\ pc'[c] # "dispatch" /\ pc[c] = "dispatch"
    BY <1>6, AtWork DEF Executes, Working, Types, LocalTypes
  <2>2. /\ UNCHANGED <<state, attempts, origin>> /\ Dispatch(c) \notin invoked
        /\ invoked' = invoked \cup {Dispatch(c)} /\ Dispatch(c)[1] = at[c]
    BY <1>6 DEF Executes, Dispatch
  <2>3. /\ E(origin[at[c]]) = D(origin[at[c]]) \cup {Dispatch(c)}
        /\ Dispatch(c) \notin D(origin[at[c]])
        /\ \A o : o # origin[at[c]] => E(o) = D(o)
    BY <2>2 DEF D, E
  <2>4. Cardinality(E(origin[at[c]])) = Cardinality(D(origin[at[c]])) + 1
    BY <1>c, <2>3, FS_AddElement
  <2>5. Cardinality(E(origin[at[c]])) <= attempts[at[c]]
    BY <1>c, <1>d, <2>1, <2>4
  <2>6. \A t \in Proposals :
            state[t] \notin {"none", "superseded"} /\ origin[t] = origin[at[c]] => t = at[c]
    BY <1>a, <2>1 DEF Succession, Active
  <2>7. Paid
    BY <1>d, <2>2, <2>3, <2>5, <2>6
  <2>8. ASSUME NEW d \in Coordinators, d # c PROVE Fit(d)
    BY <1>6, <2>1, <2>2, <2>3, <2>8, <1>d, Others DEF Acts
  <2>9. IsFiniteSet(invoked')
    BY <1>d, <2>2, FS_AddElement
  <2> QED
    BY <2>1, <2>7, <2>8, <2>9
<1>7. ASSUME NEW c \in Coordinators, Replays(c) PROVE Goal
  <2>1. UNCHANGED <<attempts, invoked, origin>> /\ pc'[c] # "dispatch"
    BY <1>7 DEF Replays, Types, LocalTypes
  <2>2. \A p \in Proposals : state'[p] \notin {"none", "superseded"} => state[p] \notin {"none", "superseded"}
    BY <1>7, <1>a DEF Replays, Working, Types, RowTypes
  <2>3. \A o : E(o) = D(o)
    BY <2>1, <1>g
  <2>4. \A d \in Coordinators : Fit(d)
    BY <1>7, <2>1, <1>h DEF Acts
  <2> QED
    BY <2>1, <2>2, <2>3, <2>4, <1>d
<1>8. ASSUME NEW c \in Coordinators, Parks(c) PROVE Goal
  <2>1. UNCHANGED <<attempts, invoked, origin>> /\ pc'[c] # "dispatch"
    BY <1>8 DEF Parks, Types, LocalTypes, Leave, Goto
  <2>2. \A p \in Proposals : state'[p] \notin {"none", "superseded"} => state[p] \notin {"none", "superseded"}
    BY <1>8, <1>a DEF Parks, Working, Types, RowTypes
  <2>3. \A o : E(o) = D(o)
    BY <2>1, <1>g
  <2>4. \A d \in Coordinators : Fit(d)
    BY <1>8, <2>1, <1>h DEF Acts
  <2> QED
    BY <2>1, <2>2, <2>3, <2>4, <1>d
<1>9. ASSUME NEW c \in Coordinators, Retries(c) PROVE Goal
  <2>1. UNCHANGED <<attempts, invoked, origin>> /\ pc'[c] # "dispatch"
    BY <1>9 DEF Retries, Types, LocalTypes
  <2>2. \A p \in Proposals : state'[p] \notin {"none", "superseded"} => state[p] \notin {"none", "superseded"}
    BY <1>9, <1>a DEF Retries, Working, Types, RowTypes
  <2>3. \A o : E(o) = D(o)
    BY <2>1, <1>g
  <2>4. \A d \in Coordinators : Fit(d)
    BY <1>9, <2>1, <1>h DEF Acts
  <2> QED
    BY <2>1, <2>2, <2>3, <2>4, <1>d
<1>10. ASSUME NEW c \in Coordinators, Completes(c) PROVE Goal
  <2>1. UNCHANGED <<attempts, invoked, origin>> /\ pc'[c] # "dispatch"
    BY <1>10 DEF Completes, Types, LocalTypes
  <2>2. \A p \in Proposals : state'[p] \notin {"none", "superseded"} => state[p] \notin {"none", "superseded"}
    BY <1>10, <1>a DEF Completes, Working, Types, RowTypes
  <2>3. \A o : E(o) = D(o)
    BY <2>1, <1>g
  <2>4. \A d \in Coordinators : Fit(d)
    BY <1>10, <2>1, <1>h DEF Acts
  <2> QED
    BY <2>1, <2>2, <2>3, <2>4, <1>d
<1>11. ASSUME NEW p \in Proposals, NEW n \in Nodes, Restores(p, n) PROVE Goal
  <2>1. UNCHANGED <<attempts, invoked, origin, pc>>
    BY <1>11 DEF Restores
  <2>2. \A t \in Proposals : state'[t] \notin {"none", "superseded"} => state[t] \notin {"none", "superseded"}
    BY <1>11 DEF Restores, Types, RowTypes
  <2>3. \A o : E(o) = D(o)
    BY <2>1, <1>g
  <2> QED
    BY <2>1, <2>2, <2>3, <1>d
<1>12. ASSUME NEW p \in Proposals, NEW q \in Proposals, Amend(p, q) PROVE Goal
  <2>1. UNCHANGED <<invoked, pc>>
    BY <1>12 DEF Amend
  <2>2. p # q /\ state[p] \in {"paused", "complete"} /\ state[q] = "none"
    BY <1>12 DEF Amend, Amendable
  <2>3. /\ state'[p] = "superseded" /\ \A r \in Proposals : r # p /\ r # q => state'[r] = state[r]
        /\ \A r \in Proposals : r # q => attempts'[r] = attempts[r] /\ origin'[r] = origin[r]
        /\ origin'[q] = origin[p] /\ attempts'[q] = attempts[p]
    BY <1>12, <2>2 DEF Amend, Carried, Types, RowTypes
  <2>4. \A d \in invoked : origin'[d[1]] = origin[d[1]]
    BY <2>2, <2>3, <1>f DEF Succession
  <2>5. \A o : E(o) = D(o)
    BY <2>1, <2>4 DEF D, E
  <2>6. Paid
    BY <2>2, <2>3, <2>5, <1>d
  <2>7. \A d \in Coordinators : pc[d] = "dispatch" => at[d] \in Proposals /\ at[d] # q
    BY <1>a, <2>2 DEF Working
  <2>8. \A d \in Coordinators : Fit(d)
    BY <2>1, <2>3, <2>5, <2>7, <1>d
  <2> QED
    BY <2>1, <2>6, <2>8, <1>d
<1>13. ASSUME Rests PROVE Goal
  <2>1. /\ UNCHANGED <<state, attempts, invoked, origin>>
        /\ \A d \in Coordinators : pc'[d] = "dispatch" => pc[d] = "dispatch"
    BY <1>13 DEF Rests, Types, LocalTypes
  <2>2. \A o : E(o) = D(o)
    BY <2>1, <1>g
  <2> QED
    BY <2>1, <2>2, <1>d
<1>14. Goal
  BY <1>1, <1>2, <1>3, <1>4, <1>5, <1>6, <1>7, <1>8, <1>9, <1>10, <1>11, <1>12, <1>13 DEF Kinds
<1>15. \A d \in Coordinators : pc'[d] = "dispatch" => Cardinality(E(origin'[at'[d]])) < attempts'[at'[d]]
  BY <1>14, <1>b
<1> QED
  BY <1>14, <1>15 DEF Allowance, Active, Dispatches, E

-----------------------------------------------------------------------------
(* The invariant holds at the start and after every step.                  *)
LEMMA InvInit == Init => Inv
<1> SUFFICES ASSUME Init PROVE Inv
  OBVIOUS
<1> USE StackAssumption DEF Init
<1>1. Types
  BY DEF Types, RowTypes, LocalTypes, States, Marks, Steps, Entries, Fresh
<1>2. Succession /\ Ownership /\ Holding
  BY DEF Succession, Ownership, Holding, Active, Working, OneCoordinator
<1>3. Copies /\ Numbers /\ Attempting
  BY DEF Copies, Copied, Numbers, Numbered, Attempting, Fresh
<1>4. Consequential
  BY DEF Consequential
<1>5. Allowance
  BY FS_EmptySet DEF Allowance, Active
<1> QED
  BY <1>1, <1>2, <1>3, <1>4, <1>5 DEF Inv

LEMMA InvStep ==
    ASSUME Inv, [Next]_vars
    PROVE  Inv' /\ Kinds
<1> USE DEF Inv
<1>1. Kinds
  BY StepKinds
<1>2. Types'
  BY LocalTypesStep, RowTypesStep DEF Types
<1>3. Ownership'
  BY <1>1, OwnershipStep
<1>4. Succession'
  BY <1>1, <1>2, SuccessionStep
<1>5. Holding'
  BY <1>1, HoldingStep
<1>6. Copies'
  BY <1>1, <1>2, CopiesStep
<1>7. Numbers'
  BY <1>1, <1>2, NumbersStep
<1>8. Attempting'
  BY <1>1, <1>2, AttemptingStep
<1>9. Consequential'
  BY <1>1, <1>2, ConsequentialStep
<1>10. Allowance'
  BY <1>1, <1>2, AllowanceStep
<1> QED
  BY <1>1, <1>2, <1>3, <1>4, <1>5, <1>6, <1>7, <1>8, <1>9, <1>10

LEMMA InvHolds == Spec => []Inv
<1>1. Init => Inv
  BY InvInit
<1>2. Inv /\ [Next]_vars => Inv'
  BY InvStep
<1> QED
  BY <1>1, <1>2, PTL DEF Spec

(* The variables of run keep their types; the attempts of a row stay       *)
(* within the allowance, whatever copy a coordinator works from.           *)
THEOREM StackTypes == Spec => []TypeOK
<1>1. Inv => TypeOK
  <2> SUFFICES ASSUME Inv PROVE TypeOK
    OBVIOUS
  <2>1. Types /\ Ownership
    BY DEF Inv
  <2>2. \A p \in Proposals, n \in Nodes : progress[p][n] \in Entries
    BY <2>1 DEF Types, RowTypes
  <2> QED
    BY <2>1, <2>2 DEF TypeOK, Types, RowTypes, LocalTypes, Ownership, States, Steps, Entries, Marks
<1> QED
  BY <1>1, InvHolds, PTL

(* A node that is not an idempotent read is dispatched at most once in a   *)
(* lineage, over any number of coordinators, crashes, reconciliations and  *)
(* amendments (_reserve refuses it, or the key of the attempt was used).   *)
THEOREM DispatchedOnce == Spec => []ConsequentialOnce
<1>1. Inv => ConsequentialOnce
  BY DEF Inv, Consequential, ConsequentialOnce, Dispatches
<1> QED
  BY <1>1, InvHolds, PTL

(* The dispatches of a lineage stay within one allowance, carried over by  *)
(* every amendment.                                                        *)
THEOREM WithinAllowance == Spec => []AllowanceRespected
<1>1. Inv => AllowanceRespected
  <2> SUFFICES ASSUME Inv PROVE AllowanceRespected
    OBVIOUS
  <2>1. Types /\ Succession /\ Allowance /\ MaxAttempts \in Nat
    BY StackAssumption DEF Inv
  <2>2. ASSUME NEW o \in Proposals PROVE Cardinality(Dispatches(o)) <= MaxAttempts
    <3>1. CASE Dispatches(o) = {}
      BY <2>1, <3>1, FS_EmptySet
    <3>2. CASE Dispatches(o) # {}
      <4>1. PICK d \in invoked : origin[d[1]] = o
        BY <3>2 DEF Dispatches
      <4>2. d[1] \in Proposals /\ state[d[1]] # "none"
        BY <2>1, <4>1 DEF Types, RowTypes, Succession
      <4>3. PICK p \in Proposals : Active(p) /\ origin[p] = o
        BY <2>1, <4>1, <4>2 DEF Succession
      <4>4. Cardinality(Dispatches(o)) <= attempts[p]
        BY <2>1, <4>3 DEF Allowance
      <4>5. attempts[p] \in 0 .. MaxAttempts
        BY <2>1, <4>3 DEF Types, RowTypes
      <4>6. Cardinality(Dispatches(o)) \in Nat
        <5>1. Dispatches(o) \subseteq invoked
          BY DEF Dispatches
        <5>2. IsFiniteSet(Dispatches(o))
          BY <2>1, <5>1, FS_Subset DEF Allowance
        <5> QED
          BY <5>2, FS_CardinalityType
      <4> QED
        BY <2>1, <4>4, <4>5, <4>6
    <3> QED
      BY <3>1, <3>2
  <2> QED
    BY <2>2 DEF AllowanceRespected
<1> QED
  BY <1>1, InvHolds, PTL

(* At most one coordinator is at work on a lineage (_claim).               *)
THEOREM SingleCoordinator == Spec => []OneCoordinator
<1>1. Inv => OneCoordinator
  BY DEF Inv, Ownership
<1> QED
  BY <1>1, InvHolds, PTL

(* No step takes back a completed node or a superseded row.                *)
LEMMA StaysStep ==
    ASSUME Inv, Kinds
    PROVE  \A t \in Proposals, m \in Nodes :
               /\ progress[t][m].st = "complete" => progress'[t][m].st = "complete"
               /\ state[t] = "superseded" => state'[t] = "superseded"
<1> DEFINE Stays ==
        \A t \in Proposals, m \in Nodes :
            /\ progress[t][m].st = "complete" => progress'[t][m].st = "complete"
            /\ state[t] = "superseded" => state'[t] = "superseded"
<1>c. Types /\ Succession /\ Ownership /\ Holding
  BY DEF Inv
<1>a. \A d \in Coordinators : Working(d) => at[d] \in Proposals /\ state[at[d]] = "running"
  BY <1>c, AtWork DEF Ownership, Working
<1> USE <1>c
<1>1. ASSUME NEW c \in Coordinators, NEW p \in Proposals, Loads(c, p) PROVE Stays
  BY <1>1, <1>a, <1>c, AtWork DEF Loads, Claimable, Working, Types, RowTypes
<1>2. ASSUME NEW c \in Coordinators, Claims(c) PROVE Stays
  BY <1>2, <1>a, <1>c, AtWork DEF Claims, Claimable, Working, Types, RowTypes
<1>3. ASSUME NEW c \in Coordinators, Leaves(c) PROVE Stays
  BY <1>3, <1>a, <1>c, AtWork DEF Leaves, Claimable, Working, Types, RowTypes
<1>4. ASSUME NEW c \in Coordinators, Verifies(c) PROVE Stays
  BY <1>4, <1>a, <1>c, AtWork DEF Verifies, Claimable, Working, Types, RowTypes
<1>5. ASSUME NEW c \in Coordinators, Reserves(c) PROVE Stays
  <2>1. at[c] \in Proposals /\ Node(c) \in Nodes /\ state[at[c]] = "running"
    BY <1>5, <1>a, <1>c, NodeExists DEF Reserves, Holding, Working
  <2>2. \A t \in Proposals, m \in Nodes : t # at[c] \/ m # Node(c) => progress'[t][m] = progress[t][m]
    BY <1>5, <2>1 DEF Reserves, Types, RowTypes
  <2>3. \A t \in Proposals : state[t] = "superseded" => state'[t] = "superseded"
    BY <1>5, <2>1 DEF Reserves, Types, RowTypes
  <2>4. progress[at[c]][Node(c)].st = "complete" => progress'[at[c]][Node(c)].st = "complete"
    BY <1>5, <2>1 DEF Reserves, Holding, Reservable, Types, RowTypes, Entries
  <2> QED
    BY <2>2, <2>3, <2>4
<1>6. ASSUME NEW c \in Coordinators, Executes(c) PROVE Stays
  BY <1>6, <1>a, <1>c, AtWork DEF Executes, Claimable, Working, Types, RowTypes
<1>7. ASSUME NEW c \in Coordinators, Replays(c) PROVE Stays
  BY <1>7, <1>a, <1>c, AtWork DEF Replays, Claimable, Working, Types, RowTypes
<1>8. ASSUME NEW c \in Coordinators, Parks(c) PROVE Stays
  <2>1. at[c] \in Proposals /\ Node(c) \in Nodes /\ state[at[c]] = "running"
    BY <1>8, <1>a, <1>c, NodeExists DEF Parks, Holding, Working
  <2>2. \A t \in Proposals, m \in Nodes : t # at[c] \/ m # Node(c) => progress'[t][m] = progress[t][m]
    BY <1>8, <2>1 DEF Parks, Types, RowTypes
  <2>3. \A t \in Proposals : state[t] = "superseded" => state'[t] = "superseded"
    BY <1>8, <2>1 DEF Parks, Types, RowTypes
  <2>4. progress[at[c]][Node(c)].st = "complete" => progress'[at[c]][Node(c)].st = "complete"
    BY <1>8, <2>1 DEF Parks, Holding, Reservable, Types, RowTypes, Entries
  <2> QED
    BY <2>2, <2>3, <2>4
<1>9. ASSUME NEW c \in Coordinators, Retries(c) PROVE Stays
  <2>1. at[c] \in Proposals /\ Node(c) \in Nodes /\ state[at[c]] = "running"
    BY <1>9, <1>a, <1>c, NodeExists DEF Retries, Holding, Working
  <2>2. \A t \in Proposals, m \in Nodes : t # at[c] \/ m # Node(c) => progress'[t][m] = progress[t][m]
    BY <1>9, <2>1 DEF Retries, Types, RowTypes
  <2>3. \A t \in Proposals : state[t] = "superseded" => state'[t] = "superseded"
    BY <1>9, <2>1 DEF Retries, Types, RowTypes
  <2>4. progress[at[c]][Node(c)].st = "complete" => progress'[at[c]][Node(c)].st = "complete"
    BY <1>9, <2>1 DEF Retries, Holding, Reservable, Types, RowTypes, Entries
  <2> QED
    BY <2>2, <2>3, <2>4
<1>10. ASSUME NEW c \in Coordinators, Completes(c) PROVE Stays
  <2>1. at[c] \in Proposals /\ Node(c) \in Nodes /\ state[at[c]] = "running"
    BY <1>10, <1>a, <1>c, NodeExists DEF Completes, Holding, Working
  <2>2. \A t \in Proposals, m \in Nodes : t # at[c] \/ m # Node(c) => progress'[t][m] = progress[t][m]
    BY <1>10, <2>1 DEF Completes, Types, RowTypes
  <2>3. \A t \in Proposals : state[t] = "superseded" => state'[t] = "superseded"
    BY <1>10, <2>1 DEF Completes, Types, RowTypes
  <2>4. progress[at[c]][Node(c)].st = "complete" => progress'[at[c]][Node(c)].st = "complete"
    BY <1>10, <2>1 DEF Completes, Holding, Reservable, Types, RowTypes, Entries
  <2> QED
    BY <2>2, <2>3, <2>4
<1>11. ASSUME NEW p \in Proposals, NEW n \in Nodes, Restores(p, n) PROVE Stays
  <2>1. \A t \in Proposals, m \in Nodes : t # p \/ m # n => progress'[t][m] = progress[t][m]
    BY <1>11 DEF Restores, Types, RowTypes
  <2>2. \A t \in Proposals : state[t] = "superseded" => state'[t] = "superseded"
    BY <1>11 DEF Restores, Types, RowTypes
  <2>3. progress[p][n].st # "complete"
    BY <1>11 DEF Restores
  <2> QED
    BY <2>1, <2>2, <2>3
<1>12. ASSUME NEW p \in Proposals, NEW q \in Proposals, Amend(p, q) PROVE Stays
  <2>1. \A t \in Proposals : t # q => progress'[t] = progress[t]
    BY <1>12 DEF Amend, Types, RowTypes
  <2>2. \A m \in Nodes : progress[q][m].st = "none"
    BY <1>12 DEF Amend, Succession, Fresh
  <2>3. \A t \in Proposals : state[t] = "superseded" => state'[t] = "superseded"
    BY <1>12 DEF Amend, Types, RowTypes
  <2> QED
    BY <2>1, <2>2, <2>3
<1>13. ASSUME Rests PROVE Stays
  BY <1>13, <1>a, <1>c, AtWork DEF Rests, Claimable, Working, Types, RowTypes
<1> QED
  BY <1>1, <1>2, <1>3, <1>4, <1>5, <1>6, <1>7, <1>8, <1>9, <1>10, <1>11, <1>12, <1>13 DEF Kinds

(* A coordinator that works from a stale copy never takes back a node that *)
(* another one completed, and a superseded row stays superseded.           *)
THEOREM CompletedKept == Spec => CompletedStays
<1> DEFINE Stays ==
        \A p \in Proposals, n \in Nodes :
            /\ progress[p][n].st = "complete" => progress'[p][n].st = "complete"
            /\ state[p] = "superseded" => state'[p] = "superseded"
<1>1. Inv /\ [Next]_vars => [Stays]_vars
  BY InvStep, StaysStep
<1> QED
  BY <1>1, InvHolds, PTL DEF Spec, CompletedStays
=============================================================================
