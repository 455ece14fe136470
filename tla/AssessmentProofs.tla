-------------------------- MODULE AssessmentProofs --------------------------
(***************************************************************************)
(* The safety of Assessment, for any number of plans and trials, any       *)
(* limits and any number of operator commands, signals and crashes.        *)
(***************************************************************************)
EXTENDS Assessment, SumTheorems

ReportOp(p)   == <<p, "report", 0>>
GraderOp(p)   == <<p, "grader", 0>>
SetupOp(p)    == <<p, "setup", 0>>
TrialOp(p, i) == <<p, "trial", i>>
HostOp(p, k)  == <<p, "identity", k>>

Starting  == {"idle", "enqueuing", "ready", "claimed", "cost", "paying", "costing", "grader", "grading", "setup",
              "settingUp"}
Testing   == {"trial", "preflight", "invoking"}
Graded    == {"setup", "settingUp"} \cup Testing \cup {"fitting"}
Reporting == {"cost", "paying", "costing", "grader", "grading"} \cup Graded
Reported  == {"recording", "completing", "admitting", "gone"}

(* How far a campaign that nothing has failed yet has measured its         *)
(* operations: a trial that it has passed is measured or skipped.          *)
Campaign(p) ==
  /\ \A i \in 1 .. Trials : i < trial[p] =>
       ops[TrialOp(p, i)].state = "complete" \/ RouteOf[i] \in screened[p]
  /\ pc[p] \in Starting => trial[p] = 1
  /\ pc[p] \in Testing => trial[p] =< Trials
  /\ ~failed[p] =>
       /\ pc[p] \in Reporting => ops[ReportOp(p)].state # "absent"
       /\ pc[p] \in Graded => ops[GraderOp(p)].state = "complete"
       /\ pc[p] \in Testing \cup {"fitting"} => ops[SetupOp(p)].state = "complete"
       /\ pc[p] = "fitting" => trial[p] = Trials + 1

(* The screening comes before the trials that are compared, and a route    *)
(* that it has put out is not tried again.                                 *)
Screens(p) ==
  /\ \A t \in valid[p] : t < trial[p]
  /\ \A t \in valid[p] : t \in Paired => RouteOf[t] \notin screened[p]
  /\ pc[p] \in Testing => RouteOf[trial[p]] \notin screened[p]
  /\ pc[p] \in Starting => screened[p] = {}

(* A report exists only past the fitting, and a useful one only of a       *)
(* campaign that is measured to the end.                                   *)
Reports(p) ==
  /\ report[p].outcome # "none" => pc[p] \in Reported
  /\ report[p].stored => pc[p] \in Reported \ {"recording"}
  /\ report[p].outcome = "useful" =>
       /\ ~failed[p] /\ Paired \subseteq valid[p]
       /\ \A t \in Paired : RouteOf[t] \notin screened[p]
       /\ \A o \in Planned(p) : ops[o].state = "complete"

(* A stopped job stays one that reserve refuses, until its run is past the *)
(* last reservation.                                                       *)
Jobs(p) ==
  /\ job[p] = "complete" => pc[p] \in {"admitting", "gone"}
  /\ p \in cancelled => job[p] \notin {"none", "queued", "running"}

Progress == \A p \in Plans : Campaign(p) /\ Screens(p) /\ Reports(p) /\ Jobs(p)

(* What an admission rests on, and what a revoked one excludes.            *)
Admitted ==
  /\ withdrawn => grant.revoked
  /\ InForce => /\ ~withdrawn
                /\ report[admission.plan].outcome = "useful" /\ report[admission.plan].stored
  /\ discredited \subseteq {p \in Plans : report[p].outcome # "none"}
  /\ admission.revoked => discredited \subseteq outdated

(* The accounts: an open operation holds what it reserved.                 *)
Taken == {o \in OpIds : ops[o].state # "absent"}
Accounts ==
  /\ IsFiniteSet(Taken)
  /\ \A o \in OpIds : ops[o].state = "reserved" => ops[o] = Held(o)
  /\ SpentIsAccounted

Inv == TypeOK /\ Progress /\ Admitted /\ Accounts

-----------------------------------------------------------------------------
(* The operations of the plans are told apart by their ids.                *)
LEMMA OpNames ==
  ASSUME NEW p \in Plans
  PROVE  /\ OpsOf(p) \subseteq OpIds /\ Cost \in OpIds /\ Cost \notin OpsOf(p)
         /\ RunOps(p) \subseteq OpsOf(p) /\ Planned(p) \subseteq RunOps(p)
         /\ \A o \in OpsOf(p) : o[1] = p
         /\ {ReportOp(p), GraderOp(p), SetupOp(p)} \subseteq RunOps(p)
         /\ \A i \in 1 .. Trials : TrialOp(p, i) \in RunOps(p)
         /\ \A k \in 1 .. MaxEvents : HostOp(p, k) \in OpsOf(p)
         /\ \A o \in RunOps(p) : \/ o \in {ReportOp(p), GraderOp(p), SetupOp(p)}
                                 \/ \E i \in 1 .. Trials : o = TrialOp(p, i)
<1>1. Cost[1] = NoPlan /\ p # NoPlan
  BY AssessmentAssumption DEF Cost
<1>2. \A o \in OpsOf(p) : o[1] = p
  BY DEF OpsOf, RunOps
<1>3. OpsOf(p) \subseteq OpIds /\ Cost \in OpIds
  <2> DEFINE All == {OpsOf(q) : q \in Plans}
  <2>1. OpsOf(p) \in All
    OBVIOUS
  <2>2. OpIds = {Cost} \cup UNION All
    BY DEF OpIds
  <2> HIDE DEF All
  <2> QED
    BY <2>1, <2>2
<1>4. {ReportOp(p), GraderOp(p), SetupOp(p)} \subseteq RunOps(p)
  BY DEF RunOps, ReportOp, GraderOp, SetupOp
<1>5. \A i \in 1 .. Trials : TrialOp(p, i) \in RunOps(p)
  BY DEF RunOps, TrialOp
<1>6. ASSUME NEW o \in RunOps(p)
      PROVE  \/ o \in {ReportOp(p), GraderOp(p), SetupOp(p)}
             \/ \E i \in 1 .. Trials : o = TrialOp(p, i)
  BY DEF RunOps, ReportOp, GraderOp, SetupOp, TrialOp
<1>7. RunOps(p) \subseteq OpsOf(p) /\ \A k \in 1 .. MaxEvents : HostOp(p, k) \in OpsOf(p)
  BY DEF OpsOf, HostOp
<1>8. Planned(p) \subseteq RunOps(p)
  BY DEF Planned
<1> QED
  BY <1>1, <1>2, <1>3, <1>4, <1>5, <1>6, <1>7, <1>8

LEMMA OpKinds ==
  ASSUME NEW p, NEW i
  PROVE  /\ ReportOp(p) # GraderOp(p) /\ ReportOp(p) # SetupOp(p) /\ GraderOp(p) # SetupOp(p)
         /\ TrialOp(p, i) \notin {ReportOp(p), GraderOp(p), SetupOp(p)}
         /\ \A j : TrialOp(p, i) = TrialOp(p, j) => i = j
         /\ TrialOp(p, i)[2] = "trial" /\ TrialOp(p, i)[3] = i /\ HostOp(p, i)[2] = "identity"
BY DEF ReportOp, GraderOp, SetupOp, TrialOp, HostOp

LEMMA MaxPair ==
  ASSUME NEW a \in Int, NEW b \in Int
  PROVE  Max({a, b}) = IF a >= b THEN a ELSE b
<1>1. CASE a >= b
  BY <1>1 DEF Max
<1>2. CASE ~(a >= b)
  BY <1>2 DEF Max
<1> QED
  BY <1>1, <1>2

-----------------------------------------------------------------------------
(***************************************************************************)
(* What a step does to the operations: nothing, one reservation by a run   *)
(* for itself or the shared cost, one for the identity of a host, or the   *)
(* measurement of one.                                                     *)
(***************************************************************************)
OpTypes == [state : {"absent", "reserved", "complete"}, seconds : Nat, cash : Nat]
GrantTypes == [revoked : BOOLEAN, expired : BOOLEAN, limits : {Granted, Raised}, spent : [Dims -> Nat]]

Keeping ==
  /\ grant' \in GrantTypes
  /\ ops' = ops /\ grant'.spent = grant.spent /\ (grant.revoked => grant'.revoked)
  /\ grant'.limits = grant.limits \/ (grant'.limits = Raised /\ Fits(grant.limits, Raised))

Reserving(p, o) ==
  o \in OpsOf(p) \cup {Cost} /\ Reservable(p, o) /\ Reserve(o)
    /\ \/ pc[p] \in {"claimed", "paying", "grader", "setup", "trial"}
       \/ \E k \in 1 .. MaxEvents : o = HostOp(p, k)

Facts == CashFacts \cup {Paid(0)}

OpsStep ==
  \/ Keeping
  \/ \E p \in Plans, o \in OpIds : Reserving(p, o)
  \/ \E o \in OpIds, seconds \in Nat, cash \in Facts : Finish(o, seconds, cash)

(* Every step is one of these.                                             *)
LEMMA OpsSteps ==
  ASSUME TypeOK, Progress, [Next]_vars
  PROVE  OpsStep
<1> USE DEF OpsStep, Keeping, GrantTypes, TypeOK, operatorVars, campaignVars, Event
<1>e. Elapsed \subseteq Nat /\ 1 \in Nat /\ CashFacts \subseteq Facts /\ {Paid(0), Unpriced} \subseteq Facts
  BY AssessmentAssumption DEF Facts, CashFacts
<1>o. \A p \in Plans : Cost \in OpIds /\ {ReportOp(p), GraderOp(p), SetupOp(p)} \subseteq OpIds
  BY OpNames
<1>t. \A p \in Plans : pc[p] \in Testing => trial[p] \in 1 .. Trials
  BY AssessmentAssumption DEF TypeOK, Progress, Campaign
<1>1. ASSUME RevokeGrant PROVE OpsStep
  BY <1>1 DEF RevokeGrant
<1>2. ASSUME Expire PROVE OpsStep
  BY <1>2 DEF Expire
<1>3. ASSUME Amend PROVE OpsStep
  BY <1>3 DEF Amend
<1>4. ASSUME RevokeAdmission PROVE OpsStep
  BY <1>4 DEF RevokeAdmission
<1>5. ASSUME NEW p \in Plans, Enqueue(p) PROVE OpsStep
  BY <1>5 DEF Enqueue
<1>6. ASSUME NEW p \in Plans, Cancel(p) PROVE OpsStep
  BY <1>6 DEF Cancel
<1>7. ASSUME NEW p \in Plans, Review(p) PROVE OpsStep
  BY <1>7 DEF Review
<1>8. ASSUME NEW p \in Plans, AdmitAgain(p) PROVE OpsStep
  <2>1. CASE UNCHANGED <<grant, ops>>
    BY <2>1
  <2>2. CASE ~UNCHANGED <<grant, ops>>
    <3>1. /\ Reservable(p, HostOp(p, events + 1)) /\ Reserve(HostOp(p, events + 1))
          /\ events + 1 \in 1 .. MaxEvents
      BY <1>8, <2>2, AssessmentAssumption DEF AdmitAgain, HostOp
    <3>2. HostOp(p, events + 1) \in OpsOf(p) /\ HostOp(p, events + 1) \in OpIds
      BY <3>1, OpNames
    <3>3. Reserving(p, HostOp(p, events + 1))
      BY <3>1, <3>2 DEF Reserving
    <3> QED
      BY <3>2, <3>3
  <2> QED
    BY <2>1, <2>2
<1>9. ASSUME NEW p \in Plans, BeginRun(p) PROVE OpsStep
  BY <1>9 DEF BeginRun
<1>10. ASSUME NEW p \in Plans, Claim(p) PROVE OpsStep
  BY <1>10 DEF Claim
<1>11. ASSUME NEW p \in Plans, ReserveStage(p) PROVE OpsStep
  <2>1. ASSUME NEW o \in OpsOf(p) \cup {Cost}, NEW ok, NEW l, TryReserve(p, o, ok, l),
               pc[p] \in {"claimed", "paying", "grader", "setup", "trial"}
        PROVE  OpsStep
    <3>1. CASE ok /\ Reservable(p, o)
      <4>1. Reserving(p, o) /\ o \in OpIds
        BY <2>1, <3>1, OpNames DEF TryReserve, Reserving
      <4> QED
        BY <4>1
    <3>2. CASE ~(ok /\ Reservable(p, o))
      BY <2>1, <3>2 DEF TryReserve
    <3> QED
      BY <3>1, <3>2
  <2>2. /\ {<<p, "report", 0>>, <<p, "grader", 0>>, <<p, "setup", 0>>} \subseteq OpsOf(p)
        /\ pc[p] = "trial" => <<p, "trial", trial[p]>> \in OpsOf(p)
    <3>1. {ReportOp(p), GraderOp(p), SetupOp(p)} \subseteq OpsOf(p)
      BY OpNames
    <3>2. pc[p] = "trial" => TrialOp(p, trial[p]) \in OpsOf(p)
      BY <1>t, OpNames DEF Testing
    <3> QED
      BY <3>1, <3>2 DEF ReportOp, GraderOp, SetupOp, TrialOp
  <2> HIDE DEF OpsStep
  <2>3. CASE At(p, "claimed") /\ TryReserve(p, <<p, "report", 0>>, TRUE, "cost")
    BY <2>1, <2>2, <2>3 DEF At
  <2>4. CASE At(p, "paying") /\ TryReserve(p, Cost, TRUE, "costing")
    BY <2>1, <2>4 DEF At
  <2>5. CASE At(p, "grader") /\ TryReserve(p, <<p, "grader", 0>>, TRUE, "grading")
    BY <2>1, <2>2, <2>5 DEF At
  <2>6. CASE At(p, "setup") /\ TryReserve(p, <<p, "setup", 0>>, TRUE, "settingUp")
    BY <2>1, <2>2, <2>6 DEF At
  <2>7. CASE At(p, "trial") /\ TryReserve(p, <<p, "trial", trial[p]>>, job[p] = "running", "preflight")
    BY <2>1, <2>2, <2>7 DEF At
  <2> QED
    BY <1>11, <2>3, <2>4, <2>5, <2>6, <2>7 DEF ReserveStage
<1>12. ASSUME NEW p \in Plans, ReadCost(p) PROVE OpsStep
  BY <1>12 DEF ReadCost
<1>13. ASSUME NEW p \in Plans, FinishStage(p) PROVE OpsStep
  <2>1. \E o \in OpIds, seconds \in Nat, cash \in Facts : Finish(o, seconds, cash)
    BY <1>13, <1>e, <1>o DEF FinishStage, ReportOp, GraderOp, SetupOp
  <2> QED
    BY <2>1
<1>14. ASSUME NEW p \in Plans, Preflight(p) PROVE OpsStep
  <2>1. CASE UNCHANGED <<grant, ops>>
    BY <2>1
  <2>2. CASE ~UNCHANGED <<grant, ops>>
    <3>1. \E seconds \in Elapsed, cash \in {Paid(0), Unpriced} : Finish(<<p, "trial", trial[p]>>, seconds, cash)
      BY <1>14, <2>2 DEF Preflight
    <3>2. <<p, "trial", trial[p]>> \in OpIds
      BY <1>14, <1>t, OpNames DEF Preflight, At, Testing, TrialOp
    <3> QED
      BY <3>1, <3>2, <1>e
  <2> QED
    BY <2>1, <2>2
<1>15. ASSUME NEW p \in Plans, Answer(p) PROVE OpsStep
  <2>1. \E seconds \in Elapsed, cash \in CashFacts : Finish(<<p, "trial", trial[p]>>, seconds, cash)
    BY <1>15 DEF Answer
  <2>2. <<p, "trial", trial[p]>> \in OpIds
    BY <1>15, <1>t, OpNames DEF Answer, At, Testing, TrialOp
  <2> QED
    BY <2>1, <2>2, <1>e
<1>16. ASSUME NEW p \in Plans, MarkInterrupted(p) PROVE OpsStep
  BY <1>16 DEF MarkInterrupted
<1>17. ASSUME NEW p \in Plans, Fit(p) PROVE OpsStep
  <2>1. CASE ops[<<p, "report", 0>>].state = "reserved"
    <3>1. \E seconds \in Elapsed : Finish(<<p, "report", 0>>, seconds, Paid(0))
      BY <1>17, <2>1 DEF Fit
    <3> QED
      BY <3>1, <1>e, <1>o DEF ReportOp
  <2>2. CASE ops[<<p, "report", 0>>].state # "reserved"
    BY <1>17, <2>2 DEF Fit
  <2> QED
    BY <2>1, <2>2
<1>18. ASSUME NEW p \in Plans, Record(p) PROVE OpsStep
  BY <1>18 DEF Record
<1>19. ASSUME NEW p \in Plans, Complete(p) PROVE OpsStep
  BY <1>19 DEF Complete
<1>20. ASSUME NEW p \in Plans, AdmitOwn(p) PROVE OpsStep
  BY <1>20 DEF AdmitOwn
<1>21. ASSUME NEW p \in Plans, Interrupt(p) PROVE OpsStep
  <2>1. CASE At(p, "grading")
    <3>1. \E seconds \in Elapsed : Finish(<<p, "grader", 0>>, seconds, Paid(0))
      BY <1>21, <2>1 DEF Interrupt
    <3> QED
      BY <3>1, <1>e, <1>o DEF GraderOp
  <2>2. CASE ~At(p, "grading")
    BY <1>21, <2>2 DEF Interrupt
  <2> QED
    BY <2>1, <2>2
<1>22. ASSUME NEW p \in Plans, Crash(p) PROVE OpsStep
  BY <1>22 DEF Crash
<1>23. ASSUME NEW p \in Plans, MarkDead(p) PROVE OpsStep
  BY <1>23 DEF MarkDead
<1>24. ASSUME UNCHANGED vars PROVE OpsStep
  BY <1>24 DEF vars
<1>25. ASSUME NEW p \in Plans, InsertJob(p) PROVE OpsStep
  BY <1>25 DEF InsertJob
<1>26. ASSUME NEW p \in Plans, ResolveIdentity(p) PROVE OpsStep
  <2>1. \E seconds \in Elapsed : Finish(HostOp(p, command[p]), seconds, Paid(0))
    BY <1>26 DEF ResolveIdentity, Identity, HostOp
  <2>2. command[p] \in 1 .. MaxEvents
    BY <1>26, AssessmentAssumption DEF ResolveIdentity
  <2>3. HostOp(p, command[p]) \in OpIds
    BY <2>2, OpNames
  <2> QED
    BY <2>1, <2>3, <1>e
<1>27. ASSUME NEW p \in Plans, AdmitResolved(p) PROVE OpsStep
  BY <1>27 DEF AdmitResolved
<1>28. ASSUME NEW p \in Plans, LoseCommand(p) PROVE OpsStep
  BY <1>28 DEF LoseCommand
<1> QED
  BY <1>1, <1>2, <1>3, <1>4, <1>5, <1>6, <1>7, <1>8, <1>9, <1>10, <1>11, <1>12, <1>13, <1>14, <1>15, <1>16, <1>17, <1>18, <1>19, <1>20, <1>21, <1>22, <1>23, <1>24, <1>25, <1>26, <1>27, <1>28 DEF Next, Work

(* A sum over one element more, and a sum that changes at one element.     *)
LEMMA SumTake ==
  ASSUME NEW S, IsFiniteSet(S), NEW o, o \notin S, NEW f, NEW g,
         \A x \in S : f[x] \in Nat /\ g[x] = f[x], g[o] \in Nat
  PROVE  SumFunctionOnSet(g, S \cup {o}) = SumFunctionOnSet(f, S) + g[o]
<1>1. SumFunctionOnSet(g, S \cup {o}) = g[o] + SumFunctionOnSet(g, S)
  BY SumAdd
<1>2. SumFunctionOnSet(g, S) = SumFunctionOnSet(f, S) /\ SumFunctionOnSet(f, S) \in Nat
  BY SumSame, SumNat
<1> QED
  BY <1>1, <1>2

LEMMA SumReplace ==
  ASSUME NEW S, IsFiniteSet(S), NEW o \in S, NEW f, NEW g,
         \A x \in S : f[x] \in Nat /\ g[x] \in Nat, \A x \in S \ {o} : g[x] = f[x]
  PROVE  /\ SumFunctionOnSet(g, S) = SumFunctionOnSet(f, S) - f[o] + g[o]
         /\ SumFunctionOnSet(f, S) >= f[o] /\ SumFunctionOnSet(f, S) \in Nat
<1> DEFINE R == S \ {o}
<1>1. IsFiniteSet(R)
  BY FS_RemoveElement
<1>2. /\ SumFunctionOnSet(f, S) = f[o] + SumFunctionOnSet(f, R)
      /\ SumFunctionOnSet(g, S) = g[o] + SumFunctionOnSet(g, R)
  BY SumRemove
<1>3. SumFunctionOnSet(f, R) = SumFunctionOnSet(g, R) /\ SumFunctionOnSet(f, R) \in Nat
  BY <1>1, SumSame, SumNat
<1>4. f[o] \in Nat /\ g[o] \in Nat
  OBVIOUS
<1> QED
  BY <1>2, <1>3, <1>4

(* What the figures of an operation are.                                   *)
LEMMA Figures ==
  ASSUME NEW o, NEW seconds \in Nat, NEW cash \in Facts
  PROVE  /\ Reserved(o).cash \in {0, 1} /\ Reserved(o).seconds = 1 /\ Reserved(o).operations = 1
         /\ Reserved(o) \in [Dims -> Nat]
         /\ Held(o) \in OpTypes /\ Held(o).state = "reserved" /\ Held(o).seconds = 1 /\ Held(o).cash = Reserved(o).cash
         /\ Charged(o, cash) \in Nat /\ Charged(o, cash) >= Reserved(o).cash
         /\ ~Overspent(o, seconds, cash) => seconds =< 1 /\ Charged(o, cash) = Reserved(o).cash
<1>1. Reserved(o).cash \in {0, 1} /\ Reserved(o).seconds = 1 /\ Reserved(o).operations = 1
  BY DEF Reserved
<1>2. Reserved(o) \in [Dims -> Nat]
  BY DEF Reserved, Dims
<1>3. Held(o) \in OpTypes /\ Held(o).state = "reserved" /\ Held(o).seconds = 1 /\ Held(o).cash = Reserved(o).cash
  BY <1>1 DEF Held, OpTypes
<1>4. cash.sum \in Nat
  BY DEF Facts, CashFacts, Paid, Unpriced
<1>5. Charged(o, cash) = IF cash.sum >= Reserved(o).cash THEN cash.sum ELSE Reserved(o).cash
  BY <1>1, <1>4, MaxPair DEF Charged
<1>6. ~Overspent(o, seconds, cash) => seconds =< 1 /\ ~(cash.sum > Reserved(o).cash)
  BY DEF Overspent
<1> QED
  BY <1>1, <1>2, <1>3, <1>4, <1>5, <1>6

(* A reservation and a measurement, on the books.                          *)
LEMMA ReserveBooks ==
  ASSUME TypeOK, NEW p \in Plans, NEW o \in OpIds, Reserving(p, o)
  PROVE  /\ ops' \in [OpIds -> OpTypes] /\ grant' \in GrantTypes
         /\ ops[o].state = "absent" /\ ops'[o] = Held(o) /\ \A x \in OpIds : x # o => ops'[x] = ops[x]
         /\ grant'.revoked = grant.revoked /\ grant'.limits = grant.limits
         /\ grant'.spent.operations = grant.spent.operations + 1
         /\ grant'.spent.seconds = grant.spent.seconds + 1
         /\ grant'.spent.cash = grant.spent.cash + Reserved(o).cash
         /\ Fits(grant'.spent, grant'.limits)
<1>1. Held(o) \in OpTypes /\ Reserved(o) \in [Dims -> Nat] /\ Reserved(o).seconds = 1 /\ Reserved(o).operations = 1
  BY Figures DEF Facts
<1>2. ops' = [ops EXCEPT ![o] = Held(o)] /\ ops \in [OpIds -> OpTypes] /\ ops[o].state = "absent"
  BY DEF TypeOK, OpTypes, Reserving, Reserve, Reservable
<1>3. /\ grant' = [grant EXCEPT !.spent = Plus(grant.spent, Reserved(o))] /\ grant \in GrantTypes
      /\ Fits(Plus(grant.spent, Reserved(o)), grant.limits)
  BY DEF TypeOK, GrantTypes, Reserving, Reserve, Reservable
<1>4. Plus(grant.spent, Reserved(o)) \in [Dims -> Nat]
  BY <1>1, <1>3 DEF Plus, GrantTypes
<1>5. /\ grant'.spent = Plus(grant.spent, Reserved(o)) /\ grant'.revoked = grant.revoked
      /\ grant'.limits = grant.limits
  BY <1>3 DEF GrantTypes
<1>6. grant' \in GrantTypes
  BY <1>3, <1>4 DEF GrantTypes
<1>7. /\ Plus(grant.spent, Reserved(o)).operations = grant.spent.operations + 1
      /\ Plus(grant.spent, Reserved(o)).seconds = grant.spent.seconds + 1
      /\ Plus(grant.spent, Reserved(o)).cash = grant.spent.cash + Reserved(o).cash
  BY <1>1 DEF Plus, Dims
<1> QED
  BY <1>1, <1>2, <1>3, <1>5, <1>6, <1>7

LEMMA FinishBooks ==
  ASSUME TypeOK, NEW o \in OpIds, NEW seconds \in Nat, NEW cash \in Facts, Finish(o, seconds, cash)
  PROVE  /\ ops' \in [OpIds -> OpTypes] /\ grant' \in GrantTypes
         /\ ops[o].state = "reserved" /\ \A x \in OpIds : x # o => ops'[x] = ops[x]
         /\ ops'[o] = [state |-> "complete", seconds |-> seconds, cash |-> Charged(o, cash)]
         /\ grant'.revoked = (grant.revoked \/ Overspent(o, seconds, cash)) /\ grant'.limits = grant.limits
         /\ grant'.spent.operations = grant.spent.operations
         /\ grant.spent.seconds >= 1 => grant'.spent.seconds = grant.spent.seconds - 1 + seconds
         /\ grant'.spent.cash = grant.spent.cash + Charged(o, cash) - Reserved(o).cash
<1>1. Charged(o, cash) \in Nat /\ Reserved(o).cash \in Nat /\ Charged(o, cash) >= Reserved(o).cash
  BY Figures
<1>2. /\ ops' = [ops EXCEPT ![o] = [state |-> "complete", seconds |-> seconds, cash |-> Charged(o, cash)]]
      /\ ops \in [OpIds -> OpTypes] /\ ops[o].state = "reserved"
  BY DEF TypeOK, OpTypes, Finish
<1>3. /\ grant' = [grant EXCEPT !.revoked = (grant.revoked \/ Overspent(o, seconds, cash)),
                                !.spent = SpentAfter(o, seconds, cash)]
      /\ grant \in GrantTypes
  BY DEF TypeOK, GrantTypes, Finish
<1>4. grant.spent \in [Dims -> Nat] /\ grant.spent.seconds \in Nat /\ grant.spent.cash \in Nat
  BY <1>3 DEF GrantTypes, Dims
<1>5. Max({0, grant.spent.seconds - (1 - seconds)}) \in Nat
      /\ (grant.spent.seconds >= 1 =>
            Max({0, grant.spent.seconds - (1 - seconds)}) = grant.spent.seconds - 1 + seconds)
  <2>1. grant.spent.seconds - (1 - seconds) \in Int
    BY <1>4
  <2>2. Max({0, grant.spent.seconds - (1 - seconds)}) =
          IF 0 >= grant.spent.seconds - (1 - seconds) THEN 0 ELSE grant.spent.seconds - (1 - seconds)
    BY <2>1, MaxPair
  <2> QED
    BY <1>4, <2>2
<1>6. /\ SpentAfter(o, seconds, cash) \in [Dims -> Nat]
      /\ SpentAfter(o, seconds, cash).operations = grant.spent.operations
      /\ SpentAfter(o, seconds, cash).seconds = Max({0, grant.spent.seconds - (1 - seconds)})
      /\ SpentAfter(o, seconds, cash).cash = grant.spent.cash + Charged(o, cash) - Reserved(o).cash
  <2> DEFINE m == Max({0, grant.spent.seconds - (1 - seconds)})
             n == grant.spent.cash + Charged(o, cash) - Reserved(o).cash
  <2>1. SpentAfter(o, seconds, cash) = [grant.spent EXCEPT !.seconds = m, !.cash = n]
    BY DEF SpentAfter
  <2>2. m \in Nat /\ n \in Nat
    BY <1>1, <1>4, <1>5
  <2> HIDE DEF m, n
  <2>3. /\ [grant.spent EXCEPT !.seconds = m, !.cash = n] \in [Dims -> Nat]
        /\ [grant.spent EXCEPT !.seconds = m, !.cash = n].operations = grant.spent.operations
        /\ [grant.spent EXCEPT !.seconds = m, !.cash = n].seconds = m
        /\ [grant.spent EXCEPT !.seconds = m, !.cash = n].cash = n
    BY <1>4, <2>2 DEF Dims
  <2> QED
    BY <2>1, <2>3 DEF m, n
<1>7. /\ grant'.spent = SpentAfter(o, seconds, cash) /\ grant'.limits = grant.limits
      /\ grant'.revoked = (grant.revoked \/ Overspent(o, seconds, cash))
  BY <1>3 DEF GrantTypes
<1>8. grant' \in GrantTypes
  <2>1. Overspent(o, seconds, cash) \in BOOLEAN
    BY DEF Overspent
  <2> QED
    BY <1>3, <1>6, <2>1 DEF GrantTypes
<1>9. ops' \in [OpIds -> OpTypes] /\ \A x \in OpIds : x # o => ops'[x] = ops[x]
  BY <1>1, <1>2 DEF OpTypes
<1>10. ops'[o] = [state |-> "complete", seconds |-> seconds, cash |-> Charged(o, cash)]
  BY <1>2
<1> QED
  BY <1>2, <1>5, <1>6, <1>7, <1>8, <1>9, <1>10

(* The same accounts, on the set of the operations that were taken.        *)
Spends ==
  /\ grant.spent.operations = Cardinality(Taken)
  /\ grant.spent.seconds = SumFunctionOnSet([o \in Taken |-> ops[o].seconds], Taken)
  /\ grant.spent.cash = SumFunctionOnSet([o \in Taken |-> ops[o].cash], Taken)
  /\ grant.spent.operations =< grant.limits.operations
  /\ ~grant.revoked => Fits(grant.spent, grant.limits)

LEMMA SpendsIs == SpentIsAccounted <=> Spends
BY DEF SpentIsAccounted, Spends, Taken

(* Every step keeps the accounts.                                          *)
LEMMA AccountsStep ==
  ASSUME TypeOK, Accounts, OpsStep
  PROVE  Accounts'
<1>a. Spends /\ IsFiniteSet(Taken) /\ \A o \in OpIds : ops[o].state = "reserved" => ops[o] = Held(o)
  BY SpendsIs DEF Accounts
<1>b. \A o \in OpIds : ops[o] \in OpTypes
  BY DEF TypeOK, OpTypes
<1>c. grant.spent \in [Dims -> Nat] /\ grant.limits \in [Dims -> Nat] /\ Raised \in [Dims -> Nat] /\ grant.revoked \in BOOLEAN
  BY AssessmentAssumption DEF TypeOK, Dims
<1> SUFFICES IsFiniteSet(Taken') /\ Spends' /\ \A o \in OpIds : ops'[o].state = "reserved" => ops'[o] = Held(o)
  <2>1. SpentIsAccounted' <=> Spends'
    BY DEF SpentIsAccounted, Spends, Taken
  <2> QED
    BY <2>1 DEF Accounts, Held, Reserved
<1>1. CASE Keeping
  <2>1. Taken' = Taken /\ ops' = ops /\ grant'.spent = grant.spent
    BY <1>1 DEF Keeping, Taken
  <2>2. grant.spent.operations =< grant'.limits.operations
    BY <1>a, <1>c, <1>1 DEF Keeping, Spends, Fits, Dims
  <2>3. ~grant'.revoked => Fits(grant.spent, grant'.limits)
    BY <1>a, <1>c, <1>1 DEF Keeping, Spends, Fits, Dims
  <2> QED
    BY <1>a, <2>1, <2>2, <2>3 DEF Spends, Fits
<1>2. ASSUME NEW p \in Plans, NEW o \in OpIds, Reserving(p, o)
      PROVE  IsFiniteSet(Taken') /\ Spends' /\ \A x \in OpIds : ops'[x].state = "reserved" => ops'[x] = Held(x)
  <2>1. /\ ops[o].state = "absent" /\ ops'[o] = Held(o) /\ \A x \in OpIds : x # o => ops'[x] = ops[x]
        /\ grant'.revoked = grant.revoked /\ grant'.limits = grant.limits
        /\ grant'.spent.operations = grant.spent.operations + 1
        /\ grant'.spent.seconds = grant.spent.seconds + 1
        /\ grant'.spent.cash = grant.spent.cash + Reserved(o).cash
        /\ Fits(grant'.spent, grant'.limits)
    BY <1>2, ReserveBooks
  <2>2. Held(o).state = "reserved" /\ Held(o).seconds = 1 /\ Held(o).cash = Reserved(o).cash /\ Reserved(o).cash \in Nat
    BY Figures DEF Facts
  <2>3. o \notin Taken /\ Taken' = Taken \cup {o}
    BY <2>1, <2>2 DEF Taken
  <2> DEFINE T == Taken
             f == [x \in T |-> ops[x].seconds]
             g == [x \in T \cup {o} |-> ops'[x].seconds]
             h == [x \in T |-> ops[x].cash]
             k == [x \in T \cup {o} |-> ops'[x].cash]
  <2>4. (\A x \in T : f[x] \in Nat /\ g[x] = f[x]) /\ g[o] = 1
    BY <1>b, <2>1, <2>2, <2>3 DEF Taken, OpTypes
  <2>5. (\A x \in T : h[x] \in Nat /\ k[x] = h[x]) /\ k[o] = Reserved(o).cash /\ k[o] \in Nat
    BY <1>b, <2>1, <2>2, <2>3 DEF Taken, OpTypes
  <2>6. /\ grant.spent.seconds = SumFunctionOnSet(f, T) /\ grant.spent.cash = SumFunctionOnSet(h, T)
        /\ grant.spent.operations = Cardinality(T)
    BY <1>a DEF Spends
  <2>7. Spends' <=> /\ grant'.spent.operations = Cardinality(T \cup {o})
                    /\ grant'.spent.seconds = SumFunctionOnSet(g, T \cup {o})
                    /\ grant'.spent.cash = SumFunctionOnSet(k, T \cup {o})
                    /\ grant'.spent.operations =< grant'.limits.operations
                    /\ ~grant'.revoked => Fits(grant'.spent, grant'.limits)
    BY <2>3 DEF Spends, Fits
  <2>8. IsFiniteSet(T) /\ o \notin T /\ Taken' = T \cup {o}
    BY <1>a, <2>3
  <2> HIDE DEF T, f, g, h, k
  <2>9. Cardinality(T \cup {o}) = Cardinality(T) + 1 /\ IsFiniteSet(T \cup {o})
    BY <2>8, FS_AddElement
  <2>10. SumFunctionOnSet(g, T \cup {o}) = SumFunctionOnSet(f, T) + g[o]
    <3>1. g[o] \in Nat
      BY <2>4
    <3>2. \A x \in T : f[x] \in Nat /\ g[x] = f[x]
      BY <2>4
    <3>3. IsFiniteSet(T) /\ o \notin T
      BY <2>8
    <3> QED
      BY <3>1, <3>2, <3>3, SumTake
  <2>11. SumFunctionOnSet(k, T \cup {o}) = SumFunctionOnSet(h, T) + k[o]
    <3>1. k[o] \in Nat
      BY <2>5
    <3>2. \A x \in T : h[x] \in Nat /\ k[x] = h[x]
      BY <2>5
    <3>3. IsFiniteSet(T) /\ o \notin T
      BY <2>8
    <3> QED
      BY <3>1, <3>2, <3>3, SumTake
  <2>12. grant'.spent.operations =< grant'.limits.operations
    BY <2>1 DEF Fits, Dims
  <2>13. Spends'
    BY <2>1, <2>4, <2>5, <2>6, <2>7, <2>9, <2>10, <2>11, <2>12
  <2>14. \A x \in OpIds : ops'[x].state = "reserved" => ops'[x] = Held(x)
    BY <1>a, <2>1
  <2> QED
    BY <2>8, <2>9, <2>13, <2>14
<1>3. ASSUME NEW o \in OpIds, NEW seconds \in Nat, NEW cash \in Facts, Finish(o, seconds, cash)
      PROVE  IsFiniteSet(Taken') /\ Spends' /\ \A x \in OpIds : ops'[x].state = "reserved" => ops'[x] = Held(x)
  <2>1. /\ ops[o].state = "reserved" /\ \A x \in OpIds : x # o => ops'[x] = ops[x]
        /\ ops'[o] = [state |-> "complete", seconds |-> seconds, cash |-> Charged(o, cash)]
        /\ grant'.revoked = (grant.revoked \/ Overspent(o, seconds, cash)) /\ grant'.limits = grant.limits
        /\ grant'.spent.operations = grant.spent.operations
        /\ grant.spent.seconds >= 1 => grant'.spent.seconds = grant.spent.seconds - 1 + seconds
        /\ grant'.spent.cash = grant.spent.cash + Charged(o, cash) - Reserved(o).cash
    BY <1>3, FinishBooks
  <2>2. /\ ops[o].seconds = 1 /\ ops[o].cash = Reserved(o).cash /\ Reserved(o).cash \in Nat
        /\ Charged(o, cash) \in Nat /\ Charged(o, cash) >= Reserved(o).cash
        /\ ~Overspent(o, seconds, cash) => seconds =< 1 /\ Charged(o, cash) = Reserved(o).cash
    BY <1>a, <2>1, Figures
  <2>3. o \in Taken /\ Taken' = Taken
    BY <2>1 DEF Taken
  <2> DEFINE T == Taken
             f == [x \in T |-> ops[x].seconds]
             g == [x \in T |-> ops'[x].seconds]
             h == [x \in T |-> ops[x].cash]
             k == [x \in T |-> ops'[x].cash]
  <2>4. (\A x \in T : f[x] \in Nat /\ g[x] \in Nat) /\ (\A x \in T \ {o} : g[x] = f[x]) /\ f[o] = 1 /\ g[o] = seconds
    BY <1>b, <2>1, <2>2, <2>3 DEF Taken, OpTypes
  <2>5. /\ (\A x \in T : h[x] \in Nat /\ k[x] \in Nat) /\ (\A x \in T \ {o} : k[x] = h[x])
        /\ h[o] = Reserved(o).cash /\ k[o] = Charged(o, cash)
    BY <1>b, <2>1, <2>2, <2>3 DEF Taken, OpTypes
  <2>6. /\ grant.spent.seconds = SumFunctionOnSet(f, T) /\ grant.spent.cash = SumFunctionOnSet(h, T)
        /\ grant.spent.operations = Cardinality(T) /\ grant.spent.operations =< grant.limits.operations
    BY <1>a DEF Spends
  <2>7. Spends' <=> /\ grant'.spent.operations = Cardinality(T)
                    /\ grant'.spent.seconds = SumFunctionOnSet(g, T)
                    /\ grant'.spent.cash = SumFunctionOnSet(k, T)
                    /\ grant'.spent.operations =< grant'.limits.operations
                    /\ ~grant'.revoked => Fits(grant'.spent, grant'.limits)
    BY <2>3 DEF Spends, Fits
  <2>8. IsFiniteSet(T) /\ o \in T /\ Taken' = T
    BY <1>a, <2>3
  <2> HIDE DEF T, f, g, h, k
  <2>9. SumFunctionOnSet(g, T) = SumFunctionOnSet(f, T) - f[o] + g[o] /\ SumFunctionOnSet(f, T) >= f[o]
    BY <2>4, <2>8, SumReplace
  <2>10. SumFunctionOnSet(k, T) = SumFunctionOnSet(h, T) - h[o] + k[o] /\ SumFunctionOnSet(h, T) \in Nat
    BY <2>5, <2>8, SumReplace
  <2>11. /\ grant'.spent.seconds = grant.spent.seconds - 1 + seconds
         /\ grant'.spent.seconds = SumFunctionOnSet(g, T) /\ grant'.spent.cash = SumFunctionOnSet(k, T)
    BY <2>1, <2>2, <2>4, <2>5, <2>6, <2>9, <2>10
  <2>12. ASSUME ~grant'.revoked PROVE Fits(grant'.spent, grant'.limits)
    <3>1. ~grant.revoked /\ ~Overspent(o, seconds, cash)
      BY <1>c, <2>1, <2>12 DEF Overspent
    <3>2. Fits(grant.spent, grant.limits)
      BY <1>a, <3>1 DEF Spends
    <3>3. grant'.spent.seconds =< grant.spent.seconds /\ grant'.spent.cash = grant.spent.cash
      BY <1>c, <2>1, <2>2, <2>11, <3>1 DEF Dims
    <3>4. /\ grant'.spent.operations =< grant'.limits.operations
          /\ grant'.spent.seconds =< grant'.limits.seconds /\ grant'.spent.cash =< grant'.limits.cash
      <4>1. /\ grant.spent.operations =< grant.limits.operations
            /\ grant.spent.seconds =< grant.limits.seconds /\ grant.spent.cash =< grant.limits.cash
        BY <3>2 DEF Fits, Dims
      <4>2. grant.spent.seconds \in Nat /\ grant.limits.seconds \in Nat
        BY <1>c DEF Dims
      <4> QED
        BY <1>3, <2>1, <2>2, <2>11, <3>1, <3>3, <4>1, <4>2
    <3> QED
      BY <3>4 DEF Fits, Dims
  <2>13. Spends'
    BY <2>1, <2>6, <2>7, <2>11, <2>12
  <2>14. \A x \in OpIds : ops'[x].state = "reserved" => ops'[x] = Held(x)
    BY <1>a, <2>1
  <2> QED
    BY <2>8, <2>13, <2>14
<1> QED
  BY <1>1, <1>2, <1>3 DEF OpsStep

(* What is measured stays so, and what is taken stays taken; a reservation *)
(* is only for the run that makes it.                                      *)
LEMMA OpsGrow ==
  ASSUME TypeOK, OpsStep
  PROVE  /\ \A o \in OpIds : ops[o].state = "complete" => ops'[o].state = "complete"
         /\ \A o \in OpIds : ops[o].state # "absent" => ops'[o].state # "absent"
         /\ ops' \in [OpIds -> OpTypes]
<1>1. CASE Keeping
  BY <1>1 DEF Keeping, TypeOK, OpTypes
<1>2. ASSUME NEW p \in Plans, NEW o \in OpIds, Reserving(p, o)
      PROVE  /\ \A x \in OpIds : ops[x].state = "complete" => ops'[x].state = "complete"
             /\ \A x \in OpIds : ops[x].state # "absent" => ops'[x].state # "absent"
             /\ ops' \in [OpIds -> OpTypes]
  <2>1. /\ ops' \in [OpIds -> OpTypes] /\ ops[o].state = "absent"
        /\ \A x \in OpIds : x # o => ops'[x] = ops[x]
    BY <1>2, ReserveBooks
  <2> QED
    BY <2>1
<1>3. ASSUME NEW o \in OpIds, NEW seconds \in Nat, NEW cash \in Facts, Finish(o, seconds, cash)
      PROVE  /\ \A x \in OpIds : ops[x].state = "complete" => ops'[x].state = "complete"
             /\ \A x \in OpIds : ops[x].state # "absent" => ops'[x].state # "absent"
             /\ ops' \in [OpIds -> OpTypes]
  <2>1. /\ ops' \in [OpIds -> OpTypes] /\ \A x \in OpIds : x # o => ops'[x] = ops[x]
        /\ ops'[o] = [state |-> "complete", seconds |-> seconds, cash |-> Charged(o, cash)]
    BY <1>3, FinishBooks
  <2> QED
    BY <2>1
<1> QED
  BY <1>1, <1>2, <1>3 DEF OpsStep

-----------------------------------------------------------------------------
SideTypes ==
  /\ reviewed \subseteq Plans /\ outdated \subseteq Plans /\ cancelled \subseteq Plans /\ discredited \subseteq Plans
  /\ job \in [Plans -> JobStates]
  /\ admission \in [plan : Plans \cup {NoPlan}, revoked : BOOLEAN]
  /\ report \in [Plans -> [outcome : {"none", "useful", "other"}, stored : BOOLEAN]]
  /\ pc \in [Plans -> Steps]
  /\ trial \in [Plans -> 1 .. Trials + 1]
  /\ valid \in [Plans -> SUBSET (1 .. Trials)]
  /\ screened \in [Plans -> SUBSET {RouteOf[t] : t \in Screening}]
  /\ failed \in [Plans -> BOOLEAN]
  /\ command \in [Plans -> 0 .. MaxEvents]
  /\ withdrawn \in BOOLEAN
  /\ events \in 0 .. MaxEvents

(* How a run goes on after it reads the shared cost or tries to reserve.   *)
LEMMA CostRead ==
  ASSUME TypeOK, NEW p \in Plans, ReadCost(p)
  PROVE  \/ pc' = [pc EXCEPT ![p] = "paying"] /\ failed' = failed
         \/ pc' = [pc EXCEPT ![p] = "grader"] /\ failed' = failed
         \/ pc' = [pc EXCEPT ![p] = "fitting"] /\ failed' = [failed EXCEPT ![p] = TRUE]
<1>0. ops[Cost].state \in {"absent", "reserved", "complete"}
  BY OpNames DEF TypeOK
<1>1. CASE ops[Cost].state = "absent"
  BY <1>1 DEF ReadCost, Goto
<1>2. CASE ops[Cost].state = "complete"
  BY <1>2 DEF ReadCost, Goto
<1>3. CASE ops[Cost].state = "reserved"
  BY <1>3 DEF ReadCost, Goto, Fail
<1> QED
  BY <1>0, <1>1, <1>2, <1>3

LEMMA Tried ==
  ASSUME NEW p \in Plans, NEW o, NEW ok, NEW l, TryReserve(p, o, ok, l)
  PROVE  \/ Reservable(p, o) /\ Reserve(o) /\ pc' = [pc EXCEPT ![p] = l] /\ failed' = failed
         \/ pc' = [pc EXCEPT ![p] = "fitting"] /\ failed' = [failed EXCEPT ![p] = TRUE] /\ UNCHANGED <<ops, grant>>
<1>1. CASE ok /\ Reservable(p, o)
  BY <1>1 DEF TryReserve, Goto
<1>2. CASE ~(ok /\ Reservable(p, o))
  BY <1>2 DEF TryReserve, Goto, Fail
<1> QED
  BY <1>1, <1>2

(* Every step keeps the types of all but the grant and its operations.     *)
LEMMA SideTypesStep ==
  ASSUME TypeOK, Progress, [Next]_vars
  PROVE  SideTypes'
<1> USE DEF SideTypes, operatorVars, campaignVars, Event
<1>0. Trials \in Nat \ {0} /\ MaxEvents \in Nat /\ SideTypes
  BY AssessmentAssumption DEF TypeOK
<1>t. \A p \in Plans : pc[p] \in Testing => trial[p] \in 1 .. Trials
  BY <1>0 DEF Progress, Campaign
<1> USE <1>0
<1>1. ASSUME RevokeGrant PROVE SideTypes'
  <2>1. admission' \in [plan : Plans \cup {NoPlan}, revoked : BOOLEAN]
    BY <1>1 DEF RevokeGrant, WithdrawAdmission
  <2>2. outdated' \subseteq Plans /\ discredited' \subseteq Plans
    BY <1>1 DEF RevokeGrant, WithdrawAdmission, Created
  <2>3. withdrawn' \in BOOLEAN /\ events' \in 0 .. MaxEvents
    BY <1>1 DEF RevokeGrant
  <2>4. UNCHANGED <<reviewed, job, report, pc, trial, valid, screened, failed, command, cancelled>>
    BY <1>1 DEF RevokeGrant
  <2> QED
    BY <2>1, <2>2, <2>3, <2>4
<1>2. ASSUME Expire PROVE SideTypes'
  BY <1>2 DEF Expire
<1>3. ASSUME Amend PROVE SideTypes'
  BY <1>3 DEF Amend
<1>4. ASSUME RevokeAdmission PROVE SideTypes'
  <2>1. admission' \in [plan : Plans \cup {NoPlan}, revoked : BOOLEAN]
    BY <1>4 DEF RevokeAdmission, WithdrawAdmission
  <2>2. outdated' \subseteq Plans /\ discredited' \subseteq Plans
    BY <1>4 DEF RevokeAdmission, WithdrawAdmission, Created
  <2>3. withdrawn' \in BOOLEAN /\ events' \in 0 .. MaxEvents
    BY <1>4 DEF RevokeAdmission
  <2>4. UNCHANGED <<reviewed, job, report, pc, trial, valid, screened, failed, command, cancelled>>
    BY <1>4 DEF RevokeAdmission
  <2> QED
    BY <2>1, <2>2, <2>3, <2>4
<1>5. ASSUME NEW p \in Plans, Enqueue(p) PROVE SideTypes'
  BY <1>5 DEF Enqueue, At, Goto, Steps, JobStates
<1>6. ASSUME NEW p \in Plans, Cancel(p) PROVE SideTypes'
  BY <1>6 DEF Cancel, At, Goto, Steps, JobStates
<1>7. ASSUME NEW p \in Plans, Review(p) PROVE SideTypes'
  BY <1>7 DEF Review, At, Goto, Steps
<1>8. ASSUME NEW p \in Plans, AdmitAgain(p) PROVE SideTypes'
  <2>1. /\ admission' \in [plan : Plans \cup {NoPlan}, revoked : BOOLEAN] /\ outdated' \subseteq Plans
        /\ command' \in [Plans -> 0 .. MaxEvents]
    <3>1. CASE Admit(p) /\ UNCHANGED <<grant, ops, command>>
      <4>1. admission' = [plan |-> p, revoked |-> FALSE] /\ outdated' = {} /\ command' = command
        BY <3>1 DEF Admit
      <4>2. [plan |-> p, revoked |-> FALSE] \in [plan : Plans \cup {NoPlan}, revoked : BOOLEAN]
        OBVIOUS
      <4> QED
        BY <4>1, <4>2
    <3>2. CASE ~(Admit(p) /\ UNCHANGED <<grant, ops, command>>)
      <4>1. UNCHANGED <<admission, outdated>> /\ command' = [command EXCEPT ![p] = events + 1]
        BY <1>8, <3>2 DEF AdmitAgain
      <4>2. events + 1 \in 0 .. MaxEvents
        BY <1>8 DEF AdmitAgain
      <4> QED
        BY <4>1, <4>2
    <3> QED
      BY <3>1, <3>2
  <2>2. UNCHANGED <<reviewed, job, report, pc, trial, valid, screened, failed, withdrawn, cancelled, discredited>>
    BY <1>8 DEF AdmitAgain
  <2>3. events' \in 0 .. MaxEvents
    BY <1>8 DEF AdmitAgain
  <2> QED
    BY <2>1, <2>2, <2>3
<1>9. ASSUME NEW p \in Plans, BeginRun(p) PROVE SideTypes'
  BY <1>9 DEF BeginRun, At, Goto, Steps
<1>10. ASSUME NEW p \in Plans, Claim(p) PROVE SideTypes'
  BY <1>10 DEF Claim, At, Goto, Steps, JobStates
<1>11. ASSUME NEW p \in Plans, ReserveStage(p) PROVE SideTypes'
  <2>1. pc' \in [Plans -> Steps]
    <3>1. \E l \in Steps : pc' = [pc EXCEPT ![p] = l]
      BY <1>11, Tried DEF ReserveStage, Steps
    <3> QED
      BY <3>1
  <2>2. failed' \in [Plans -> BOOLEAN]
    BY <1>11 DEF ReserveStage, At, Goto, Steps, TryReserve, Fail
  <2>3. UNCHANGED <<reviewed, outdated, cancelled, discredited, job, admission, report, trial, valid, screened, command, withdrawn, events>>
    BY <1>11 DEF ReserveStage
  <2> QED
    BY <2>1, <2>2, <2>3
<1>12. ASSUME NEW p \in Plans, ReadCost(p) PROVE SideTypes'
  <2>1. pc' \in [Plans -> Steps]
    BY <1>12, CostRead DEF Steps
  <2>2. failed' \in [Plans -> BOOLEAN]
    BY <1>12, CostRead DEF Steps
  <2>3. UNCHANGED <<reviewed, outdated, cancelled, discredited, job, admission, report, trial, valid, screened, command, withdrawn, events>>
    BY <1>12 DEF ReadCost
  <2> QED
    BY <2>1, <2>2, <2>3
<1>13. ASSUME NEW p \in Plans, FinishStage(p) PROVE SideTypes'
  <2>1. pc' \in [Plans -> Steps]
    <3>1. \E l \in {"grader", "setup", "trial", "fitting"} : pc' = [pc EXCEPT ![p] = l]
      BY <1>13 DEF FinishStage, Goto, Fail
    <3> QED
      BY <3>1 DEF Steps
  <2>2. failed' \in [Plans -> BOOLEAN]
    BY <1>13 DEF FinishStage, At, Goto, Steps, Fail
  <2>3. UNCHANGED <<reviewed, outdated, cancelled, discredited, job, admission, report, trial, valid, screened, command, withdrawn, events>>
    BY <1>13 DEF FinishStage
  <2> QED
    BY <2>1, <2>2, <2>3
<1>14. ASSUME NEW p \in Plans, Preflight(p) PROVE SideTypes'
  BY <1>14 DEF Preflight, At, Goto, Steps, Fail
<1>15. ASSUME NEW p \in Plans, Answer(p) PROVE SideTypes'
  <2>1. trial[p] \in 1 .. Trials
    BY <1>15, <1>t DEF Answer, At, Testing
  <2>2. /\ trial' \in [Plans -> 1 .. Trials + 1] /\ valid' \in [Plans -> SUBSET (1 .. Trials)]
        /\ screened' \in [Plans -> SUBSET {RouteOf[t] : t \in Screening}]
    <3>1. \/ trial' = trial
          \/ \E t \in 1 .. Trials + 1 : trial' = [trial EXCEPT ![p] = t]
      BY <1>15 DEF Answer
    <3>2. valid' = valid \/ valid' = [valid EXCEPT ![p] = valid[p] \cup {trial[p]}]
      BY <1>15 DEF Answer
    <3>3. \/ screened' = screened
          \/ trial[p] \in Screening /\ screened' = [screened EXCEPT ![p] = screened[p] \cup {RouteOf[trial[p]]}]
      BY <1>15 DEF Answer
    <3>4. screened[p] \cup {RouteOf[trial[p]]} \subseteq {RouteOf[t] : t \in Screening} \/ trial[p] \notin Screening
      OBVIOUS
    <3>5. trial' \in [Plans -> 1 .. Trials + 1]
      BY <3>1
    <3>6. valid' \in [Plans -> SUBSET (1 .. Trials)]
      BY <2>1, <3>2
    <3>7. screened' \in [Plans -> SUBSET {RouteOf[t] : t \in Screening}]
      BY <3>3, <3>4
    <3> QED
      BY <3>5, <3>6, <3>7
  <2>3. pc' \in [Plans -> Steps]
    BY <1>15 DEF Answer, Fail, Goto, Steps
  <2>4. failed' \in [Plans -> BOOLEAN]
    BY <1>15 DEF Answer, Fail
  <2>5. UNCHANGED <<reviewed, outdated, cancelled, discredited, job, admission, report, command, withdrawn, events>>
    BY <1>15 DEF Answer
  <2> QED
    BY <2>2, <2>3, <2>4, <2>5
<1>16. ASSUME NEW p \in Plans, MarkInterrupted(p) PROVE SideTypes'
  BY <1>16 DEF MarkInterrupted, At, Goto, Steps, JobStates
<1>17. ASSUME NEW p \in Plans, Fit(p) PROVE SideTypes'
  <2>1. report' \in [Plans -> [outcome : {"none", "useful", "other"}, stored : BOOLEAN]]
    <3>1. \E outcome \in {"useful", "other"} : report' = [report EXCEPT ![p].outcome = outcome]
      BY <1>17 DEF Fit, FitOutcomes
    <3> QED
      BY <3>1
  <2>2. pc' \in [Plans -> Steps]
    BY <1>17 DEF Fit, Goto, Steps
  <2>3. UNCHANGED <<reviewed, outdated, cancelled, discredited, job, admission, trial, valid, screened, failed, command, withdrawn, events>>
    BY <1>17 DEF Fit
  <2> QED
    BY <2>1, <2>2, <2>3
<1>18. ASSUME NEW p \in Plans, Record(p) PROVE SideTypes'
  BY <1>18 DEF Record, At, Goto, Steps
<1>19. ASSUME NEW p \in Plans, Complete(p) PROVE SideTypes'
  BY <1>19 DEF Complete, At, Goto, Steps, JobStates
<1>20. ASSUME NEW p \in Plans, AdmitOwn(p) PROVE SideTypes'
  <2>1. admission' \in [plan : Plans \cup {NoPlan}, revoked : BOOLEAN] /\ outdated' \subseteq Plans
    <3>1. CASE Admissible(p)
      <4>1. Admit(p)
        BY <1>20, <3>1 DEF AdmitOwn
      <4> QED
        BY <4>1 DEF Admit
    <3>2. CASE ~Admissible(p)
      BY <1>20, <3>2 DEF AdmitOwn
    <3> QED
      BY <3>1, <3>2
  <2>2. pc' \in [Plans -> Steps]
    BY <1>20 DEF AdmitOwn, Goto, Steps
  <2>3. UNCHANGED <<reviewed, cancelled, discredited, job, report, trial, valid, screened, failed, command, withdrawn, events>>
    BY <1>20 DEF AdmitOwn
  <2> QED
    BY <2>1, <2>2, <2>3
<1>21. ASSUME NEW p \in Plans, Interrupt(p) PROVE SideTypes'
  BY <1>21 DEF Interrupt, At, Goto, Steps
<1>22. ASSUME NEW p \in Plans, Crash(p) PROVE SideTypes'
  BY <1>22 DEF Crash, At, Goto, Steps
<1>23. ASSUME NEW p \in Plans, MarkDead(p) PROVE SideTypes'
  BY <1>23 DEF MarkDead, At, Goto, Steps, JobStates
<1>24. ASSUME UNCHANGED vars PROVE SideTypes'
  BY <1>24 DEF vars
<1>25. ASSUME NEW p \in Plans, InsertJob(p) PROVE SideTypes'
  BY <1>25 DEF InsertJob, Steps, JobStates
<1>26. ASSUME NEW p \in Plans, ResolveIdentity(p) PROVE SideTypes'
  <2>1. command' \in [Plans -> 0 .. MaxEvents]
    BY <1>26 DEF ResolveIdentity
  <2>2. UNCHANGED <<reviewed, outdated, cancelled, discredited, job, admission, report, pc, trial, valid,
                    screened, failed, withdrawn, events>>
    BY <1>26 DEF ResolveIdentity
  <2> QED
    BY <2>1, <2>2
<1>27. ASSUME NEW p \in Plans, AdmitResolved(p) PROVE SideTypes'
  <2>1. admission' \in [plan : Plans \cup {NoPlan}, revoked : BOOLEAN] /\ outdated' \subseteq Plans
    <3>1. CASE Admit(p)
      <4>1. admission' = [plan |-> p, revoked |-> FALSE] /\ outdated' = {}
        BY <3>1 DEF Admit
      <4>2. [plan |-> p, revoked |-> FALSE] \in [plan : Plans \cup {NoPlan}, revoked : BOOLEAN]
        OBVIOUS
      <4> QED
        BY <4>1, <4>2
    <3>2. CASE ~Admit(p)
      BY <1>27, <3>2 DEF AdmitResolved
    <3> QED
      BY <3>1, <3>2
  <2>2. command' \in [Plans -> 0 .. MaxEvents]
    BY <1>27 DEF AdmitResolved
  <2>3. UNCHANGED <<reviewed, cancelled, discredited, job, report, pc, trial, valid, screened, failed,
                    withdrawn, events>>
    BY <1>27 DEF AdmitResolved
  <2> QED
    BY <2>1, <2>2, <2>3
<1>28. ASSUME NEW p \in Plans, LoseCommand(p) PROVE SideTypes'
  BY <1>28 DEF LoseCommand
<1> QED
  BY <1>1, <1>2, <1>3, <1>4, <1>5, <1>6, <1>7, <1>8, <1>9, <1>10, <1>11, <1>12, <1>13, <1>14, <1>15, <1>16, <1>17, <1>18, <1>19, <1>20, <1>21, <1>22, <1>23, <1>24, <1>25, <1>26, <1>27, <1>28 DEF Next, Work

-----------------------------------------------------------------------------
(* No step takes a route back that was put out.                            *)
LEMMA ScreenedGrows ==
  ASSUME TypeOK, [Next]_vars
  PROVE  \A q \in Plans : screened[q] \subseteq screened'[q]
<1> USE DEF operatorVars, campaignVars
<1> DEFINE Grows == \A q \in Plans : screened[q] \subseteq screened'[q]
<1>y. screened \in [Plans -> SUBSET {RouteOf[t] : t \in Screening}]
  BY DEF TypeOK
<1>1. ASSUME RevokeGrant PROVE Grows
  BY <1>1 DEF RevokeGrant
<1>2. ASSUME Expire PROVE Grows
  BY <1>2 DEF Expire
<1>3. ASSUME Amend PROVE Grows
  BY <1>3 DEF Amend
<1>4. ASSUME RevokeAdmission PROVE Grows
  BY <1>4 DEF RevokeAdmission
<1>5. ASSUME NEW p \in Plans, Enqueue(p) PROVE Grows
  BY <1>5 DEF Enqueue
<1>6. ASSUME NEW p \in Plans, Cancel(p) PROVE Grows
  BY <1>6 DEF Cancel
<1>7. ASSUME NEW p \in Plans, Review(p) PROVE Grows
  BY <1>7 DEF Review
<1>8. ASSUME NEW p \in Plans, AdmitAgain(p) PROVE Grows
  BY <1>8 DEF AdmitAgain
<1>9. ASSUME NEW p \in Plans, BeginRun(p) PROVE Grows
  BY <1>9 DEF BeginRun
<1>10. ASSUME NEW p \in Plans, Claim(p) PROVE Grows
  BY <1>10 DEF Claim
<1>11. ASSUME NEW p \in Plans, ReserveStage(p) PROVE Grows
  BY <1>11 DEF ReserveStage
<1>12. ASSUME NEW p \in Plans, ReadCost(p) PROVE Grows
  BY <1>12 DEF ReadCost
<1>13. ASSUME NEW p \in Plans, FinishStage(p) PROVE Grows
  BY <1>13 DEF FinishStage
<1>14. ASSUME NEW p \in Plans, Preflight(p) PROVE Grows
  BY <1>14 DEF Preflight
<1>15. ASSUME NEW p \in Plans, Answer(p) PROVE Grows
  <2>1. screened' = screened \/ screened' = [screened EXCEPT ![p] = screened[p] \cup {RouteOf[trial[p]]}]
    BY <1>15 DEF Answer
  <2> QED
    BY <1>y, <2>1
<1>16. ASSUME NEW p \in Plans, MarkInterrupted(p) PROVE Grows
  BY <1>16 DEF MarkInterrupted
<1>17. ASSUME NEW p \in Plans, Fit(p) PROVE Grows
  BY <1>17 DEF Fit
<1>18. ASSUME NEW p \in Plans, Record(p) PROVE Grows
  BY <1>18 DEF Record
<1>19. ASSUME NEW p \in Plans, Complete(p) PROVE Grows
  BY <1>19 DEF Complete
<1>20. ASSUME NEW p \in Plans, AdmitOwn(p) PROVE Grows
  BY <1>20 DEF AdmitOwn
<1>21. ASSUME NEW p \in Plans, Interrupt(p) PROVE Grows
  BY <1>21 DEF Interrupt
<1>22. ASSUME NEW p \in Plans, Crash(p) PROVE Grows
  BY <1>22 DEF Crash
<1>23. ASSUME NEW p \in Plans, MarkDead(p) PROVE Grows
  BY <1>23 DEF MarkDead
<1>24. ASSUME UNCHANGED vars PROVE Grows
  BY <1>24 DEF vars
<1>25. ASSUME NEW p \in Plans, InsertJob(p) PROVE Grows
  BY <1>25 DEF InsertJob
<1>26. ASSUME NEW p \in Plans, ResolveIdentity(p) PROVE Grows
  BY <1>26 DEF ResolveIdentity
<1>27. ASSUME NEW p \in Plans, AdmitResolved(p) PROVE Grows
  BY <1>27 DEF AdmitResolved
<1>28. ASSUME NEW p \in Plans, LoseCommand(p) PROVE Grows
  BY <1>28 DEF LoseCommand
<1> QED
  BY <1>1, <1>2, <1>3, <1>4, <1>5, <1>6, <1>7, <1>8, <1>9, <1>10, <1>11, <1>12, <1>13, <1>14, <1>15, <1>16, <1>17, <1>18, <1>19, <1>20, <1>21, <1>22, <1>23, <1>24, <1>25, <1>26, <1>27, <1>28 DEF Next, Work

(* A run whose trials a step leaves alone keeps what its screening found.  *)
LEMMA ScreensKept ==
  ASSUME NEW p \in Plans, Screens(p), trial'[p] = trial[p], valid'[p] = valid[p], screened'[p] = screened[p],
         \/ pc'[p] = pc[p]
         \/ pc[p] \in Starting
         \/ pc[p] \in Testing /\ pc'[p] \in Testing
         \/ pc'[p] \notin Starting \cup Testing
  PROVE  Screens(p)'
<1>1. /\ \A t \in valid'[p] : t < trial'[p]
      /\ \A t \in valid'[p] : t \in Paired => RouteOf[t] \notin screened'[p]
  BY DEF Screens
<1>2. pc'[p] \in Testing => RouteOf[trial'[p]] \notin screened'[p]
  BY DEF Screens
<1>3. pc'[p] \in Starting => screened'[p] = {}
  BY DEF Screens, Starting, Testing
<1> QED
  BY <1>1, <1>2, <1>3 DEF Screens

(* Every step keeps the screening in line with the trials.                 *)
LEMMA ScreensStep ==
  ASSUME TypeOK, Progress, [Next]_vars
  PROVE  \A q \in Plans : Screens(q)'
<1> USE DEF operatorVars, campaignVars
<1>y. /\ pc \in [Plans -> Steps] /\ valid \in [Plans -> SUBSET (1 .. Trials)]
      /\ screened \in [Plans -> SUBSET {RouteOf[t] : t \in Screening}]
      /\ trial \in [Plans -> 1 .. Trials + 1] /\ Trials \in Nat \ {0}
  BY AssessmentAssumption DEF TypeOK
<1>a. \A q \in Plans : Screens(q) /\ Campaign(q)
  BY DEF Progress
<1>k. \A q \in Plans : /\ trial'[q] = trial[q] /\ valid'[q] = valid[q] /\ screened'[q] = screened[q]
                       /\ \/ pc'[q] = pc[q]
                          \/ pc[q] \in Starting
                          \/ pc[q] \in Testing /\ pc'[q] \in Testing
                          \/ pc'[q] \notin Starting \cup Testing
                       => Screens(q)'
  BY <1>a, ScreensKept
<1>1. ASSUME RevokeGrant PROVE \A q \in Plans : Screens(q)'
  BY <1>1, <1>k DEF RevokeGrant
<1>2. ASSUME Expire PROVE \A q \in Plans : Screens(q)'
  BY <1>2, <1>k DEF Expire
<1>3. ASSUME Amend PROVE \A q \in Plans : Screens(q)'
  BY <1>3, <1>k DEF Amend
<1>4. ASSUME RevokeAdmission PROVE \A q \in Plans : Screens(q)'
  BY <1>4, <1>k DEF RevokeAdmission
<1>5. ASSUME NEW p \in Plans, Enqueue(p) PROVE \A q \in Plans : Screens(q)'
  <2>1. trial' = trial /\ valid' = valid /\ screened' = screened
    BY <1>5 DEF Enqueue
  <2>2. pc' = [pc EXCEPT ![p] = "enqueuing"]
    BY <1>5 DEF Enqueue, Goto
  <2>3. pc'[p] = "enqueuing" /\ \A q \in Plans : q # p => pc'[q] = pc[q]
    BY <1>y, <2>2
  <2>4. pc[p] \in Starting
    BY <1>5 DEF Enqueue, At, Starting
  <2> QED
    BY <1>k, <2>1, <2>3, <2>4
<1>6. ASSUME NEW p \in Plans, Cancel(p) PROVE \A q \in Plans : Screens(q)'
  BY <1>6, <1>k DEF Cancel
<1>7. ASSUME NEW p \in Plans, Review(p) PROVE \A q \in Plans : Screens(q)'
  BY <1>7, <1>k DEF Review
<1>8. ASSUME NEW p \in Plans, AdmitAgain(p) PROVE \A q \in Plans : Screens(q)'
  BY <1>8, <1>k DEF AdmitAgain
<1>9. ASSUME NEW p \in Plans, BeginRun(p) PROVE \A q \in Plans : Screens(q)'
  <2>1. trial' = trial /\ valid' = valid /\ screened' = screened
    BY <1>9 DEF BeginRun
  <2>2. pc' = [pc EXCEPT ![p] = "ready"]
    BY <1>9 DEF BeginRun, Goto
  <2>3. pc'[p] = "ready" /\ \A q \in Plans : q # p => pc'[q] = pc[q]
    BY <1>y, <2>2
  <2>4. pc[p] \in Starting
    BY <1>9 DEF BeginRun, At, Starting
  <2> QED
    BY <1>k, <2>1, <2>3, <2>4
<1>10. ASSUME NEW p \in Plans, Claim(p) PROVE \A q \in Plans : Screens(q)'
  <2>1. trial' = trial /\ valid' = valid /\ screened' = screened /\ pc[p] \in {"ready"}
    BY <1>10 DEF Claim, At
  <2>2. \E l \in {"claimed", "idle"} : pc' = [pc EXCEPT ![p] = l]
    BY <1>10 DEF Claim, Goto
  <2>3. pc'[p] \in {"claimed", "idle"} /\ \A q \in Plans : q # p => pc'[q] = pc[q]
    BY <1>y, <2>2
  <2> QED
    BY <1>k, <2>1, <2>3 DEF Starting, Testing
<1>11. ASSUME NEW p \in Plans, ReserveStage(p) PROVE \A q \in Plans : Screens(q)'
  <2>1. trial' = trial /\ valid' = valid /\ screened' = screened /\ pc[p] \in {"claimed", "paying", "grader", "setup", "trial"}
    BY <1>11 DEF ReserveStage, At
  <2>2. \E l \in {"cost", "costing", "grading", "settingUp", "preflight", "fitting"} : pc' = [pc EXCEPT ![p] = l]
    BY <1>11, Tried DEF ReserveStage
  <2>3. pc'[p] \in {"cost", "costing", "grading", "settingUp", "preflight", "fitting"} /\ \A q \in Plans : q # p => pc'[q] = pc[q]
    BY <1>y, <2>2
  <2>4. pc[p] = "trial" => pc'[p] \in {"preflight", "fitting"}
    <3> SUFFICES ASSUME pc[p] = "trial" PROVE pc'[p] \in {"preflight", "fitting"}
      OBVIOUS
    <3>1. TryReserve(p, <<p, "trial", trial[p]>>, job[p] = "running", "preflight")
      BY <1>11 DEF ReserveStage, At
    <3>2. \E l \in {"preflight", "fitting"} : pc' = [pc EXCEPT ![p] = l]
      BY <3>1, Tried
    <3> QED
      BY <1>y, <3>2
  <2> QED
    BY <1>k, <2>1, <2>3, <2>4 DEF Starting, Testing
<1>12. ASSUME NEW p \in Plans, ReadCost(p) PROVE \A q \in Plans : Screens(q)'
  <2>1. trial' = trial /\ valid' = valid /\ screened' = screened /\ pc[p] \in {"cost"}
    BY <1>12 DEF ReadCost, At
  <2>2. \E l \in {"paying", "grader", "fitting"} : pc' = [pc EXCEPT ![p] = l]
    BY <1>12, CostRead
  <2>3. pc'[p] \in {"paying", "grader", "fitting"} /\ \A q \in Plans : q # p => pc'[q] = pc[q]
    BY <1>y, <2>2
  <2> QED
    BY <1>k, <2>1, <2>3 DEF Starting, Testing
<1>13. ASSUME NEW p \in Plans, FinishStage(p) PROVE \A q \in Plans : Screens(q)'
  <2>1. trial' = trial /\ valid' = valid /\ screened' = screened /\ pc[p] \in {"costing", "grading", "settingUp"}
    BY <1>13 DEF FinishStage, At
  <2>2. \E l \in {"grader", "setup", "trial", "fitting"} : pc' = [pc EXCEPT ![p] = l]
    BY <1>13 DEF FinishStage, Goto, Fail
  <2>3. pc'[p] \in {"grader", "setup", "trial", "fitting"} /\ \A q \in Plans : q # p => pc'[q] = pc[q]
    BY <1>y, <2>2
  <2> QED
    BY <1>k, <2>1, <2>3 DEF Starting, Testing
<1>14. ASSUME NEW p \in Plans, Preflight(p) PROVE \A q \in Plans : Screens(q)'
  <2>1. trial' = trial /\ valid' = valid /\ screened' = screened /\ pc[p] \in {"preflight"}
    BY <1>14 DEF Preflight, At
  <2>2. \E l \in {"invoking", "fitting"} : pc' = [pc EXCEPT ![p] = l]
    BY <1>14 DEF Preflight, Goto, Fail
  <2>3. pc'[p] \in {"invoking", "fitting"} /\ \A q \in Plans : q # p => pc'[q] = pc[q]
    BY <1>y, <2>2
  <2> QED
    BY <1>k, <2>1, <2>3 DEF Starting, Testing
<1>15. ASSUME NEW p \in Plans, Answer(p) PROVE \A q \in Plans : Screens(q)'
  <2>1. /\ pc[p] = "invoking" /\ trial[p] \in 1 .. Trials /\ Screens(p) /\ \A t \in valid[p] : t \in 1 .. Trials
    BY <1>15, <1>y, <1>a DEF Answer, At, Testing, Campaign
  <2>2. \/ /\ \/ valid' = [valid EXCEPT ![p] = valid[p] \cup {trial[p]}] /\ screened' = screened
              \/ valid' = valid /\ screened' = screened
              \/ /\ trial[p] \in Screening /\ valid' = valid
                 /\ screened' = [screened EXCEPT ![p] = screened[p] \cup {RouteOf[trial[p]]}]
           /\ \E t \in 1 .. Trials + 1 :
                /\ NextTrial(p, screened'[p], t)
                /\ trial' = [trial EXCEPT ![p] = t]
                /\ pc' = [pc EXCEPT ![p] = IF t > Trials THEN "fitting" ELSE "trial"]
        \/ trial' = trial /\ pc' = [pc EXCEPT ![p] = "fitting"] /\ valid' = valid /\ screened' = screened
    BY <1>15 DEF Answer, Goto, Fail
  <2>3. \A q \in Plans : q # p => pc'[q] = pc[q] /\ valid'[q] = valid[q] /\ screened'[q] = screened[q] /\ trial'[q] = trial[q]
    BY <1>y, <2>2
  <2>4. CASE trial' = trial /\ pc' = [pc EXCEPT ![p] = "fitting"] /\ valid' = valid /\ screened' = screened
    <3>1. pc'[p] = "fitting"
      BY <1>y, <2>4
    <3> QED
      BY <1>k, <2>3, <2>4, <3>1 DEF Starting, Testing
  <2>5. ASSUME NEW t \in 1 .. Trials + 1, NextTrial(p, screened'[p], t), trial' = [trial EXCEPT ![p] = t],
               pc' = [pc EXCEPT ![p] = IF t > Trials THEN "fitting" ELSE "trial"],
               \/ valid' = [valid EXCEPT ![p] = valid[p] \cup {trial[p]}] /\ screened' = screened
               \/ valid' = valid /\ screened' = screened
               \/ /\ trial[p] \in Screening /\ valid' = valid
                  /\ screened' = [screened EXCEPT ![p] = screened[p] \cup {RouteOf[trial[p]]}]
        PROVE  Screens(p)'
    <3>1. /\ trial'[p] = t /\ t > trial[p] /\ pc'[p] \in {"fitting", "trial"}
          /\ pc'[p] = "trial" => t =< Trials /\ RouteOf[t] \notin screened'[p]
      BY <1>y, <2>1, <2>5 DEF NextTrial
    <3>2. \/ valid'[p] = valid[p] \cup {trial[p]} /\ screened'[p] = screened[p]
          \/ valid'[p] = valid[p] /\ screened'[p] = screened[p]
          \/ /\ trial[p] \in Screening /\ valid'[p] = valid[p]
             /\ screened'[p] = screened[p] \cup {RouteOf[trial[p]]}
      BY <1>y, <2>5
    <3>3. /\ \A u \in valid[p] : u < trial[p] /\ u \in 1 .. Trials
          /\ \A u \in valid[p] : u \in Paired => RouteOf[u] \notin screened[p]
          /\ RouteOf[trial[p]] \notin screened[p]
      BY <2>1 DEF Screens, Testing
    <3>4. \A u \in valid'[p] : u < trial'[p]
      BY <2>1, <3>1, <3>2, <3>3
    <3>5. ASSUME NEW u \in valid'[p], u \in Paired PROVE RouteOf[u] \notin screened'[p]
      <4>1. CASE valid'[p] = valid[p] \cup {trial[p]} /\ screened'[p] = screened[p]
        BY <3>3, <3>5, <4>1
      <4>2. CASE valid'[p] = valid[p] /\ screened'[p] = screened[p]
        BY <3>3, <3>5, <4>2
      <4>3. CASE /\ trial[p] \in Screening /\ valid'[p] = valid[p]
                 /\ screened'[p] = screened[p] \cup {RouteOf[trial[p]]}
        <5>1. u < trial[p] /\ trial[p] < u /\ u \in 1 .. Trials
          BY <3>3, <3>5, <4>3, AssessmentAssumption
        <5> QED
          BY <2>1, <5>1
      <4> QED
        BY <3>2, <4>1, <4>2, <4>3
    <3>6. (pc'[p] \in Testing => RouteOf[trial'[p]] \notin screened'[p]) /\ pc'[p] \notin Starting
      BY <3>1 DEF Testing, Starting
    <3> QED
      BY <3>4, <3>5, <3>6 DEF Screens
  <2>6. Screens(p)'
    <3>1. CASE trial' = trial /\ pc' = [pc EXCEPT ![p] = "fitting"] /\ valid' = valid /\ screened' = screened
      BY <2>4, <3>1
    <3>2. CASE ~(trial' = trial /\ pc' = [pc EXCEPT ![p] = "fitting"] /\ valid' = valid /\ screened' = screened)
      BY <2>2, <2>5, <3>2
    <3> QED
      BY <3>1, <3>2
  <2> QED
    BY <1>k, <2>3, <2>6
<1>16. ASSUME NEW p \in Plans, MarkInterrupted(p) PROVE \A q \in Plans : Screens(q)'
  <2>1. trial' = trial /\ valid' = valid /\ screened' = screened
    BY <1>16 DEF MarkInterrupted
  <2>2. pc' = [pc EXCEPT ![p] = "gone"]
    BY <1>16 DEF MarkInterrupted, Goto
  <2>3. pc'[p] = "gone" /\ \A q \in Plans : q # p => pc'[q] = pc[q]
    BY <1>y, <2>2
  <2> QED
    BY <1>k, <2>1, <2>3 DEF Starting, Testing
<1>17. ASSUME NEW p \in Plans, Fit(p) PROVE \A q \in Plans : Screens(q)'
  <2>1. trial' = trial /\ valid' = valid /\ screened' = screened
    BY <1>17 DEF Fit
  <2>2. pc' = [pc EXCEPT ![p] = "recording"]
    BY <1>17 DEF Fit, Goto
  <2>3. pc'[p] = "recording" /\ \A q \in Plans : q # p => pc'[q] = pc[q]
    BY <1>y, <2>2
  <2> QED
    BY <1>k, <2>1, <2>3 DEF Starting, Testing
<1>18. ASSUME NEW p \in Plans, Record(p) PROVE \A q \in Plans : Screens(q)'
  <2>1. trial' = trial /\ valid' = valid /\ screened' = screened
    BY <1>18 DEF Record
  <2>2. pc' = [pc EXCEPT ![p] = "completing"]
    BY <1>18 DEF Record, Goto
  <2>3. pc'[p] = "completing" /\ \A q \in Plans : q # p => pc'[q] = pc[q]
    BY <1>y, <2>2
  <2> QED
    BY <1>k, <2>1, <2>3 DEF Starting, Testing
<1>19. ASSUME NEW p \in Plans, Complete(p) PROVE \A q \in Plans : Screens(q)'
  <2>1. trial' = trial /\ valid' = valid /\ screened' = screened /\ pc[p] \in {"completing"}
    BY <1>19 DEF Complete, At
  <2>2. \E l \in {"admitting", "gone"} : pc' = [pc EXCEPT ![p] = l]
    BY <1>19 DEF Complete, Goto
  <2>3. pc'[p] \in {"admitting", "gone"} /\ \A q \in Plans : q # p => pc'[q] = pc[q]
    BY <1>y, <2>2
  <2> QED
    BY <1>k, <2>1, <2>3 DEF Starting, Testing
<1>20. ASSUME NEW p \in Plans, AdmitOwn(p) PROVE \A q \in Plans : Screens(q)'
  <2>1. trial' = trial /\ valid' = valid /\ screened' = screened
    BY <1>20 DEF AdmitOwn
  <2>2. pc' = [pc EXCEPT ![p] = "gone"]
    BY <1>20 DEF AdmitOwn, Goto
  <2>3. pc'[p] = "gone" /\ \A q \in Plans : q # p => pc'[q] = pc[q]
    BY <1>y, <2>2
  <2> QED
    BY <1>k, <2>1, <2>3 DEF Starting, Testing
<1>21. ASSUME NEW p \in Plans, Interrupt(p) PROVE \A q \in Plans : Screens(q)'
  <2>1. trial' = trial /\ valid' = valid /\ screened' = screened
    BY <1>21 DEF Interrupt
  <2>2. pc' = [pc EXCEPT ![p] = "interrupted"]
    BY <1>21 DEF Interrupt, Goto
  <2>3. pc'[p] = "interrupted" /\ \A q \in Plans : q # p => pc'[q] = pc[q]
    BY <1>y, <2>2
  <2> QED
    BY <1>k, <2>1, <2>3 DEF Starting, Testing
<1>22. ASSUME NEW p \in Plans, Crash(p) PROVE \A q \in Plans : Screens(q)'
  <2>1. trial' = trial /\ valid' = valid /\ screened' = screened
    BY <1>22 DEF Crash
  <2>2. pc' = [pc EXCEPT ![p] = "gone"]
    BY <1>22 DEF Crash, Goto
  <2>3. pc'[p] = "gone" /\ \A q \in Plans : q # p => pc'[q] = pc[q]
    BY <1>y, <2>2
  <2> QED
    BY <1>k, <2>1, <2>3 DEF Starting, Testing
<1>23. ASSUME NEW p \in Plans, MarkDead(p) PROVE \A q \in Plans : Screens(q)'
  BY <1>23, <1>k DEF MarkDead
<1>24. ASSUME UNCHANGED vars PROVE \A q \in Plans : Screens(q)'
  BY <1>24, <1>k DEF vars
<1>25. ASSUME NEW p \in Plans, InsertJob(p) PROVE \A q \in Plans : Screens(q)'
  <2>1. trial' = trial /\ valid' = valid /\ screened' = screened
    BY <1>25 DEF InsertJob
  <2>2. pc' = [pc EXCEPT ![p] = "idle"]
    BY <1>25 DEF InsertJob, Goto
  <2>3. pc'[p] = "idle" /\ \A q \in Plans : q # p => pc'[q] = pc[q]
    BY <1>y, <2>2
  <2>4. pc[p] \in Starting
    BY <1>25 DEF InsertJob, At, Starting
  <2> QED
    BY <1>k, <2>1, <2>3, <2>4
<1>26. ASSUME NEW p \in Plans, ResolveIdentity(p) PROVE \A q \in Plans : Screens(q)'
  BY <1>26, <1>k DEF ResolveIdentity
<1>27. ASSUME NEW p \in Plans, AdmitResolved(p) PROVE \A q \in Plans : Screens(q)'
  BY <1>27, <1>k DEF AdmitResolved
<1>28. ASSUME NEW p \in Plans, LoseCommand(p) PROVE \A q \in Plans : Screens(q)'
  BY <1>28, <1>k DEF LoseCommand
<1> QED
  BY <1>1, <1>2, <1>3, <1>4, <1>5, <1>6, <1>7, <1>8, <1>9, <1>10, <1>11, <1>12, <1>13, <1>14, <1>15, <1>16, <1>17, <1>18, <1>19, <1>20, <1>21, <1>22, <1>23, <1>24, <1>25, <1>26, <1>27, <1>28 DEF Next, Work

(* A run that stays where it is, or has left the campaign, keeps its       *)
(* measurements whatever the others do.                                    *)
LEMMA CampaignKept ==
  ASSUME TypeOK, OpsStep, NEW p \in Plans, Campaign(p), trial'[p] = trial[p], screened[p] \subseteq screened'[p],
         \/ pc'[p] = pc[p] /\ failed'[p] = failed[p]
         \/ pc'[p] \in {"idle", "enqueuing", "ready", "claimed"} /\ pc[p] \in Starting
         \/ pc'[p] \notin Reporting \cup Starting
         \/ pc'[p] = "fitting" /\ failed'[p]
  PROVE  Campaign(p)'
<1>1. /\ \A i \in 1 .. Trials : TrialOp(p, i) \in OpIds
      /\ ReportOp(p) \in OpIds /\ GraderOp(p) \in OpIds /\ SetupOp(p) \in OpIds
  BY OpNames
<1>2. /\ \A o \in OpIds : ops[o].state = "complete" => ops'[o].state = "complete"
      /\ \A o \in OpIds : ops[o].state # "absent" => ops'[o].state # "absent"
  BY OpsGrow
<1>3. \A i \in 1 .. Trials : i < trial'[p] => ops'[TrialOp(p, i)].state = "complete" \/ RouteOf[i] \in screened'[p]
  BY <1>1, <1>2 DEF Campaign
<1>4. ASSUME ~failed'[p]
      PROVE  /\ pc'[p] \in Reporting => ops'[ReportOp(p)].state # "absent"
             /\ pc'[p] \in Graded => ops'[GraderOp(p)].state = "complete"
             /\ pc'[p] \in Testing \cup {"fitting"} => ops'[SetupOp(p)].state = "complete"
             /\ pc'[p] = "fitting" => trial'[p] = Trials + 1
  BY <1>1, <1>2, <1>4 DEF Campaign, Testing, Graded, Reporting, Starting
<1>5. (pc'[p] \in Testing => trial'[p] =< Trials) /\ (pc'[p] \in Starting => trial'[p] = 1)
  BY DEF Campaign, Testing, Graded, Reporting, Starting
<1> QED
  BY <1>3, <1>4, <1>5 DEF Campaign, TrialOp, ReportOp, GraderOp, SetupOp

(* Every step keeps the measurements in line with the runs.                *)
LEMMA CampaignStep ==
  ASSUME TypeOK, Progress, OpsStep, [Next]_vars
  PROVE  \A q \in Plans : Campaign(q)'
<1> USE DEF operatorVars, campaignVars
<1>y. /\ pc \in [Plans -> Steps] /\ failed \in [Plans -> BOOLEAN] /\ trial \in [Plans -> 1 .. Trials + 1]
      /\ Trials \in Nat \ {0}
  BY AssessmentAssumption DEF TypeOK
<1>a. \A q \in Plans : Campaign(q)
  BY DEF Progress
<1>t. \A q \in Plans : pc[q] \in Testing => trial[q] \in 1 .. Trials
  BY <1>a, <1>y DEF Campaign
<1>g. /\ \A o \in OpIds : ops[o].state = "complete" => ops'[o].state = "complete"
      /\ \A o \in OpIds : ops[o].state # "absent" => ops'[o].state # "absent"
  BY OpsGrow
<1>v. \A q \in Plans : screened[q] \subseteq screened'[q]
  BY ScreenedGrows
<1>n. /\ Cost \in OpIds
      /\ \A q \in Plans : /\ \A i \in 1 .. Trials : TrialOp(q, i) \in OpIds
                          /\ ReportOp(q) \in OpIds /\ GraderOp(q) \in OpIds /\ SetupOp(q) \in OpIds
  BY OpNames DEF OpIds
<1>k. \A q \in Plans : \/ pc'[q] = pc[q] /\ failed'[q] = failed[q] /\ trial'[q] = trial[q]
                       \/ /\ trial'[q] = trial[q]
                          /\ \/ pc'[q] \in {"idle", "enqueuing", "ready", "claimed"} /\ pc[q] \in Starting
                             \/ pc'[q] \notin Reporting \cup Starting
                             \/ pc'[q] = "fitting" /\ failed'[q]
                       => Campaign(q)'
  BY <1>a, <1>v, CampaignKept
<1>e. \A o \in OpIds, seconds \in Elapsed, cash \in CashFacts \cup {Paid(0)} :
        Finish(o, seconds, cash) => ops'[o].state = "complete"
  BY DEF TypeOK, Finish
<1>1. ASSUME RevokeGrant PROVE \A q \in Plans : Campaign(q)'
  BY <1>1, <1>k DEF RevokeGrant
<1>2. ASSUME Expire PROVE \A q \in Plans : Campaign(q)'
  BY <1>2, <1>k DEF Expire
<1>3. ASSUME Amend PROVE \A q \in Plans : Campaign(q)'
  BY <1>3, <1>k DEF Amend
<1>4. ASSUME RevokeAdmission PROVE \A q \in Plans : Campaign(q)'
  BY <1>4, <1>k DEF RevokeAdmission
<1>5. ASSUME NEW p \in Plans, Enqueue(p) PROVE \A q \in Plans : Campaign(q)'
  <2>1. trial' = trial /\ failed' = failed /\ pc[p] \in Starting
    BY <1>5 DEF Enqueue, Starting
  <2>2. pc' = [pc EXCEPT ![p] = "enqueuing"]
    BY <1>5 DEF Enqueue
  <2>3. pc'[p] = "enqueuing" /\ \A q \in Plans : q # p => pc'[q] = pc[q]
    BY <1>y, <2>2
  <2> QED
    BY <1>k, <1>y, <2>1, <2>3 DEF Starting, Reporting, Graded, Testing
<1>6. ASSUME NEW p \in Plans, Cancel(p) PROVE \A q \in Plans : Campaign(q)'
  BY <1>6, <1>k DEF Cancel
<1>7. ASSUME NEW p \in Plans, Review(p) PROVE \A q \in Plans : Campaign(q)'
  BY <1>7, <1>k DEF Review
<1>8. ASSUME NEW p \in Plans, AdmitAgain(p) PROVE \A q \in Plans : Campaign(q)'
  BY <1>8, <1>k DEF AdmitAgain
<1>9. ASSUME NEW p \in Plans, BeginRun(p) PROVE \A q \in Plans : Campaign(q)'
  <2>1. \E l \in {"ready"} : pc' = [pc EXCEPT ![p] = l]
    BY <1>9 DEF BeginRun, Goto
  <2>2. trial' = trial /\ failed' = failed /\ pc[p] \in Starting
    BY <1>9 DEF BeginRun, Starting, At
  <2>3. \A q \in Plans : q # p => pc'[q] = pc[q]
    BY <1>y, <2>1
  <2>4. pc'[p] \in {"ready"}
    BY <1>y, <2>1
  <2> QED
    BY <1>k, <1>y, <2>2, <2>3, <2>4 DEF Starting, Reporting, Graded, Testing
<1>10. ASSUME NEW p \in Plans, Claim(p) PROVE \A q \in Plans : Campaign(q)'
  <2>1. \E l \in {"claimed", "idle"} : pc' = [pc EXCEPT ![p] = l]
    BY <1>10 DEF Claim, Goto
  <2>2. trial' = trial /\ failed' = failed /\ pc[p] \in Starting
    BY <1>10 DEF Claim, Starting, At
  <2>3. \A q \in Plans : q # p => pc'[q] = pc[q]
    BY <1>y, <2>1
  <2>4. pc'[p] \in {"claimed", "idle"}
    BY <1>y, <2>1
  <2> QED
    BY <1>k, <1>y, <2>2, <2>3, <2>4 DEF Starting, Reporting, Graded, Testing
<1>11. ASSUME NEW p \in Plans, ReserveStage(p) PROVE \A q \in Plans : Campaign(q)'
  <2>o. \A q \in Plans : q # p => pc'[q] = pc[q] /\ failed'[q] = failed[q] /\ trial'[q] = trial[q]
    BY <1>11, <1>y, Tried DEF ReserveStage
  <2>f. (pc' = [pc EXCEPT ![p] = "fitting"] /\ failed' = [failed EXCEPT ![p] = TRUE] /\ trial' = trial) => Campaign(p)'
    BY <1>k, <1>y
  <2>t. trial' = trial
    BY <1>11 DEF ReserveStage
  <2>r. ASSUME NEW o \in OpIds, NEW ok, NEW l, TryReserve(p, o, ok, l)
        PROVE  (Reserve(o) /\ pc' = [pc EXCEPT ![p] = l] /\ failed' = failed) \/ Campaign(p)'
    BY <2>f, <2>t, <2>r, Tried
  <2>1. ASSUME failed'[p] = failed[p],
               \/ pc[p] = "claimed" /\ pc'[p] = "cost" /\ ops'[ReportOp(p)].state # "absent"
               \/ pc[p] = "paying" /\ pc'[p] = "costing"
               \/ pc[p] = "grader" /\ pc'[p] = "grading"
               \/ pc[p] = "setup" /\ pc'[p] = "settingUp"
               \/ pc[p] = "trial" /\ pc'[p] = "preflight"
        PROVE  Campaign(p)'
    <3>1. failed'[p] = failed[p] /\ trial'[p] = trial[p] /\ Campaign(p)
      BY <1>y, <1>a, <2>t, <2>1
    <3>2. \A i \in 1 .. Trials : i < trial'[p] => ops'[TrialOp(p, i)].state = "complete" \/ RouteOf[i] \in screened'[p]
      BY <1>g, <1>n, <1>v, <3>1 DEF Campaign
    <3>3. (pc'[p] \in Testing => trial'[p] =< Trials) /\ (pc'[p] \in Starting => trial'[p] = 1)
      BY <2>1, <3>1 DEF Campaign, Testing, Starting
    <3>4. ASSUME ~failed'[p]
          PROVE  /\ pc'[p] \in Reporting => ops'[ReportOp(p)].state # "absent"
                 /\ pc'[p] \in Graded => ops'[GraderOp(p)].state = "complete"
                 /\ pc'[p] \in Testing \cup {"fitting"} => ops'[SetupOp(p)].state = "complete"
                 /\ pc'[p] = "fitting" => trial'[p] = Trials + 1
      BY <1>g, <1>n, <2>1, <3>1, <3>4 DEF Campaign, Testing, Graded, Reporting
    <3> QED
      BY <3>2, <3>3, <3>4 DEF Campaign, TrialOp, ReportOp, GraderOp, SetupOp
  <2>2. \A o \in OpIds : Reserve(o) => ops'[o].state = "reserved"
    <3> SUFFICES ASSUME NEW o \in OpIds, Reserve(o) PROVE ops'[o].state = "reserved"
      OBVIOUS
    <3>1. ops' = [ops EXCEPT ![o] = Held(o)] /\ Held(o).state = "reserved"
      BY DEF Reserve, Held
    <3> QED
      BY <3>1 DEF TypeOK
  <2>3. ASSUME At(p, "claimed") /\ TryReserve(p, <<p, "report", 0>>, TRUE, "cost")
        PROVE  Campaign(p)'
    <3>1. ReportOp(p) \in OpIds /\ TryReserve(p, ReportOp(p), TRUE, "cost") /\ pc[p] = "claimed"
      BY <1>n, <2>3 DEF ReportOp, At
    <3>2. (Reserve(ReportOp(p)) /\ pc' = [pc EXCEPT ![p] = "cost"] /\ failed' = failed) \/ Campaign(p)'
      BY <2>r, <3>1
    <3> QED
      BY <1>y, <2>1, <2>2, <3>1, <3>2
  <2>4. ASSUME At(p, "paying") /\ TryReserve(p, Cost, TRUE, "costing")
        PROVE  Campaign(p)'
    <3>1. Cost \in OpIds /\ pc[p] = "paying"
      BY <1>n, <2>4 DEF At
    <3>2. (Reserve(Cost) /\ pc' = [pc EXCEPT ![p] = "costing"] /\ failed' = failed) \/ Campaign(p)'
      BY <2>r, <2>4, <3>1
    <3> QED
      BY <1>y, <2>1, <3>1, <3>2
  <2>5. ASSUME At(p, "grader") /\ TryReserve(p, <<p, "grader", 0>>, TRUE, "grading")
        PROVE  Campaign(p)'
    <3>1. GraderOp(p) \in OpIds /\ TryReserve(p, GraderOp(p), TRUE, "grading") /\ pc[p] = "grader"
      BY <1>n, <2>5 DEF GraderOp, At
    <3>2. (Reserve(GraderOp(p)) /\ pc' = [pc EXCEPT ![p] = "grading"] /\ failed' = failed) \/ Campaign(p)'
      BY <2>r, <3>1
    <3> QED
      BY <1>y, <2>1, <3>1, <3>2
  <2>6. ASSUME At(p, "setup") /\ TryReserve(p, <<p, "setup", 0>>, TRUE, "settingUp")
        PROVE  Campaign(p)'
    <3>1. SetupOp(p) \in OpIds /\ TryReserve(p, SetupOp(p), TRUE, "settingUp") /\ pc[p] = "setup"
      BY <1>n, <2>6 DEF SetupOp, At
    <3>2. (Reserve(SetupOp(p)) /\ pc' = [pc EXCEPT ![p] = "settingUp"] /\ failed' = failed) \/ Campaign(p)'
      BY <2>r, <3>1
    <3> QED
      BY <1>y, <2>1, <3>1, <3>2
  <2>7. ASSUME At(p, "trial") /\ TryReserve(p, <<p, "trial", trial[p]>>, job[p] = "running", "preflight")
        PROVE  Campaign(p)'
    <3>0. trial[p] \in 1 .. Trials
      BY <1>t, <2>7 DEF At, Testing
    <3>1. TrialOp(p, trial[p]) \in OpIds /\ TryReserve(p, TrialOp(p, trial[p]), job[p] = "running", "preflight")
          /\ pc[p] = "trial"
      BY <1>n, <2>7, <3>0 DEF TrialOp, At
    <3>2. (Reserve(TrialOp(p, trial[p])) /\ pc' = [pc EXCEPT ![p] = "preflight"] /\ failed' = failed) \/ Campaign(p)'
      BY <2>r, <3>1
    <3> QED
      BY <1>y, <2>1, <3>1, <3>2
  <2>p. Campaign(p)'
    BY <1>11, <2>3, <2>4, <2>5, <2>6, <2>7 DEF ReserveStage
  <2> QED
    BY <1>k, <2>o, <2>p
<1>12. ASSUME NEW p \in Plans, ReadCost(p) PROVE \A q \in Plans : Campaign(q)'
  <2>1. ReadCost(p) /\ pc[p] = "cost" /\ trial' = trial
    BY <1>12 DEF ReadCost, At
  <2>2. \A q \in Plans : q # p => pc'[q] = pc[q] /\ failed'[q] = failed[q]
    BY <1>y, <2>1, CostRead
  <2>3. \/ pc'[p] \in {"paying", "grader"} /\ failed'[p] = failed[p]
        \/ pc'[p] = "fitting" /\ failed'[p]
    BY <1>y, <2>1, CostRead
  <2>4. CASE pc'[p] \in {"paying", "grader"} /\ failed'[p] = failed[p]
    <3>1. /\ trial[p] = 1 /\ (~failed[p] => ops'[ReportOp(p)].state # "absent")
          /\ \A i \in 1 .. Trials : i < trial[p] => ops'[TrialOp(p, i)].state = "complete" \/ RouteOf[i] \in screened'[p]
      BY <1>a, <1>g, <1>n, <1>v, <2>1 DEF Campaign, Starting, Reporting
    <3> QED
      BY <1>k, <2>1, <2>2, <2>4, <3>1 DEF Campaign, Starting, Reporting, Graded, Testing, TrialOp, ReportOp, GraderOp, SetupOp
  <2> QED
    BY <1>k, <2>1, <2>2, <2>3, <2>4
<1>13. ASSUME NEW p \in Plans, FinishStage(p) PROVE \A q \in Plans : Campaign(q)'
  <2>1. trial' = trial /\ pc[p] \in {"costing", "grading", "settingUp"}
    BY <1>13 DEF FinishStage, At
  <2>2. \/ pc' = [pc EXCEPT ![p] = "grader"] /\ pc[p] = "costing" /\ failed' = failed
        \/ pc' = [pc EXCEPT ![p] = "setup"] /\ pc[p] = "grading" /\ failed' = failed
             /\ \E seconds \in Elapsed : Finish(GraderOp(p), seconds, Paid(0))
        \/ pc' = [pc EXCEPT ![p] = "trial"] /\ pc[p] = "settingUp" /\ failed' = failed
             /\ \E seconds \in Elapsed : Finish(SetupOp(p), seconds, Paid(0))
        \/ pc' = [pc EXCEPT ![p] = "fitting"] /\ failed' = [failed EXCEPT ![p] = TRUE]
    BY <1>13 DEF FinishStage, At, Goto, Fail, GraderOp, SetupOp
  <2>3. \A o \in OpIds, seconds \in Elapsed : Finish(o, seconds, Paid(0)) => ops'[o].state = "complete"
    BY <1>e
  <2>4. \/ pc'[p] = "grader" /\ pc[p] = "costing" /\ failed'[p] = failed[p]
        \/ pc'[p] = "setup" /\ pc[p] = "grading" /\ failed'[p] = failed[p] /\ ops'[GraderOp(p)].state = "complete"
        \/ pc'[p] = "trial" /\ pc[p] = "settingUp" /\ failed'[p] = failed[p] /\ ops'[SetupOp(p)].state = "complete"
        \/ pc'[p] = "fitting" /\ failed'[p]
    BY <1>n, <1>y, <2>2, <2>3
  <2>5. \A q \in Plans : q # p => pc'[q] = pc[q] /\ failed'[q] = failed[q]
    BY <1>y, <2>2
  <2>6. CASE pc'[p] = "fitting" /\ failed'[p]
    BY <1>k, <2>1, <2>5, <2>6
  <2>7. CASE pc'[p] # "fitting"
    <3>1. /\ trial[p] = 1 /\ (~failed[p] => ops'[ReportOp(p)].state # "absent")
          /\ (~failed[p] /\ pc[p] = "settingUp" => ops'[GraderOp(p)].state = "complete")
          /\ \A i \in 1 .. Trials : i < trial[p] => ops'[TrialOp(p, i)].state = "complete" \/ RouteOf[i] \in screened'[p]
      BY <1>a, <1>g, <1>n, <1>v, <2>1 DEF Campaign, Starting, Reporting, Graded
    <3>2. Campaign(p)'
      BY <1>y, <2>1, <2>4, <2>7, <3>1 DEF Campaign, Starting, Reporting, Graded, Testing, TrialOp, ReportOp, GraderOp, SetupOp
    <3> QED
      BY <1>k, <2>1, <2>5, <3>2
  <2> QED
    BY <2>4, <2>6, <2>7
<1>14. ASSUME NEW p \in Plans, Preflight(p) PROVE \A q \in Plans : Campaign(q)'
  <2>1. trial' = trial /\ pc[p] = "preflight"
    BY <1>14 DEF Preflight, At
  <2>2. \/ pc' = [pc EXCEPT ![p] = "invoking"] /\ failed' = failed
        \/ pc' = [pc EXCEPT ![p] = "fitting"] /\ failed' = [failed EXCEPT ![p] = TRUE]
    BY <1>14 DEF Preflight, Goto, Fail
  <2>3. \A q \in Plans : q # p => pc'[q] = pc[q] /\ failed'[q] = failed[q]
    BY <1>y, <2>2
  <2>4. \/ pc'[p] = "invoking" /\ failed'[p] = failed[p]
        \/ pc'[p] = "fitting" /\ failed'[p]
    BY <1>y, <2>2
  <2>5. CASE pc'[p] = "invoking" /\ failed'[p] = failed[p]
    <3>1. /\ trial[p] =< Trials
          /\ ~failed[p] => /\ ops'[ReportOp(p)].state # "absent"
                           /\ ops'[GraderOp(p)].state = "complete" /\ ops'[SetupOp(p)].state = "complete"
          /\ \A i \in 1 .. Trials : i < trial[p] => ops'[TrialOp(p, i)].state = "complete" \/ RouteOf[i] \in screened'[p]
      BY <1>a, <1>g, <1>n, <1>v, <2>1 DEF Campaign, Reporting, Graded, Testing
    <3>2. Campaign(p)'
      BY <2>1, <2>5, <3>1 DEF Campaign, Starting, Reporting, Graded, Testing, TrialOp, ReportOp, GraderOp, SetupOp
    <3> QED
      BY <1>k, <2>1, <2>3, <3>2
  <2> QED
    BY <1>k, <2>1, <2>3, <2>4, <2>5
<1>15. ASSUME NEW p \in Plans, Answer(p) PROVE \A q \in Plans : Campaign(q)'
  <2>1. pc[p] = "invoking" /\ trial[p] \in 1 .. Trials /\ TrialOp(p, trial[p]) \in OpIds
    BY <1>15, <1>t, <1>n DEF Answer, At, Testing
  <2>2. ops'[TrialOp(p, trial[p])].state = "complete"
    <3>1. \E seconds \in Elapsed, cash \in CashFacts : Finish(TrialOp(p, trial[p]), seconds, cash)
      BY <1>15 DEF Answer, TrialOp
    <3> QED
      BY <1>e, <2>1, <3>1
  <2>3. \/ /\ failed' = failed
           /\ \E t \in 1 .. Trials + 1 :
                /\ NextTrial(p, screened'[p], t)
                /\ trial' = [trial EXCEPT ![p] = t]
                /\ pc' = [pc EXCEPT ![p] = IF t > Trials THEN "fitting" ELSE "trial"]
        \/ trial' = trial /\ pc' = [pc EXCEPT ![p] = "fitting"] /\ failed' = [failed EXCEPT ![p] = TRUE]
    BY <1>15 DEF Answer, Goto, Fail
  <2>4. \A q \in Plans : q # p => pc'[q] = pc[q] /\ failed'[q] = failed[q] /\ trial'[q] = trial[q]
    BY <1>y, <2>3
  <2>5. CASE trial' = trial /\ pc' = [pc EXCEPT ![p] = "fitting"] /\ failed' = [failed EXCEPT ![p] = TRUE]
    <3>1. trial'[p] = trial[p] /\ pc'[p] = "fitting" /\ failed'[p]
      BY <1>y, <2>5
    <3> QED
      BY <1>k, <2>4, <3>1
  <2>6. ASSUME NEW t \in 1 .. Trials + 1, NextTrial(p, screened'[p], t), failed' = failed,
               trial' = [trial EXCEPT ![p] = t],
               pc' = [pc EXCEPT ![p] = IF t > Trials THEN "fitting" ELSE "trial"]
        PROVE  Campaign(p)'
    <3>1. /\ ~failed[p] => /\ ops'[ReportOp(p)].state # "absent"
                           /\ ops'[GraderOp(p)].state = "complete" /\ ops'[SetupOp(p)].state = "complete"
          /\ \A i \in 1 .. Trials : i < trial[p] => ops'[TrialOp(p, i)].state = "complete" \/ RouteOf[i] \in screened'[p]
      BY <1>a, <1>g, <1>n, <1>v, <2>1 DEF Campaign, Reporting, Graded, Testing
    <3>2. /\ trial'[p] = t /\ failed'[p] = failed[p]
          /\ pc'[p] = IF t > Trials THEN "fitting" ELSE "trial"
      BY <1>y, <2>6
    <3>3. \A i \in 1 .. Trials : i < t => ops'[TrialOp(p, i)].state = "complete" \/ RouteOf[i] \in screened'[p]
      <4> SUFFICES ASSUME NEW i \in 1 .. Trials, i < t
                   PROVE  ops'[TrialOp(p, i)].state = "complete" \/ RouteOf[i] \in screened'[p]
        OBVIOUS
      <4>1. i < trial[p] \/ i = trial[p] \/ i \in trial[p] + 1 .. t - 1
        BY <2>1
      <4>2. \A u \in trial[p] + 1 .. t - 1 : RouteOf[u] \in screened'[p]
        BY <2>6 DEF NextTrial
      <4> QED
        BY <2>2, <3>1, <4>1, <4>2
    <3>4. (pc'[p] = "fitting" /\ t = Trials + 1) \/ (pc'[p] = "trial" /\ t =< Trials)
      BY <1>y, <3>2
    <3> QED
      BY <3>1, <3>2, <3>3, <3>4 DEF Campaign, Starting, Reporting, Graded, Testing, TrialOp, ReportOp, GraderOp, SetupOp
  <2>7. Campaign(p)'
    <3>1. CASE trial' = trial /\ pc' = [pc EXCEPT ![p] = "fitting"] /\ failed' = [failed EXCEPT ![p] = TRUE]
      BY <2>5, <3>1
    <3>2. CASE ~(trial' = trial /\ pc' = [pc EXCEPT ![p] = "fitting"] /\ failed' = [failed EXCEPT ![p] = TRUE])
      BY <2>3, <2>6, <3>2
    <3> QED
      BY <3>1, <3>2
  <2> QED
    BY <1>k, <2>4, <2>7
<1>16. ASSUME NEW p \in Plans, MarkInterrupted(p) PROVE \A q \in Plans : Campaign(q)'
  <2>1. \E l \in {"gone"} : pc' = [pc EXCEPT ![p] = l]
    BY <1>16 DEF MarkInterrupted, Goto
  <2>2. trial' = trial /\ failed' = failed
    BY <1>16 DEF MarkInterrupted, At
  <2>3. \A q \in Plans : q # p => pc'[q] = pc[q]
    BY <1>y, <2>1
  <2>4. pc'[p] \in {"gone"}
    BY <1>y, <2>1
  <2> QED
    BY <1>k, <1>y, <2>2, <2>3, <2>4 DEF Starting, Reporting, Graded, Testing
<1>17. ASSUME NEW p \in Plans, Fit(p) PROVE \A q \in Plans : Campaign(q)'
  <2>1. \E l \in {"recording"} : pc' = [pc EXCEPT ![p] = l]
    BY <1>17 DEF Fit, Goto
  <2>2. trial' = trial /\ failed' = failed
    BY <1>17 DEF Fit, At
  <2>3. \A q \in Plans : q # p => pc'[q] = pc[q]
    BY <1>y, <2>1
  <2>4. pc'[p] \in {"recording"}
    BY <1>y, <2>1
  <2> QED
    BY <1>k, <1>y, <2>2, <2>3, <2>4 DEF Starting, Reporting, Graded, Testing
<1>18. ASSUME NEW p \in Plans, Record(p) PROVE \A q \in Plans : Campaign(q)'
  <2>1. \E l \in {"completing"} : pc' = [pc EXCEPT ![p] = l]
    BY <1>18 DEF Record, Goto
  <2>2. trial' = trial /\ failed' = failed
    BY <1>18 DEF Record, At
  <2>3. \A q \in Plans : q # p => pc'[q] = pc[q]
    BY <1>y, <2>1
  <2>4. pc'[p] \in {"completing"}
    BY <1>y, <2>1
  <2> QED
    BY <1>k, <1>y, <2>2, <2>3, <2>4 DEF Starting, Reporting, Graded, Testing
<1>19. ASSUME NEW p \in Plans, Complete(p) PROVE \A q \in Plans : Campaign(q)'
  <2>1. \E l \in {"admitting", "gone"} : pc' = [pc EXCEPT ![p] = l]
    BY <1>19 DEF Complete, Goto
  <2>2. trial' = trial /\ failed' = failed
    BY <1>19 DEF Complete, At
  <2>3. \A q \in Plans : q # p => pc'[q] = pc[q]
    BY <1>y, <2>1
  <2>4. pc'[p] \in {"admitting", "gone"}
    BY <1>y, <2>1
  <2> QED
    BY <1>k, <1>y, <2>2, <2>3, <2>4 DEF Starting, Reporting, Graded, Testing
<1>20. ASSUME NEW p \in Plans, AdmitOwn(p) PROVE \A q \in Plans : Campaign(q)'
  <2>1. \E l \in {"gone"} : pc' = [pc EXCEPT ![p] = l]
    BY <1>20 DEF AdmitOwn, Goto
  <2>2. trial' = trial /\ failed' = failed
    BY <1>20 DEF AdmitOwn, At
  <2>3. \A q \in Plans : q # p => pc'[q] = pc[q]
    BY <1>y, <2>1
  <2>4. pc'[p] \in {"gone"}
    BY <1>y, <2>1
  <2> QED
    BY <1>k, <1>y, <2>2, <2>3, <2>4 DEF Starting, Reporting, Graded, Testing
<1>21. ASSUME NEW p \in Plans, Interrupt(p) PROVE \A q \in Plans : Campaign(q)'
  <2>1. \E l \in {"interrupted"} : pc' = [pc EXCEPT ![p] = l]
    BY <1>21 DEF Interrupt, Goto
  <2>2. trial' = trial /\ failed' = failed
    BY <1>21 DEF Interrupt, At
  <2>3. \A q \in Plans : q # p => pc'[q] = pc[q]
    BY <1>y, <2>1
  <2>4. pc'[p] \in {"interrupted"}
    BY <1>y, <2>1
  <2> QED
    BY <1>k, <1>y, <2>2, <2>3, <2>4 DEF Starting, Reporting, Graded, Testing
<1>22. ASSUME NEW p \in Plans, Crash(p) PROVE \A q \in Plans : Campaign(q)'
  <2>1. \E l \in {"gone"} : pc' = [pc EXCEPT ![p] = l]
    BY <1>22 DEF Crash, Goto
  <2>2. trial' = trial /\ failed' = failed
    BY <1>22 DEF Crash, At
  <2>3. \A q \in Plans : q # p => pc'[q] = pc[q]
    BY <1>y, <2>1
  <2>4. pc'[p] \in {"gone"}
    BY <1>y, <2>1
  <2> QED
    BY <1>k, <1>y, <2>2, <2>3, <2>4 DEF Starting, Reporting, Graded, Testing
<1>23. ASSUME NEW p \in Plans, MarkDead(p) PROVE \A q \in Plans : Campaign(q)'
  BY <1>23, <1>k DEF MarkDead
<1>24. ASSUME UNCHANGED vars PROVE \A q \in Plans : Campaign(q)'
  BY <1>24, <1>k DEF vars
<1>25. ASSUME NEW p \in Plans, InsertJob(p) PROVE \A q \in Plans : Campaign(q)'
  <2>1. trial' = trial /\ failed' = failed /\ pc[p] \in Starting
    BY <1>25 DEF InsertJob, Starting
  <2>2. pc' = [pc EXCEPT ![p] = "idle"]
    BY <1>25 DEF InsertJob
  <2>3. pc'[p] = "idle" /\ \A q \in Plans : q # p => pc'[q] = pc[q]
    BY <1>y, <2>2
  <2> QED
    BY <1>k, <1>y, <2>1, <2>3 DEF Starting, Reporting, Graded, Testing
<1>26. ASSUME NEW p \in Plans, ResolveIdentity(p) PROVE \A q \in Plans : Campaign(q)'
  BY <1>26, <1>k DEF ResolveIdentity
<1>27. ASSUME NEW p \in Plans, AdmitResolved(p) PROVE \A q \in Plans : Campaign(q)'
  BY <1>27, <1>k DEF AdmitResolved
<1>28. ASSUME NEW p \in Plans, LoseCommand(p) PROVE \A q \in Plans : Campaign(q)'
  BY <1>28, <1>k DEF LoseCommand
<1> QED
  BY <1>1, <1>2, <1>3, <1>4, <1>5, <1>6, <1>7, <1>8, <1>9, <1>10, <1>11, <1>12, <1>13, <1>14, <1>15, <1>16, <1>17, <1>18, <1>19, <1>20, <1>21, <1>22, <1>23, <1>24, <1>25, <1>26, <1>27, <1>28 DEF Next, Work

(* A report that a step leaves alone keeps what it rests on.               *)
LEMMA ReportsKept ==
  ASSUME TypeOK, OpsStep, NEW p \in Plans, Reports(p), report'[p] = report[p],
         \/ pc[p] \notin Reported
         \/ pc'[p] = pc[p] /\ failed'[p] = failed[p] /\ valid'[p] = valid[p] /\ screened'[p] = screened[p]
         \/ pc'[p] \in Reported \ {"recording"} /\ failed'[p] = failed[p] /\ valid'[p] = valid[p] /\ screened'[p] = screened[p]
  PROVE  Reports(p)'
<1>1. OpsOf(p) \subseteq OpIds
  BY OpNames
<1>2. \A o \in OpIds : ops[o].state = "complete" => ops'[o].state = "complete"
  BY OpsGrow
<1>3. report[p].outcome = "useful" => \A o \in Planned(p) : ops'[o].state = "complete"
  BY <1>1, <1>2, OpNames DEF Reports
<1>4. report[p].outcome # "none" => screened'[p] = screened[p]
  BY DEF Reports
<1>5. screened'[p] = screened[p] => Planned(p)' = Planned(p)
  BY DEF Planned, RunOps
<1> QED
  BY <1>3, <1>4, <1>5 DEF Reports, Reported

(* Every step keeps a useful report to a campaign measured to the end.     *)
LEMMA ReportsStep ==
  ASSUME TypeOK, Progress, OpsStep, [Next]_vars
  PROVE  \A q \in Plans : Reports(q)'
<1> USE DEF operatorVars, campaignVars, Reported
<1>y. /\ pc \in [Plans -> Steps] /\ failed \in [Plans -> BOOLEAN] /\ valid \in [Plans -> SUBSET (1 .. Trials)]
      /\ screened \in [Plans -> SUBSET {RouteOf[t] : t \in Screening}]
      /\ report \in [Plans -> [outcome : {"none", "useful", "other"}, stored : BOOLEAN]]
  BY DEF TypeOK
<1>k. \A q \in Plans : /\ report'[q] = report[q]
                       /\ \/ pc[q] \notin Reported
                          \/ /\ pc'[q] = pc[q] /\ failed'[q] = failed[q] /\ valid'[q] = valid[q]
                             /\ screened'[q] = screened[q]
                          \/ /\ pc'[q] \in Reported \ {"recording"} /\ failed'[q] = failed[q] /\ valid'[q] = valid[q]
                             /\ screened'[q] = screened[q]
                       => Reports(q)'
  BY ReportsKept DEF Progress
<1>1. ASSUME RevokeGrant PROVE \A q \in Plans : Reports(q)'
  BY <1>1, <1>k DEF RevokeGrant
<1>2. ASSUME Expire PROVE \A q \in Plans : Reports(q)'
  BY <1>2, <1>k DEF Expire
<1>3. ASSUME Amend PROVE \A q \in Plans : Reports(q)'
  BY <1>3, <1>k DEF Amend
<1>4. ASSUME RevokeAdmission PROVE \A q \in Plans : Reports(q)'
  BY <1>4, <1>k DEF RevokeAdmission
<1>5. ASSUME NEW p \in Plans, Enqueue(p) PROVE \A q \in Plans : Reports(q)'
  <2>1. report' = report /\ pc[p] \notin Reported
    BY <1>5 DEF Enqueue
  <2>2. \A q \in Plans : q # p => pc'[q] = pc[q] /\ failed'[q] = failed[q] /\ valid'[q] = valid[q] /\ screened'[q] = screened[q]
    BY <1>5, <1>y DEF Enqueue
  <2> QED
    BY <1>k, <2>1, <2>2
<1>6. ASSUME NEW p \in Plans, Cancel(p) PROVE \A q \in Plans : Reports(q)'
  BY <1>6, <1>k DEF Cancel
<1>7. ASSUME NEW p \in Plans, Review(p) PROVE \A q \in Plans : Reports(q)'
  BY <1>7, <1>k DEF Review
<1>8. ASSUME NEW p \in Plans, AdmitAgain(p) PROVE \A q \in Plans : Reports(q)'
  BY <1>8, <1>k DEF AdmitAgain
<1>9. ASSUME NEW p \in Plans, BeginRun(p) PROVE \A q \in Plans : Reports(q)'
  <2>1. report' = report /\ pc[p] \notin Reported
    BY <1>9 DEF BeginRun, At
  <2>2. \A q \in Plans : q # p => pc'[q] = pc[q] /\ failed'[q] = failed[q] /\ valid'[q] = valid[q] /\ screened'[q] = screened[q]
    BY <1>9, <1>y DEF BeginRun, Goto, Fail
  <2> QED
    BY <1>k, <2>1, <2>2
<1>10. ASSUME NEW p \in Plans, Claim(p) PROVE \A q \in Plans : Reports(q)'
  <2>1. report' = report /\ pc[p] \notin Reported
    BY <1>10 DEF Claim, At
  <2>2. \A q \in Plans : q # p => pc'[q] = pc[q] /\ failed'[q] = failed[q] /\ valid'[q] = valid[q] /\ screened'[q] = screened[q]
    BY <1>10, <1>y DEF Claim, Goto, Fail
  <2> QED
    BY <1>k, <2>1, <2>2
<1>11. ASSUME NEW p \in Plans, ReserveStage(p) PROVE \A q \in Plans : Reports(q)'
  <2>1. report' = report /\ pc[p] \notin Reported
    BY <1>11 DEF ReserveStage, At
  <2>2. \A q \in Plans : q # p => pc'[q] = pc[q] /\ failed'[q] = failed[q] /\ valid'[q] = valid[q] /\ screened'[q] = screened[q]
    BY <1>11, <1>y, Tried DEF ReserveStage
  <2> QED
    BY <1>k, <2>1, <2>2
<1>12. ASSUME NEW p \in Plans, ReadCost(p) PROVE \A q \in Plans : Reports(q)'
  <2>1. report' = report /\ pc[p] \notin Reported
    BY <1>12 DEF ReadCost, At
  <2>2. \A q \in Plans : q # p => pc'[q] = pc[q] /\ failed'[q] = failed[q] /\ valid'[q] = valid[q] /\ screened'[q] = screened[q]
    BY <1>12, <1>y, CostRead DEF ReadCost
  <2> QED
    BY <1>k, <2>1, <2>2
<1>13. ASSUME NEW p \in Plans, FinishStage(p) PROVE \A q \in Plans : Reports(q)'
  <2>1. report' = report /\ pc[p] \notin Reported
    BY <1>13 DEF FinishStage, At
  <2>2. \A q \in Plans : q # p => pc'[q] = pc[q] /\ failed'[q] = failed[q] /\ valid'[q] = valid[q] /\ screened'[q] = screened[q]
    BY <1>13, <1>y DEF FinishStage, Goto, Fail
  <2> QED
    BY <1>k, <2>1, <2>2
<1>14. ASSUME NEW p \in Plans, Preflight(p) PROVE \A q \in Plans : Reports(q)'
  <2>1. report' = report /\ pc[p] \notin Reported
    BY <1>14 DEF Preflight, At
  <2>2. \A q \in Plans : q # p => pc'[q] = pc[q] /\ failed'[q] = failed[q] /\ valid'[q] = valid[q] /\ screened'[q] = screened[q]
    BY <1>14, <1>y DEF Preflight, Goto, Fail
  <2> QED
    BY <1>k, <2>1, <2>2
<1>15. ASSUME NEW p \in Plans, Answer(p) PROVE \A q \in Plans : Reports(q)'
  <2>1. report' = report /\ pc[p] \notin Reported
    BY <1>15 DEF Answer, At
  <2>2. \A q \in Plans : q # p => pc'[q] = pc[q] /\ failed'[q] = failed[q] /\ valid'[q] = valid[q] /\ screened'[q] = screened[q]
    BY <1>15, <1>y DEF Answer, Goto, Fail
  <2> QED
    BY <1>k, <2>1, <2>2
<1>16. ASSUME NEW p \in Plans, MarkInterrupted(p) PROVE \A q \in Plans : Reports(q)'
  <2>1. report' = report /\ pc[p] \notin Reported
    BY <1>16 DEF MarkInterrupted, At
  <2>2. \A q \in Plans : q # p => pc'[q] = pc[q] /\ failed'[q] = failed[q] /\ valid'[q] = valid[q] /\ screened'[q] = screened[q]
    BY <1>16, <1>y DEF MarkInterrupted, Goto, Fail
  <2> QED
    BY <1>k, <2>1, <2>2
<1>17. ASSUME NEW p \in Plans, Fit(p) PROVE \A q \in Plans : Reports(q)'
  <2>1. \E outcome \in FitOutcomes(p) : report' = [report EXCEPT ![p].outcome = outcome]
    BY <1>17 DEF Fit
  <2>2. PICK outcome \in FitOutcomes(p) : report' = [report EXCEPT ![p].outcome = outcome]
    BY <2>1
  <2>3. /\ pc[p] = "fitting" /\ pc'[p] = "recording" /\ failed' = failed /\ valid' = valid /\ screened' = screened
        /\ \A q \in Plans : q # p => pc'[q] = pc[q]
    BY <1>17, <1>y DEF Fit, At, Goto
  <2>4. /\ report'[p].outcome = outcome /\ report'[p].stored = report[p].stored
        /\ \A q \in Plans : q # p => report'[q] = report[q]
    BY <1>y, <2>2
  <2>5. ASSUME outcome = "useful"
        PROVE  ~failed[p] /\ Paired \subseteq valid[p] /\ \A t \in Paired : RouteOf[t] \notin screened[p]
    <3>1. ~failed[p] /\ Paired \subseteq valid[p]
      BY <2>2, <2>5 DEF FitOutcomes
    <3> QED
      BY <3>1 DEF Progress, Screens
  <2>6. ~report[p].stored
    BY <2>3 DEF Progress, Reports
  <2>7. ASSUME outcome = "useful", NEW o \in Planned(p)
        PROVE  ops'[o].state = "complete"
    <3>1. /\ trial[p] = Trials + 1 /\ ops[ReportOp(p)].state # "absent"
          /\ ops[GraderOp(p)].state = "complete" /\ ops[SetupOp(p)].state = "complete"
          /\ \A i \in 1 .. Trials : i < trial[p] => ops[TrialOp(p, i)].state = "complete" \/ RouteOf[i] \in screened[p]
      BY <2>3, <2>5, <2>7 DEF Progress, Campaign, Graded, Reporting
    <3>2. \A i \in 1 .. Trials : o = TrialOp(p, i) => ops[TrialOp(p, i)].state = "complete"
      <4> SUFFICES ASSUME NEW i \in 1 .. Trials, o = TrialOp(p, i) PROVE ops[TrialOp(p, i)].state = "complete"
        OBVIOUS
      <4>1. i < trial[p]
        BY <3>1, AssessmentAssumption
      <4>2. RouteOf[i] \notin screened[p]
        BY <2>7, OpKinds DEF Planned
      <4> QED
        BY <3>1, <4>1, <4>2
    <3>3. ops'[ReportOp(p)].state = "complete"
      <4>1. ReportOp(p) \in OpIds /\ ops[ReportOp(p)].state \in {"absent", "reserved", "complete"}
        BY OpNames DEF TypeOK
      <4>2. CASE ops[ReportOp(p)].state = "reserved"
        <5>1. \E seconds \in Elapsed : Finish(ReportOp(p), seconds, Paid(0))
          BY <1>17, <4>2 DEF Fit, ReportOp
        <5> QED
          BY <4>1, <5>1 DEF Finish, TypeOK
      <4>3. CASE ops[ReportOp(p)].state = "complete"
        BY <4>1, <4>3, OpsGrow
      <4> QED
        BY <3>1, <4>1, <4>2, <4>3
    <3>4. o \in OpIds /\ o \in RunOps(p)
      BY <2>7, OpNames
    <3>5. o = ReportOp(p) \/ ops[o].state = "complete"
      BY <3>1, <3>2, <3>4, OpNames
    <3> QED
      BY <3>3, <3>4, <3>5, OpsGrow
  <2>8. Reports(p)'
    <3>1. Planned(p)' = Planned(p)
      BY <2>3 DEF Planned, RunOps
    <3> QED
      BY <2>3, <2>4, <2>5, <2>6, <2>7, <3>1 DEF Reports
  <2> QED
    BY <1>k, <2>3, <2>4, <2>8
<1>18. ASSUME NEW p \in Plans, Record(p) PROVE \A q \in Plans : Reports(q)'
  <2>1. /\ pc[p] = "recording" /\ pc'[p] = "completing" /\ failed' = failed /\ valid' = valid /\ screened' = screened /\ ops' = ops
        /\ \A q \in Plans : q # p => pc'[q] = pc[q]
    BY <1>18, <1>y DEF Record, At, Goto
  <2>2. report'[p].outcome = report[p].outcome /\ \A q \in Plans : q # p => report'[q] = report[q]
    BY <1>18, <1>y DEF Record
  <2>3. Reports(p)'
    <3>1. Planned(p)' = Planned(p)
      BY <2>1 DEF Planned, RunOps
    <3> QED
      BY <2>1, <2>2, <3>1 DEF Progress, Reports
  <2> QED
    BY <1>k, <2>1, <2>2, <2>3
<1>19. ASSUME NEW p \in Plans, Complete(p) PROVE \A q \in Plans : Reports(q)'
  <2>1. report' = report /\ failed' = failed /\ valid' = valid /\ screened' = screened
    BY <1>19 DEF Complete
  <2>2. \E l \in {"admitting", "gone"} : pc' = [pc EXCEPT ![p] = l]
    BY <1>19 DEF Complete, Goto
  <2>3. pc'[p] \in {"admitting", "gone"} /\ \A q \in Plans : q # p => pc'[q] = pc[q]
    BY <1>y, <2>2
  <2> QED
    BY <1>k, <2>1, <2>3
<1>20. ASSUME NEW p \in Plans, AdmitOwn(p) PROVE \A q \in Plans : Reports(q)'
  <2>1. report' = report /\ failed' = failed /\ valid' = valid /\ screened' = screened
    BY <1>20 DEF AdmitOwn
  <2>2. \E l \in {"admitting", "gone"} : pc' = [pc EXCEPT ![p] = l]
    BY <1>20 DEF AdmitOwn, Goto
  <2>3. pc'[p] \in {"admitting", "gone"} /\ \A q \in Plans : q # p => pc'[q] = pc[q]
    BY <1>y, <2>2
  <2> QED
    BY <1>k, <2>1, <2>3
<1>21. ASSUME NEW p \in Plans, Interrupt(p) PROVE \A q \in Plans : Reports(q)'
  <2>1. report' = report /\ pc[p] \notin Reported
    BY <1>21 DEF Interrupt, At
  <2>2. \A q \in Plans : q # p => pc'[q] = pc[q] /\ failed'[q] = failed[q] /\ valid'[q] = valid[q] /\ screened'[q] = screened[q]
    BY <1>21, <1>y DEF Interrupt, Goto, Fail
  <2> QED
    BY <1>k, <2>1, <2>2
<1>22. ASSUME NEW p \in Plans, Crash(p) PROVE \A q \in Plans : Reports(q)'
  <2>1. report' = report /\ failed' = failed /\ valid' = valid /\ screened' = screened
    BY <1>22 DEF Crash
  <2>2. \E l \in {"admitting", "gone"} : pc' = [pc EXCEPT ![p] = l]
    BY <1>22 DEF Crash, Goto
  <2>3. pc'[p] \in {"admitting", "gone"} /\ \A q \in Plans : q # p => pc'[q] = pc[q]
    BY <1>y, <2>2
  <2> QED
    BY <1>k, <2>1, <2>3
<1>23. ASSUME NEW p \in Plans, MarkDead(p) PROVE \A q \in Plans : Reports(q)'
  BY <1>23, <1>k DEF MarkDead
<1>24. ASSUME UNCHANGED vars PROVE \A q \in Plans : Reports(q)'
  BY <1>24, <1>k DEF vars
<1>25. ASSUME NEW p \in Plans, InsertJob(p) PROVE \A q \in Plans : Reports(q)'
  <2>1. report' = report /\ pc[p] \notin Reported
    BY <1>25 DEF InsertJob
  <2>2. \A q \in Plans : q # p => pc'[q] = pc[q] /\ failed'[q] = failed[q] /\ valid'[q] = valid[q] /\ screened'[q] = screened[q]
    BY <1>25, <1>y DEF InsertJob
  <2> QED
    BY <1>k, <2>1, <2>2
<1>26. ASSUME NEW p \in Plans, ResolveIdentity(p) PROVE \A q \in Plans : Reports(q)'
  BY <1>26, <1>k DEF ResolveIdentity
<1>27. ASSUME NEW p \in Plans, AdmitResolved(p) PROVE \A q \in Plans : Reports(q)'
  BY <1>27, <1>k DEF AdmitResolved
<1>28. ASSUME NEW p \in Plans, LoseCommand(p) PROVE \A q \in Plans : Reports(q)'
  BY <1>28, <1>k DEF LoseCommand
<1> QED
  BY <1>1, <1>2, <1>3, <1>4, <1>5, <1>6, <1>7, <1>8, <1>9, <1>10, <1>11, <1>12, <1>13, <1>14, <1>15, <1>16, <1>17, <1>18, <1>19, <1>20, <1>21, <1>22, <1>23, <1>24, <1>25, <1>26, <1>27, <1>28 DEF Next, Work

(* Every step keeps a stopped job stopped.                                 *)
LEMMA JobsStep ==
  ASSUME TypeOK, Progress, [Next]_vars
  PROVE  \A q \in Plans : Jobs(q)'
<1> USE DEF operatorVars, campaignVars, Jobs
<1>y. /\ pc \in [Plans -> Steps] /\ job \in [Plans -> JobStates] /\ \A q \in Plans : Jobs(q)
  BY DEF TypeOK, Progress
<1>k. ASSUME NEW p \in Plans, \A q \in Plans : q # p => pc'[q] = pc[q] /\ job'[q] = job[q],
             cancelled' = cancelled, job'[p] = job[p], job[p] # "complete"
      PROVE  \A q \in Plans : Jobs(q)'
  BY <1>k, <1>y
<1>1. ASSUME RevokeGrant PROVE \A q \in Plans : Jobs(q)'
  BY <1>1, <1>y DEF RevokeGrant
<1>2. ASSUME Expire PROVE \A q \in Plans : Jobs(q)'
  BY <1>2, <1>y DEF Expire
<1>3. ASSUME Amend PROVE \A q \in Plans : Jobs(q)'
  BY <1>3, <1>y DEF Amend
<1>4. ASSUME RevokeAdmission PROVE \A q \in Plans : Jobs(q)'
  BY <1>4, <1>y DEF RevokeAdmission
<1>5. ASSUME NEW p \in Plans, Enqueue(p) PROVE \A q \in Plans : Jobs(q)'
  BY <1>5, <1>y DEF Enqueue, At, Goto
<1>6. ASSUME NEW p \in Plans, Cancel(p) PROVE \A q \in Plans : Jobs(q)'
  BY <1>6, <1>y DEF Cancel, At, Goto
<1>7. ASSUME NEW p \in Plans, Review(p) PROVE \A q \in Plans : Jobs(q)'
  BY <1>7, <1>y DEF Review, At, Goto
<1>8. ASSUME NEW p \in Plans, AdmitAgain(p) PROVE \A q \in Plans : Jobs(q)'
  BY <1>8, <1>y DEF AdmitAgain, At, Goto
<1>9. ASSUME NEW p \in Plans, BeginRun(p) PROVE \A q \in Plans : Jobs(q)'
  BY <1>9, <1>y DEF BeginRun, At, Goto
<1>10. ASSUME NEW p \in Plans, Claim(p) PROVE \A q \in Plans : Jobs(q)'
  BY <1>10, <1>y DEF Claim, At, Goto
<1>11. ASSUME NEW p \in Plans, ReserveStage(p) PROVE \A q \in Plans : Jobs(q)'
  <2>1. job' = job /\ cancelled' = cancelled /\ pc[p] \notin {"admitting", "gone"}
    BY <1>11 DEF ReserveStage, At
  <2>2. \A q \in Plans : q # p => pc'[q] = pc[q]
    BY <1>11, <1>y, Tried DEF ReserveStage
  <2> QED
    BY <1>k, <1>y, <2>1, <2>2
<1>12. ASSUME NEW p \in Plans, ReadCost(p) PROVE \A q \in Plans : Jobs(q)'
  <2>1. job' = job /\ cancelled' = cancelled /\ pc[p] \notin {"admitting", "gone"}
    BY <1>12 DEF ReadCost, At
  <2>2. \A q \in Plans : q # p => pc'[q] = pc[q]
    BY <1>12, <1>y, CostRead DEF ReadCost
  <2> QED
    BY <1>k, <1>y, <2>1, <2>2
<1>13. ASSUME NEW p \in Plans, FinishStage(p) PROVE \A q \in Plans : Jobs(q)'
  <2>1. job' = job /\ cancelled' = cancelled /\ pc[p] \notin {"admitting", "gone"}
    BY <1>13 DEF FinishStage, At
  <2>2. \A q \in Plans : q # p => pc'[q] = pc[q]
    BY <1>13, <1>y DEF FinishStage, Goto, Fail
  <2> QED
    BY <1>k, <1>y, <2>1, <2>2
<1>14. ASSUME NEW p \in Plans, Preflight(p) PROVE \A q \in Plans : Jobs(q)'
  <2>1. job' = job /\ cancelled' = cancelled /\ pc[p] \notin {"admitting", "gone"}
    BY <1>14 DEF Preflight, At
  <2>2. \A q \in Plans : q # p => pc'[q] = pc[q]
    BY <1>14, <1>y DEF Preflight, Goto, Fail
  <2> QED
    BY <1>k, <1>y, <2>1, <2>2
<1>15. ASSUME NEW p \in Plans, Answer(p) PROVE \A q \in Plans : Jobs(q)'
  <2>1. job' = job /\ cancelled' = cancelled /\ pc[p] \notin {"admitting", "gone"}
    BY <1>15 DEF Answer, At
  <2>2. \A q \in Plans : q # p => pc'[q] = pc[q]
    BY <1>15, <1>y DEF Answer, Goto, Fail
  <2> QED
    BY <1>k, <1>y, <2>1, <2>2
<1>16. ASSUME NEW p \in Plans, MarkInterrupted(p) PROVE \A q \in Plans : Jobs(q)'
  BY <1>16, <1>y DEF MarkInterrupted, At, Goto
<1>17. ASSUME NEW p \in Plans, Fit(p) PROVE \A q \in Plans : Jobs(q)'
  <2>1. job' = job /\ cancelled' = cancelled /\ pc[p] \notin {"admitting", "gone"}
    BY <1>17 DEF Fit, At
  <2>2. \A q \in Plans : q # p => pc'[q] = pc[q]
    BY <1>17, <1>y DEF Fit, Goto, Fail
  <2> QED
    BY <1>k, <1>y, <2>1, <2>2
<1>18. ASSUME NEW p \in Plans, Record(p) PROVE \A q \in Plans : Jobs(q)'
  <2>1. job' = job /\ cancelled' = cancelled /\ pc[p] \notin {"admitting", "gone"}
    BY <1>18 DEF Record, At
  <2>2. \A q \in Plans : q # p => pc'[q] = pc[q]
    BY <1>18, <1>y DEF Record, Goto, Fail
  <2> QED
    BY <1>k, <1>y, <2>1, <2>2
<1>19. ASSUME NEW p \in Plans, Complete(p) PROVE \A q \in Plans : Jobs(q)'
  BY <1>19, <1>y DEF Complete, At, Goto
<1>20. ASSUME NEW p \in Plans, AdmitOwn(p) PROVE \A q \in Plans : Jobs(q)'
  BY <1>20, <1>y DEF AdmitOwn, At, Goto
<1>21. ASSUME NEW p \in Plans, Interrupt(p) PROVE \A q \in Plans : Jobs(q)'
  <2>1. job' = job /\ cancelled' = cancelled /\ pc[p] \notin {"admitting", "gone"}
    BY <1>21 DEF Interrupt, At
  <2>2. \A q \in Plans : q # p => pc'[q] = pc[q]
    BY <1>21, <1>y DEF Interrupt, Goto, Fail
  <2> QED
    BY <1>k, <1>y, <2>1, <2>2
<1>22. ASSUME NEW p \in Plans, Crash(p) PROVE \A q \in Plans : Jobs(q)'
  BY <1>22, <1>y DEF Crash, At, Goto
<1>23. ASSUME NEW p \in Plans, MarkDead(p) PROVE \A q \in Plans : Jobs(q)'
  BY <1>23, <1>y DEF MarkDead, At, Goto
<1>24. ASSUME UNCHANGED vars PROVE \A q \in Plans : Jobs(q)'
  BY <1>24, <1>y DEF vars
<1>25. ASSUME NEW p \in Plans, InsertJob(p) PROVE \A q \in Plans : Jobs(q)'
  <2>1. job' = [job EXCEPT ![p] = "queued"] /\ pc' = [pc EXCEPT ![p] = "idle"] /\ cancelled' = cancelled
    BY <1>25 DEF InsertJob
  <2>2. p \notin cancelled
    BY <1>25, <1>y DEF InsertJob
  <2> QED
    BY <1>y, <2>1, <2>2
<1>26. ASSUME NEW p \in Plans, ResolveIdentity(p) PROVE \A q \in Plans : Jobs(q)'
  BY <1>26, <1>y DEF ResolveIdentity
<1>27. ASSUME NEW p \in Plans, AdmitResolved(p) PROVE \A q \in Plans : Jobs(q)'
  BY <1>27, <1>y DEF AdmitResolved
<1>28. ASSUME NEW p \in Plans, LoseCommand(p) PROVE \A q \in Plans : Jobs(q)'
  BY <1>28, <1>y DEF LoseCommand
<1> QED
  BY <1>1, <1>2, <1>3, <1>4, <1>5, <1>6, <1>7, <1>8, <1>9, <1>10, <1>11, <1>12, <1>13, <1>14, <1>15, <1>16, <1>17, <1>18, <1>19, <1>20, <1>21, <1>22, <1>23, <1>24, <1>25, <1>26, <1>27, <1>28 DEF Next, Work

(* A stored report does not change, and no report is taken back.           *)
LEMMA StoredStays ==
  ASSUME TypeOK, Progress, [Next]_vars
  PROVE  \A q \in Plans : /\ report[q].stored => report'[q] = report[q]
                          /\ report[q].outcome # "none" => report'[q].outcome # "none"
<1> USE DEF operatorVars, campaignVars
<1>y. report \in [Plans -> [outcome : {"none", "useful", "other"}, stored : BOOLEAN]]
  BY DEF TypeOK
<1> DEFINE Kept == \A q \in Plans : /\ report[q].stored => report'[q] = report[q]
                                    /\ report[q].outcome # "none" => report'[q].outcome # "none"
<1>1. ASSUME RevokeGrant PROVE Kept
  BY <1>1 DEF RevokeGrant
<1>2. ASSUME Expire PROVE Kept
  BY <1>2 DEF Expire
<1>3. ASSUME Amend PROVE Kept
  BY <1>3 DEF Amend
<1>4. ASSUME RevokeAdmission PROVE Kept
  BY <1>4 DEF RevokeAdmission
<1>5. ASSUME NEW p \in Plans, Enqueue(p) PROVE Kept
  BY <1>5 DEF Enqueue
<1>6. ASSUME NEW p \in Plans, Cancel(p) PROVE Kept
  BY <1>6 DEF Cancel
<1>7. ASSUME NEW p \in Plans, Review(p) PROVE Kept
  BY <1>7 DEF Review
<1>8. ASSUME NEW p \in Plans, AdmitAgain(p) PROVE Kept
  BY <1>8 DEF AdmitAgain
<1>9. ASSUME NEW p \in Plans, BeginRun(p) PROVE Kept
  BY <1>9 DEF BeginRun
<1>10. ASSUME NEW p \in Plans, Claim(p) PROVE Kept
  BY <1>10 DEF Claim
<1>11. ASSUME NEW p \in Plans, ReserveStage(p) PROVE Kept
  BY <1>11 DEF ReserveStage
<1>12. ASSUME NEW p \in Plans, ReadCost(p) PROVE Kept
  BY <1>12 DEF ReadCost
<1>13. ASSUME NEW p \in Plans, FinishStage(p) PROVE Kept
  BY <1>13 DEF FinishStage
<1>14. ASSUME NEW p \in Plans, Preflight(p) PROVE Kept
  BY <1>14 DEF Preflight
<1>15. ASSUME NEW p \in Plans, Answer(p) PROVE Kept
  BY <1>15 DEF Answer
<1>16. ASSUME NEW p \in Plans, MarkInterrupted(p) PROVE Kept
  BY <1>16 DEF MarkInterrupted
<1>17. ASSUME NEW p \in Plans, Fit(p) PROVE Kept
  <2>1. ~report[p].stored
    BY <1>17 DEF Fit, At, Progress, Reports, Reported
  <2>2. \E outcome \in {"useful", "other"} : report' = [report EXCEPT ![p].outcome = outcome]
    BY <1>17 DEF Fit, FitOutcomes
  <2> QED
    BY <1>y, <2>1, <2>2
<1>18. ASSUME NEW p \in Plans, Record(p) PROVE Kept
  <2>1. ~report[p].stored
    BY <1>18 DEF Record, At, Progress, Reports, Reported
  <2>2. report' = [report EXCEPT ![p].stored = TRUE]
    BY <1>18 DEF Record
  <2> QED
    BY <1>y, <2>1, <2>2
<1>19. ASSUME NEW p \in Plans, Complete(p) PROVE Kept
  BY <1>19 DEF Complete
<1>20. ASSUME NEW p \in Plans, AdmitOwn(p) PROVE Kept
  BY <1>20 DEF AdmitOwn
<1>21. ASSUME NEW p \in Plans, Interrupt(p) PROVE Kept
  BY <1>21 DEF Interrupt
<1>22. ASSUME NEW p \in Plans, Crash(p) PROVE Kept
  BY <1>22 DEF Crash
<1>23. ASSUME NEW p \in Plans, MarkDead(p) PROVE Kept
  BY <1>23 DEF MarkDead
<1>24. ASSUME UNCHANGED vars PROVE Kept
  BY <1>24 DEF vars
<1>25. ASSUME NEW p \in Plans, InsertJob(p) PROVE Kept
  BY <1>25 DEF InsertJob
<1>26. ASSUME NEW p \in Plans, ResolveIdentity(p) PROVE Kept
  BY <1>26 DEF ResolveIdentity
<1>27. ASSUME NEW p \in Plans, AdmitResolved(p) PROVE Kept
  BY <1>27 DEF AdmitResolved
<1>28. ASSUME NEW p \in Plans, LoseCommand(p) PROVE Kept
  BY <1>28 DEF LoseCommand
<1> QED
  BY <1>1, <1>2, <1>3, <1>4, <1>5, <1>6, <1>7, <1>8, <1>9, <1>10, <1>11, <1>12, <1>13, <1>14, <1>15, <1>16, <1>17, <1>18, <1>19, <1>20, <1>21, <1>22, <1>23, <1>24, <1>25, <1>26, <1>27, <1>28 DEF Next, Work

LEMMA RevokedStays ==
  ASSUME TypeOK, OpsStep, grant.revoked
  PROVE  grant'.revoked
<1>1. CASE Keeping
  BY <1>1 DEF Keeping
<1>2. ASSUME NEW p \in Plans, NEW o \in OpIds, Reserving(p, o) PROVE grant'.revoked
  BY <1>2, ReserveBooks
<1>3. ASSUME NEW o \in OpIds, NEW seconds \in Nat, NEW cash \in Facts, Finish(o, seconds, cash) PROVE grant'.revoked
  BY <1>3, FinishBooks
<1> QED
  BY <1>1, <1>2, <1>3 DEF OpsStep

(* Every step keeps the admission to a report that earned it.              *)
LEMMA AdmittedStep ==
  ASSUME TypeOK, Progress, Admitted, OpsStep, [Next]_vars
  PROVE  Admitted'
<1> USE DEF operatorVars, campaignVars
<1>y. /\ admission \in [plan : Plans \cup {NoPlan}, revoked : BOOLEAN] /\ withdrawn \in BOOLEAN
      /\ discredited \subseteq Plans /\ outdated \subseteq Plans /\ NoPlan \notin Plans
  BY AssessmentAssumption DEF TypeOK
<1>a. /\ withdrawn => grant.revoked
      /\ InForce => /\ ~withdrawn
                    /\ report[admission.plan].outcome = "useful" /\ report[admission.plan].stored
      /\ discredited \subseteq {q \in Plans : report[q].outcome # "none"}
      /\ admission.revoked => discredited \subseteq outdated
  BY DEF Admitted
<1>r. \A q \in Plans : /\ report[q].stored => report'[q] = report[q]
                       /\ report[q].outcome # "none" => report'[q].outcome # "none"
  BY StoredStays
<1>g. grant.revoked => grant'.revoked
  BY RevokedStays
<1>k. ASSUME UNCHANGED <<admission, withdrawn, discredited, outdated>>
      PROVE  Admitted'
  BY <1>a, <1>g, <1>k, <1>r, <1>y DEF Admitted, InForce
<1>m. ASSUME NEW p \in Plans, Admit(p), UNCHANGED <<grant, report, withdrawn, discredited>>
      PROVE  Admitted'
  <2>1. admission' = [plan |-> p, revoked |-> FALSE] /\ ~withdrawn /\ report[p].outcome = "useful" /\ report[p].stored
    BY <1>a, <1>m DEF Admit, Admissible, Authorized
  <2> QED
    BY <1>a, <1>m, <1>y, <2>1 DEF Admitted, InForce
<1>w. ASSUME WithdrawAdmission, report' = report, withdrawn' => grant'.revoked
      PROVE  Admitted'
  <2>1. admission'.revoked
    BY <1>w, <1>y DEF WithdrawAdmission
  <2>2. outdated' = {q \in Plans : report[q].outcome # "none"} /\ discredited' = outdated'
    BY <1>a, <1>w DEF WithdrawAdmission, Created
  <2> QED
    BY <1>w, <2>1, <2>2 DEF Admitted, InForce
<1>1. ASSUME RevokeGrant PROVE Admitted'
  <2>1. withdrawn' /\ grant'.revoked /\ report' = report
    BY <1>1 DEF RevokeGrant, TypeOK
  <2>2. CASE admission.plan = NoPlan
    <3>1. UNCHANGED <<admission, outdated, discredited>>
      BY <1>1, <2>2 DEF RevokeGrant
    <3> QED
      BY <1>a, <2>1, <2>2, <3>1 DEF Admitted, InForce
  <2>3. CASE admission.plan # NoPlan
    <3>1. WithdrawAdmission
      BY <1>1, <2>3 DEF RevokeGrant
    <3> QED
      BY <1>w, <2>1, <3>1
  <2> QED
    BY <2>2, <2>3
<1>2. ASSUME Expire PROVE Admitted'
  BY <1>2, <1>k DEF Expire
<1>3. ASSUME Amend PROVE Admitted'
  BY <1>3, <1>k DEF Amend
<1>4. ASSUME RevokeAdmission PROVE Admitted'
  <2>1. WithdrawAdmission /\ report' = report /\ (withdrawn' => grant'.revoked)
    BY <1>4, <1>a DEF RevokeAdmission
  <2> QED
    BY <1>w, <2>1
<1>5. ASSUME NEW p \in Plans, Enqueue(p) PROVE Admitted'
  BY <1>5, <1>k DEF Enqueue
<1>6. ASSUME NEW p \in Plans, Cancel(p) PROVE Admitted'
  BY <1>6, <1>k DEF Cancel
<1>7. ASSUME NEW p \in Plans, Review(p) PROVE Admitted'
  BY <1>7, <1>k DEF Review
<1>8. ASSUME NEW p \in Plans, AdmitAgain(p) PROVE Admitted'
  <2>1. CASE Admit(p) /\ UNCHANGED <<grant, ops, command>>
    BY <1>8, <1>m, <2>1 DEF AdmitAgain
  <2>2. CASE ~(Admit(p) /\ UNCHANGED <<grant, ops, command>>)
    BY <1>8, <1>k, <2>2 DEF AdmitAgain
  <2> QED
    BY <2>1, <2>2
<1>9. ASSUME NEW p \in Plans, BeginRun(p) PROVE Admitted'
  BY <1>9, <1>k DEF BeginRun
<1>10. ASSUME NEW p \in Plans, Claim(p) PROVE Admitted'
  BY <1>10, <1>k DEF Claim
<1>11. ASSUME NEW p \in Plans, ReserveStage(p) PROVE Admitted'
  BY <1>11, <1>k DEF ReserveStage
<1>12. ASSUME NEW p \in Plans, ReadCost(p) PROVE Admitted'
  BY <1>12, <1>k DEF ReadCost
<1>13. ASSUME NEW p \in Plans, FinishStage(p) PROVE Admitted'
  BY <1>13, <1>k DEF FinishStage
<1>14. ASSUME NEW p \in Plans, Preflight(p) PROVE Admitted'
  BY <1>14, <1>k DEF Preflight
<1>15. ASSUME NEW p \in Plans, Answer(p) PROVE Admitted'
  BY <1>15, <1>k DEF Answer
<1>16. ASSUME NEW p \in Plans, MarkInterrupted(p) PROVE Admitted'
  BY <1>16, <1>k DEF MarkInterrupted
<1>17. ASSUME NEW p \in Plans, Fit(p) PROVE Admitted'
  BY <1>17, <1>k DEF Fit
<1>18. ASSUME NEW p \in Plans, Record(p) PROVE Admitted'
  BY <1>18, <1>k DEF Record
<1>19. ASSUME NEW p \in Plans, Complete(p) PROVE Admitted'
  BY <1>19, <1>k DEF Complete
<1>20. ASSUME NEW p \in Plans, AdmitOwn(p) PROVE Admitted'
  <2>1. CASE Admissible(p)
    BY <1>20, <1>m, <2>1 DEF AdmitOwn
  <2>2. CASE ~Admissible(p)
    BY <1>20, <1>k, <2>2 DEF AdmitOwn
  <2> QED
    BY <2>1, <2>2
<1>21. ASSUME NEW p \in Plans, Interrupt(p) PROVE Admitted'
  BY <1>21, <1>k DEF Interrupt
<1>22. ASSUME NEW p \in Plans, Crash(p) PROVE Admitted'
  BY <1>22, <1>k DEF Crash
<1>23. ASSUME NEW p \in Plans, MarkDead(p) PROVE Admitted'
  BY <1>23, <1>k DEF MarkDead
<1>24. ASSUME UNCHANGED vars PROVE Admitted'
  BY <1>24, <1>k DEF vars
<1>25. ASSUME NEW p \in Plans, InsertJob(p) PROVE Admitted'
  BY <1>25, <1>k DEF InsertJob
<1>26. ASSUME NEW p \in Plans, ResolveIdentity(p) PROVE Admitted'
  BY <1>26, <1>k DEF ResolveIdentity
<1>27. ASSUME NEW p \in Plans, AdmitResolved(p) PROVE Admitted'
  <2>1. CASE Admit(p)
    BY <1>27, <1>m, <2>1 DEF AdmitResolved
  <2>2. CASE ~Admit(p)
    BY <1>27, <1>k, <2>2 DEF AdmitResolved
  <2> QED
    BY <2>1, <2>2
<1>28. ASSUME NEW p \in Plans, LoseCommand(p) PROVE Admitted'
  BY <1>28, <1>k DEF LoseCommand
<1> QED
  BY <1>1, <1>2, <1>3, <1>4, <1>5, <1>6, <1>7, <1>8, <1>9, <1>10, <1>11, <1>12, <1>13, <1>14, <1>15, <1>16, <1>17, <1>18, <1>19, <1>20, <1>21, <1>22, <1>23, <1>24, <1>25, <1>26, <1>27, <1>28 DEF Next, Work

(* What brings an admission back was not there at any revocation.          *)
LEMMA FreshStep ==
  ASSUME TypeOK, Admitted, [Next]_vars
  PROVE  admission.revoked /\ ~admission'.revoked => admission'.plan \notin discredited
<1> USE DEF operatorVars, campaignVars
<1> DEFINE Fresh == admission.revoked /\ ~admission'.revoked => admission'.plan \notin discredited
<1>k. ASSUME admission' = admission PROVE Fresh
  BY <1>k
<1>m. ASSUME NEW p \in Plans, Admit(p) PROVE Fresh
  <2>1. admission'.plan = p /\ (admission.revoked => p \notin outdated)
    BY <1>m DEF Admit, Admissible
  <2>2. admission.revoked => discredited \subseteq outdated
    BY DEF Admitted
  <2> QED
    BY <2>1, <2>2
<1>w. ASSUME WithdrawAdmission PROVE Fresh
  BY <1>w DEF WithdrawAdmission, TypeOK
<1>1. ASSUME RevokeGrant PROVE Fresh
  <2>1. WithdrawAdmission \/ admission' = admission
    BY <1>1 DEF RevokeGrant
  <2> QED
    BY <1>k, <1>w, <2>1
<1>2. ASSUME Expire PROVE Fresh
  BY <1>2, <1>k DEF Expire
<1>3. ASSUME Amend PROVE Fresh
  BY <1>3, <1>k DEF Amend
<1>4. ASSUME RevokeAdmission PROVE Fresh
  BY <1>4, <1>w DEF RevokeAdmission
<1>5. ASSUME NEW p \in Plans, Enqueue(p) PROVE Fresh
  BY <1>5, <1>k DEF Enqueue
<1>6. ASSUME NEW p \in Plans, Cancel(p) PROVE Fresh
  BY <1>6, <1>k DEF Cancel
<1>7. ASSUME NEW p \in Plans, Review(p) PROVE Fresh
  BY <1>7, <1>k DEF Review
<1>8. ASSUME NEW p \in Plans, AdmitAgain(p) PROVE Fresh
  <2>1. Admit(p) \/ admission' = admission
    BY <1>8 DEF AdmitAgain
  <2> QED
    BY <1>k, <1>m, <2>1
<1>9. ASSUME NEW p \in Plans, BeginRun(p) PROVE Fresh
  BY <1>9, <1>k DEF BeginRun
<1>10. ASSUME NEW p \in Plans, Claim(p) PROVE Fresh
  BY <1>10, <1>k DEF Claim
<1>11. ASSUME NEW p \in Plans, ReserveStage(p) PROVE Fresh
  BY <1>11, <1>k DEF ReserveStage
<1>12. ASSUME NEW p \in Plans, ReadCost(p) PROVE Fresh
  BY <1>12, <1>k DEF ReadCost
<1>13. ASSUME NEW p \in Plans, FinishStage(p) PROVE Fresh
  BY <1>13, <1>k DEF FinishStage
<1>14. ASSUME NEW p \in Plans, Preflight(p) PROVE Fresh
  BY <1>14, <1>k DEF Preflight
<1>15. ASSUME NEW p \in Plans, Answer(p) PROVE Fresh
  BY <1>15, <1>k DEF Answer
<1>16. ASSUME NEW p \in Plans, MarkInterrupted(p) PROVE Fresh
  BY <1>16, <1>k DEF MarkInterrupted
<1>17. ASSUME NEW p \in Plans, Fit(p) PROVE Fresh
  BY <1>17, <1>k DEF Fit
<1>18. ASSUME NEW p \in Plans, Record(p) PROVE Fresh
  BY <1>18, <1>k DEF Record
<1>19. ASSUME NEW p \in Plans, Complete(p) PROVE Fresh
  BY <1>19, <1>k DEF Complete
<1>20. ASSUME NEW p \in Plans, AdmitOwn(p) PROVE Fresh
  <2>1. Admit(p) \/ admission' = admission
    BY <1>20 DEF AdmitOwn
  <2> QED
    BY <1>k, <1>m, <2>1
<1>21. ASSUME NEW p \in Plans, Interrupt(p) PROVE Fresh
  BY <1>21, <1>k DEF Interrupt
<1>22. ASSUME NEW p \in Plans, Crash(p) PROVE Fresh
  BY <1>22, <1>k DEF Crash
<1>23. ASSUME NEW p \in Plans, MarkDead(p) PROVE Fresh
  BY <1>23, <1>k DEF MarkDead
<1>24. ASSUME UNCHANGED vars PROVE Fresh
  BY <1>24, <1>k DEF vars
<1>25. ASSUME NEW p \in Plans, InsertJob(p) PROVE Fresh
  BY <1>25, <1>k DEF InsertJob
<1>26. ASSUME NEW p \in Plans, ResolveIdentity(p) PROVE Fresh
  BY <1>26, <1>k DEF ResolveIdentity
<1>27. ASSUME NEW p \in Plans, AdmitResolved(p) PROVE Fresh
  <2>1. CASE Admit(p)
    BY <1>27, <1>m, <2>1 DEF AdmitResolved
  <2>2. CASE ~Admit(p)
    BY <1>27, <1>k, <2>2 DEF AdmitResolved
  <2> QED
    BY <2>1, <2>2
<1>28. ASSUME NEW p \in Plans, LoseCommand(p) PROVE Fresh
  BY <1>28, <1>k DEF LoseCommand
<1> QED
  BY <1>1, <1>2, <1>3, <1>4, <1>5, <1>6, <1>7, <1>8, <1>9, <1>10, <1>11, <1>12, <1>13, <1>14, <1>15, <1>16, <1>17, <1>18, <1>19, <1>20, <1>21, <1>22, <1>23, <1>24, <1>25, <1>26, <1>27, <1>28 DEF Next, Work

(* reserve refuses a stopped job; after a run wrote over the stop, only    *)
(* the identities of a host are still reserved.                            *)
LEMMA StoppedStep ==
  ASSUME TypeOK, Progress, Admitted, OpsStep, NEW p \in Plans,
         NEW o \in OpsOf(p), ops[o].state = "absent", ops'[o].state # "absent"
  PROVE  ~withdrawn /\ (p \in cancelled => o[2] = "identity" /\ job[p] = "complete")
<1> DEFINE Goal == ~withdrawn /\ (p \in cancelled => o[2] = "identity" /\ job[p] = "complete")
<1>0. o \in OpIds /\ o[1] = p /\ o # Cost
  BY OpNames
<1>1. CASE Keeping
  BY <1>1 DEF Keeping
<1>2. ASSUME NEW q \in Plans, NEW x \in OpIds, Reserving(q, x) PROVE Goal
  <2>1. x = o
    BY <1>0, <1>2, ReserveBooks
  <2>2. q = p
    BY <1>0, <1>2, <2>1, OpNames DEF Reserving
  <2>3. ~grant.revoked /\ job[p] \notin {"cancelled", "indeterminate"}
    BY <1>2, <2>2 DEF Reserving, Reservable, Authorized
  <2>4. ~withdrawn
    BY <2>3 DEF Admitted
  <2>5. ASSUME p \in cancelled PROVE o[2] = "identity" /\ job[p] = "complete"
    <3>1. job[p] \notin {"none", "queued", "running"}
      BY <2>5 DEF Progress, Jobs
    <3>2. job[p] = "complete"
      BY <2>3, <3>1 DEF TypeOK, JobStates
    <3>3. pc[p] \in {"admitting", "gone"}
      BY <3>2 DEF Progress, Jobs
    <3>4. \E k \in 1 .. MaxEvents : o = HostOp(p, k)
      BY <1>2, <2>1, <2>2, <3>3 DEF Reserving
    <3> QED
      BY <3>2, <3>4, OpKinds
  <2> QED
    BY <2>4, <2>5
<1>3. ASSUME NEW x \in OpIds, NEW seconds \in Nat, NEW cash \in Facts, Finish(x, seconds, cash)
      PROVE  FALSE
  <2>1. ops[x].state = "reserved" /\ \A y \in OpIds : y # x => ops'[y] = ops[y]
    BY <1>3, FinishBooks
  <2> QED
    BY <1>0, <2>1
<1> QED
  BY <1>1, <1>2, <1>3 DEF OpsStep

-----------------------------------------------------------------------------
LEMMA InvInit ==
  ASSUME Init
  PROVE  Inv
<1>0. Trials \in Nat \ {0} /\ MaxEvents \in Nat /\ {Granted, Raised} \subseteq [Dims -> Nat]
  BY AssessmentAssumption DEF Dims
<1>1. TypeOK
  <2>1. grant \in [revoked : BOOLEAN, expired : BOOLEAN, limits : {Granted, Raised}, spent : [Dims -> Nat]]
    BY DEF Init
  <2>2. ops \in [OpIds -> [state : {"absent", "reserved", "complete"}, seconds : Nat, cash : Nat]]
    BY DEF Init, Absent
  <2>3. trial \in [Plans -> 1 .. Trials + 1] /\ events \in 0 .. MaxEvents
    BY <1>0 DEF Init
  <2>4. job \in [Plans -> JobStates] /\ pc \in [Plans -> Steps]
    BY DEF Init, JobStates, Steps
  <2>5. report \in [Plans -> [outcome : {"none", "useful", "other"}, stored : BOOLEAN]]
    BY DEF Init
  <2>6. admission \in [plan : Plans \cup {NoPlan}, revoked : BOOLEAN]
    BY DEF Init
  <2>7. /\ reviewed \subseteq Plans /\ outdated \subseteq Plans /\ cancelled \subseteq Plans
        /\ discredited \subseteq Plans /\ withdrawn \in BOOLEAN
        /\ valid \in [Plans -> SUBSET (1 .. Trials)] /\ failed \in [Plans -> BOOLEAN]
        /\ screened \in [Plans -> SUBSET {RouteOf[t] : t \in Screening}]
    BY DEF Init
  <2>8. command \in [Plans -> 0 .. MaxEvents]
    BY <1>0 DEF Init
  <2> QED
    BY <2>1, <2>2, <2>3, <2>4, <2>5, <2>6, <2>7, <2>8 DEF TypeOK
<1>2. Progress
  <2>1. ASSUME NEW p \in Plans PROVE Campaign(p) /\ Screens(p) /\ Reports(p) /\ Jobs(p)
    <3>1. pc[p] = "idle" /\ trial[p] = 1 /\ job[p] = "none" /\ cancelled = {}
          /\ report[p] = [outcome |-> "none", stored |-> FALSE]
      BY DEF Init
    <3>2. Campaign(p)
      BY <1>0, <3>1 DEF Campaign, Testing, Graded, Reporting, Starting
    <3>3. valid[p] = {} /\ screened[p] = {}
      BY DEF Init
    <3> QED
      BY <3>1, <3>2, <3>3 DEF Screens, Reports, Jobs, Testing
  <2> QED
    BY <2>1 DEF Progress
<1>3. Admitted
  BY DEF Init, Admitted, InForce
<1>4. Accounts
  <2>1. \A o \in OpIds : ops[o].state = "absent"
    BY DEF Init, Absent
  <2>2. Taken = {}
    BY <2>1 DEF Taken
  <2>3. /\ grant.spent = [d \in Dims |-> 0] /\ grant.limits = Granted
        /\ grant.spent.operations = 0 /\ grant.spent.seconds = 0 /\ grant.spent.cash = 0
    BY DEF Init, Dims
  <2>4. Cardinality(Taken) = 0 /\ IsFiniteSet(Taken)
    BY <2>2, FS_EmptySet
  <2>5. /\ SumFunctionOnSet([o \in Taken |-> ops[o].seconds], Taken) = 0
        /\ SumFunctionOnSet([o \in Taken |-> ops[o].cash], Taken) = 0
    BY <2>2, SumEmpty
  <2>6. Fits(grant.spent, grant.limits) /\ grant.spent.operations =< grant.limits.operations
    BY <1>0, <2>3 DEF Fits, Dims
  <2>7. Spends
    BY <2>3, <2>4, <2>5, <2>6 DEF Spends
  <2> QED
    BY <2>1, <2>4, <2>7, SpendsIs DEF Accounts
<1> QED
  BY <1>1, <1>2, <1>3, <1>4 DEF Inv

LEMMA InvStep ==
  ASSUME Inv, [Next]_vars
  PROVE  Inv' /\ OpsStep
<1>a. TypeOK /\ Progress /\ Admitted /\ Accounts
  BY DEF Inv
<1>o. OpsStep
  BY <1>a, OpsSteps
<1>1. grant' \in GrantTypes
  <2>1. CASE Keeping
    BY <2>1 DEF Keeping
  <2>2. ASSUME NEW p \in Plans, NEW o \in OpIds, Reserving(p, o) PROVE grant' \in GrantTypes
    BY <1>a, <2>2, ReserveBooks
  <2>3. ASSUME NEW o \in OpIds, NEW seconds \in Nat, NEW cash \in Facts, Finish(o, seconds, cash)
        PROVE  grant' \in GrantTypes
    BY <1>a, <2>3, FinishBooks
  <2> QED
    BY <1>o, <2>1, <2>2, <2>3 DEF OpsStep
<1>2. TypeOK'
  <2>1. ops' \in [OpIds -> OpTypes] /\ SideTypes'
    BY <1>a, <1>o, OpsGrow, SideTypesStep
  <2> QED
    BY <1>1, <2>1 DEF SideTypes, GrantTypes, OpTypes, TypeOK
<1>3. Progress'
  BY <1>a, <1>o, CampaignStep, ScreensStep, ReportsStep, JobsStep DEF Progress
<1>4. Admitted' /\ Accounts'
  BY <1>a, <1>o, AdmittedStep, AccountsStep
<1> QED
  BY <1>o, <1>2, <1>3, <1>4 DEF Inv

LEMMA InvHolds == Spec => []Inv
<1>1. Init => Inv
  BY InvInit
<1>2. Inv /\ [Next]_vars => Inv'
  BY InvStep
<1> QED
  BY <1>1, <1>2, PTL DEF Spec

-----------------------------------------------------------------------------
(* The rows of an assessment and the state of its workers keep their types *)
(* in every run.                                                           *)
THEOREM AssessmentTypes == Spec => []TypeOK
<1>1. Inv => TypeOK
  BY DEF Inv
<1> QED
  BY <1>1, InvHolds, PTL

(* reserve and finish_operation keep the books: what a grant has spent is  *)
(* the sum over its operations, for any number of plans, trials, crashes   *)
(* and overruns, and no grant in force is over a limit.                    *)
THEOREM SpentAccounted == Spec => []SpentIsAccounted
<1>1. Inv => SpentIsAccounted
  BY DEF Inv, Accounts
<1> QED
  BY <1>1, InvHolds, PTL

(* An admission in force was earned by a campaign that measured every      *)
(* trial of the arms it compares, and has not outlived the operator's      *)
(* grant, whatever runs and commands raced for it.                         *)
THEOREM AdmissionEarned == Spec => []AdmissionIsEarned
<1>1. ASSUME Inv, InForce
      PROVE  LET p == admission.plan IN
               /\ ~withdrawn
               /\ report[p] = [outcome |-> "useful", stored |-> TRUE]
               /\ ~failed[p] /\ Paired \subseteq valid[p]
               /\ \A t \in Paired : RouteOf[t] \notin screened[p]
               /\ \A o \in Planned(p) : ops[o].state = "complete"
  <2> DEFINE p == admission.plan
  <2>1. p \in Plans /\ report[p] \in [outcome : {"none", "useful", "other"}, stored : BOOLEAN]
    BY <1>1 DEF Inv, TypeOK, InForce
  <2>2. ~withdrawn /\ report[p].outcome = "useful" /\ report[p].stored
    BY <1>1 DEF Inv, Admitted
  <2>3. report[p] = [outcome |-> "useful", stored |-> TRUE]
    BY <2>1, <2>2
  <2>4. /\ ~failed[p] /\ Paired \subseteq valid[p]
        /\ \A t \in Paired : RouteOf[t] \notin screened[p]
        /\ \A o \in Planned(p) : ops[o].state = "complete"
    BY <1>1, <2>1, <2>2 DEF Inv, Progress, Reports
  <2> QED
    BY <2>2, <2>3, <2>4
<1>2. Inv => AdmissionIsEarned
  BY <1>1 DEF AdmissionIsEarned
<1> QED
  BY <1>2, InvHolds, PTL

(* A revoked admission comes back only for a report that is younger than   *)
(* every revocation.                                                       *)
THEOREM RevivalFresh == Spec => RevivalIsFresh
<1>1. Inv /\ [Next]_vars =>
        [admission.revoked /\ ~admission'.revoked => admission'.plan \notin discredited]_vars
  BY FreshStep DEF Inv
<1> QED
  BY <1>1, InvHolds, PTL DEF Spec, RevivalIsFresh

(* Nothing is reserved under a grant that the operator has revoked, and    *)
(* for a cancelled plan only the identities of a later admit, after its    *)
(* run wrote "complete" over the cancellation.                             *)
THEOREM StoppedQuiet == Spec => StoppedReservesNothing
<1> DEFINE Quiet == \A p \in Plans : \A o \in OpsOf(p) :
                      ops[o].state = "absent" /\ ops'[o].state # "absent" =>
                        /\ ~withdrawn
                        /\ p \in cancelled => o[2] = "identity" /\ job[p] = "complete"
<1>1. ASSUME Inv, [Next]_vars PROVE Quiet
  <2>1. TypeOK /\ Progress /\ Admitted /\ OpsStep
    BY <1>1, InvStep DEF Inv
  <2> QED
    BY <2>1, StoppedStep
<1>2. Inv /\ [Next]_vars => [Quiet]_vars
  BY <1>1
<1> QED
  BY <1>2, InvHolds, PTL DEF Spec, StoppedReservesNothing
=============================================================================
