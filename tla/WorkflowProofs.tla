--------------------------- MODULE WorkflowProofs ---------------------------
(***************************************************************************)
(* The safety of Workflow, for any number of calls, any graph of steps,    *)
(* any prices and any budget.                                              *)
(*                                                                         *)
(* The calls that continue one start form a chain: a waiting outcome is    *)
(* continued once, by the call whose report is accepted.  The invariant is *)
(* about the call at the end of the chain, which has the outputs and the   *)
(* receipts of all the others.                                             *)
(***************************************************************************)
EXTENDS Workflow, SumTheorems

Unstarted == {"idle", "report"}
Going == {"loop", "waiting", "success"}
Ran(d) == outcome[d] \notin {"none", "refused"}
Related(q, r) == root[q] = root[r] /\ pc[q] # "idle"
Continued(q) == pc[q] = "waiting" /\ <<q, host[q]>> \in reported

(* A call that has not started has done nothing.                           *)
Unused ==
    \A r \in Runs : pc[r] \in Unstarted =>
        /\ root[r] = r /\ outputs[r] = {} /\ receipts[r] = {}
        /\ \A s \in Steps : outcome[<<r, s>>] = "none" /\ decision[<<r, s>>] = "none"

(* The chain of a start has one end; a call about to report has the        *)
(* outcome of a call that waits.                                           *)
Chain ==
    /\ \A q, r \in Runs : root[q] = r /\ pc[r] \in Unstarted => q = r
    /\ \A q, r \in Runs :
           root[q] = root[r] /\ pc[q] # "idle" /\ pc[r] # "idle" /\ ~Continued(q) /\ ~Continued(r)
               => q = r
    /\ \A r \in Runs : pc[r] = "report" => source[r] \in Runs /\ pc[source[r]] = "waiting"
    /\ \A r \in Runs : pc[r] = "waiting" => host[r] \in Hosted
    /\ \A d \in reported : pc[d[1]] = "waiting" /\ d[2] = host[d[1]]

(* Receipts are of dispatches that ended, of calls of the chain.           *)
Receipted ==
    \A r \in Runs : \A d \in receipts[r] : outcome[d] # "none" /\ Related(d[1], r)

(* The writes that a call runs alone: all of them in a prepared wave.      *)
Alone(r) == {w \in Writes : w \notin Mixed \/ mode[r] = "prepared"}

(* A wave is of steps without an output, and such a write is alone in it;  *)
(* what the call dispatched before has its output.                         *)
Turn ==
    \A r \in Runs :
        /\ pc[r] = "loop" => \A s \in Steps : outcome[<<r, s>>] # "none" => s \in outputs[r]
        /\ pc[r] = "run" =>
               /\ wave[r] \cap outputs[r] = {}
               /\ \A s \in wave[r], w \in wave[r] \cap Alone(r) : s = w
               /\ \A s \in Steps : outcome[<<r, s>>] # "none" => s \in outputs[r] \cup wave[r]
        /\ \A s \in Steps : outcome[<<r, s>>] = "waiting" => s \in Hosted

(* A decision is open only in the wave at hand, for a step that did not    *)
(* begin.                                                                  *)
Opened ==
    \A r \in Runs, s \in Steps : decision[<<r, s>>] = "prepared" =>
        /\ mode[r] = "prepared" /\ s \in wave[r]
        /\ pc[r] \in {"run", "cancel", "raised", "crashed"}
        /\ pc[r] = "run" => ~Ran(<<r, s>>)

(* The writes that every call of a chain runs alone.                       *)
Prepared(t) == \A q \in Runs : Related(q, t) => mode[q] = "prepared"
Kept(w, t) == w \notin Mixed \/ Prepared(t)

(* The end of the chain knows those that ran.                              *)
Writing ==
    \A t \in Runs : ~Continued(t) =>
        \A q \in Runs, w \in Writes : Related(q, t) /\ Kept(w, t) /\ Ran(<<q, w>>) =>
            /\ pc[t] \in Going => w \in outputs[t]
            /\ pc[t] = "run" => w \in outputs[t] \/ (q = t /\ w \in wave[t])

WroteOnce ==
    \A q, r \in Runs, w \in Writes :
        Related(q, r) /\ Related(r, q) /\ Kept(w, r) /\ Ran(<<q, w>>) /\ Ran(<<r, w>>) => q = r

(* The end of a chain of prepared waves has the receipts of what ran.      *)
Covering ==
    \A t \in Runs : ~Continued(t) /\ Prepared(t) =>
        \A d \in Dispatches : Related(d[1], t) /\ Ran(d) =>
            /\ pc[t] \in Going => d \in receipts[t]
            /\ pc[t] = "run" => d \in receipts[t] \/ (d[1] = t /\ d[2] \in wave[t])

(* The wave at hand fits the budget beside what is accounted, and a step   *)
(* of it charges at most its maximum.                                      *)
Maxima(r) == SumFunctionOnSet([s \in Steps |-> maximum[<<r, s>>]], wave[r])
Funded ==
    \A r \in Runs : pc[r] = "run" /\ mode[r] = "prepared" =>
        /\ CashKnown(r) /\ Accounted(r) + Maxima(r) <= Budget
        /\ \A s \in wave[r] \ Hosted : Ran(<<r, s>>) /\ cash[<<r, s>>] # None =>
               cash[<<r, s>>] <= maximum[<<r, s>>]

(* What the steps of a chain charged stays within the budget.              *)
Bills(r) == {d \in Dispatches : Related(d[1], r) /\ Ran(d) /\ d[2] \notin Hosted}
Within == \A r \in Runs : Prepared(r) => SumFunctionOnSet(Charge, Bills(r)) <= Budget

Inv ==
    /\ TypeOK /\ Unused /\ Chain /\ Receipted /\ Turn /\ Opened /\ Writing /\ WroteOnce
    /\ Covering /\ Funded /\ Within

-----------------------------------------------------------------------------
(* The kinds of steps: a call starts, reports, ends, takes in its wave,    *)
(* gives a decision up, or takes one of the remaining actions.             *)
Starts(r) ==
    /\ pc[r] = "idle"
    /\ pc' = [pc EXCEPT ![r] = "loop"]
    /\ \E m \in {"prepared", "ordinary"} : mode' = [mode EXCEPT ![r] = m]
    /\ UNCHANGED <<economic, durableVars, source, root, outputs, receipts, wave, host, outcome, cash>>

Reports(r, q) ==
    /\ pc[r] = "report" /\ q = source[r] /\ <<q, host[q]>> \notin reported
    /\ pc' = [pc EXCEPT ![r] = "loop"]
    /\ reported' = reported \cup {<<q, host[q]>>}
    /\ \E c \in Nat \cup {None} : cash' = [cash EXCEPT ![<<q, host[q]>>] = c]
    /\ \E m \in {"prepared", "ordinary"} : mode' = [mode EXCEPT ![r] = m]
    /\ root' = [root EXCEPT ![r] = root[q]]
    /\ outputs' = [outputs EXCEPT ![r] = outputs[q] \cup {host[q]}]
    /\ receipts' = [receipts EXCEPT ![r] = receipts[q]]
    /\ UNCHANGED <<economic, checkpoint, decision, maximum, source, wave, host, outcome>>

Quits(r) ==
    /\ pc[r] \in {"report", "loop", "run", "cancel"}
    /\ \E l \in {"failed", "success", "raised", "crashed"} :
         /\ pc' = [pc EXCEPT ![r] = l]
         /\ l = "success" => pc[r] = "loop"
         /\ l = "failed" => pc[r] = "loop" \/ (pc[r] = "cancel" /\ Uninvoked(r) = {})
    /\ \E h \in Hosted \cup {None} : host' = [host EXCEPT ![r] = h]
    /\ \E q \in Runs \cup {None} : source' = [source EXCEPT ![r] = q]
    /\ checkpoint' \in {checkpoint, None}
    /\ UNCHANGED <<economic, mode, reported, decision, maximum, root, outputs, receipts, wave, outcome, cash>>

Collects(r) ==
    /\ pc[r] = "run" /\ \A s \in wave[r] : outcome[<<r, s>>] # "none"
    /\ \E l \in {"loop", "waiting", "failed", "cancel"}, O \in SUBSET wave[r], R \in SUBSET wave[r],
          h \in Hosted \cup {None} :
         /\ pc' = [pc EXCEPT ![r] = l]
         /\ outputs' = [outputs EXCEPT ![r] = outputs[r] \cup O]
         /\ receipts' = [receipts EXCEPT ![r] = receipts[r] \cup {<<r, s>> : s \in R}]
         /\ host' = [host EXCEPT ![r] = h] /\ checkpoint' \in {checkpoint, h}
         /\ l = "loop" => O = wave[r]
         /\ l # "cancel" /\ mode[r] = "prepared" => R = wave[r] /\ \A s \in wave[r] : Ran(<<r, s>>)
         /\ l = "cancel" => mode[r] = "prepared"
         /\ l = "waiting" => h \in wave[r] /\ outcome[<<r, h>>] = "waiting"
    /\ UNCHANGED <<economic, mode, reported, decision, maximum, source, root, wave, outcome, cash>>

Drops(r, s) ==
    /\ pc[r] = "cancel" /\ s \in wave[r]
    /\ decision' = [decision EXCEPT ![<<r, s>>] = "cancelled"]
    /\ UNCHANGED <<economic, mode, checkpoint, reported, maximum, pc, source, root, outputs, receipts, wave,
                   host, outcome, cash>>

Planned(r, W) ==
    /\ pc[r] = "loop" /\ CashKnown(r)
    /\ \A s \in W, w \in W \cap Alone(r) : s = w
    /\ \E l \in {"run", "cancel"} :
         /\ pc' = [pc EXCEPT ![r] = l]
         /\ l = "cancel" => mode[r] = "prepared"
         /\ l = "run" /\ mode[r] = "prepared" =>
                Accounted(r) + SumFunctionOnSet([s \in Steps |-> maximum'[<<r, s>>]], W) <= Budget
    /\ wave' = [wave EXCEPT ![r] = W]
    /\ decision' \in [Dispatches -> {"none", "prepared", "invoked", "cancelled"}]
    /\ \A d \in Dispatches : decision'[d] # decision[d] =>
           d[1] = r /\ d[2] \in W /\ mode[r] = "prepared"
    /\ maximum' \in [Dispatches -> Nat]
    /\ \A d \in Dispatches : maximum'[d] # maximum[d] => d[1] = r /\ d[2] \in W
    /\ UNCHANGED <<economic, mode, checkpoint, reported, source, root, outputs, receipts, host, outcome, cash>>

Plans(r) == \E W \in SUBSET (Steps \ outputs[r]) : Planned(r, W)

Dispatched(r, s) ==
    /\ pc[r] = "run" /\ s \in wave[r] /\ outcome[<<r, s>>] = "none"
    /\ \E o \in {"ok", "bad", "lost", "waiting", "refused"}, c \in Nat \cup {None} :
         /\ outcome' = [outcome EXCEPT ![<<r, s>>] = o]
         /\ cash' = [cash EXCEPT ![<<r, s>>] = c]
         /\ o = "waiting" => s \in Hosted
         /\ mode[r] = "prepared" /\ s \notin Hosted /\ o # "refused" /\ c # None => c <= maximum[<<r, s>>]
         /\ o # "refused" => decision'[<<r, s>>] # "prepared"
    /\ decision' \in {decision, [decision EXCEPT ![<<r, s>>] = "invoked"]}
    /\ UNCHANGED <<economic, checkpoint, reported, maximum, pc, mode, source, root, outputs, receipts, wave,
                   host>>

Kinds ==
    \/ \E r \in Runs : Starts(r) \/ Quits(r) \/ Collects(r) \/ Plans(r)
    \/ \E r, q \in Runs : Reports(r, q) \/ Resume(r, q)
    \/ \E r \in Runs, s \in Steps : Drops(r, s) \/ Dispatched(r, s)
    \/ UNCHANGED vars

-----------------------------------------------------------------------------
(* The first step of a set in the order of the steps.                      *)
LEMMA FirstStep ==
    ASSUME NEW S, S \subseteq Steps, S # {}
    PROVE  \E s \in S : \A t \in S \ {s} : Before(s, t)
<1> DEFINE n == Len(Order)
           I == {i \in 1 .. n : Order[i] \in S}
           U == 1 .. n
           B == {1 .. i : i \in I}
<1>1. n \in Nat
  BY WorkflowAssumption
<1>2. PICK k \in 1 .. n : Order[k] \in S
  BY DEF Steps
<1>3. IsFiniteSet(U)
  BY <1>1, FS_Interval
<1>4. B \subseteq SUBSET U
  <2>1. \A i \in 1 .. n : 1 .. i \subseteq 1 .. n
    BY <1>1
  <2> QED BY <2>1
<1>5. B # {}
  BY <1>2
<1>6. PICK m \in B : \A t \in B : t \subseteq m => t = m
  <2> HIDE DEF B, U
  <2> QED BY <1>3, <1>4, <1>5, MinimalMember
<1>7. PICK i \in I : m = 1 .. i
  OBVIOUS
<1>8. ASSUME NEW j \in I, j < i
      PROVE  FALSE
  <2>1. i \in Nat /\ j \in Nat /\ 1 <= j
    BY <1>1
  <2>2. 1 .. j \subseteq 1 .. i /\ i \in 1 .. i /\ i \notin 1 .. j
    BY <1>8, <2>1
  <2> QED BY <1>6, <1>7, <2>2
<1>9. ASSUME NEW t \in S \ {Order[i]}
      PROVE  Before(Order[i], t)
  <2>1. PICK j \in 1 .. n : Order[j] = t
    BY DEF Steps
  <2>2. j \in I /\ j # i
    BY <2>1
  <2>3. i < j
    BY <1>1, <1>8, <2>2
  <2> QED BY <1>7, <2>1, <2>3 DEF Before
<1> QED BY <1>9

(* Steps and dispatches are finitely many.                                 *)
LEMMA FiniteSteps ==
    IsFiniteSet(Steps) /\ IsFiniteSet(Dispatches)
<1>1. IsFiniteSet(1 .. Len(Order))
  BY WorkflowAssumption, FS_Interval
<1>2. Order \in Surjection(1 .. Len(Order), Steps)
  <2>1. Order \in [1 .. Len(Order) -> Steps]
    BY WorkflowAssumption
  <2>2. \A t \in Steps : \E i \in 1 .. Len(Order) : Order[i] = t
    BY DEF Steps
  <2> QED BY <2>1, <2>2 DEF Surjection
<1>3. IsFiniteSet(Steps)
  BY <1>1, <1>2, FS_Surjection
<1> QED BY <1>3, FS_Product, WorkflowAssumption DEF Dispatches

(* A wave is of steps that are ready, and an exclusive one is alone in it. *)
LEMMA WaveIs ==
    ASSUME TypeOK, NEW r \in Runs, NEW X
    PROVE  /\ Wave(r, X) \subseteq Steps \ outputs[r]
           /\ \A s \in Wave(r, X), w \in Wave(r, X) \cap X : s = w
<1> DEFINE lone == Ready(r) \cap X
<1>1. Ready(r) \subseteq Steps \ outputs[r]
  BY DEF Ready
<1>2. CASE lone # {}
  <2>1. Wave(r, X) = {s \in lone : {t \in lone : Before(t, s)} = {}}
    BY <1>2 DEF Wave
  <2>2. ASSUME NEW s \in Wave(r, X), NEW w \in Wave(r, X), s # w
        PROVE  FALSE
    <3>1. s \in lone /\ w \in lone /\ ~Before(s, w) /\ ~Before(w, s)
      BY <2>1
    <3>2. PICK i, j \in 1 .. Len(Order) : Order[i] = s /\ Order[j] = w
      BY <1>1, <3>1 DEF Steps
    <3>3. i < j \/ j < i
      BY <2>2, <3>2, WorkflowAssumption
    <3> QED BY <3>1, <3>2, <3>3 DEF Before
  <2>3. Wave(r, X) \subseteq lone
    BY <2>1
  <2> QED BY <1>1, <2>2, <2>3
<1>3. CASE lone = {}
  <2>1. Wave(r, X) \subseteq Ready(r)
    BY <1>3 DEF Wave
  <2> QED BY <1>1, <1>3, <2>1
<1> QED BY <1>2, <1>3

-----------------------------------------------------------------------------
(* Preparing a wave plans it within the budget.                            *)
LEMMA PreparePlans ==
    ASSUME TypeOK, NEW r \in Runs, Prepare(r)
    PROVE  Plans(r)
<1>1. /\ PreparedWave(r) \subseteq Steps \ outputs[r] /\ Prices \subseteq Nat
      /\ \A s \in PreparedWave(r), w \in PreparedWave(r) \cap Alone(r) : s = w
  <2>1. Alone(r) \subseteq Writes \cup Hosted
    BY DEF Alone
  <2> DEFINE X == Writes \cup Hosted
  <2>2. PreparedWave(r) = Wave(r, X)
    BY DEF PreparedWave
  <2>3. Alone(r) \subseteq X
    BY <2>1
  <2> HIDE DEF X
  <2>4. Wave(r, X) \subseteq Steps \ outputs[r] /\ \A s \in Wave(r, X), w \in Wave(r, X) \cap X : s = w
    BY WaveIs
  <2> QED BY <2>2, <2>3, <2>4, WorkflowAssumption
<1>2. PICK m \in [PreparedWave(r) -> Prices], made \in SUBSET PreparedWave(r) :
        /\ maximum' = [d \in Dispatches |->
                          IF d[1] = r /\ d[2] \in PreparedWave(r) THEN m[d[2]] ELSE maximum[d]]
        /\ decision' = [d \in Dispatches |->
                           IF d[1] = r /\ d[2] \in made THEN "prepared" ELSE decision[d]]
        /\ \/ Goto(r, "cancel")
           \/ made = PreparedWave(r) /\ WithinBudget(r, m) /\ Goto(r, "run")
  BY DEF Prepare
<1>3. maximum' \in [Dispatches -> Nat] /\ \A d \in Dispatches : maximum'[d] # maximum[d] => d[1] = r /\ d[2] \in PreparedWave(r)
  BY <1>1, <1>2 DEF TypeOK, Dispatches
<1>4. /\ decision' \in [Dispatches -> {"none", "prepared", "invoked", "cancelled"}]
      /\ \A d \in Dispatches : decision'[d] # decision[d] => d[1] = r /\ d[2] \in PreparedWave(r)
  BY <1>2 DEF TypeOK
<1> DEFINE f == [s \in Steps |-> maximum'[<<r, s>>]]
<1>5. SumFunctionOnSet(f, PreparedWave(r)) = SumFunctionOnSet(m, PreparedWave(r))
  <2>1. \A s \in PreparedWave(r) : f[s] = m[s]
    BY <1>1, <1>2 DEF Dispatches
  <2>2. IsFiniteSet(PreparedWave(r))
    BY <1>1, FiniteSteps, FS_Subset
  <2> HIDE DEF f
  <2> QED BY <2>1, <2>2, SumSame
<1>6. WithinBudget(r, m) => Accounted(r) + SumFunctionOnSet(f, PreparedWave(r)) <= Budget
  BY <1>5 DEF WithinBudget
<1>7. \E l \in {"run", "cancel"} :
         /\ pc' = [pc EXCEPT ![r] = l]
         /\ l = "run" => Accounted(r) + SumFunctionOnSet(f, PreparedWave(r)) <= Budget
  BY <1>2, <1>6 DEF Goto
<1>8. Planned(r, PreparedWave(r))
  BY <1>1, <1>3, <1>4, <1>7 DEF Prepare, Planned
<1> QED BY <1>1, <1>8 DEF Plans

(* A wave of a plan without economics is planned too.                      *)
LEMMA RoutePlans ==
    ASSUME TypeOK, NEW r \in Runs, RouteWave(r)
    PROVE  Plans(r)
<1>1. PICK reading \in SUBSET Mixed : wave' = [wave EXCEPT ![r] = Wave(r, Writes \ reading)]
  BY DEF RouteWave
<1> DEFINE W == Wave(r, Writes \ reading)
<1>2. W \subseteq Steps \ outputs[r] /\ \A s \in W, w \in W \cap (Writes \ reading) : s = w
  BY WaveIs
<1>3. mode[r] = "ordinary" /\ Alone(r) \subseteq Writes \ reading
  BY DEF RouteWave, Alone
<1>4. \A s \in W, w \in W \cap Alone(r) : s = w
  BY <1>2, <1>3
<1> HIDE DEF W
<1>5. Planned(r, W)
  BY <1>1, <1>3, <1>4 DEF W, TypeOK, RouteWave, Planned, Goto, durableVars
<1> QED BY <1>2, <1>5 DEF Plans

(* A step of a wave that ends is dispatched once.                          *)
LEMMA StepDispatched ==
    ASSUME TypeOK, NEW r \in Runs, NEW s \in Steps, RunStep(r, s)
    PROVE  Dispatched(r, s)
<1>1. Prices \subseteq Nat /\ <<r, s>> \in Dispatches
  BY WorkflowAssumption DEF Dispatches
<1>2. pc[r] = "run" /\ s \in wave[r] /\ outcome[<<r, s>>] = "none"
  BY DEF RunStep
<1> DEFINE Change(o, c) ==
      /\ outcome' = [outcome EXCEPT ![<<r, s>>] = o]
      /\ cash' = [cash EXCEPT ![<<r, s>>] = c]
      /\ UNCHANGED <<economic, checkpoint, reported, maximum, pc, mode, source, root, outputs, receipts, wave,
                     host>>
<1>3. \A o, c : Executed(r, s, o, c) => Change(o, c)
  BY DEF Executed, runVars
<1> DEFINE next == [decision EXCEPT ![<<r, s>>] = IF decision[<<r, s>>] = "prepared" THEN "invoked" ELSE decision[<<r, s>>]]
<1>4. next \in {decision, [decision EXCEPT ![<<r, s>>] = "invoked"]} /\ next[<<r, s>>] # "prepared"
  BY <1>1 DEF TypeOK
<1>5. CASE \E o \in {"ok", "bad", "lost"}, c \in Prices \cup {None} :
                /\ s \notin Hosted
                /\ mode[r] = "prepared" /\ c # None => c <= maximum[<<r, s>>]
                /\ Executed(r, s, o, c) /\ decision' = next
  <2>1. PICK o \in {"ok", "bad", "lost"}, c \in Prices \cup {None} :
                /\ s \notin Hosted
                /\ mode[r] = "prepared" /\ c # None => c <= maximum[<<r, s>>]
                /\ Change(o, c) /\ decision' = next
    BY <1>3, <1>5
  <2>2. c \in Nat \cup {None}
    BY <1>1
  <2> HIDE DEF next
  <2> QED BY <1>2, <1>4, <2>1, <2>2 DEF Dispatched
<1>6. CASE \E c \in {0, None} : s \in Hosted /\ Executed(r, s, "waiting", c) /\ decision' = next
  <2>1. PICK c \in {0, None} : s \in Hosted /\ Change("waiting", c) /\ decision' = next
    BY <1>3, <1>6
  <2>2. c \in Nat \cup {None}
    BY <1>1
  <2> HIDE DEF next
  <2> QED BY <1>2, <1>4, <2>1, <2>2 DEF Dispatched
<1>7. CASE Executed(r, s, "refused", None) /\ UNCHANGED decision
  <2>1. Change("refused", None) /\ decision' = decision
    BY <1>3, <1>7
  <2> QED BY <1>2, <2>1 DEF Dispatched
<1> QED BY <1>5, <1>6, <1>7 DEF RunStep

(* A call takes in a prepared wave.                                        *)
LEMMA PreparedCollects ==
    ASSUME TypeOK, Turn, NEW r \in Runs, CollectPrepared(r)
    PROVE  Collects(r)
<1>0. Hosted \subseteq Steps /\ None \notin Steps
  BY WorkflowAssumption
<1>1. /\ wave[r] \subseteq Steps
      /\ \A s \in wave[r] : /\ outcome[<<r, s>>] # "none"
                            /\ outcome[<<r, s>>] \in {"ok", "bad", "lost", "waiting", "refused"}
                            /\ outcome[<<r, s>>] = "waiting" => s \in Hosted
  BY DEF CollectPrepared, Collected, TypeOK, Dispatches, Turn
<1> DEFINE Out == Collected(r, {"ok"})
           Rec == Collected(r, {"ok", "bad", "waiting"})
<1>2. Out \in SUBSET wave[r] /\ Rec \in SUBSET wave[r]
  BY DEF Collected
<1>3. CollectReceipts(r) = {<<r, s>> : s \in Rec}
  BY DEF CollectReceipts
<1>4. Collected(r, Raised) = {} => Rec = wave[r] /\ \A s \in wave[r] : Ran(<<r, s>>)
  BY <1>1 DEF Collected, Raised, Ran
<1>5. Collected(r, Raised) = {} /\ Collected(r, {"waiting"}) = {} /\ Collected(r, {"bad"}) = {} => Out = wave[r]
  BY <1>1 DEF Collected, Raised
<1>6. /\ pc[r] = "run" /\ mode[r] = "prepared"
      /\ receipts' = [receipts EXCEPT ![r] = receipts[r] \cup {<<r, s>> : s \in Rec}]
      /\ UNCHANGED <<economic, mode, reported, decision, maximum, source, root, wave, outcome, cash>>
  BY <1>3 DEF CollectPrepared
<1> DEFINE End(l, O, h) ==
      /\ pc' = [pc EXCEPT ![r] = l]
      /\ outputs' = [outputs EXCEPT ![r] = outputs[r] \cup O]
      /\ host' = [host EXCEPT ![r] = h] /\ checkpoint' \in {checkpoint, h}
<1>7. ASSUME NEW l \in {"loop", "waiting", "failed", "cancel"}, NEW O \in SUBSET wave[r],
             NEW h \in Hosted \cup {None}, End(l, O, h),
             l = "loop" => O = wave[r], l # "cancel" => Collected(r, Raised) = {},
             l = "waiting" => h \in wave[r] /\ outcome[<<r, h>>] = "waiting"
      PROVE  Collects(r)
  <2>1. l # "cancel" => Rec = wave[r] /\ \A s \in wave[r] : Ran(<<r, s>>)
    BY <1>4, <1>7
  <2> HIDE DEF Rec
  <2> QED BY <1>1, <1>2, <1>6, <1>7, <2>1 DEF Collects
<1>8. host = [host EXCEPT ![r] = host[r]] /\ host[r] \in Hosted \cup {None}
      /\ outputs = [outputs EXCEPT ![r] = outputs[r] \cup {}]
  BY DEF TypeOK
<1>9. CASE Collected(r, Raised) # {}
  <2>1. End("cancel", {}, host[r])
    BY <1>8, <1>9 DEF CollectPrepared, Goto
  <2> HIDE DEF End
  <2> QED BY <1>7, <1>8, <2>1
<1>10. CASE Collected(r, Raised) = {} /\ Collected(r, {"waiting"}) # {}
  <2>1. PICK s \in Collected(r, {"waiting"}) : Result(r, "waiting", s)
    BY <1>10 DEF CollectPrepared
  <2>2. s \in wave[r] /\ s \in Hosted /\ outcome[<<r, s>>] = "waiting"
    BY <1>1, <2>1 DEF Collected
  <2>3. End("waiting", Out, s)
    BY <1>10, <2>1 DEF CollectPrepared, Result, Goto
  <2> HIDE DEF End, Out
  <2> QED BY <1>2, <1>7, <1>10, <2>2, <2>3
<1>11. CASE Collected(r, Raised) = {} /\ Collected(r, {"waiting"}) = {} /\ Collected(r, {"bad"}) # {}
  <2>1. End("failed", Out, None)
    BY <1>11 DEF CollectPrepared, Result, Goto
  <2> HIDE DEF End, Out
  <2> QED BY <1>2, <1>7, <1>11, <2>1
<1>12. CASE Collected(r, Raised) = {} /\ Collected(r, {"waiting"}) = {} /\ Collected(r, {"bad"}) = {}
  <2>1. End("loop", Out, host[r])
    BY <1>8, <1>12 DEF CollectPrepared, Goto
  <2> HIDE DEF End, Out
  <2> QED BY <1>2, <1>5, <1>7, <1>8, <1>12, <2>1
<1> QED BY <1>9, <1>10, <1>11, <1>12

(* A call takes in an ordinary wave.                                       *)
LEMMA OrdinaryCollects ==
    ASSUME TypeOK, Turn, NEW r \in Runs, CollectOrdinary(r)
    PROVE  Collects(r)
<1> DEFINE stops == {s \in wave[r] : outcome[<<r, s>>] # "ok"}
           Taken == {s \in wave[r] : \A t \in stops : Before(s, t)}
           First == CHOOSE s \in stops : \A t \in stops \ {s} : Before(s, t)
           Rec == Taken \cup {t \in stops : t = First /\ outcome[<<r, t>>] \notin Raised}
<1>1. /\ wave[r] \subseteq Steps
      /\ \A s \in wave[r] : /\ outcome[<<r, s>>] # "none"
                            /\ outcome[<<r, s>>] = "waiting" => s \in Hosted
  BY DEF CollectOrdinary, Collected, TypeOK, Turn
<1>2. /\ pc[r] = "run" /\ mode[r] = "ordinary"
      /\ outputs' = [outputs EXCEPT ![r] = outputs[r] \cup Taken]
      /\ receipts' = [receipts EXCEPT ![r] = receipts[r] \cup {<<r, s>> : s \in Rec}]
      /\ IF stops = {} THEN Goto(r, "loop") /\ UNCHANGED <<checkpoint, host>>
         ELSE IF outcome[<<r, First>>] = "waiting" THEN Result(r, "waiting", First)
         ELSE Result(r, "failed", None)
      /\ UNCHANGED <<economic, mode, reported, decision, maximum, source, root, wave, outcome, cash>>
  BY DEF CollectOrdinary
<1>3. Taken \in SUBSET wave[r] /\ Rec \in SUBSET wave[r]
  OBVIOUS
<1>4. stops # {} => First \in stops
  <2>1. stops \subseteq Steps
    BY <1>1
  <2> HIDE DEF stops
  <2> QED BY <2>1, FirstStep
<1>5. stops = {} => Taken = wave[r]
  OBVIOUS
<1>6. stops # {} => First \in wave[r]
  BY <1>4
<1>7. host = [host EXCEPT ![r] = host[r]] /\ host[r] \in Hosted \cup {None}
  BY DEF TypeOK
<1> HIDE DEF Taken, First, Rec, stops
<1>8. ASSUME NEW l \in {"loop", "waiting", "failed", "cancel"}, NEW h \in Hosted \cup {None},
             pc' = [pc EXCEPT ![r] = l], host' = [host EXCEPT ![r] = h], checkpoint' \in {checkpoint, h},
             l = "loop" => Taken = wave[r], l # "cancel",
             l = "waiting" => h \in wave[r] /\ outcome[<<r, h>>] = "waiting"
      PROVE  Collects(r)
  <2>1. mode[r] # "prepared"
    BY <1>2
  <2> QED BY <1>1, <1>2, <1>3, <1>8, <2>1 DEF Collects
<1>9. CASE stops = {}
  BY <1>2, <1>5, <1>7, <1>8, <1>9 DEF Goto
<1>10. CASE stops # {} /\ outcome[<<r, First>>] = "waiting"
  <2>1. First \in Hosted
    BY <1>1, <1>6, <1>10
  <2> QED BY <1>2, <1>6, <1>8, <1>10, <2>1 DEF Result, Goto
<1>11. CASE stops # {} /\ outcome[<<r, First>>] # "waiting"
  BY <1>2, <1>8, <1>11 DEF Result, Goto
<1> QED BY <1>9, <1>10, <1>11

(* Every step is of one of the kinds.                                      *)
LEMMA StepKinds ==
    ASSUME TypeOK, Chain, Turn, [Next]_vars
    PROVE  Kinds
<1>0. None \notin Hosted /\ Hosted \subseteq Steps /\ Prices \subseteq Nat
  BY WorkflowAssumption
<1>1. ASSUME NEW r \in Runs, Begin(r) PROVE Kinds
  <2>1. Starts(r)
    BY <1>1 DEF Begin, Starts, Goto, TypeOK
  <2> QED BY <2>1 DEF Kinds
<1>2. ASSUME NEW r \in Runs, Report(r) PROVE Kinds
  <2>1. source[r] \in Runs /\ host[source[r]] \in Hosted
    BY <1>2 DEF Report, Chain
  <2>2. Reports(r, source[r])
    <3>1. PICK c \in Prices \cup {None} :
            cash' = [cash EXCEPT ![<<source[r], host[source[r]]>>] =
                        IF cash[<<source[r], host[source[r]]>>] = None THEN None ELSE c]
      BY <1>2 DEF Report
    <3>2. \E k \in Nat \cup {None} : cash' = [cash EXCEPT ![<<source[r], host[source[r]]>>] = k]
      BY <1>0, <3>1
    <3>3. \E m \in {"prepared", "ordinary"} : mode' = [mode EXCEPT ![r] = m]
      BY <1>2 DEF Report, Continue
    <3> QED BY <1>2, <3>2, <3>3 DEF Report, Reports, Continue, Unreported, Goto
  <2> QED BY <2>1, <2>2 DEF Kinds
<1>3. ASSUME NEW r \in Runs, ReportRefused(r) PROVE Kinds
  <2>1. Quits(r)
    BY <1>3 DEF ReportRefused, Quits, Goto, TypeOK, durableVars
  <2> QED BY <2>1 DEF Kinds
<1>4. ASSUME NEW r \in Runs, TurnFails(r) PROVE Kinds
  <2>1. Quits(r)
    BY <1>4 DEF TurnFails, Quits, Goto, Result, TypeOK
  <2> QED BY <2>1 DEF Kinds
<1>5. ASSUME NEW r \in Runs, CollectPrepared(r) PROVE Kinds
  BY <1>5, PreparedCollects DEF Kinds
<1>6. ASSUME NEW r \in Runs, CollectOrdinary(r) PROVE Kinds
  BY <1>6, OrdinaryCollects DEF Kinds
<1>7. ASSUME NEW r \in Runs, CancelUninvoked(r) PROVE Kinds
  <2>1. CASE Uninvoked(r) # {}
    <3>1. PICK s \in Uninvoked(r) : decision' = [decision EXCEPT ![<<r, s>>] = "cancelled"]
      BY <1>7, <2>1 DEF CancelUninvoked
    <3>2. s \in wave[r] /\ s \in Steps
      BY DEF Uninvoked, TypeOK
    <3>3. Drops(r, s)
      BY <1>7, <2>1, <3>1, <3>2 DEF CancelUninvoked, Drops
    <3> QED BY <3>2, <3>3 DEF Kinds
  <2>2. CASE Uninvoked(r) = {}
    <3>1. Quits(r)
      BY <1>7, <2>2 DEF CancelUninvoked, Quits, Goto, Result, TypeOK
    <3> QED BY <3>1 DEF Kinds
  <2> QED BY <2>1, <2>2
<1>8. ASSUME NEW r \in Runs, CancelRaises(r) PROVE Kinds
  <2>1. Quits(r)
    BY <1>8 DEF CancelRaises, Quits, Goto, TypeOK, durableVars, runVars
  <2> QED BY <2>1 DEF Kinds
<1>9. ASSUME NEW r \in Runs, Finish(r) PROVE Kinds
  <2>1. Quits(r)
    BY <1>9 DEF Finish, Quits, Goto, Result, TypeOK
  <2> QED BY <2>1 DEF Kinds
<1>10. ASSUME NEW r \in Runs, PointerRaises(r) PROVE Kinds
  <2>1. Quits(r)
    BY <1>10 DEF PointerRaises, Quits, Goto, TypeOK, durableVars, runVars
  <2> QED BY <2>1 DEF Kinds
<1>11. ASSUME NEW r \in Runs, Crash(r) PROVE Kinds
  <2>1. Quits(r)
    BY <1>11 DEF Crash, Quits, Goto, TypeOK, durableVars, runVars
  <2> QED BY <2>1 DEF Kinds
<1>12. CASE UNCHANGED vars
  BY <1>12 DEF Kinds
<1>13. ASSUME Next PROVE Kinds
  <2>1. PICK r \in Runs :
          \/ Begin(r) \/ Report(r) \/ ReportRefused(r) \/ TurnFails(r) \/ Prepare(r) \/ RouteWave(r)
          \/ CollectPrepared(r) \/ CollectOrdinary(r) \/ CancelUninvoked(r) \/ CancelRaises(r)
          \/ Finish(r) \/ PointerRaises(r) \/ Crash(r)
          \/ \E q \in Runs : Resume(r, q)
          \/ \E s \in Steps : RunStep(r, s)
    BY <1>13 DEF Next
  <2>2. CASE \E q \in Runs : Resume(r, q)
    BY <2>2 DEF Kinds
  <2>3. CASE Prepare(r) \/ RouteWave(r)
    BY <2>3, PreparePlans, RoutePlans DEF Kinds
  <2>4. CASE \E s \in Steps : RunStep(r, s)
    BY <2>4, StepDispatched DEF Kinds
  <2> QED BY <2>1, <2>2, <2>3, <2>4, <1>1, <1>2, <1>3, <1>4, <1>5, <1>6, <1>7, <1>8, <1>9, <1>10, <1>11
<1> QED BY <1>12, <1>13

(* The types are kept.                                                     *)
LEMMA TypeStep ==
    ASSUME TypeOK, Chain, Kinds
    PROVE  TypeOK'
<1>0. Hosted \subseteq Steps /\ None \notin Hosted
  BY WorkflowAssumption
<1>1. ASSUME NEW r \in Runs, Starts(r) PROVE TypeOK'
  BY <1>1, <1>0 DEF Starts, durableVars, TypeOK
<1>2. ASSUME NEW r \in Runs, Quits(r) PROVE TypeOK'
  BY <1>2, <1>0 DEF Quits, TypeOK
<1>3. ASSUME NEW r \in Runs, Collects(r) PROVE TypeOK'
  <2>1. wave[r] \subseteq Steps
    BY DEF TypeOK
  <2>2. \A R \in SUBSET wave[r] : {<<r, s>> : s \in R} \subseteq Dispatches
    BY <2>1 DEF Dispatches
  <2> QED BY <1>0, <1>3, <2>1, <2>2 DEF Collects, TypeOK
<1>4. ASSUME NEW r \in Runs, Plans(r) PROVE TypeOK'
  BY <1>4, <1>0 DEF Plans, Planned, TypeOK
<1>5. ASSUME NEW r \in Runs, NEW q \in Runs, Reports(r, q) PROVE TypeOK'
  <2>1. host[q] \in Hosted /\ <<q, host[q]>> \in Dispatches
    BY <1>0, <1>5 DEF Reports, Chain, Dispatches
  <2>2. cash' \in [Dispatches -> Nat \cup {None}] /\ reported' \subseteq Dispatches
    BY <1>5, <2>1 DEF Reports, TypeOK
  <2>3. outputs' \in [Runs -> SUBSET Steps] /\ receipts' \in [Runs -> SUBSET Dispatches]
    BY <1>0, <1>5, <2>1 DEF Reports, TypeOK
  <2> QED BY <1>5, <2>2, <2>3 DEF Reports, TypeOK
<1>6. ASSUME NEW r \in Runs, NEW q \in Runs, Resume(r, q) PROVE TypeOK'
  BY <1>6, <1>0 DEF Resume, Goto, durableVars, TypeOK
<1>7. ASSUME NEW r \in Runs, NEW s \in Steps, Drops(r, s) PROVE TypeOK'
  BY <1>7, <1>0 DEF Drops, TypeOK
<1>8. ASSUME NEW r \in Runs, NEW s \in Steps, Dispatched(r, s) PROVE TypeOK'
  <2>1. <<r, s>> \in Dispatches
    BY DEF Dispatches
  <2> QED BY <1>8, <2>1 DEF Dispatched, TypeOK
<1>9. ASSUME UNCHANGED vars PROVE TypeOK'
  BY <1>9, <1>0 DEF vars, durableVars, runVars, TypeOK
<1> QED BY <1>1, <1>2, <1>3, <1>4, <1>5, <1>6, <1>7, <1>8, <1>9 DEF Kinds

(* A call that has not started goes on having done nothing.                *)
LEMMA UnusedStep ==
    ASSUME TypeOK, Unused, Chain, Kinds
    PROVE  Unused'
<1>1. ASSUME NEW r \in Runs, Starts(r) PROVE Unused'
  BY <1>1 DEF Starts, durableVars, Unused, Unstarted, TypeOK, Dispatches
<1>2. ASSUME NEW r \in Runs, Quits(r) PROVE Unused'
  BY <1>2 DEF Quits, Unused, Unstarted, TypeOK, Dispatches
<1>3. ASSUME NEW r \in Runs, Collects(r) PROVE Unused'
  BY <1>3 DEF Collects, Unused, Unstarted, TypeOK, Dispatches
<1>4. ASSUME NEW r \in Runs, Plans(r) PROVE Unused'
  BY <1>4 DEF Plans, Planned, Unused, Unstarted, TypeOK, Dispatches
<1>5. ASSUME NEW r \in Runs, NEW q \in Runs, Reports(r, q) PROVE Unused'
  BY <1>5 DEF Reports, Unused, Unstarted, TypeOK, Dispatches
<1>6. ASSUME NEW r \in Runs, NEW q \in Runs, Resume(r, q) PROVE Unused'
  BY <1>6 DEF Resume, Goto, durableVars, Unused, Unstarted, TypeOK, Dispatches
<1>7. ASSUME NEW r \in Runs, NEW s \in Steps, Drops(r, s) PROVE Unused'
  BY <1>7 DEF Drops, Unused, Unstarted, TypeOK, Dispatches
<1>8. ASSUME NEW r \in Runs, NEW s \in Steps, Dispatched(r, s) PROVE Unused'
  BY <1>8 DEF Dispatched, Unused, Unstarted, TypeOK, Dispatches
<1>9. ASSUME UNCHANGED vars PROVE Unused'
  BY <1>9 DEF vars, durableVars, runVars, Unused, Unstarted, TypeOK, Dispatches
<1> QED BY <1>1, <1>2, <1>3, <1>4, <1>5, <1>6, <1>7, <1>8, <1>9 DEF Kinds

(* A chain keeps one end: one report of an outcome is accepted.            *)
LEMMA ChainStep ==
    ASSUME TypeOK, TypeOK', Unused, Chain, Turn, Kinds
    PROVE  Chain'
<1>1. ASSUME NEW r \in Runs, Starts(r) PROVE Chain'
  <2>1. /\ \A x \in Runs \ {r} : pc'[x] = pc[x]
        /\ pc'[r] = "loop" /\ pc[r] = "idle"
        /\ UNCHANGED <<root, source, host, reported>>
    BY <1>1 DEF Starts, durableVars, TypeOK
  <2>2. \A x \in Runs : Continued(x)' <=> Continued(x)
    BY <2>1 DEF Continued
  <2>3. \A x \in Runs : root[x] = root[r] => x = r
    BY <2>1 DEF Chain, Unused, Unstarted
  <2>4. \A d \in reported : d[1] \in Runs
    BY DEF TypeOK, Dispatches
  <2> QED BY <2>1, <2>2, <2>3, <2>4 DEF Chain, Unstarted
<1>2. ASSUME NEW r \in Runs, Quits(r) PROVE Chain'
  <2>1. /\ \A x \in Runs \ {r} : pc'[x] = pc[x] /\ source'[x] = source[x] /\ host'[x] = host[x]
        /\ pc'[r] \notin Unstarted \cup {"waiting"} /\ pc[r] \notin {"idle", "waiting"}
        /\ root' = root /\ reported' = reported
    BY <1>2 DEF Quits, TypeOK, Unstarted
  <2>2. \A x \in Runs : Continued(x)' <=> Continued(x)
    BY <2>1 DEF Continued
  <2>4. \A d \in reported : d[1] \in Runs
    BY DEF TypeOK, Dispatches
  <2> QED BY <2>1, <2>2, <2>4 DEF Chain, Unstarted
<1>3. ASSUME NEW r \in Runs, Collects(r) PROVE Chain'
  <2>1. /\ \A x \in Runs \ {r} : pc'[x] = pc[x] /\ host'[x] = host[x]
        /\ pc'[r] \notin Unstarted /\ pc[r] = "run"
        /\ pc'[r] = "waiting" => host'[r] \in Hosted
        /\ UNCHANGED <<root, source, reported>>
    <3>1. \A x \in wave[r] : outcome[<<r, x>>] = "waiting" => x \in Hosted
      BY DEF Turn, TypeOK
    <3> QED BY <1>3, <3>1 DEF Collects, TypeOK, Unstarted
  <2>2. \A x \in Runs : Continued(x)' <=> Continued(x)
    <3>1. \A d \in reported : d[1] # r
      BY <2>1 DEF Chain
    <3>2. \A y : <<r, y>> \notin reported
      BY <3>1
    <3> QED BY <2>1, <3>2 DEF Continued
  <2>4. \A d \in reported : d[1] \in Runs
    BY DEF TypeOK, Dispatches
  <2> QED BY <2>1, <2>2, <2>4 DEF Chain, Unstarted
<1>4. ASSUME NEW r \in Runs, Plans(r) PROVE Chain'
  BY <1>4 DEF Plans, Planned, Chain, Continued, Unused, Unstarted, TypeOK
<1>5. ASSUME NEW r \in Runs, NEW q \in Runs, Reports(r, q) PROVE Chain'
  BY <1>5 DEF Reports, Chain, Continued, Unused, Unstarted, TypeOK
<1>6. ASSUME NEW r \in Runs, NEW q \in Runs, Resume(r, q) PROVE Chain'
  <2>1. /\ \A x \in Runs \ {r} : pc'[x] = pc[x] /\ source'[x] = source[x]
        /\ pc'[r] = "report" /\ pc[r] = "idle" /\ source'[r] = q /\ pc[q] = "waiting"
        /\ UNCHANGED <<root, host, reported>>
    BY <1>6 DEF Resume, Goto, durableVars, TypeOK
  <2>2. \A x \in Runs : Continued(x)' <=> Continued(x)
    BY <2>1 DEF Continued
  <2>3. \A x \in Runs : root[x] = root[r] => x = r
    BY <2>1 DEF Chain, Unused, Unstarted
  <2>4. \A d \in reported : d[1] \in Runs
    BY DEF TypeOK, Dispatches
  <2> QED BY <2>1, <2>2, <2>3, <2>4 DEF Chain, Unstarted
<1>7. ASSUME NEW r \in Runs, NEW s \in Steps, Drops(r, s) PROVE Chain'
  BY <1>7 DEF Drops, Chain, Continued, Unused, Unstarted, TypeOK
<1>8. ASSUME NEW r \in Runs, NEW s \in Steps, Dispatched(r, s) PROVE Chain'
  BY <1>8 DEF Dispatched, Chain, Continued, Unused, Unstarted, TypeOK
<1>9. ASSUME UNCHANGED vars PROVE Chain'
  BY <1>9 DEF vars, durableVars, runVars, Chain, Continued, Unused, Unstarted, TypeOK
<1> QED BY <1>1, <1>2, <1>3, <1>4, <1>5, <1>6, <1>7, <1>8, <1>9 DEF Kinds

(* Receipts stay those of the chain.                                       *)
LEMMA ReceiptedStep ==
    ASSUME TypeOK, TypeOK', Unused, Chain, Receipted, Kinds
    PROVE  Receipted'
<1>1. ASSUME NEW r \in Runs, Starts(r) PROVE Receipted'
  BY <1>1 DEF Starts, durableVars, Receipted, Related, Unused, Unstarted, TypeOK, Dispatches
<1>2. ASSUME NEW r \in Runs, Quits(r) PROVE Receipted'
  BY <1>2 DEF Quits, Receipted, Related, Unused, Unstarted, TypeOK, Dispatches
<1>3. ASSUME NEW r \in Runs, Collects(r) PROVE Receipted'
  BY <1>3 DEF Collects, Receipted, Related, Unused, Unstarted, TypeOK, Dispatches
<1>4. ASSUME NEW r \in Runs, Plans(r) PROVE Receipted'
  BY <1>4 DEF Plans, Planned, Receipted, Related, Unused, Unstarted, TypeOK, Dispatches
<1>5. ASSUME NEW r \in Runs, NEW q \in Runs, Reports(r, q) PROVE Receipted'
  BY <1>5 DEF Reports, Receipted, Related, Unused, Unstarted, TypeOK, Dispatches
<1>6. ASSUME NEW r \in Runs, NEW q \in Runs, Resume(r, q) PROVE Receipted'
  BY <1>6 DEF Resume, Goto, durableVars, Receipted, Related, Unused, Unstarted, TypeOK, Dispatches
<1>7. ASSUME NEW r \in Runs, NEW s \in Steps, Drops(r, s) PROVE Receipted'
  BY <1>7 DEF Drops, Receipted, Related, Unused, Unstarted, TypeOK, Dispatches
<1>8. ASSUME NEW r \in Runs, NEW s \in Steps, Dispatched(r, s) PROVE Receipted'
  BY <1>8 DEF Dispatched, Receipted, Related, Unused, Unstarted, TypeOK, Dispatches
<1>9. ASSUME UNCHANGED vars PROVE Receipted'
  BY <1>9 DEF vars, durableVars, runVars, Receipted, Related, Unused, Unstarted, TypeOK, Dispatches
<1> QED BY <1>1, <1>2, <1>3, <1>4, <1>5, <1>6, <1>7, <1>8, <1>9 DEF Kinds

(* What a call dispatched has its output when the wave is taken in.        *)
LEMMA TurnStep ==
    ASSUME TypeOK, TypeOK', Unused, Turn, Kinds
    PROVE  Turn'
<1>1. ASSUME NEW r \in Runs, Starts(r) PROVE Turn'
  BY <1>1 DEF Starts, durableVars, Turn, Alone, Unused, Unstarted, TypeOK, Dispatches
<1>2. ASSUME NEW r \in Runs, Quits(r) PROVE Turn'
  BY <1>2 DEF Quits, Turn, Alone, Unused, Unstarted, TypeOK, Dispatches
<1>3. ASSUME NEW r \in Runs, Collects(r) PROVE Turn'
  BY <1>3 DEF Collects, Turn, Alone, Unused, Unstarted, TypeOK, Dispatches
<1>4. ASSUME NEW r \in Runs, Plans(r) PROVE Turn'
  <2>1. PICK W \in SUBSET (Steps \ outputs[r]) : Planned(r, W)
    BY <1>4 DEF Plans
  <2>2. /\ \A x \in Runs \ {r} : pc'[x] = pc[x] /\ wave'[x] = wave[x]
        /\ pc'[r] \in {"run", "cancel"} /\ pc[r] = "loop" /\ wave'[r] = W
        /\ \A x \in W, w \in W \cap Alone(r) : x = w
        /\ UNCHANGED <<outputs, outcome, mode>>
    BY <2>1 DEF Planned, TypeOK
  <2>3. \A x \in Runs : pc'[x] = "loop" => x # r
    BY <2>2
  <2>4. ASSUME pc'[r] = "run"
        PROVE  /\ wave'[r] \cap outputs'[r] = {}
               /\ \A x \in wave'[r], w \in wave'[r] \cap Alone(r)' : x = w
               /\ \A x \in Steps : outcome'[<<r, x>>] # "none" => x \in outputs'[r] \cup wave'[r]
    BY <2>1, <2>2 DEF Turn, Alone
  <2>5. ASSUME NEW x \in Runs \ {r}, pc'[x] = "run"
        PROVE  /\ wave'[x] \cap outputs'[x] = {}
               /\ \A y \in wave'[x], w \in wave'[x] \cap Alone(x)' : y = w
               /\ \A y \in Steps : outcome'[<<x, y>>] # "none" => y \in outputs'[x] \cup wave'[x]
    BY <2>2, <2>5 DEF Turn, Alone
  <2> QED BY <2>2, <2>3, <2>4, <2>5 DEF Turn
<1>5. ASSUME NEW r \in Runs, NEW q \in Runs, Reports(r, q) PROVE Turn'
  BY <1>5 DEF Reports, Turn, Alone, Unused, Unstarted, TypeOK, Dispatches
<1>6. ASSUME NEW r \in Runs, NEW q \in Runs, Resume(r, q) PROVE Turn'
  BY <1>6 DEF Resume, Goto, durableVars, Turn, Alone, Unused, Unstarted, TypeOK, Dispatches
<1>7. ASSUME NEW r \in Runs, NEW s \in Steps, Drops(r, s) PROVE Turn'
  BY <1>7 DEF Drops, Turn, Alone, Unused, Unstarted, TypeOK, Dispatches
<1>8. ASSUME NEW r \in Runs, NEW s \in Steps, Dispatched(r, s) PROVE Turn'
  BY <1>8 DEF Dispatched, Turn, Alone, Unused, Unstarted, TypeOK, Dispatches
<1>9. ASSUME UNCHANGED vars PROVE Turn'
  BY <1>9 DEF vars, durableVars, runVars, Turn, Alone, Unused, Unstarted, TypeOK, Dispatches
<1> QED BY <1>1, <1>2, <1>3, <1>4, <1>5, <1>6, <1>7, <1>8, <1>9 DEF Kinds

(* A decision stays open only in the wave at hand.                         *)
LEMMA OpenedStep ==
    ASSUME TypeOK, TypeOK', Unused, Opened, Turn, Kinds
    PROVE  Opened'
<1>1. ASSUME NEW r \in Runs, Starts(r) PROVE Opened'
  BY <1>1 DEF Starts, durableVars, Opened, Unused, Unstarted, Ran, TypeOK, Dispatches
<1>2. ASSUME NEW r \in Runs, Quits(r) PROVE Opened'
  <2>1. /\ \A x \in Runs \ {r} : pc'[x] = pc[x]
        /\ pc'[r] \in {"failed", "success", "raised", "crashed"}
        /\ pc'[r] \in {"failed", "success"} => pc[r] = "loop" \/ (pc[r] = "cancel" /\ Uninvoked(r) = {})
        /\ UNCHANGED <<mode, decision, wave, outcome>> /\ pc[r] \in {"report", "loop", "run", "cancel"}
    BY <1>2 DEF Quits, TypeOK
  <2>2. \A x \in Steps : decision[<<r, x>>] = "prepared" => pc'[r] \in {"raised", "crashed"}
    BY <2>1 DEF Opened, Uninvoked
  <2> QED BY <2>1, <2>2 DEF Opened, Ran
<1>3. ASSUME NEW r \in Runs, Collects(r) PROVE Opened'
  BY <1>3 DEF Collects, Opened, Unused, Unstarted, Ran, TypeOK, Dispatches
<1>4. ASSUME NEW r \in Runs, Plans(r) PROVE Opened'
  <2>0. PICK W \in SUBSET (Steps \ outputs[r]) : Planned(r, W)
    BY <1>4 DEF Plans
  <2>1. /\ \A x \in Runs \ {r} : pc'[x] = pc[x] /\ wave'[x] = wave[x]
        /\ pc'[r] \in {"run", "cancel"} /\ pc[r] = "loop" /\ wave'[r] = W
        /\ UNCHANGED <<mode, outputs, outcome>>
        /\ \A x \in Runs, y \in Steps : decision'[<<x, y>>] # decision[<<x, y>>] =>
               x = r /\ y \in W /\ mode[r] = "prepared"
    BY <2>0 DEF Planned, TypeOK, Dispatches
  <2>2. \A y \in W : outcome[<<r, y>>] = "none"
    BY <2>0, <2>1 DEF Turn
  <2>3. \A y \in Steps : decision[<<r, y>>] # "prepared"
    BY <2>1 DEF Opened
  <2> QED BY <2>1, <2>2, <2>3 DEF Opened, Ran
<1>5. ASSUME NEW r \in Runs, NEW q \in Runs, Reports(r, q) PROVE Opened'
  BY <1>5 DEF Reports, Opened, Unused, Unstarted, Ran, TypeOK, Dispatches
<1>6. ASSUME NEW r \in Runs, NEW q \in Runs, Resume(r, q) PROVE Opened'
  BY <1>6 DEF Resume, Goto, durableVars, Opened, Unused, Unstarted, Ran, TypeOK, Dispatches
<1>7. ASSUME NEW r \in Runs, NEW s \in Steps, Drops(r, s) PROVE Opened'
  BY <1>7 DEF Drops, Opened, Unused, Unstarted, Ran, TypeOK, Dispatches
<1>8. ASSUME NEW r \in Runs, NEW s \in Steps, Dispatched(r, s) PROVE Opened'
  <2>1. /\ UNCHANGED <<pc, mode, wave>> /\ pc[r] = "run"
        /\ \A d \in Dispatches \ {<<r, s>>} : decision'[d] = decision[d] /\ outcome'[d] = outcome[d]
        /\ decision'[<<r, s>>] = "prepared" => decision[<<r, s>>] = "prepared" /\ outcome'[<<r, s>>] = "refused"
    BY <1>8 DEF Dispatched, TypeOK, Dispatches
  <2>2. \A x \in Runs, y \in Steps : <<x, y>> \in Dispatches
    BY DEF Dispatches
  <2> QED BY <2>1, <2>2 DEF Opened, Ran
<1>9. ASSUME UNCHANGED vars PROVE Opened'
  BY <1>9 DEF vars, durableVars, runVars, Opened, Unused, Unstarted, Ran, TypeOK, Dispatches
<1> QED BY <1>1, <1>2, <1>3, <1>4, <1>5, <1>6, <1>7, <1>8, <1>9 DEF Kinds

(* A continued outcome stays one.                                          *)
LEMMA ContinuedStays ==
    ASSUME TypeOK, Chain, Kinds
    PROVE  \A x \in Runs : Continued(x) => Continued(x)'
<1>1. ASSUME NEW r \in Runs, Starts(r) PROVE \A x \in Runs : Continued(x) => Continued(x)'
  BY <1>1 DEF Starts, durableVars, Continued, TypeOK
<1>2. ASSUME NEW r \in Runs, Quits(r) PROVE \A x \in Runs : Continued(x) => Continued(x)'
  BY <1>2 DEF Quits, Continued, TypeOK
<1>3. ASSUME NEW r \in Runs, Collects(r) PROVE \A x \in Runs : Continued(x) => Continued(x)'
  BY <1>3 DEF Collects, Continued, TypeOK
<1>4. ASSUME NEW r \in Runs, Plans(r) PROVE \A x \in Runs : Continued(x) => Continued(x)'
  BY <1>4 DEF Plans, Planned, Continued, TypeOK
<1>5. ASSUME NEW r \in Runs, NEW q \in Runs, Reports(r, q) PROVE \A x \in Runs : Continued(x) => Continued(x)'
  BY <1>5 DEF Reports, Continued, TypeOK
<1>6. ASSUME NEW r \in Runs, NEW q \in Runs, Resume(r, q) PROVE \A x \in Runs : Continued(x) => Continued(x)'
  BY <1>6 DEF Resume, Goto, durableVars, Continued, TypeOK
<1>7. ASSUME NEW r \in Runs, NEW s \in Steps, Drops(r, s) PROVE \A x \in Runs : Continued(x) => Continued(x)'
  BY <1>7 DEF Drops, Continued, TypeOK
<1>8. ASSUME NEW r \in Runs, NEW s \in Steps, Dispatched(r, s) PROVE \A x \in Runs : Continued(x) => Continued(x)'
  BY <1>8 DEF Dispatched, Continued, TypeOK
<1>9. ASSUME UNCHANGED vars PROVE \A x \in Runs : Continued(x) => Continued(x)'
  BY <1>9 DEF vars, durableVars, runVars, Continued, TypeOK
<1> QED BY <1>1, <1>2, <1>3, <1>4, <1>5, <1>6, <1>7, <1>8, <1>9 DEF Kinds

(* What a chain ran and the modes of its calls, over a step that neither   *)
(* reports nor dispatches.                                                 *)
Local(r) ==
    \/ Starts(r) \/ Quits(r) \/ Collects(r) \/ Plans(r)
    \/ (\E q \in Runs : Resume(r, q)) \/ (\E s \in Steps : Drops(r, s))

(* A step of one call that reports nothing leaves the chains alone.        *)
LEMMA LocalKeeps ==
    ASSUME TypeOK, Unused, Chain, NEW r \in Runs, Local(r)
    PROVE  /\ \A d \in Dispatches, t \in Runs :
                  Related(d[1], t)' /\ Ran(d)' <=> Related(d[1], t) /\ Ran(d)
           /\ \A t \in Runs : Prepared(t)' => Prepared(t)
           /\ \A d \in Dispatches : Ran(d)' <=> Ran(d)
<1>1. /\ \A x \in Runs \ {r} : pc'[x] = pc[x] /\ mode'[x] = mode[x]
      /\ pc'[r] # "idle" /\ UNCHANGED <<root, outcome>>
      /\ pc[r] # "idle" => mode'[r] = mode[r]
  <2>1. CASE Plans(r)
    BY <2>1 DEF Plans, Planned, TypeOK
  <2>2. CASE ~Plans(r)
    BY <2>2 DEF Local, Starts, Quits, Collects, Resume, Drops, Goto, TypeOK
  <2> QED BY <2>1, <2>2
<1>2. pc[r] = "idle" => /\ \A x \in Runs : root[x] = root[r] => x = r
                        /\ \A y \in Steps : ~Ran(<<r, y>>)
  BY DEF Chain, Unused, Unstarted, Ran
<1>3. \A d \in Dispatches : d[1] \in Runs /\ d[2] \in Steps /\ d = <<d[1], d[2]>>
  BY DEF Dispatches
<1>4. \A d \in Dispatches : Ran(d)' <=> Ran(d)
  BY <1>1 DEF Ran
<1>5. \A d \in Dispatches, t \in Runs : Related(d[1], t)' /\ Ran(d)' <=> Related(d[1], t) /\ Ran(d)
  BY <1>1, <1>2, <1>3, <1>4 DEF Related
<1>6. \A t \in Runs : Prepared(t)' => Prepared(t)
  <2> SUFFICES ASSUME NEW t \in Runs, Prepared(t)', NEW x \in Runs, Related(x, t)
               PROVE  mode[x] = "prepared"
    BY DEF Prepared
  <2>1. Related(x, t)' /\ mode'[x] = mode[x]
    BY <1>1 DEF Related
  <2> QED BY <2>1 DEF Prepared
<1> QED BY <1>4, <1>5, <1>6

(* A report adds the call to the chain of the outcome it continues.        *)
LEMMA ReportLinks ==
    ASSUME TypeOK, Unused, Chain, NEW r \in Runs, NEW q \in Runs, Reports(r, q)
    PROVE  /\ \A d \in Dispatches, t \in Runs \ {r} :
                  Related(d[1], t)' /\ Ran(d)' <=> Related(d[1], t) /\ Ran(d)
           /\ \A d \in Dispatches : Related(d[1], r)' /\ Ran(d)' <=> Related(d[1], q) /\ Ran(d)
           /\ \A t \in Runs \ {r} : Prepared(t)' => Prepared(t)
           /\ Prepared(r)' => Prepared(q)
           /\ \A d \in Dispatches : Ran(d)' <=> Ran(d)
           /\ pc[q] = "waiting" /\ ~Continued(q) /\ q # r /\ host[q] \in Hosted
<1>1. /\ \A x \in Runs \ {r} : pc'[x] = pc[x] /\ mode'[x] = mode[x] /\ root'[x] = root[x]
      /\ pc'[r] = "loop" /\ pc[r] = "report" /\ root'[r] = root[q] /\ outcome' = outcome
  BY DEF Reports, TypeOK
<1>2. /\ \A x \in Runs : root[x] = r => x = r
      /\ \A y \in Steps : ~Ran(<<r, y>>)
      /\ root[r] = r
  BY <1>1 DEF Chain, Unused, Unstarted, Ran
<1>3. pc[q] = "waiting" /\ ~Continued(q) /\ q # r /\ root[q] # r /\ host[q] \in Hosted
  BY <1>1, <1>2 DEF Chain, Reports, Continued
<1>4. \A d \in Dispatches : d[1] \in Runs /\ d[2] \in Steps /\ d = <<d[1], d[2]>>
  BY DEF Dispatches
<1>5. \A d \in Dispatches : Ran(d)' <=> Ran(d)
  BY <1>1 DEF Ran
<1>6. \A d \in Dispatches : Ran(d) => d[1] # r
  BY <1>2, <1>4
<1>7. \A x \in Runs \ {r} : Related(x, r)' <=> Related(x, q)
  BY <1>1 DEF Related
<1>8. \A x, t \in Runs \ {r} : Related(x, t)' <=> Related(x, t)
  BY <1>1 DEF Related
<1>9. \A t \in Runs \ {r} : Prepared(t)' => Prepared(t)
  <2>1. \A t \in Runs \ {r} : ~Related(r, t)
    BY <1>2 DEF Related
  <2> QED BY <1>1, <1>8, <2>1 DEF Prepared
<1>10. Prepared(r)' => Prepared(q)
  <2>1. ~Related(r, q)
    BY <1>2, <1>3 DEF Related
  <2> QED BY <1>1, <1>7, <2>1 DEF Prepared
<1> QED BY <1>3, <1>4, <1>5, <1>6, <1>7, <1>8, <1>9, <1>10

(* A dispatch belongs to the end of its chain.                             *)
LEMMA DispatchLinks ==
    ASSUME TypeOK, Chain, NEW r \in Runs, NEW s \in Steps, Dispatched(r, s)
    PROVE  /\ \A x, t \in Runs : Related(x, t)' <=> Related(x, t)
           /\ \A d \in Dispatches : d # <<r, s>> => (Ran(d)' <=> Ran(d)) /\ cash'[d] = cash[d]
           /\ \A t \in Runs : Prepared(t)' <=> Prepared(t)
           /\ \A t \in Runs : Related(r, t) /\ pc[t] # "idle" /\ ~Continued(t) => t = r
           /\ pc[r] = "run" /\ s \in wave[r] /\ ~Ran(<<r, s>>)
           /\ UNCHANGED <<pc, mode, root, outputs, receipts, wave, host, reported, maximum>>
<1>1. UNCHANGED <<pc, mode, root, outputs, receipts, wave, host, reported, maximum>>
      /\ pc[r] = "run" /\ s \in wave[r] /\ ~Ran(<<r, s>>)
  BY DEF Dispatched, Ran
<1>2. \A d \in Dispatches : d # <<r, s>> => outcome'[d] = outcome[d] /\ cash'[d] = cash[d]
  BY DEF Dispatched, TypeOK
<1>3. ~Continued(r)
  BY <1>1 DEF Continued
<1>4. \A t \in Runs : Related(r, t) /\ pc[t] # "idle" /\ ~Continued(t) => t = r
  BY <1>1, <1>3 DEF Chain, Related
<1>5. \A x, t \in Runs : Related(x, t)' <=> Related(x, t)
  BY <1>1 DEF Related
<1>6. \A t \in Runs : Prepared(t)' <=> Prepared(t)
  BY <1>1, <1>5 DEF Prepared
<1>7. \A d \in Dispatches : d # <<r, s>> => (Ran(d)' <=> Ran(d))
  BY <1>2 DEF Ran
<1> QED BY <1>1, <1>2, <1>4, <1>5, <1>6, <1>7

(* How a call comes to go on, or to a wave.                                *)
LEMMA LocalTurns ==
    ASSUME TypeOK, NEW r \in Runs, Local(r)
    PROVE  /\ \A t \in Runs \ {r} : /\ pc'[t] = pc[t] /\ outputs'[t] = outputs[t]
                                    /\ receipts'[t] = receipts[t] /\ wave'[t] = wave[t]
           /\ pc'[r] \in Going => \/ pc[r] = "idle"
                                  \/ pc[r] = "loop" /\ outputs'[r] = outputs[r] /\ receipts'[r] = receipts[r]
                                  \/ Collects(r)
           /\ pc'[r] = "run" => pc[r] = "loop" /\ outputs'[r] = outputs[r] /\ receipts'[r] = receipts[r]
           /\ UNCHANGED <<cash, reported, outcome>>
<1>1. CASE Starts(r) \/ \E q \in Runs : Resume(r, q)
  BY <1>1 DEF Starts, Resume, Goto, durableVars, TypeOK, Going
<1>2. CASE Quits(r)
  BY <1>2 DEF Quits, TypeOK, Going
<1>5. CASE Plans(r)
  <2>1. PICK W \in SUBSET (Steps \ outputs[r]) : Planned(r, W)
    BY <1>5 DEF Plans
  <2> QED BY <2>1 DEF Planned, TypeOK, Going
<1>3. CASE Collects(r)
  BY <1>3 DEF Collects, TypeOK, Going
<1>4. CASE \E s \in Steps : Drops(r, s)
  BY <1>4 DEF Drops, TypeOK, Going
<1> QED BY <1>1, <1>2, <1>3, <1>4, <1>5 DEF Local

(* The end of a chain goes on knowing its writes.                          *)
LEMMA WritingStep ==
    ASSUME TypeOK, TypeOK', Unused, Chain, Turn, Writing, Kinds
    PROVE  Writing'
<1>0. /\ Writes \subseteq Steps /\ Writes \cap Hosted = {}
      /\ \A x \in Runs, y \in Steps : <<x, y>> \in Dispatches /\ <<x, y>>[1] = x
      /\ \A x \in Runs : Continued(x) => Continued(x)'
  BY WorkflowAssumption, ContinuedStays DEF Dispatches
<1> SUFFICES ASSUME NEW t \in Runs, ~Continued(t)', NEW q \in Runs, NEW w \in Writes,
                    Related(q, t)', Kept(w, t)', Ran(<<q, w>>)'
             PROVE  /\ pc'[t] \in Going => w \in outputs'[t]
                    /\ pc'[t] = "run" => w \in outputs'[t] \/ (q = t /\ w \in wave'[t])
  BY DEF Writing
<1> DEFINE Goal == /\ pc'[t] \in Going => w \in outputs'[t]
                   /\ pc'[t] = "run" => w \in outputs'[t] \/ (q = t /\ w \in wave'[t])
<1>1. w \in Steps /\ <<q, w>> \in Dispatches /\ ~Continued(t)
  BY <1>0
<1>2. ASSUME Related(q, t), Kept(w, t), Ran(<<q, w>>)
      PROVE  /\ pc[t] \in Going => w \in outputs[t]
             /\ pc[t] = "run" => w \in outputs[t] \/ (q = t /\ w \in wave[t])
  BY <1>1, <1>2 DEF Writing
<1>3. ASSUME NEW r \in Runs, Local(r) PROVE Goal
  <2>1. Related(q, t) /\ Kept(w, t) /\ Ran(<<q, w>>)
    BY <1>0, <1>1, <1>3, LocalKeeps DEF Kept
  <2>2. CASE t # r
    BY <1>2, <1>3, <2>1, <2>2, LocalTurns
  <2>3. CASE t = r
    <3>1. pc[t] # "idle"
      BY <1>1, <2>1 DEF Chain, Related, Unused, Unstarted
    <3>2. CASE Collects(r)
      <4>1. w \in outputs[t] \/ (q = t /\ w \in wave[t])
        BY <1>2, <2>1, <2>3, <3>2 DEF Collects
      <4>2. PICK l \in {"loop", "waiting", "failed", "cancel"}, O \in SUBSET wave[r], h \in Hosted \cup {None} :
              /\ pc' = [pc EXCEPT ![r] = l]
              /\ outputs' = [outputs EXCEPT ![r] = outputs[r] \cup O]
              /\ l = "loop" => O = wave[r]
              /\ l = "waiting" => h \in wave[r] /\ outcome[<<r, h>>] = "waiting"
        BY <3>2 DEF Collects
      <4>3. pc'[r] = l /\ outputs'[r] = outputs[r] \cup O
        BY <4>2 DEF TypeOK
      <4>4. ASSUME l = "waiting", w \in wave[r] PROVE FALSE
        <5>1. h \in wave[r] /\ h = w /\ h \in Steps /\ outcome[<<r, h>>] = "waiting"
          <6>1. w \in Alone(r)
            BY <2>1, <2>3, <3>1 DEF Alone, Kept, Prepared, Related
          <6> QED BY <1>1, <3>2, <4>2, <4>4, <6>1 DEF Turn, Collects
        <5> QED BY <1>0, <5>1 DEF Turn
      <4>5. l \in {"loop", "waiting"} => w \in outputs'[r]
        BY <2>3, <4>1, <4>2, <4>3, <4>4
      <4> QED BY <2>3, <4>2, <4>3, <4>5 DEF Going
    <3>3. CASE ~Collects(r)
      BY <1>2, <1>3, <2>1, <2>3, <3>1, <3>3, LocalTurns DEF Going
    <3> QED BY <3>2, <3>3
  <2> QED BY <2>2, <2>3
<1>4. ASSUME NEW r \in Runs, NEW p \in Runs, Reports(r, p) PROVE Goal
  <2>1. CASE t # r
    <3>1. Related(q, t) /\ Kept(w, t) /\ Ran(<<q, w>>)
      BY <1>0, <1>1, <1>4, <2>1, ReportLinks DEF Kept
    <3>2. pc'[t] = pc[t] /\ outputs'[t] = outputs[t] /\ wave'[t] = wave[t]
      BY <1>4, <2>1 DEF Reports, TypeOK
    <3> QED BY <1>2, <3>1, <3>2
  <2>2. CASE t = r
    <3>1. Related(q, p) /\ Kept(w, p) /\ Ran(<<q, w>>) /\ pc[p] = "waiting" /\ ~Continued(p)
      BY <1>0, <1>1, <1>4, <2>2, ReportLinks DEF Kept
    <3>2. w \in outputs[p]
      BY <3>1 DEF Writing, Going
    <3>3. outputs'[r] = outputs[p] \cup {host[p]} /\ pc'[r] = "loop"
      BY <1>4 DEF Reports, TypeOK
    <3> QED BY <2>2, <3>2, <3>3
  <2> QED BY <2>1, <2>2
<1>5. ASSUME NEW r \in Runs, NEW s \in Steps, Dispatched(r, s) PROVE Goal
  <2>1. Related(q, t) /\ Kept(w, t) /\ pc[t] = pc'[t] /\ outputs'[t] = outputs[t] /\ wave'[t] = wave[t]
        /\ pc[r] = "run" /\ s \in wave[r]
    BY <1>5, DispatchLinks DEF Kept
  <2>2. CASE <<q, w>> # <<r, s>>
    <3>1. Ran(<<q, w>>)
      BY <1>1, <1>5, <2>2, DispatchLinks
    <3> QED BY <1>2, <2>1, <3>1
  <2>3. CASE q = r /\ w = s
    <3>1. pc[t] # "idle" => t = r
      BY <1>1, <1>5, <2>1, <2>3, DispatchLinks
    <3> QED BY <2>1, <2>3, <3>1 DEF Going
  <2> QED BY <2>2, <2>3
<1>6. CASE UNCHANGED vars
  BY <1>2, <1>6 DEF vars, durableVars, runVars, Related, Ran, Kept, Prepared
<1> QED BY <1>3, <1>4, <1>5, <1>6 DEF Kinds, Local

(* No write runs a second time in its chain.                               *)
LEMMA WroteOnceStep ==
    ASSUME TypeOK, TypeOK', Unused, Chain, Turn, Writing, WroteOnce, Kinds
    PROVE  WroteOnce'
<1>0. /\ Writes \subseteq Steps
      /\ \A x \in Runs, y \in Steps : <<x, y>> \in Dispatches /\ <<x, y>>[1] = x
  BY WorkflowAssumption DEF Dispatches
<1> SUFFICES ASSUME NEW p \in Runs, NEW q \in Runs, NEW w \in Writes,
                    Related(p, q)', Related(q, p)', Kept(w, q)', Ran(<<p, w>>)', Ran(<<q, w>>)'
             PROVE  p = q
  BY DEF WroteOnce
<1>1. w \in Steps /\ <<p, w>> \in Dispatches /\ <<q, w>> \in Dispatches
  BY <1>0
<1>2. ASSUME Related(p, q), Related(q, p), Kept(w, q), Ran(<<p, w>>), Ran(<<q, w>>) PROVE p = q
  BY <1>2 DEF WroteOnce
<1>3. ASSUME NEW r \in Runs, Local(r) PROVE p = q
  BY <1>0, <1>1, <1>2, <1>3, LocalKeeps DEF Kept
<1>4. ASSUME NEW r \in Runs, NEW x \in Runs, Reports(r, x) PROVE p = q
  <2>1. Ran(<<p, w>>) /\ Ran(<<q, w>>)
    BY <1>1, <1>4, ReportLinks
  <2>2. p # r /\ q # r
    BY <1>1, <1>4, <2>1 DEF Reports, Unused, Unstarted, Ran
  <2> QED BY <1>0, <1>1, <1>2, <1>4, <2>2, ReportLinks DEF Kept
<1>5. ASSUME NEW r \in Runs, NEW s \in Steps, Dispatched(r, s) PROVE p = q
  <2>1. Related(p, q) /\ Related(q, p) /\ Kept(w, q) /\ Kept(w, p)
    <3>1. Related(p, q) /\ Related(q, p) /\ Kept(w, q)
      BY <1>5, DispatchLinks DEF Kept
    <3> QED BY <3>1 DEF Kept, Prepared, Related
  <2>2. ASSUME NEW x \in Runs, x # r, Related(x, r), Kept(w, r), Ran(<<x, w>>)', s = w PROVE FALSE
    <3>1. Ran(<<x, w>>)
      BY <1>0, <1>1, <1>5, <2>2, DispatchLinks
    <3>2. pc[r] = "run" /\ s \in wave[r] /\ ~Continued(r)
      BY <1>5, DispatchLinks DEF Continued
    <3>3. w \in outputs[r]
      BY <2>2, <3>1, <3>2 DEF Writing
    <3> QED BY <2>2, <3>2, <3>3 DEF Turn
  <2>3. CASE s = w /\ (p = r \/ q = r)
    BY <2>1, <2>2, <2>3
  <2>4. CASE ~(s = w /\ (p = r \/ q = r))
    BY <1>1, <1>2, <1>5, <2>1, <2>4, DispatchLinks
  <2> QED BY <2>3, <2>4
<1>6. CASE UNCHANGED vars
  BY <1>2, <1>6 DEF vars, durableVars, runVars, Related, Ran, Kept, Prepared
<1> QED BY <1>3, <1>4, <1>5, <1>6 DEF Kinds, Local

(* The end of a prepared chain keeps the receipts of what ran.             *)
LEMMA CoveringStep ==
    ASSUME TypeOK, TypeOK', Unused, Chain, Covering, Kinds
    PROVE  Covering'
<1>0. \A x \in Runs : Continued(x) => Continued(x)'
  BY ContinuedStays
<1> SUFFICES ASSUME NEW t \in Runs, ~Continued(t)', Prepared(t)', NEW d \in Dispatches,
                    Related(d[1], t)', Ran(d)'
             PROVE  /\ pc'[t] \in Going => d \in receipts'[t]
                    /\ pc'[t] = "run" => d \in receipts'[t] \/ (d[1] = t /\ d[2] \in wave'[t])
  BY DEF Covering
<1> DEFINE Goal == /\ pc'[t] \in Going => d \in receipts'[t]
                   /\ pc'[t] = "run" => d \in receipts'[t] \/ (d[1] = t /\ d[2] \in wave'[t])
<1>1. ~Continued(t) /\ d[1] \in Runs /\ d[2] \in Steps /\ d = <<d[1], d[2]>>
  BY <1>0 DEF Dispatches
<1>2. ASSUME Prepared(t), Related(d[1], t), Ran(d)
      PROVE  /\ pc[t] \in Going => d \in receipts[t]
             /\ pc[t] = "run" => d \in receipts[t] \/ (d[1] = t /\ d[2] \in wave[t])
  BY <1>1, <1>2 DEF Covering
<1>3. ASSUME NEW r \in Runs, Local(r) PROVE Goal
  <2>1. Related(d[1], t) /\ Ran(d) /\ Prepared(t)
    BY <1>3, LocalKeeps
  <2>2. CASE t # r
    BY <1>2, <1>3, <2>1, <2>2, LocalTurns
  <2>3. CASE t = r
    <3>1. pc[t] # "idle"
      BY <1>1, <2>1 DEF Chain, Related, Unused, Unstarted
    <3>2. CASE Collects(r)
      <4>1. d \in receipts[t] \/ (d[1] = t /\ d[2] \in wave[t])
        BY <1>2, <2>1, <2>3, <3>2 DEF Collects
      <4>2. mode[r] = "prepared"
        BY <2>1, <2>3, <3>1 DEF Prepared, Related
      <4>3. PICK l \in {"loop", "waiting", "failed", "cancel"}, R \in SUBSET wave[r] :
              /\ pc' = [pc EXCEPT ![r] = l]
              /\ receipts' = [receipts EXCEPT ![r] = receipts[r] \cup {<<r, y>> : y \in R}]
              /\ l # "cancel" => R = wave[r]
        BY <3>2, <4>2 DEF Collects
      <4>4. pc'[r] = l /\ receipts'[r] = receipts[r] \cup {<<r, y>> : y \in R}
        BY <4>3 DEF TypeOK
      <4>5. l # "cancel" => d \in receipts'[r]
        BY <1>1, <2>3, <4>1, <4>3, <4>4
      <4> QED BY <2>3, <4>3, <4>4, <4>5 DEF Going
    <3>3. CASE ~Collects(r)
      BY <1>2, <1>3, <2>1, <2>3, <3>1, <3>3, LocalTurns DEF Going
    <3> QED BY <3>2, <3>3
  <2> QED BY <2>2, <2>3
<1>4. ASSUME NEW r \in Runs, NEW p \in Runs, Reports(r, p) PROVE Goal
  <2>1. CASE t # r
    <3>1. Related(d[1], t) /\ Ran(d) /\ Prepared(t)
      BY <1>4, <2>1, ReportLinks
    <3>2. pc'[t] = pc[t] /\ receipts'[t] = receipts[t] /\ wave'[t] = wave[t]
      BY <1>4, <2>1 DEF Reports, TypeOK
    <3> QED BY <1>2, <3>1, <3>2
  <2>2. CASE t = r
    <3>1. Related(d[1], p) /\ Ran(d) /\ Prepared(p) /\ pc[p] = "waiting" /\ ~Continued(p)
      BY <1>4, <2>2, ReportLinks
    <3>2. d \in receipts[p]
      BY <3>1 DEF Covering, Going
    <3>3. receipts'[r] = receipts[p] /\ pc'[r] = "loop"
      BY <1>4 DEF Reports, TypeOK
    <3> QED BY <2>2, <3>2, <3>3
  <2> QED BY <2>1, <2>2
<1>5. ASSUME NEW r \in Runs, NEW s \in Steps, Dispatched(r, s) PROVE Goal
  <2>1. /\ Related(d[1], t) /\ Prepared(t) /\ pc'[t] = pc[t] /\ receipts'[t] = receipts[t]
        /\ wave'[t] = wave[t] /\ pc[r] = "run" /\ s \in wave[r]
    BY <1>1, <1>5, DispatchLinks
  <2>2. CASE d # <<r, s>>
    <3>1. Ran(d)
      BY <1>5, <2>2, DispatchLinks
    <3> QED BY <1>2, <2>1, <3>1
  <2>3. CASE d = <<r, s>>
    <3>1. pc[t] # "idle" => t = r
      BY <1>1, <1>5, <2>1, <2>3, DispatchLinks
    <3> QED BY <2>1, <2>3, <3>1 DEF Going
  <2> QED BY <2>2, <2>3
<1>6. CASE UNCHANGED vars
  <2>1. Prepared(t) /\ Related(d[1], t) /\ Ran(d)
    BY <1>6 DEF vars, durableVars, runVars, Related, Ran, Prepared
  <2> QED BY <1>2, <1>6, <2>1 DEF vars, durableVars, runVars
<1> QED BY <1>3, <1>4, <1>5, <1>6 DEF Kinds, Local

-----------------------------------------------------------------------------
(* The cash of the receipts of a call at its wave does not change: a       *)
(* report is about an outcome that the call at the end of the chain does   *)
(* not wait for any more.                                                  *)
LEMMA CashStays ==
    ASSUME TypeOK, Chain, Receipted, Kinds, NEW t \in Runs, pc[t] = "run"
    PROVE  \A d \in receipts[t] : cash'[d] = cash[d]
<1> SUFFICES ASSUME NEW d \in receipts[t] PROVE cash'[d] = cash[d]
  OBVIOUS
<1>1. d \in Dispatches /\ outcome[d] # "none" /\ Related(d[1], t)
  BY DEF TypeOK, Receipted
<1>2. ASSUME NEW r \in Runs, Local(r) PROVE cash'[d] = cash[d]
  BY <1>2, LocalTurns
<1>3. ASSUME NEW r \in Runs, NEW q \in Runs, Reports(r, q) PROVE cash'[d] = cash[d]
  <2>1. pc[q] = "waiting" /\ ~Continued(q) /\ ~Continued(t)
    BY <1>3 DEF Chain, Reports, Continued
  <2>2. d # <<q, host[q]>>
    <3> SUFFICES ASSUME d = <<q, host[q]>> PROVE FALSE
      OBVIOUS
    <3>1. root[q] = root[t]
      BY <1>1 DEF Related
    <3>2. q = t
      BY <2>1, <3>1 DEF Chain
    <3> QED BY <2>1, <3>2
  <2> QED BY <1>1, <1>3, <2>2 DEF Reports, TypeOK
<1>4. ASSUME NEW r \in Runs, NEW s \in Steps, Dispatched(r, s) PROVE cash'[d] = cash[d]
  BY <1>1, <1>4 DEF Dispatched, TypeOK
<1>5. CASE UNCHANGED vars
  BY <1>5 DEF vars
<1> QED BY <1>2, <1>3, <1>4, <1>5 DEF Kinds, Local

(* A wave at hand stays within the budget.                                 *)
LEMMA FundedStep ==
    ASSUME TypeOK, TypeOK', Unused, Chain, Receipted, Turn, Funded, Kinds
    PROVE  Funded'
<1>0. \A x \in Runs, y \in Steps : <<x, y>> \in Dispatches
  BY DEF Dispatches
<1> SUFFICES ASSUME NEW t \in Runs, pc'[t] = "run", mode'[t] = "prepared"
             PROVE  /\ CashKnown(t)' /\ Accounted(t)' + Maxima(t)' <= Budget
                    /\ \A y \in wave'[t] \ Hosted : Ran(<<t, y>>)' /\ cash'[<<t, y>>] # None =>
                           cash'[<<t, y>>] <= maximum'[<<t, y>>]
  BY DEF Funded
<1> DEFINE Goal == /\ CashKnown(t)' /\ Accounted(t)' + Maxima(t)' <= Budget
                   /\ \A y \in wave'[t] \ Hosted : Ran(<<t, y>>)' /\ cash'[<<t, y>>] # None =>
                          cash'[<<t, y>>] <= maximum'[<<t, y>>]
<1>1. receipts[t] \subseteq Dispatches /\ wave[t] \subseteq Steps /\ IsFiniteSet(receipts[t])
      /\ IsFiniteSet(wave[t])
  BY FiniteSteps, FS_Subset DEF TypeOK
<1>2. ASSUME pc[t] = "run", mode[t] = "prepared", receipts'[t] = receipts[t], wave'[t] = wave[t],
             \A y \in wave[t] : maximum'[<<t, y>>] = maximum[<<t, y>>],
             \A y \in wave[t] \ Hosted : Ran(<<t, y>>)' /\ cash'[<<t, y>>] # None =>
                 \/ Ran(<<t, y>>) /\ cash'[<<t, y>>] = cash[<<t, y>>]
                 \/ cash'[<<t, y>>] <= maximum[<<t, y>>]
      PROVE  Goal
  <2>1. CashKnown(t) /\ Accounted(t) + Maxima(t) <= Budget
    BY <1>2 DEF Funded
  <2>2. \A d \in receipts[t] : cash'[d] = cash[d]
    BY <1>2, CashStays
  <2>3. Accounted(t)' = Accounted(t)
    BY <1>1, <1>2, <2>2, SumSame DEF Accounted
  <2>4. Maxima(t)' = Maxima(t)
    <3> DEFINE f == [y \in Steps |-> maximum[<<t, y>>]]
               g == [y \in Steps |-> maximum'[<<t, y>>]]
    <3>1. \A y \in wave[t] : g[y] = f[y]
      BY <1>1, <1>2
    <3>2. SumFunctionOnSet(g, wave[t]) = SumFunctionOnSet(f, wave[t])
      <4> HIDE DEF f, g
      <4> QED BY <1>1, <3>1, SumSame
    <3>3. Maxima(t) = SumFunctionOnSet(f, wave[t]) /\ Maxima(t)' = SumFunctionOnSet(g, wave[t])
      BY <1>2 DEF Maxima
    <3> QED BY <3>2, <3>3
  <2>5. CashKnown(t)'
    BY <1>2, <2>1, <2>2 DEF CashKnown
  <2>6. \A y \in wave[t] \ Hosted : Ran(<<t, y>>) /\ cash[<<t, y>>] # None => cash[<<t, y>>] <= maximum[<<t, y>>]
    BY <1>2 DEF Funded
  <2> QED BY <1>2, <2>1, <2>3, <2>4, <2>5, <2>6
<1>3. ASSUME NEW r \in Runs, Local(r), t # r PROVE Goal
  <2>1. /\ pc[t] = "run" /\ receipts'[t] = receipts[t] /\ wave'[t] = wave[t]
        /\ cash' = cash /\ \A d \in Dispatches : Ran(d)' <=> Ran(d)
    BY <1>3, LocalTurns, LocalKeeps
  <2>2. mode'[t] = mode[t] /\ \A y \in wave[t] : maximum'[<<t, y>>] = maximum[<<t, y>>]
    <3>1. CASE Plans(r)
      BY <1>0, <1>1, <1>3, <3>1 DEF Plans, Planned
    <3>2. CASE Starts(r)
      BY <1>3, <3>2 DEF Starts, durableVars, TypeOK
    <3>3. CASE Quits(r) \/ Collects(r) \/ (\E q \in Runs : Resume(r, q)) \/ (\E s \in Steps : Drops(r, s))
      BY <3>3 DEF Quits, Collects, Resume, Drops, durableVars
    <3> QED BY <1>3, <3>1, <3>2, <3>3 DEF Local
  <2> QED BY <1>0, <1>1, <1>2, <2>1, <2>2
<1>4. ASSUME NEW r \in Runs, Local(r), t = r PROVE Goal
  <2>1. Plans(r)
    <3>1. ~Starts(r) /\ ~Quits(r) /\ ~Collects(r)
      BY <1>4 DEF Starts, Quits, Collects, TypeOK
    <3>2. ~(\E q \in Runs : Resume(r, q)) /\ ~(\E s \in Steps : Drops(r, s))
      BY <1>4 DEF Resume, Drops, Goto, TypeOK
    <3> QED BY <1>4, <3>1, <3>2 DEF Local
  <2>0. PICK W \in SUBSET (Steps \ outputs[r]) : Planned(r, W)
    BY <2>1 DEF Plans
  <2>2. /\ CashKnown(t) /\ mode[t] = "prepared" /\ pc[t] = "loop" /\ wave'[t] = W
        /\ UNCHANGED <<receipts, outcome, cash, outputs>>
    BY <1>4, <2>0 DEF Planned, TypeOK
  <2>3. Accounted(t) + SumFunctionOnSet([y \in Steps |-> maximum'[<<t, y>>]], W) <= Budget
    BY <1>4, <2>0, <2>2 DEF Planned, TypeOK
  <2>4. \A y \in W : ~Ran(<<t, y>>)'
    BY <1>4, <2>0, <2>2 DEF Turn, Ran
  <2>5. Accounted(t)' = Accounted(t) /\ (CashKnown(t)' <=> CashKnown(t))
    BY <2>2 DEF Accounted, CashKnown
  <2>6. Maxima(t)' = SumFunctionOnSet([y \in Steps |-> maximum'[<<t, y>>]], W)
    BY <2>2 DEF Maxima
  <2> QED BY <2>2, <2>3, <2>4, <2>5, <2>6
<1>5. ASSUME NEW r \in Runs, NEW q \in Runs, Reports(r, q) PROVE Goal
  <2>1. t # r /\ q # t /\ pc[t] = "run"
    <3>1. pc[q] = "waiting"
      BY <1>5, ReportLinks
    <3>2. pc'[r] = "loop" /\ \A x \in Runs \ {r} : pc'[x] = pc[x]
      BY <1>5 DEF Reports, TypeOK
    <3> QED BY <3>1, <3>2
  <2>2. /\ mode'[t] = mode[t] /\ receipts'[t] = receipts[t] /\ wave'[t] = wave[t] /\ maximum' = maximum
        /\ outcome' = outcome /\ \A y \in Steps : cash'[<<t, y>>] = cash[<<t, y>>]
    BY <1>0, <1>5, <2>1 DEF Reports, TypeOK
  <2> QED BY <1>1, <1>2, <2>1, <2>2 DEF Ran
<1>6. ASSUME NEW r \in Runs, NEW s \in Steps, Dispatched(r, s) PROVE Goal
  <2>1. /\ pc[t] = "run" /\ mode[t] = "prepared" /\ receipts'[t] = receipts[t] /\ wave'[t] = wave[t]
        /\ maximum' = maximum
    BY <1>6, DispatchLinks
  <2>2. \A y \in wave[t] : <<t, y>> # <<r, s>> =>
            (Ran(<<t, y>>)' <=> Ran(<<t, y>>)) /\ cash'[<<t, y>>] = cash[<<t, y>>]
    BY <1>0, <1>1, <1>6, DispatchLinks
  <2>3. t = r /\ s \notin Hosted /\ Ran(<<r, s>>)' /\ cash'[<<r, s>>] # None =>
            cash'[<<r, s>>] <= maximum[<<r, s>>]
    BY <1>0, <1>6, <2>1 DEF Dispatched, Ran, TypeOK
  <2> QED BY <1>2, <2>1, <2>2, <2>3
<1>7. CASE UNCHANGED vars
  <2>1. UNCHANGED <<pc, mode, receipts, wave, maximum, outcome, cash>>
    BY <1>7 DEF vars, durableVars, runVars
  <2> QED BY <1>2, <2>1 DEF Ran
<1> QED BY <1>3, <1>4, <1>5, <1>6, <1>7 DEF Kinds, Local

(* While a wave runs, what its chain charged is covered by what is         *)
(* accounted and the maxima of the wave.                                   *)
WavesWithin ==
    \A p \in Runs : pc[p] = "run" /\ Prepared(p) => SumFunctionOnSet(Charge, Bills(p)) <= Budget

(* What is accounted and what the wave at hand charged fit the budget.     *)
LEMMA WaveWithin ==
    TypeOK /\ Covering /\ Funded => WavesWithin
<1> SUFFICES ASSUME TypeOK, Covering, Funded, NEW p \in Runs, pc[p] = "run", Prepared(p)
             PROVE  SumFunctionOnSet(Charge, Bills(p)) <= Budget
  BY DEF WavesWithin
<1> DEFINE W == {d \in Dispatches : d[1] = p /\ d[2] \in wave[p] /\ d \in Bills(p)}
           A == receipts[p]
           one == [d \in Dispatches |-> d[2]]
           top == [y \in Steps |-> maximum[<<p, y>>]]
<1>1. ~Continued(p) /\ mode[p] = "prepared"
  BY DEF Continued, Prepared, Related
<1>2. A \subseteq Dispatches /\ wave[p] \subseteq Steps /\ Bills(p) \subseteq Dispatches /\ W \subseteq Dispatches
  BY DEF TypeOK, Bills
<1>3. IsFiniteSet(Dispatches) /\ IsFiniteSet(A) /\ IsFiniteSet(W) /\ IsFiniteSet(wave[p]) /\ IsFiniteSet(Bills(p))
      /\ IsFiniteSet(A \cup W)
  BY <1>2, FiniteSteps, FS_Subset, FS_Union
<1>4. Bills(p) \subseteq A \cup W
  <2> SUFFICES ASSUME NEW d \in Bills(p) PROVE d \in A \cup W
    OBVIOUS
  <2> QED BY <1>1 DEF Bills, Covering
<1>5. \A d \in Dispatches : Charge[d] \in Nat
  BY DEF Charge, TypeOK
<1>6. SumFunctionOnSet(Charge, Bills(p)) <= SumFunctionOnSet(Charge, A \cup W)
  <2> HIDE DEF A, W
  <2>1. \A d \in A \cup W : Charge[d] \in Nat
    BY <1>2, <1>5
  <2> QED BY <1>3, <1>4, <2>1, SumSubset
<1>7. SumFunctionOnSet(Charge, A \cup W) <= SumFunctionOnSet(Charge, A) + SumFunctionOnSet(Charge, W)
  <2> HIDE DEF A, W
  <2>1. \A d \in A \cup W : Charge[d] \in Nat
    BY <1>2, <1>5
  <2> QED BY <1>3, <2>1, SumUnionAtMost
<1>8. SumFunctionOnSet(Charge, A) = Accounted(p)
  <2>1. \A d \in A : Charge[d] = cash[d]
    BY <1>1, <1>2 DEF Funded, CashKnown, Charge
  <2> HIDE DEF A
  <2>2. SumFunctionOnSet(Charge, A) = SumFunctionOnSet(cash, A)
    BY <1>3, <2>1, SumSame
  <2> QED BY <2>2 DEF A, Accounted
<1>9. SumFunctionOnSet(Charge, W) <= Maxima(p)
  <2>1. \A y \in wave[p] : SumFunctionOnSet(Charge, {d \in W : one[d] = y}) <= top[y] /\ top[y] \in Nat
    <3> SUFFICES ASSUME NEW y \in wave[p]
                 PROVE  SumFunctionOnSet(Charge, {d \in W : one[d] = y}) <= top[y] /\ top[y] \in Nat
      OBVIOUS
    <3>1. <<p, y>> \in Dispatches /\ top[y] = maximum[<<p, y>>] /\ top[y] \in Nat
      BY <1>2 DEF TypeOK, Dispatches
    <3>2. {d \in W : one[d] = y} \subseteq {<<p, y>>}
      BY DEF Dispatches
    <3>3. CASE <<p, y>> \in W
      <4>1. {d \in W : one[d] = y} = {<<p, y>>}
        BY <3>1, <3>2, <3>3
      <4>2. Ran(<<p, y>>) /\ y \notin Hosted
        BY <3>3 DEF Bills
      <4>3. Charge[<<p, y>>] <= top[y]
        BY <1>1, <3>1, <4>2 DEF Funded, Charge, TypeOK
      <4>4. SumFunctionOnSet(Charge, {<<p, y>>}) = Charge[<<p, y>>]
        <5> DEFINE S == {}
                   a == <<p, y>>
        <5>1. /\ IsFiniteSet(S) /\ a \notin S /\ \A x \in S \cup {a} : Charge[x] \in Int
              /\ SumFunctionOnSet(Charge, S) = 0 /\ S \cup {a} = {a} /\ Charge[a] \in Int
          BY <1>5, <3>1, FS_EmptySet, SumEmpty
        <5> HIDE DEF S, a
        <5>2. SumFunctionOnSet(Charge, S \cup {a}) = Charge[a] + SumFunctionOnSet(Charge, S)
          BY <5>1, SumAdd
        <5>3. SumFunctionOnSet(Charge, {a}) = Charge[a]
          <6>1. SumFunctionOnSet(Charge, S \cup {a}) = SumFunctionOnSet(Charge, {a})
            BY <5>1
          <6>2. Charge[a] + 0 = Charge[a]
            BY <5>1
          <6> QED BY <5>1, <5>2, <6>1, <6>2
        <5> QED BY <5>3 DEF a
      <4> QED BY <3>1, <4>1, <4>3, <4>4
    <3>4. CASE <<p, y>> \notin W
      <4>1. {d \in W : one[d] = y} = {}
        BY <3>2, <3>4
      <4>2. SumFunctionOnSet(Charge, {d \in W : one[d] = y}) = 0
        <5> DEFINE E == {d \in W : one[d] = y}
        <5>1. E = {}
          BY <4>1
        <5> HIDE DEF E
        <5>2. SumFunctionOnSet(Charge, E) = 0
          BY <5>1, SumEmpty
        <5> QED BY <5>2 DEF E
      <4> QED BY <3>1, <4>2
    <3> QED BY <3>3, <3>4
  <2>2. {d \in W : one[d] \in wave[p]} = W
    OBVIOUS
  <2>3. \A d \in W : Charge[d] \in Nat
    BY <1>2, <1>5
  <2> DEFINE U == wave[p]
  <2>4. IsFiniteSet(U) /\ \A y \in U : SumFunctionOnSet(Charge, {d \in W : one[d] = y}) <= top[y] /\ top[y] \in Nat
    BY <1>3, <2>1
  <2>5. {d \in W : one[d] \in U} = W
    BY <2>2
  <2> HIDE DEF W, one, top, U
  <2>6. SumFunctionOnSet(Charge, {d \in W : one[d] \in U}) <= SumFunctionOnSet(top, U)
    BY <1>3, <2>3, <2>4, SumGrouped
  <2> QED BY <2>5, <2>6 DEF Maxima, top, U
<1>10. Accounted(p) + Maxima(p) <= Budget
  BY <1>1 DEF Funded
<1>11. /\ SumFunctionOnSet(Charge, A) \in Nat /\ SumFunctionOnSet(Charge, W) \in Nat /\ Budget \in Nat
       /\ SumFunctionOnSet(Charge, Bills(p)) \in Nat /\ SumFunctionOnSet(Charge, A \cup W) \in Nat
  <2> HIDE DEF A, W
  <2>1. \A d \in A \cup W : Charge[d] \in Nat
    BY <1>2, <1>5
  <2> QED BY <1>2, <1>3, <1>5, <2>1, SumNat, WorkflowAssumption
<1>12. Maxima(p) \in Nat
  <2>1. \A y \in wave[p] : top[y] \in Nat
    BY <1>2 DEF TypeOK, Dispatches
  <2> HIDE DEF top
  <2>2. SumFunctionOnSet(top, wave[p]) \in Nat
    BY <1>3, <2>1, SumNat
  <2> QED BY <2>2 DEF top, Maxima
<1> HIDE DEF A, W
<1> QED BY <1>6, <1>7, <1>8, <1>9, <1>10, <1>11, <1>12

(* The charges of a chain stay within the budget.                          *)
LEMMA WithinStep ==
    ASSUME TypeOK, TypeOK', Unused, Chain, Turn, Within, Covering', Funded', Kinds
    PROVE  Within'
<1>0. /\ \A d \in Dispatches : d[1] \in Runs /\ d[2] \in Steps /\ d = <<d[1], d[2]>>
      /\ IsFiniteSet(Dispatches) /\ Budget \in Nat
  BY FiniteSteps, WorkflowAssumption DEF Dispatches
<1> SUFFICES ASSUME NEW t \in Runs, Prepared(t)'
             PROVE  SumFunctionOnSet(Charge', Bills(t)') <= Budget
  BY DEF Within
<1> DEFINE Goal == SumFunctionOnSet(Charge', Bills(t)') <= Budget
<1>1. ASSUME NEW x \in Runs, Prepared(x),
             \A d \in Dispatches : Related(d[1], t)' /\ Ran(d)' <=> Related(d[1], x) /\ Ran(d),
             \A d \in Bills(x) : cash'[d] = cash[d] /\ maximum'[d] = maximum[d]
      PROVE  Goal
  <2>1. Bills(t)' = Bills(x)
    BY <1>1 DEF Bills
  <2>2. Bills(x) \subseteq Dispatches /\ IsFiniteSet(Bills(x))
    BY <1>0, FS_Subset DEF Bills
  <2>3. \A d \in Bills(x) : Charge'[d] = Charge[d]
    BY <1>1, <2>2 DEF Charge
  <2>4. SumFunctionOnSet(Charge', Bills(x)) = SumFunctionOnSet(Charge, Bills(x))
    BY <2>2, <2>3, SumSame
  <2> QED BY <1>1, <2>1, <2>4 DEF Within
<1>2. ASSUME NEW r \in Runs, Local(r) PROVE Goal
  <2>1. cash' = cash /\ \A d \in Bills(t) : maximum'[d] = maximum[d]
    <3>1. ASSUME Plans(r), NEW d \in Bills(t) PROVE maximum'[d] = maximum[d]
      <4>1. d \in Dispatches /\ outcome[d] # "none"
        BY DEF Bills, Ran
      <4>2. PICK W \in SUBSET (Steps \ outputs[r]) : Planned(r, W)
        BY <3>1 DEF Plans
      <4>3. ~(d[1] = r /\ d[2] \in W)
        BY <1>0, <4>1, <4>2 DEF Planned, Turn
      <4> QED BY <4>1, <4>2, <4>3 DEF Planned
    <3>2. ~Plans(r) => maximum' = maximum
      BY <1>2 DEF Local, Starts, Quits, Collects, Resume, Drops, durableVars
    <3> QED BY <1>2, <3>1, <3>2, LocalTurns
  <2> QED BY <1>1, <1>2, <2>1, LocalKeeps
<1>3. ASSUME NEW r \in Runs, NEW q \in Runs, Reports(r, q) PROVE Goal
  <2>1. ASSUME NEW d \in Dispatches, d[2] \notin Hosted PROVE cash'[d] = cash[d] /\ maximum'[d] = maximum[d]
    <3>1. d # <<q, host[q]>>
      BY <1>3, <2>1, ReportLinks
    <3> QED BY <1>3, <3>1 DEF Reports, TypeOK
  <2>2. \A x \in Runs : \A d \in Bills(x) : cash'[d] = cash[d] /\ maximum'[d] = maximum[d]
    BY <2>1 DEF Bills
  <2>3. CASE t # r
    BY <1>1, <1>3, <2>2, <2>3, ReportLinks
  <2>4. CASE t = r
    BY <1>1, <1>3, <2>2, <2>4, ReportLinks
  <2> QED BY <2>3, <2>4
<1>4. ASSUME NEW r \in Runs, NEW s \in Steps, Dispatched(r, s) PROVE Goal
  <2>1. CASE ~Related(r, t)
    <3>1. \A d \in Dispatches : Related(d[1], t)' /\ Ran(d)' <=> Related(d[1], t) /\ Ran(d)
      <4> SUFFICES ASSUME NEW d \in Dispatches
                   PROVE  Related(d[1], t)' /\ Ran(d)' <=> Related(d[1], t) /\ Ran(d)
        OBVIOUS
      <4>1. Related(d[1], t)' <=> Related(d[1], t)
        BY <1>0, <1>4, DispatchLinks
      <4>2. d # <<r, s>> => (Ran(d)' <=> Ran(d))
        BY <1>4, DispatchLinks
      <4> QED BY <2>1, <4>1, <4>2
    <3>2. \A d \in Bills(t) : d # <<r, s>> /\ d \in Dispatches
      BY <1>4, <2>1, DispatchLinks DEF Bills
    <3>3. \A d \in Bills(t) : cash'[d] = cash[d] /\ maximum'[d] = maximum[d]
      <4>1. maximum' = maximum /\ \A d \in Dispatches : d # <<r, s>> => cash'[d] = cash[d]
        BY <1>4, DispatchLinks
      <4> QED BY <3>2, <4>1
    <3> QED BY <1>1, <1>4, <3>1, <3>3, DispatchLinks
  <2>2. CASE Related(r, t)
    <3>1. pc'[r] = "run" /\ root'[r] = root'[t]
      BY <1>4, <2>2, DispatchLinks DEF Related
    <3>2. \A x \in Runs : Related(x, t)' <=> Related(x, r)'
      BY <3>1 DEF Related
    <3>3. Prepared(r)'
      BY <3>2 DEF Prepared
    <3>4. Bills(t)' = Bills(r)'
      BY <1>0, <3>2 DEF Bills
    <3>5. WavesWithin'
      BY WaveWithin, PTL
    <3> QED BY <3>1, <3>3, <3>4, <3>5 DEF WavesWithin
  <2> QED BY <2>1, <2>2
<1>5. CASE UNCHANGED vars
  <2>1. UNCHANGED <<pc, mode, root, outcome, cash, maximum>>
    BY <1>5 DEF vars, durableVars, runVars
  <2>2. Prepared(t)
    BY <2>1 DEF Prepared, Related
  <2> QED BY <1>1, <2>1, <2>2 DEF Related, Ran
<1> QED BY <1>2, <1>3, <1>4, <1>5 DEF Kinds, Local

-----------------------------------------------------------------------------
(* The invariant holds at first.                                           *)
LEMMA InvInit ==
    Init => Inv
<1> SUFFICES ASSUME Init PROVE Inv
  OBVIOUS
<1>0. /\ Budget \in Nat /\ Economic \subseteq BOOLEAN /\ None \notin Hosted
      /\ \A x \in Runs, y \in Steps : <<x, y>> \in Dispatches
  BY WorkflowAssumption DEF Dispatches
<1>1. TypeOK
  BY <1>0 DEF Init, TypeOK
<1>2. Unused /\ Chain /\ Receipted
  BY <1>0 DEF Init, Unused, Chain, Receipted
<1>3. Turn /\ Opened
  BY <1>0 DEF Init, Turn, Opened
<1>4. \A d \in Dispatches : ~Ran(d)
  BY DEF Init, Ran
<1>5. Writing /\ WroteOnce
  BY <1>0, <1>4, WorkflowAssumption DEF Writing, WroteOnce
<1>6. Covering
  BY <1>4 DEF Covering
<1>7. Funded
  BY DEF Init, Funded
<1>8. Within
  <2>1. \A r \in Runs : Bills(r) = {}
    BY <1>4 DEF Bills
  <2> QED BY <1>0, <2>1, SumEmpty DEF Within
<1> QED BY <1>1, <1>2, <1>3, <1>5, <1>6, <1>7, <1>8 DEF Inv

(* Every step keeps the invariant.                                         *)
LEMMA InvStep ==
    Inv /\ [Next]_vars => Inv'
<1> SUFFICES ASSUME Inv, [Next]_vars PROVE Inv'
  OBVIOUS
<1>1. /\ TypeOK /\ Unused /\ Chain /\ Receipted /\ Turn /\ Opened /\ Writing /\ WroteOnce
      /\ Covering /\ Funded /\ Within
  BY DEF Inv
<1>2. Kinds
  BY <1>1, StepKinds
<1>3. TypeOK'
  BY <1>1, <1>2, TypeStep
<1>4. Unused' /\ Chain' /\ Receipted'
  BY <1>1, <1>2, <1>3, UnusedStep, ChainStep, ReceiptedStep
<1>5. Turn' /\ Opened'
  BY <1>1, <1>2, <1>3, TurnStep, OpenedStep
<1>6. Writing' /\ WroteOnce'
  BY <1>1, <1>2, <1>3, WritingStep, WroteOnceStep
<1>7. Covering' /\ Funded'
  BY <1>1, <1>2, <1>3, CoveringStep, FundedStep
<1>8. Within'
  BY <1>1, <1>2, <1>3, <1>7, WithinStep
<1> QED BY <1>3, <1>4, <1>5, <1>6, <1>7, <1>8 DEF Inv

(* The invariant always holds.                                             *)
LEMMA InvHolds == Spec => []Inv
BY InvInit, InvStep, PTL DEF Spec

(* The family of a call, in the terms of the invariant.                    *)
LEMMA FamilyIs ==
    ASSUME NEW r \in Runs
    PROVE  /\ AllPrepared(r) <=> Prepared(r)
           /\ Invoked(r) = {d \in Dispatches : Related(d[1], r) /\ Ran(d)}
BY DEF AllPrepared, Prepared, Family, Related, Invoked, Ran, Dispatches

(* The variables of a workflow and its calls keep their types: a           *)
(* checkpoint waits only for a step of a host (_workflow_result).          *)
THEOREM WorkflowTypes == Spec => []TypeOK
<1>1. Inv => TypeOK
  BY DEF Inv
<1> QED BY <1>1, InvHolds, PTL

(* However often a workflow is continued and whatever its steps charge or  *)
(* lose, prepared waves stay within max_cash_usd (router.py,               *)
(* accounted_cash + wave_maximum).                                         *)
THEOREM BudgetHolds == Spec => []BudgetRespected
<1>1. Inv => BudgetRespected
  <2> SUFFICES ASSUME Inv, NEW r \in Runs, AllPrepared(r)
               PROVE  SumFunctionOnSet(Charge, {d \in Invoked(r) : d[2] \notin Hosted}) <= Budget
    BY DEF BudgetRespected
  <2>1. {d \in Invoked(r) : d[2] \notin Hosted} = Bills(r)
    BY FamilyIs DEF Bills
  <2>2. SumFunctionOnSet(Charge, Bills(r)) <= Budget
    BY FamilyIs DEF Inv, Within
  <2> QED BY <2>1, <2>2
<1> QED BY <1>1, InvHolds, PTL

(* A call that returned left none of its decisions open                    *)
(* (cancel_uninvoked on every failing exit).                               *)
THEOREM NothingOpen == Spec => []NothingLeftOpen
<1>1. Inv => NothingLeftOpen
  BY DEF Inv, Opened, NothingLeftOpen
<1> QED BY <1>1, InvHolds, PTL

(* No write is invoked twice for one start, over every continuation and    *)
(* crash (record_external_outcome accepts one report for a decision); one  *)
(* whose selected route may read, when every wave is prepared.             *)
THEOREM WrittenOnce == Spec => []WriteOnce
<1>1. Inv => WriteOnce
  <2> SUFFICES ASSUME Inv, NEW r \in Runs, NEW w \in Writes, w \notin Mixed \/ AllPrepared(r)
               PROVE  Cardinality({d \in Invoked(r) : d[2] = w}) <= 1
    BY DEF WriteOnce
  <2> DEFINE D == {d \in Invoked(r) : d[2] = w}
  <2>1. \A d \in D : /\ d[1] \in Runs /\ d = <<d[1], w>> /\ Related(d[1], r) /\ Ran(<<d[1], w>>)
    BY FamilyIs DEF Dispatches
  <2>2. \A d, e \in D : Related(d[1], e[1]) /\ Related(e[1], d[1])
    BY <2>1 DEF Related
  <2>3. \A d, e \in D : d = e
    <3>1. \A d \in D : Kept(w, d[1])
      BY <2>1, FamilyIs DEF Kept, Prepared, Related
    <3> QED BY <2>1, <2>2, <3>1 DEF Inv, WroteOnce
  <2> HIDE DEF D
  <2>4. CASE D = {}
    BY <2>4, FS_EmptySet DEF D
  <2>5. CASE D # {}
    <3>1. PICK d \in D : TRUE
      BY <2>5
    <3>2. D = {d}
      BY <2>3, <3>1
    <3>3. Cardinality(D) = 1
      BY <3>2, FS_Singleton
    <3> QED BY <3>3 DEF D
  <2> QED BY <2>4, <2>5
<1> QED BY <1>1, InvHolds, PTL

(* The receipts of a successful workflow of prepared waves leave no        *)
(* invocation out, in this call or in those it continues.                  *)
THEOREM SuccessAccounted == Spec => []AccountedOnSuccess
<1>1. Inv => AccountedOnSuccess
  <2> SUFFICES ASSUME Inv, NEW r \in Runs, pc[r] = "success", AllPrepared(r)
               PROVE  Invoked(r) \subseteq receipts[r]
    BY DEF AccountedOnSuccess
  <2>1. ~Continued(r) /\ pc[r] \in Going /\ Prepared(r)
    BY FamilyIs DEF Continued, Going
  <2>2. \A d \in Dispatches : Related(d[1], r) /\ Ran(d) => d \in receipts[r]
    BY <2>1 DEF Inv, Covering
  <2> QED BY <2>2, FamilyIs
<1> QED BY <1>1, InvHolds, PTL
=============================================================================
