--------------------------- MODULE CandidateProofs ---------------------------
(***************************************************************************)
(* A route is qualified before it is used, and used only when an operator  *)
(* or an assessment's admission activated it, for every number of          *)
(* processes, versions and commands.                                       *)
(*                                                                         *)
(* Copies of the row are written back over rows that changed meanwhile, so *)
(* the invariant cannot be about the row alone: every copy in a process's  *)
(* hands is as good as the row it was read from, and what made it good is  *)
(* never taken back, because reports and activations only grow.            *)
(***************************************************************************)
EXTENDS CandidateLifecycle, TLAPS

(* What every stored row and every copy satisfies. *)
Sound(r, reps, acts) ==
  /\ r.status \in {"qualified", "active"} =>
       r.report # None /\ r.report.spec = r.spec /\ r.report \in reps /\ r.spec.reviewed
  /\ r.status = "active" => r.report \in acts

(* What every registered spec satisfies. *)
Usable(s) == \E r \in reports \cap activated : r.spec = s

(* What a process has in its hands where it stands. *)
Carries(p) ==
  /\ pc[p] \in {"smoke", "campaign", "reuse", "activate", "assess", "suspend"} => copy[p] # None
  /\ pc[p] \in {"claim", "package"} => target[p] # None
  /\ pc[p] = "activate" => copy[p].status = "qualified"
  /\ pc[p] = "assess" => copy[p].spec.reviewed
  /\ pc[p] \in {"assess", "drift", "suspend"} => row # None
  /\ pc[p] = "invoke" => registry[p] # None
  /\ registry[p] # None => row # None

Lifecycle ==
  /\ row # None => Sound(row, reports, activated)
  /\ \A p \in Processes : /\ copy[p] # None => Sound(copy[p], reports, activated)
                          /\ registry[p] # None => Usable(registry[p])
                          /\ Carries(p)

IInv == TypeOK /\ Lifecycle

USE CandidateAssumption DEF CandidateAssumption

(* The rows that the operations write. *)
LEMMA InertForm ==
  ASSUME NEW v \in Versions, NEW k \in BOOLEAN, NEW f \in BOOLEAN,
         NEW s \in {"candidate", "suspended"}
  PROVE  Inert(v, k, f, s) \in Rows /\ Inert(v, k, f, s).status = s
BY DEF Inert, Rows, Specs, Statuses

LEMMA CopyForms ==
  ASSUME NEW r \in Rows
  PROVE  /\ \A v \in Versions : /\ Drifted(r, v) \in Rows
                                /\ Drifted(r, v).status = "suspended"
         /\ Failed(r) \in Rows /\ Failed(r).status \in {"candidate", "suspended"}
         /\ \A s \in {"active", "suspended"} :
              LET c == [r EXCEPT !.status = s]
              IN  c \in Rows /\ c.status = s /\ c.spec = r.spec /\ c.report = r.report
<1>1. \A v \in Versions : Drifted(r, v) \in Rows /\ Drifted(r, v).status = "suspended"
  <2> SUFFICES ASSUME NEW v \in Versions
               PROVE  Drifted(r, v) \in Rows /\ Drifted(r, v).status = "suspended"
    OBVIOUS
  <2>1. r.spec \in Specs
    BY DEF Rows
  <2>2. [r.spec EXCEPT !.version = v] \in Specs
    BY <2>1 DEF Specs
  <2> QED
    BY <2>2 DEF Drifted, Rows, Statuses
<1>2. Failed(r) \in Rows /\ Failed(r).status \in {"candidate", "suspended"}
  BY DEF Failed, Rows, Statuses
<1>3. \A s \in {"active", "suspended"} :
        LET c == [r EXCEPT !.status = s]
        IN  c \in Rows /\ c.status = s /\ c.spec = r.spec /\ c.report = r.report
  BY DEF Rows, Statuses
<1> QED
  BY <1>1, <1>2, <1>3

LEMMA EarnedForm ==
  ASSUME NEW r \in Rows, r.spec.reviewed
  PROVE  LET c == [r EXCEPT !.status = "active", !.report = Earned(r.spec)]
         IN  /\ c \in Rows /\ c.status = "active" /\ c.spec = r.spec
             /\ c.report = Earned(r.spec)
             /\ Earned(r.spec) \in Reports /\ Earned(r.spec).spec = r.spec
<1>1. r.spec \in Specs
  BY DEF Rows
<1>2. Earned(r.spec) \in Reports /\ Earned(r.spec).spec = r.spec
  BY <1>1 DEF Earned, Reports
<1> QED
  BY <1>2 DEF Rows, Statuses

LEMMA QualifiedForm ==
  ASSUME NEW r \in Rows, NEW m \in {"campaign", "reuse"}
  PROVE  /\ Qualified(r, m) \in Rows
         /\ Qualified(r, m).status = "qualified"
         /\ Qualified(r, m).spec.reviewed
         /\ Qualified(r, m).report \in Reports
         /\ Qualified(r, m).report.spec = Qualified(r, m).spec
<1>1. r.spec \in Specs
  BY DEF Rows
<1>2. Reviewed(r.spec) \in Specs /\ Reviewed(r.spec).reviewed
  BY <1>1 DEF Specs, Reviewed
<1>3. [spec |-> Reviewed(r.spec), method |-> m] \in Reports
  BY <1>2 DEF Reports
<1> QED
  BY <1>2, <1>3 DEF Qualified, Rows, Statuses

(* Writing a sound row, while reports and activations grow, keeps the       *)
(* copies of the other processes sound.                                     *)
LEMMA SaveKeeps ==
  ASSUME IInv, NEW p \in Processes, NEW r \in Rows, Save(p, r),
         reports \subseteq reports', activated \subseteq activated',
         Sound(r, reports', activated'),
         \A q \in Processes \ {p} : registry'[q] = registry[q],
         registry'[p] # None => registry'[p] = registry[p] \/ Usable(registry[p])'
  PROVE  Lifecycle'
<1>1. row' # None => Sound(row', reports', activated')
  BY DEF Save
<1>2. ASSUME NEW q \in Processes, copy'[q] # None
      PROVE  Sound(copy'[q], reports', activated')
  BY <1>2 DEF Save, IInv, Lifecycle, TypeOK, Sound
<1>3. ASSUME NEW q \in Processes, registry'[q] # None
      PROVE  Usable(registry[q])'
  BY <1>3 DEF IInv, Lifecycle, Usable
<1>4. ASSUME NEW q \in Processes
      PROVE  Carries(q)'
  <2>1. CASE q = p
    BY <2>1 DEF Save, IInv, TypeOK, Carries
  <2>2. CASE q # p
    <3>1. row' # None /\ copy'[q] = copy[q] /\ pc'[q] = pc[q] /\ target'[q] = target[q]
      BY <2>2 DEF Save, IInv, TypeOK
    <3>2. registry'[q] = registry[q]
      BY <2>2
    <3> QED
      BY <3>1, <3>2 DEF IInv, Lifecycle, Carries
  <2> QED
    BY <2>1, <2>2
<1> QED
  BY <1>1, <1>2, <1>3, <1>4 DEF Lifecycle

LEMMA TypeStep ==
  ASSUME IInv, [Next]_vars
  PROVE  TypeOK'
<1> USE DEF IInv, TypeOK, Lifecycle, Carries, Rows, Specs, Reports, Smokes, Statuses, Labels
<1>1. CASE UNCHANGED vars
  BY <1>1 DEF vars, stored
<1>2. CASE RevokeKey
  BY <1>2 DEF RevokeKey
<1>3. ASSUME NEW p \in Processes, NEW v \in Versions, ClaimBegin(p, v)
       PROVE  TypeOK'
  BY <1>3 DEF ClaimBegin, Command, stored
<1>4. ASSUME NEW p \in Processes, NEW v \in Versions, PackageBegin(p, v)
       PROVE  TypeOK'
  BY <1>4 DEF PackageBegin, Command, stored
<1>5. ASSUME NEW p \in Processes, ClaimEnd(p)
       PROVE  TypeOK'
  <2>1. target[p] \in Versions
    BY <1>5 DEF ClaimEnd
  <2>2. row' \in Rows
    <3>1. copy[p] # None => copy[p] \in Rows
      OBVIOUS
    <3>2. copy[p] # None => Drifted(copy[p], target[p]) \in Rows
      BY <2>1, <3>1, CopyForms
    <3>3. Inert(target[p], FALSE, TRUE, "candidate") \in Rows
      BY <2>1, InertForm
    <3> HIDE DEF IInv, TypeOK, Lifecycle, Rows, Carries
    <3> QED
      BY <1>5, <3>2, <3>3 DEF ClaimEnd, Save
  <2>3. registry' \in [Processes -> Specs \cup {None}]
    BY <1>5 DEF ClaimEnd
  <2>4. \E r \in Rows : Save(p, r)
    BY <1>5, <2>2 DEF ClaimEnd, Save
  <2> HIDE DEF Rows, Specs
  <2> QED
    BY <1>5, <2>3, <2>4 DEF ClaimEnd, Save, stored
<1>6. ASSUME NEW p \in Processes, PackageEnd(p)
       PROVE  TypeOK'
  BY <1>6 DEF PackageEnd, Save, Inert, Published, stored
<1>7. ASSUME NEW p \in Processes, PackageRefused(p)
       PROVE  TypeOK'
  BY <1>7 DEF PackageRefused, Save, Return, stored
<1>8. ASSUME NEW p \in Processes, SmokeBegin(p)
       PROVE  TypeOK'
  BY <1>8 DEF SmokeBegin, Read, Command, Smokeable, stored
<1>9. ASSUME NEW p \in Processes, SmokeUnfit(p)
       PROVE  TypeOK'
  BY <1>9 DEF SmokeUnfit, Smokeable, stored
<1>10. ASSUME NEW p \in Processes, SmokeEnd(p)
       PROVE  TypeOK'
  <2>1. copy[p] \in Rows /\ copy[p].spec.version \in Versions
    BY <1>10 DEF SmokeEnd
  <2>2. row' \in Rows
    <3> HIDE DEF IInv, TypeOK, Lifecycle, Rows, Carries
    <3> QED
      BY <1>10, <2>1, CopyForms DEF SmokeEnd, Save
  <2>3. latest' \in Smokes
    BY <1>10, <2>1 DEF SmokeEnd
  <2> HIDE DEF Rows, Smokes
  <2> QED
    BY <1>10, <2>2, <2>3 DEF SmokeEnd, Save
<1>11. ASSUME NEW p \in Processes, CampaignBegin(p)
       PROVE  TypeOK'
  BY <1>11 DEF CampaignBegin, Read, Command, stored
<1>12. ASSUME NEW p \in Processes, CampaignEnd(p)
       PROVE  TypeOK'
  <2>1. copy[p] \in Rows
    BY <1>12 DEF CampaignEnd
  <2>2. CASE Qualify(p, "campaign")
    BY <2>1, <2>2, QualifiedForm DEF Qualify, Save
  <2>3. CASE Save(p, Failed(copy[p])) /\ UNCHANGED <<stored, registry, activated>>
    BY <2>1, <2>3, CopyForms DEF Save, stored
  <2> QED
    BY <1>12, <2>2, <2>3 DEF CampaignEnd
<1>13. ASSUME NEW p \in Processes, ReuseBegin(p)
       PROVE  TypeOK'
  BY <1>13 DEF ReuseBegin, Read, Command, Reusable, stored
<1>14. ASSUME NEW p \in Processes, ReuseEnd(p)
       PROVE  TypeOK'
  <2>1. copy[p] \in Rows
    BY <1>14 DEF ReuseEnd
  <2> QED
    BY <1>14, <2>1, QualifiedForm DEF ReuseEnd, Qualify, Save
<1>15. ASSUME NEW p \in Processes, ActivateBegin(p)
       PROVE  TypeOK'
  BY <1>15 DEF ActivateBegin, Read, Command, Activatable, Matches, stored
<1>16. ASSUME NEW p \in Processes, ActivateEnd(p)
       PROVE  TypeOK'
  <2>1. copy[p] \in Rows /\ copy[p].spec \in Specs
    BY <1>16 DEF ActivateEnd
  <2>3. copy[p].report \in Reports
    BY <1>16, <2>1 DEF ActivateEnd, Sound
  <2> HIDE DEF Rows, Specs
  <2>2. row' \in Rows
    BY <1>16, <2>1, CopyForms DEF ActivateEnd, Save
  <2> QED
    BY <1>16, <2>1, <2>2, <2>3 DEF ActivateEnd, Save, stored
<1>17. ASSUME NEW p \in Processes, SuspendBegin(p)
       PROVE  TypeOK'
  BY <1>17 DEF SuspendBegin, Read, Command, stored
<1>18. ASSUME NEW p \in Processes, SuspendDrifted(p)
       PROVE  TypeOK'
  BY <1>18 DEF SuspendDrifted, Read, stored
<1>19. ASSUME NEW p \in Processes, SuspendEnd(p)
       PROVE  TypeOK'
  BY <1>19 DEF SuspendEnd, Save, stored
<1>20. ASSUME NEW p \in Processes, CheckPasses(p)
       PROVE  TypeOK'
  BY <1>20 DEF CheckPasses, Current, stored
<1>21. ASSUME NEW p \in Processes, CheckFails(p)
       PROVE  TypeOK'
  BY <1>21 DEF CheckFails, Current, stored
<1>22. ASSUME NEW p \in Processes, Invoke(p)
       PROVE  TypeOK'
  BY <1>22 DEF Invoke, Current, stored
<1>23. ASSUME NEW p \in Processes, Raises(p)
       PROVE  TypeOK'
  BY <1>23 DEF Raises, Save, Return, stored
<1>24. ASSUME NEW p \in Processes, Restart(p)
       PROVE  TypeOK'
  BY <1>24 DEF Restart, Save, Matches, stored
<1>25. ASSUME NEW p \in Processes, AssessBegin(p)
       PROVE  TypeOK'
  BY <1>25 DEF AssessBegin, Read, Command, stored
<1>26. ASSUME NEW p \in Processes, AssessEnd(p)
       PROVE  TypeOK'
  <2>1. row \in Rows /\ row.spec \in Specs
    BY <1>26 DEF AssessEnd
  <2>2. Earned(row.spec) \in Reports
    BY <2>1 DEF Earned
  <2>3. row' \in Rows
    BY <1>26, <2>1, <2>2 DEF AssessEnd, Save
  <2>4. registry' \in [Processes -> Specs \cup {None}]
    BY <1>26, <2>1 DEF AssessEnd
  <2>5. reports' \subseteq Reports /\ activated' \subseteq Reports
    BY <1>26, <2>2 DEF AssessEnd
  <2> HIDE DEF Rows, Specs, Reports
  <2> QED
    BY <1>26, <2>3, <2>4, <2>5 DEF AssessEnd, Save
<1> QED
  BY <1>1, <1>2, <1>3, <1>4, <1>5, <1>6, <1>7, <1>8, <1>9, <1>10, <1>11, <1>12, <1>13, <1>14, <1>15, <1>16, <1>17, <1>18, <1>19, <1>20, <1>21, <1>22, <1>23, <1>24, <1>25, <1>26 DEF Next

LEMMA LifeStep ==
  ASSUME IInv, [Next]_vars
  PROVE  Lifecycle'
<1> USE DEF IInv, TypeOK, Lifecycle, Sound, Usable, Carries, Rows, Specs, Reports
<1>1. CASE UNCHANGED vars
  BY <1>1 DEF vars, stored
<1>2. CASE RevokeKey
  BY <1>2 DEF RevokeKey
<1>3. ASSUME NEW p \in Processes, NEW v \in Versions, ClaimBegin(p, v)
       PROVE  Lifecycle'
  BY <1>3 DEF ClaimBegin, Command, stored
<1>4. ASSUME NEW p \in Processes, NEW v \in Versions, PackageBegin(p, v)
       PROVE  Lifecycle'
  BY <1>4 DEF PackageBegin, Command, stored
<1>5. ASSUME NEW p \in Processes, ClaimEnd(p)
       PROVE  Lifecycle'
  <2>1. target[p] \in Versions
    BY <1>5 DEF ClaimEnd
  <2>2. CASE copy[p] = None
    <3> HIDE DEF IInv, TypeOK, Lifecycle, Sound, Usable, Carries, Rows, Specs, Reports
    <3>1. Inert(target[p], FALSE, TRUE, "candidate") \in Rows
      BY <2>1, InertForm
    <3>2. Sound(Inert(target[p], FALSE, TRUE, "candidate"), reports, activated)
      BY <2>1, InertForm DEF Sound
    <3>3. /\ Save(p, Inert(target[p], FALSE, TRUE, "candidate"))
          /\ UNCHANGED <<reports, activated, registry>>
      BY <1>5, <2>2 DEF ClaimEnd, stored
    <3> QED
      BY <3>1, <3>2, <3>3, SaveKeeps
  <2>3. CASE copy[p] # None
    <3>1. copy[p] \in Rows
      BY <2>3
    <3> HIDE DEF IInv, TypeOK, Lifecycle, Sound, Usable, Carries, Rows, Specs, Reports
    <3>2. Drifted(copy[p], target[p]) \in Rows
      BY <2>1, <3>1, CopyForms
    <3>3. Sound(Drifted(copy[p], target[p]), reports, activated)
      BY <2>1, <3>1, CopyForms DEF Sound
    <3>4. Save(p, Drifted(copy[p], target[p])) /\ UNCHANGED <<reports, activated>>
      BY <1>5, <2>3 DEF ClaimEnd, stored
    <3>5. registry' = [registry EXCEPT ![p] = None] /\ registry \in [Processes -> Specs \cup {None}]
      BY <1>5, <2>3 DEF ClaimEnd, IInv, TypeOK
    <3> QED
      BY <3>2, <3>3, <3>4, <3>5, SaveKeeps
  <2> QED
    BY <2>2, <2>3
<1>6. ASSUME NEW p \in Processes, PackageEnd(p)
       PROVE  Lifecycle'
  <2>1. target[p] \in Versions
    BY <1>6 DEF PackageEnd
  <2>2. PICK fit \in BOOLEAN, status \in {"candidate", "suspended"} :
             Save(p, Inert(target[p], TRUE, fit, status))
    BY <1>6 DEF PackageEnd
  <2> HIDE DEF IInv, TypeOK, Lifecycle, Sound, Usable, Carries, Rows, Specs, Reports
  <2>3. Inert(target[p], TRUE, fit, status) \in Rows
    BY <2>1, InertForm
  <2>4. Sound(Inert(target[p], TRUE, fit, status), reports, activated)
    BY <2>1, InertForm DEF Sound
  <2>5. UNCHANGED <<reports, activated, registry>>
    BY <1>6 DEF PackageEnd
  <2> QED
    BY <2>2, <2>3, <2>4, <2>5, SaveKeeps
<1>7. ASSUME NEW p \in Processes, PackageRefused(p)
       PROVE  Lifecycle'
  BY <1>7 DEF PackageRefused, Save, Return, stored
<1>8. ASSUME NEW p \in Processes, SmokeBegin(p)
       PROVE  Lifecycle'
  BY <1>8 DEF SmokeBegin, Read, Command, Smokeable, stored
<1>9. ASSUME NEW p \in Processes, SmokeUnfit(p)
       PROVE  Lifecycle'
  BY <1>9 DEF SmokeUnfit, Smokeable, stored
<1>10. ASSUME NEW p \in Processes, SmokeEnd(p)
       PROVE  Lifecycle'
  <2>1. copy[p] \in Rows
    BY <1>10 DEF SmokeEnd
  <2>2. Sound(copy[p], reports, activated)
    BY <2>1
  <2> HIDE DEF IInv, TypeOK, Lifecycle, Sound, Usable, Carries, Rows, Specs, Reports
  <2>3. Sound([copy[p] EXCEPT !.status = "suspended"], reports, activated)
    BY <2>1, CopyForms DEF Sound
  <2>4. [copy[p] EXCEPT !.status = "suspended"] \in Rows
    BY <2>1, CopyForms
  <2>5. /\ Save(p, copy[p]) \/ Save(p, [copy[p] EXCEPT !.status = "suspended"])
        /\ UNCHANGED <<reports, activated, registry>>
    BY <1>10 DEF SmokeEnd
  <2> QED
    BY <2>1, <2>2, <2>3, <2>4, <2>5, SaveKeeps
<1>11. ASSUME NEW p \in Processes, CampaignBegin(p)
       PROVE  Lifecycle'
  BY <1>11 DEF CampaignBegin, Read, Command, stored
<1>12. ASSUME NEW p \in Processes, CampaignEnd(p)
       PROVE  Lifecycle'
  <2>1. copy[p] \in Rows
    BY <1>12 DEF CampaignEnd
  <2>2. ASSUME NEW m \in {"campaign", "reuse"}, Qualify(p, m)
        PROVE  Lifecycle'
    <3>1. Save(p, Qualified(copy[p], m)) /\ UNCHANGED <<registry, activated>>
      BY <2>2 DEF Qualify
    <3>2. Qualified(copy[p], m).report \in reports' /\ reports \subseteq reports'
      BY <2>2 DEF Qualify
    <3> HIDE DEF IInv, TypeOK, Lifecycle, Sound, Usable, Carries, Rows, Specs, Reports
    <3>3. Qualified(copy[p], m).report # None
      BY <2>1, QualifiedForm
    <3>4. Sound(Qualified(copy[p], m), reports', activated')
      BY <2>1, <3>2, <3>3, QualifiedForm DEF Sound
    <3> QED
      BY <2>1, <3>1, <3>2, <3>4, SaveKeeps, QualifiedForm
  <2>3. CASE Save(p, Failed(copy[p])) /\ UNCHANGED <<stored, registry, activated>>
    <3> HIDE DEF IInv, TypeOK, Lifecycle, Sound, Usable, Carries, Rows, Specs, Reports
    <3>1. Failed(copy[p]) \in Rows /\ Sound(Failed(copy[p]), reports, activated)
      BY <2>1, CopyForms DEF Sound
    <3> QED
      BY <2>3, <3>1, SaveKeeps DEF stored
  <2> QED
    BY <1>12, <2>2, <2>3 DEF CampaignEnd
<1>13. ASSUME NEW p \in Processes, ReuseBegin(p)
       PROVE  Lifecycle'
  BY <1>13 DEF ReuseBegin, Read, Command, Reusable, stored
<1>14. ASSUME NEW p \in Processes, ReuseEnd(p)
       PROVE  Lifecycle'
  <2>1. copy[p] \in Rows
    BY <1>14 DEF ReuseEnd
  <2>2. ASSUME NEW m \in {"campaign", "reuse"}, Qualify(p, m)
        PROVE  Lifecycle'
    <3>1. Save(p, Qualified(copy[p], m)) /\ UNCHANGED <<registry, activated>>
      BY <2>2 DEF Qualify
    <3>2. Qualified(copy[p], m).report \in reports' /\ reports \subseteq reports'
      BY <2>2 DEF Qualify
    <3> HIDE DEF IInv, TypeOK, Lifecycle, Sound, Usable, Carries, Rows, Specs, Reports
    <3>3. Qualified(copy[p], m).report # None
      BY <2>1, QualifiedForm
    <3>4. Sound(Qualified(copy[p], m), reports', activated')
      BY <2>1, <3>2, <3>3, QualifiedForm DEF Sound
    <3> QED
      BY <2>1, <3>1, <3>2, <3>4, SaveKeeps, QualifiedForm
  <2> QED
    BY <1>14, <2>2 DEF ReuseEnd
<1>15. ASSUME NEW p \in Processes, ActivateBegin(p)
       PROVE  Lifecycle'
  BY <1>15 DEF ActivateBegin, Read, Command, Activatable, Matches, stored
<1>16. ASSUME NEW p \in Processes, ActivateEnd(p)
       PROVE  Lifecycle'
  <2>1. copy[p] \in Rows /\ copy[p].status = "qualified"
    BY <1>16 DEF ActivateEnd
  <2>2. copy[p].report \in activated' /\ copy[p].report \in reports'
    BY <1>16, <2>1 DEF ActivateEnd, stored
  <2>3. copy[p].report # None /\ copy[p].report.spec = copy[p].spec /\ copy[p].spec.reviewed
    BY <2>1
  <2>4. registry'[p] = copy[p].spec
    BY <1>16 DEF ActivateEnd
  <2> HIDE DEF IInv, TypeOK, Lifecycle, Sound, Usable, Carries, Rows, Specs, Reports
  <2>5. [copy[p] EXCEPT !.status = "active"] \in Rows
    BY <2>1, CopyForms
  <2>6. /\ Save(p, [copy[p] EXCEPT !.status = "active"])
        /\ reports' = reports /\ activated \subseteq activated'
    BY <1>16 DEF ActivateEnd, stored
  <2>7. \A q \in Processes \ {p} : registry'[q] = registry[q]
    BY <1>16 DEF ActivateEnd, IInv, TypeOK
  <2>8. Sound([copy[p] EXCEPT !.status = "active"], reports', activated')
    BY <2>1, <2>2, <2>3, CopyForms DEF Sound
  <2>9. Usable(registry[p])'
    BY <2>2, <2>3, <2>4 DEF Usable
  <2> QED
    BY <2>5, <2>6, <2>7, <2>8, <2>9, SaveKeeps
<1>17. ASSUME NEW p \in Processes, SuspendBegin(p)
       PROVE  Lifecycle'
  BY <1>17 DEF SuspendBegin, Read, Command, stored
<1>18. ASSUME NEW p \in Processes, SuspendDrifted(p)
       PROVE  Lifecycle'
  BY <1>18 DEF SuspendDrifted, Read, stored
<1>19. ASSUME NEW p \in Processes, SuspendEnd(p)
       PROVE  Lifecycle'
  <2>1. copy[p] \in Rows
    BY <1>19 DEF SuspendEnd
  <2> HIDE DEF IInv, TypeOK, Lifecycle, Sound, Usable, Carries, Rows, Specs, Reports
  <2>2. [copy[p] EXCEPT !.status = "suspended"] \in Rows
    BY <2>1, CopyForms
  <2>3. Sound([copy[p] EXCEPT !.status = "suspended"], reports, activated)
    BY <2>1, CopyForms DEF Sound
  <2>4. /\ Save(p, [copy[p] EXCEPT !.status = "suspended"])
        /\ UNCHANGED <<reports, activated>>
    BY <1>19 DEF SuspendEnd, stored
  <2>5. registry'[p] = None /\ \A q \in Processes \ {p} : registry'[q] = registry[q]
    BY <1>19 DEF SuspendEnd, IInv, TypeOK
  <2> QED
    BY <2>2, <2>3, <2>4, <2>5, SaveKeeps
<1>20. ASSUME NEW p \in Processes, CheckPasses(p)
       PROVE  Lifecycle'
  BY <1>20 DEF CheckPasses, Current, stored
<1>21. ASSUME NEW p \in Processes, CheckFails(p)
       PROVE  Lifecycle'
  BY <1>21 DEF CheckFails, Current, stored
<1>22. ASSUME NEW p \in Processes, Invoke(p)
       PROVE  Lifecycle'
  BY <1>22 DEF Invoke, Current, stored
<1>23. ASSUME NEW p \in Processes, Raises(p)
       PROVE  Lifecycle'
  BY <1>23 DEF Raises, Save, Return, stored
<1>24. ASSUME NEW p \in Processes, Restart(p)
       PROVE  Lifecycle'
  <2>1. CASE row = None
    BY <1>24, <2>1 DEF Restart, Save, stored
  <2>2. CASE row # None /\ row.status = "active"
    <3>1. Matches(row) /\ registry' = [registry EXCEPT ![p] = row.spec] /\ Save(p, row)
      BY <1>24, <2>2 DEF Restart, Matches
    <3>2. row.report \in reports /\ row.report.spec = row.spec /\ row.report \in activated
      BY <2>2
    <3> QED
      BY <1>24, <2>2, <3>1, <3>2, SaveKeeps DEF Restart, stored
  <2>3. CASE row # None /\ row.status # "active"
    BY <1>24, <2>3, SaveKeeps DEF Restart, stored
  <2> QED
    BY <2>1, <2>2, <2>3
<1>25. ASSUME NEW p \in Processes, AssessBegin(p)
       PROVE  Lifecycle'
  BY <1>25 DEF AssessBegin, Read, Command, stored
<1>26. ASSUME NEW p \in Processes, AssessEnd(p)
       PROVE  Lifecycle'
  <2> DEFINE c == [row EXCEPT !.status = "active", !.report = Earned(row.spec)]
  <2>1. row \in Rows /\ row # None
    BY <1>26 DEF AssessEnd
  <2>2. row.spec.reviewed
    BY <1>26 DEF AssessEnd
  <2>3. /\ Save(p, c) /\ registry' = [registry EXCEPT ![p] = row.spec]
        /\ reports' = reports \cup {Earned(row.spec)}
        /\ activated' = activated \cup {Earned(row.spec)}
    BY <1>26 DEF AssessEnd
  <2> HIDE DEF c, IInv, TypeOK, Lifecycle, Sound, Usable, Carries, Rows, Specs, Reports
  <2>4. /\ c \in Rows /\ c.status = "active" /\ c.spec = row.spec
        /\ c.report = Earned(row.spec)
        /\ Earned(row.spec) \in Reports /\ Earned(row.spec).spec = row.spec
    BY <2>1, <2>2, EarnedForm DEF c
  <2>5. Earned(row.spec) # None
    BY <2>4
  <2>6. Sound(c, reports', activated')
    BY <2>2, <2>3, <2>4, <2>5 DEF Sound
  <2>7. registry'[p] = row.spec /\ \A q \in Processes \ {p} : registry'[q] = registry[q]
    BY <2>3 DEF IInv, TypeOK
  <2>8. Usable(registry[p])'
    BY <2>3, <2>4, <2>7 DEF Usable
  <2> QED
    BY <2>3, <2>4, <2>6, <2>7, <2>8, SaveKeeps
<1> QED
  BY <1>1, <1>2, <1>3, <1>4, <1>5, <1>6, <1>7, <1>8, <1>9, <1>10, <1>11, <1>12, <1>13, <1>14, <1>15, <1>16, <1>17, <1>18, <1>19, <1>20, <1>21, <1>22, <1>23, <1>24, <1>25, <1>26 DEF Next

LEMMA Inductive == Spec => []IInv
<1>1. Init => TypeOK
  <2> SUFFICES ASSUME Init PROVE TypeOK
    OBVIOUS
  <2>1. commands \in 0 .. MaxCommands
    BY DEF Init
  <2>2. pc \in [Processes -> Labels]
    BY DEF Init, Labels
  <2> QED
    BY <2>1, <2>2 DEF Init, TypeOK
<1>2. Init => Lifecycle
  BY DEF Init, Lifecycle, Carries
<1>3. IInv /\ [Next]_vars => IInv'
  BY TypeStep, LifeStep DEF IInv
<1> QED
  BY <1>1, <1>2, <1>3, PTL DEF Spec, IInv

(* The type invariant of CandidateLifecycle holds of every behaviour.       *)
THEOREM CandidateTypes == Spec => []TypeOK
BY Inductive, PTL DEF IInv

(* However operations on stale copies overlap, a row that can be activated  *)
(* or run refers to a passed report of exactly its spec, and a process has  *)
(* registered only specs that passed (activate_candidate, Router.__init__). *)
THEOREM QualificationFirst == Spec => []QualifiedBeforeUse
<1>1. IInv => QualifiedBeforeUse
  BY DEF IInv, Lifecycle, Sound, Usable, QualifiedBeforeUse, Matches
<1> QED
  BY <1>1, Inductive, PTL

(* An active row carries the report on which activate_candidate or an       *)
(* assessment's admission activated it, and only a spec activated so runs:  *)
(* no import, qualification, lost update or restart activates.              *)
THEOREM ActivationFirst == Spec => []ActivatedBeforeUse
<1>1. IInv => ActivatedBeforeUse
  BY DEF IInv, Lifecycle, Sound, Usable, Carries, ActivatedBeforeUse
<1> QED
  BY <1>1, Inductive, PTL
=============================================================================
