------------------------- MODULE CandidateLifecycle -------------------------
(***************************************************************************)
(* The lifecycle of one imported route: a claim of a discovered provider   *)
(* or a signed provider package becomes an inert candidate, is smoked,     *)
(* qualified by a campaign or from portable evidence, activated by an      *)
(* operator or by the admission of an assessment, executed, and suspended  *)
(* on drift (router.py, provider_ingest.py, qualification.py,              *)
(* assessment/service.py and the candidate tables of store.py).            *)
(*                                                                         *)
(* Every operation reads the candidate row, works on the copy, often for   *)
(* minutes and over awaits, and writes the whole copy back: the store      *)
(* compares nothing, and the activation lock is one process's own.  Only   *)
(* an assessment's admission reads and writes the row in one transaction.  *)
(*                                                                         *)
(* A version stands for what a source declares of the route.  A spec is a  *)
(* version with inert (FINANCIAL, not idempotent) or reviewed safety       *)
(* properties: the two are what behavior_fingerprint tells apart, so the   *)
(* fingerprint column, always that of the row's spec, is left out.         *)
(***************************************************************************)
EXTENDS Naturals

CONSTANTS Processes,   \* routers over one store: commands and servers
          Versions,    \* what the source may declare of the route
          Trusted,     \* versions shipped with independent correctness evidence
          RequireSmoke, \* provider_packages.require_local_smoke
          None,
          MaxCommands  \* bound on the commands operators give

VARIABLES
  row,        \* route_candidates, with the fields of its verification snapshot
  reports,    \* qualification_reports that passed
  packages,   \* provider_packages
  accepted,   \* versions with an ACCEPTED correctness row in evidence_acceptances
  latest,     \* latest_smoke_test_report
  revoked,    \* the publisher's key is revoked in the trust store
  registry,   \* a process's in-memory registry: the enabled spec of the route
  pc, copy,   \* what a process does, and the row as it read it
  target,     \* the version a process ingests
  activated,  \* history: reports on which the route was activated
  commands    \* commands given so far

vars == <<row, reports, packages, accepted, latest, revoked, registry,
          pc, copy, target, activated, commands>>

stored == <<reports, packages, accepted, latest, revoked>>

Specs    == [version : Versions, reviewed : BOOLEAN]
Reviewed(s) == [s EXCEPT !.reviewed = TRUE]
Statuses == {"candidate", "qualified", "active", "suspended"}
Reports  == [spec : Specs, method : {"campaign", "reuse", "assessment"}]
Smokes   == [version : Versions, passed : BOOLEAN]
Rows     == [status : Statuses, spec : Specs, report : Reports \cup {None},
             packaged : BOOLEAN, fit : BOOLEAN]
Labels   == {"idle", "claim", "package", "smoke", "campaign", "reuse", "activate",
             "assess", "drift", "suspend", "invoke"}

(* None stands for no row, no report, no smoke, no spec and no version. *)
ASSUME CandidateAssumption ==
  /\ Trusted \subseteq Versions
  /\ RequireSmoke \in BOOLEAN
  /\ None \notin Versions /\ None \notin Specs /\ None \notin Reports
  /\ None \notin Smokes /\ None \notin Rows
  /\ MaxCommands \in Nat

TypeOK ==
  /\ row \in Rows \cup {None}
  /\ reports \subseteq Reports
  /\ packages \subseteq Versions
  /\ accepted \subseteq packages
  /\ latest \in Smokes \cup {None}
  /\ revoked \in BOOLEAN
  /\ registry \in [Processes -> Specs \cup {None}]
  /\ pc \in [Processes -> Labels]
  /\ copy \in [Processes -> Rows \cup {None}]
  /\ target \in [Processes -> Versions \cup {None}]
  /\ activated \subseteq Reports
  /\ commands \in 0 .. MaxCommands

Init ==
  /\ row = None
  /\ reports = {} /\ packages = {} /\ accepted = {}
  /\ latest = None
  /\ revoked = FALSE
  /\ registry = [p \in Processes |-> None]
  /\ pc = [p \in Processes |-> "idle"]
  /\ copy = [p \in Processes |-> None]
  /\ target = [p \in Processes |-> None]
  /\ activated = {}
  /\ commands = 0

Inert(v, packaged, fit, status) ==
  [status |-> status, spec |-> [version |-> v, reviewed |-> FALSE], report |-> None,
   packaged |-> packaged, fit |-> fit]

(* An idle process is given a command; l is where that leads. *)
Command(p, l) ==
  /\ pc[p] = "idle"
  /\ commands < MaxCommands
  /\ commands' = commands + 1
  /\ pc' = [pc EXCEPT ![p] = l]

(* A command that begins with reading the row. *)
Read(p, l) ==
  /\ Command(p, l)
  /\ row # None
  /\ copy' = [copy EXCEPT ![p] = row]
  /\ UNCHANGED <<row, stored, registry, target, activated>>

(* save_route_candidate: the whole row, whatever it has become since. *)
Save(p, r) ==
  /\ row' = r
  /\ pc' = [pc EXCEPT ![p] = "idle"]
  /\ copy' = [copy EXCEPT ![p] = None]
  /\ target' = [target EXCEPT ![p] = None]
  /\ UNCHANGED commands

(* The operation raises and writes nothing. *)
Return(p) == Save(p, row) /\ UNCHANGED <<stored, registry, activated>>

(* Mutant: a claim that drifted keeps its status. *)
DriftedKept(r, v) == [r EXCEPT !.spec.version = v]

(* An existing candidate whose claim changed: a new spec under the reviewed *)
(* safety properties, suspended, without its qualification.                 *)
Drifted(r, v) == [r EXCEPT !.spec.version = v, !.status = "suspended", !.report = None]

(* ingest_candidate.  A claim with the fingerprint of the row returns it. *)
ClaimBegin(p, v) ==
  /\ Command(p, "claim")
  /\ row # None => ~row.packaged /\ row.spec.version # v
  /\ copy' = [copy EXCEPT ![p] = row]
  /\ target' = [target EXCEPT ![p] = v]
  /\ UNCHANGED <<row, stored, registry, activated>>

ClaimEnd(p) ==
  /\ pc[p] = "claim"
  /\ \/ /\ copy[p] = None
        /\ Save(p, Inert(target[p], FALSE, TRUE, "candidate"))
        /\ UNCHANGED registry
     \/ /\ copy[p] # None
        /\ Save(p, Drifted(copy[p], target[p]))
        /\ registry' = [registry EXCEPT ![p] = None]
  /\ UNCHANGED <<stored, activated>>

(* ProviderPackageIngestor.ingest up to its transaction: signature, source, *)
(* artifacts.                                                               *)
PackageBegin(p, v) ==
  /\ Command(p, "package")
  /\ ~revoked
  /\ row # None => row.packaged
  /\ target' = [target EXCEPT ![p] = v]
  /\ UNCHANGED <<row, copy, stored, registry, activated>>

(* Mutant: the evidence of a package is stored, the package is not. *)
PublishedNot(v) == packages

Published(v) == packages \cup {v}

(* save_provider_package_ingest.  Snapshot and acceptance ids are digests of *)
(* the package while their content holds the time, so a package that is      *)
(* already there conflicts and the transaction is refused.  A missing        *)
(* optional artifact blocks the snapshot, a required one or a mismatched     *)
(* fingerprint also suspends.                                                *)
PackageEnd(p) ==
  /\ pc[p] = "package"
  /\ target[p] \notin packages
  /\ packages' = Published(target[p])
  /\ \E fit \in BOOLEAN, status \in {"candidate", "suspended"} :
       /\ fit => status = "candidate"
       /\ \/ accepted' = accepted \cup (Trusted \cap {target[p]})
          \/ ~fit /\ accepted' = accepted
       /\ Save(p, Inert(target[p], TRUE, fit, status))
  /\ UNCHANGED <<reports, latest, revoked, registry, activated>>

PackageRefused(p) == pc[p] = "package" /\ target[p] \in packages /\ Return(p)

(* What smoke_candidate demands of the row and its snapshot. *)
Smokeable(r) == r.packaged /\ r.status \in {"candidate", "suspended"} /\ r.fit

SmokeBegin(p) == Read(p, "smoke") /\ Smokeable(row)

(* The installed executable is not the declared one. *)
SmokeUnfit(p) ==
  /\ pc[p] = "idle" /\ row # None /\ Smokeable(row)
  /\ pc' = [pc EXCEPT ![p] = "drift"]
  /\ UNCHANGED <<row, stored, registry, copy, target, activated, commands>>

(* save_smoke_candidate_result: reports, snapshot and the copied candidate. *)
SmokeEnd(p) ==
  /\ pc[p] = "smoke"
  /\ \E passed \in BOOLEAN :
       /\ latest' = [version |-> copy[p].spec.version, passed |-> passed]
       /\ Save(p, IF passed THEN copy[p] ELSE [copy[p] EXCEPT !.status = "suspended"])
  /\ UNCHANGED <<reports, packages, accepted, revoked, registry, activated>>

CampaignBegin(p) ==
  Read(p, "campaign") /\ row.status # "active"

(* Mutant: a suspended route that passes again is active again. *)
QualifiedLive(r, method) ==
  [r EXCEPT !.spec = Reviewed(r.spec),
            !.status = IF r.status = "suspended" THEN "active" ELSE "qualified",
            !.report = [spec |-> Reviewed(r.spec), method |-> method]]

Qualified(r, method) ==
  [r EXCEPT !.spec = Reviewed(r.spec), !.status = "qualified",
            !.report = [spec |-> Reviewed(r.spec), method |-> method]]

(* The report is stored, then the copy with a reference to it. *)
Qualify(p, method) ==
  /\ Save(p, Qualified(copy[p], method))
  /\ reports' = reports \cup {Qualified(copy[p], method).report}
  /\ UNCHANGED <<packages, accepted, latest, revoked, registry, activated>>

Failed(r) == [r EXCEPT !.status = IF r.status = "candidate" THEN "candidate" ELSE "suspended",
                       !.report = None]

CampaignEnd(p) ==
  /\ pc[p] = "campaign"
  /\ \/ Qualify(p, "campaign")
     \/ Save(p, Failed(copy[p])) /\ UNCHANGED <<stored, registry, activated>>

(* What qualify_candidate_from_evidence demands.  The acceptances are those *)
(* of the executor id: of any version of the route.                         *)
Reusable(r) ==
  /\ r.packaged /\ r.status # "active" /\ r.fit
  /\ latest # None /\ latest.passed /\ latest.version = r.spec.version
  /\ accepted # {}

ReuseBegin(p) == Read(p, "reuse") /\ Reusable(row)
ReuseEnd(p)   == pc[p] = "reuse" /\ Qualify(p, "reuse")

Matches(r) == r.report # None /\ r.report.spec = r.spec /\ r.report \in reports

(* What activate_candidate demands; the latest smoke may be of any version. *)
Activatable(r) ==
  /\ r.status = "qualified"
  /\ Matches(r)
  /\ r.packaged => /\ ~revoked /\ r.fit
                   /\ RequireSmoke => latest # None /\ latest.passed
                   /\ r.report.method = "reuse" => accepted # {}

ActivateBegin(p) == Read(p, "activate") /\ Activatable(row)

ActivateEnd(p) ==
  /\ pc[p] = "activate"
  /\ Save(p, [copy[p] EXCEPT !.status = "active"])
  /\ registry' = [registry EXCEPT ![p] = copy[p].spec]
  /\ activated' = activated \cup {copy[p].report}
  /\ UNCHANGED stored

(* An assessment is planned for the candidate's spec, whatever the status   *)
(* of its row; its campaign refuses a spec that is not read-only and        *)
(* idempotent.                                                              *)
AssessBegin(p) == Read(p, "assess") /\ row.spec.reviewed

Earned(s) == [spec |-> s, method |-> "assessment"]

(* AssessmentService.admit, of a useful report: in one transaction the      *)
(* current row, if it still has the planned spec, becomes active on a new   *)
(* qualification report.  Neither smoke nor package trust is asked for.     *)
AssessEnd(p) ==
  /\ pc[p] = "assess"
  /\ row.spec = copy[p].spec
  /\ Save(p, [row EXCEPT !.status = "active", !.report = Earned(row.spec)])
  /\ reports' = reports \cup {Earned(row.spec)}
  /\ activated' = activated \cup {Earned(row.spec)}
  /\ registry' = [registry EXCEPT ![p] = row.spec]
  /\ UNCHANGED <<packages, accepted, latest, revoked>>

(* suspend_candidate, by an operator or from a check that found drift. *)
SuspendBegin(p) == Read(p, "suspend")

SuspendDrifted(p) ==
  /\ pc[p] = "drift"
  /\ copy' = [copy EXCEPT ![p] = row]
  /\ pc' = [pc EXCEPT ![p] = "suspend"]
  /\ UNCHANGED <<row, stored, registry, target, activated, commands>>

SuspendEnd(p) ==
  /\ pc[p] = "suspend"
  /\ Save(p, [copy[p] EXCEPT !.status = "suspended"])
  /\ registry' = [registry EXCEPT ![p] = None]
  /\ UNCHANGED <<stored, activated>>

(* _require_active_spec for the spec that the process has registered; the  *)
(* scope of an assessment's admission may refuse a call besides.            *)
Current(p) ==
  row.status = "active" /\ row.spec = registry[p] /\ (row.packaged => ~revoked)

CheckPasses(p) ==
  /\ pc[p] = "idle" /\ registry[p] # None /\ Current(p)
  /\ pc' = [pc EXCEPT ![p] = "invoke"]
  /\ UNCHANGED <<row, stored, registry, copy, target, activated, commands>>

(* Fingerprint drift, a revoked publisher, another executable: an active row *)
(* is suspended; a row that is not active is only refused.                   *)
CheckFails(p) ==
  /\ pc[p] = "idle" /\ registry[p] # None
  /\ row.status = "active" /\ (~Current(p) \/ row.packaged)
  /\ pc' = [pc EXCEPT ![p] = "drift"]
  /\ UNCHANGED <<row, stored, registry, copy, target, activated, commands>>

(* The executor runs; MCP schema drift in its answer suspends the route. *)
Invoke(p) ==
  /\ pc[p] = "invoke"
  /\ \E l \in {"idle", "drift"} : pc' = [pc EXCEPT ![p] = l]
  /\ UNCHANGED <<row, stored, registry, copy, target, activated, commands>>

(* An exception ends a smoke or a campaign without a write; an assessment   *)
(* is not useful, or the candidate drifted before its admission.            *)
Raises(p) == pc[p] \in {"smoke", "campaign", "assess"} /\ Return(p)

(* A process dies, or ends, and another router starts on the store. *)
Restart(p) ==
  LET kept == row # None /\ row.status = "active" /\ Matches(row)
  IN /\ registry' = [registry EXCEPT ![p] = IF kept THEN row.spec ELSE None]
     /\ Save(p, IF row # None /\ row.status = "active" /\ ~kept
                THEN [row EXCEPT !.status = "suspended"] ELSE row)
     /\ UNCHANGED <<stored, activated>>

(* An operator revokes the publisher's key. *)
RevokeKey ==
  /\ ~revoked
  /\ revoked' = TRUE
  /\ UNCHANGED <<row, reports, packages, accepted, latest, registry, pc, copy,
                 target, activated, commands>>

Next ==
  \/ RevokeKey
  \/ \E p \in Processes :
       \/ \E v \in Versions : ClaimBegin(p, v) \/ PackageBegin(p, v)
       \/ ClaimEnd(p) \/ PackageEnd(p) \/ PackageRefused(p)
       \/ SmokeBegin(p) \/ SmokeUnfit(p) \/ SmokeEnd(p)
       \/ CampaignBegin(p) \/ CampaignEnd(p)
       \/ ReuseBegin(p) \/ ReuseEnd(p)
       \/ ActivateBegin(p) \/ ActivateEnd(p)
       \/ AssessBegin(p) \/ AssessEnd(p)
       \/ SuspendBegin(p) \/ SuspendDrifted(p) \/ SuspendEnd(p)
       \/ CheckPasses(p) \/ CheckFails(p) \/ Invoke(p)
       \/ Raises(p) \/ Restart(p)

Spec == Init /\ [][Next]_vars

(* Whatever copy is written over whatever row: a row that can be activated  *)
(* or run refers to a stored report of exactly its spec, and what a process *)
(* has registered or has run passed a qualification as that spec            *)
(* (require_candidate_qualification, Router.__init__).                      *)
QualifiedBeforeUse ==
  /\ row # None /\ row.status \in {"qualified", "active"} => Matches(row) /\ row.spec.reviewed
  /\ \A p \in Processes : registry[p] # None => \E r \in reports : r.spec = registry[p]

(* An active row carries the very report on which it was activated, by an   *)
(* operator (activate_candidate) or by an assessment's admission            *)
(* (AssessmentService.admit, activate_qualified_state), and a spec runs     *)
(* only if it was activated so: no import, qualification, lost update or    *)
(* restart activates.                                                       *)
ActivatedBeforeUse ==
  /\ row # None /\ row.status = "active" => row.report \in activated
  /\ \A p \in Processes : pc[p] = "invoke" => \E r \in activated : r.spec = registry[p]

(* The evidence that qualifies a route is about the route's own version     *)
(* (docs/EVIDENCE_REUSE.md 22: exact fingerprint).                          *)
EvidenceIsExact ==
  \A r \in reports : r.method = "reuse" => r.spec.version \in accepted
=============================================================================
