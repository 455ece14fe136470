--------------------------- MODULE PreparedProofs ---------------------------
(***************************************************************************)
(* The proofs about PreparedExecution: type correctness and the control    *)
(* flow of the processes, then the invariant of PreparedInvariant part by  *)
(* part, each lemma taking the parts it needs in the state before the      *)
(* step, and the safety properties that follow from it.                    *)
(***************************************************************************)
EXTENDS PreparedInvariant, TLAPS

(* Every step keeps the types, part by part.                               *)
LEMMA TypeStep ==
    ASSUME TypeOK, Control, Next
    PROVE  TypeOK'
<1> USE DEF TypeOK, decisionVars, paymentVars, evidenceVars, keyVars, attemptVars, railVars,
          localVars, historyVars, Goto, Stay, Leave, Enter, MoveTo
<1>1. ASSUME NEW c \in Calls, NEW p \in Prepared, Start(c, p) PROVE TypeOK'
  <2>1. LocalTypes'
    BY <1>1 DEF Start, LocalTypes, Labels, PreparedStates, Intents, Releases, Evidence, Procs
  <2>2. /\ DecisionTypes' /\ PaymentTypes' /\ EvidenceTypes' /\ KeyTypes'
        /\ AttemptTypes' /\ RailTypes' /\ HistoryTypes'
    BY <1>1 DEF Start, DecisionTypes, PaymentTypes, EvidenceTypes, KeyTypes, AttemptTypes,
           RailTypes, HistoryTypes
  <2> QED
    BY <2>1, <2>2
<1>2. ASSUME NEW c \in Calls, CreateAttempt(c) PROVE TypeOK'
  <2>1. AttemptTypes'
    BY <1>2 DEF CreateAttempt, AttemptTo, AttemptTypes, AttemptStates, LocalTypes
  <2>2. LocalTypes'
    BY <1>2 DEF CreateAttempt, LocalTypes, Labels, PreparedStates, Intents, Releases,
           Evidence, Procs
  <2>3. DecisionTypes' /\ PaymentTypes' /\ EvidenceTypes' /\ KeyTypes' /\ RailTypes' /\ HistoryTypes'
    BY <1>2 DEF CreateAttempt, DecisionTypes, PaymentTypes, EvidenceTypes, KeyTypes,
           RailTypes, HistoryTypes
  <2> QED
    BY <2>1, <2>2, <2>3
<1>3. ASSUME NEW c \in Calls, Claim(c) PROVE TypeOK'
  <2>1. DecisionTypes'
    BY <1>3 DEF Claim, DecisionTypes, PreparedStates, LocalTypes
  <2>2. KeyTypes'
    BY <1>3 DEF Claim, KeyTypes, OperationStates, Control, PayLabels, Procs, LocalTypes
  <2>3. LocalTypes'
    BY <1>3 DEF Claim, LocalTypes, Labels, PreparedStates, Intents, Releases, Evidence, Procs
  <2>4. PaymentTypes' /\ EvidenceTypes' /\ AttemptTypes' /\ RailTypes' /\ HistoryTypes'
    BY <1>3 DEF Claim, PaymentTypes, EvidenceTypes, AttemptTypes, RailTypes, HistoryTypes
  <2> QED
    BY <2>1, <2>2, <2>3, <2>4
<1>4. ASSUME NEW c \in Calls, ClaimRefused(c) PROVE TypeOK'
  <2>1. LocalTypes'
    BY <1>4 DEF ClaimRefused, LocalTypes, Labels, PreparedStates, Intents, Releases, Evidence,
           Procs
  <2>2. /\ DecisionTypes' /\ PaymentTypes' /\ EvidenceTypes' /\ KeyTypes'
        /\ AttemptTypes' /\ RailTypes' /\ HistoryTypes'
    BY <1>4 DEF ClaimRefused, DecisionTypes, PaymentTypes, EvidenceTypes, KeyTypes,
           AttemptTypes, RailTypes, HistoryTypes
  <2> QED
    BY <2>1, <2>2
<1>5. ASSUME NEW c \in Calls, Reserve(c) PROVE TypeOK'
  <2>1. DecisionTypes'
    BY <1>5 DEF Reserve, DecisionTypes, PreparedStates, LocalTypes
  <2>2. PaymentTypes'
    BY <1>5 DEF Reserve, PaymentTypes, ReservationStates, OperationStates, Intents, Releases,
           Ops, LocalTypes
  <2>3. RailTypes'
    BY <1>5 DEF Reserve, RailTypes, Ops, Intents, Procs, Control, PayLabels, LocalTypes
  <2>4. LocalTypes'
    BY <1>5 DEF Reserve, LocalTypes, Labels, PreparedStates, Intents, Releases, Evidence,
           Procs
  <2>5. EvidenceTypes' /\ KeyTypes' /\ AttemptTypes' /\ HistoryTypes'
    BY <1>5 DEF Reserve, EvidenceTypes, KeyTypes, AttemptTypes, HistoryTypes
  <2> QED
    BY <2>1, <2>2, <2>3, <2>4, <2>5
<1>6. ASSUME NEW c \in Calls, ReserveRefused(c) PROVE TypeOK'
  <2>1. PaymentTypes'
    BY <1>6 DEF ReserveRefused, PaymentTypes, ReservationStates, OperationStates, Intents,
           Releases, Ops, LocalTypes
  <2>2. LocalTypes'
    BY <1>6 DEF ReserveRefused, LocalTypes, Labels, PreparedStates, Intents, Releases,
           Evidence, Procs
  <2>3. DecisionTypes' /\ EvidenceTypes' /\ KeyTypes' /\ AttemptTypes' /\ RailTypes' /\ HistoryTypes'
    BY <1>6 DEF ReserveRefused, DecisionTypes, EvidenceTypes, KeyTypes, AttemptTypes,
           RailTypes, HistoryTypes
  <2> QED
    BY <2>1, <2>2, <2>3
<1>7. ASSUME NEW c \in Calls, ReserveReply(c) PROVE TypeOK'
  <2>1. PaymentTypes'
    BY <1>7 DEF ReserveReply, PaymentTypes, ReservationStates, OperationStates, Intents,
           Releases, Ops, LocalTypes
  <2>2. LocalTypes'
    BY <1>7 DEF ReserveReply, LocalTypes, Labels, PreparedStates, Intents, Releases, Evidence,
           Procs
  <2>3. DecisionTypes' /\ EvidenceTypes' /\ KeyTypes' /\ AttemptTypes' /\ RailTypes' /\ HistoryTypes'
    BY <1>7 DEF ReserveReply, DecisionTypes, EvidenceTypes, KeyTypes, AttemptTypes, RailTypes,
           HistoryTypes
  <2> QED
    BY <2>1, <2>2, <2>3
<1>8. ASSUME NEW c \in Calls, ReserveError(c) PROVE TypeOK'
  <2>1. PaymentTypes'
    BY <1>8 DEF ReserveError, Procs, PaymentTypes, ReservationStates, OperationStates,
           Intents, Releases, Ops, LocalTypes
  <2>2. RailTypes'
    BY <1>8 DEF ReserveError, Touch, RailTypes, Ops, Intents, Procs, LocalTypes
  <2>3. LocalTypes'
    BY <1>8 DEF ReserveError, LocalTypes, Labels, PreparedStates, Intents, Releases, Evidence,
           Procs
  <2>4. DecisionTypes' /\ EvidenceTypes' /\ KeyTypes' /\ AttemptTypes' /\ HistoryTypes'
    BY <1>8 DEF ReserveError, DecisionTypes, EvidenceTypes, KeyTypes, AttemptTypes,
           HistoryTypes
  <2> QED
    BY <2>1, <2>2, <2>3, <2>4
<1>9. ASSUME NEW c \in Calls, ReserveCancelled(c) PROVE TypeOK'
  <2>1. LocalTypes'
    BY <1>9 DEF ReserveCancelled, LocalTypes, Labels, PreparedStates, Intents, Releases,
           Evidence, Procs
  <2>2. /\ DecisionTypes' /\ PaymentTypes' /\ EvidenceTypes' /\ KeyTypes'
        /\ AttemptTypes' /\ RailTypes' /\ HistoryTypes'
    BY <1>9 DEF ReserveCancelled, DecisionTypes, PaymentTypes, EvidenceTypes, KeyTypes,
           AttemptTypes, RailTypes, HistoryTypes
  <2> QED
    BY <2>1, <2>2
<1>10. ASSUME NEW c \in Calls, Reserved(c) PROVE TypeOK'
  <2>1. AttemptTypes'
    BY <1>10 DEF Reserved, AttemptTo, AttemptTypes, AttemptStates, LocalTypes
  <2>2. LocalTypes'
    BY <1>10 DEF Reserved, LocalTypes, Labels, PreparedStates, Intents, Releases, Evidence,
           Procs
  <2>3. DecisionTypes' /\ PaymentTypes' /\ EvidenceTypes' /\ KeyTypes' /\ RailTypes' /\ HistoryTypes'
    BY <1>10 DEF Reserved, DecisionTypes, PaymentTypes, EvidenceTypes, KeyTypes, RailTypes,
           HistoryTypes
  <2> QED
    BY <2>1, <2>2, <2>3
<1>11. ASSUME NEW c \in Calls, Gate(c) PROVE TypeOK'
  <2>1. DecisionTypes'
    BY <1>11 DEF Gate, DecisionTypes, PreparedStates, LocalTypes
  <2>2. LocalTypes'
    BY <1>11 DEF Gate, LocalTypes, Labels, PreparedStates, Intents, Releases, Evidence, Procs
  <2>3. PaymentTypes' /\ EvidenceTypes' /\ KeyTypes' /\ AttemptTypes' /\ RailTypes' /\ HistoryTypes'
    BY <1>11 DEF Gate, PaymentTypes, EvidenceTypes, KeyTypes, AttemptTypes, RailTypes,
           HistoryTypes
  <2> QED
    BY <2>1, <2>2, <2>3
<1>12. ASSUME NEW c \in Calls, Refused(c) PROVE TypeOK'
  <2>1. LocalTypes'
    BY <1>12 DEF Refused, LocalTypes, Labels, PreparedStates, Intents, Releases, Evidence,
           Procs
  <2>2. /\ DecisionTypes' /\ PaymentTypes' /\ EvidenceTypes' /\ KeyTypes'
        /\ AttemptTypes' /\ RailTypes' /\ HistoryTypes'
    BY <1>12 DEF Refused, DecisionTypes, PaymentTypes, EvidenceTypes, KeyTypes, AttemptTypes,
           RailTypes, HistoryTypes
  <2> QED
    BY <2>1, <2>2
<1>13. ASSUME NEW c \in Calls, Abandon(c) PROVE TypeOK'
  <2>1. DecisionTypes'
    BY <1>13 DEF Abandon, DecisionTypes, PreparedStates, LocalTypes
  <2>2. KeyTypes'
    BY <1>13 DEF Abandon, DropKey, KeyTypes, OperationStates, LocalTypes
  <2>3. LocalTypes'
    BY <1>13 DEF Abandon, LocalTypes, Labels, PreparedStates, Intents, Releases, Evidence,
           Procs
  <2>4. PaymentTypes' /\ EvidenceTypes' /\ AttemptTypes' /\ RailTypes' /\ HistoryTypes'
    BY <1>13 DEF Abandon, PaymentTypes, EvidenceTypes, AttemptTypes, RailTypes, HistoryTypes
  <2> QED
    BY <2>1, <2>2, <2>3, <2>4
<1>14. ASSUME NEW c \in Calls, AttemptFail(c) PROVE TypeOK'
  <2>1. AttemptTypes'
    BY <1>14 DEF AttemptFail, AttemptTo, AttemptTypes, AttemptStates, LocalTypes
  <2>2. LocalTypes'
    BY <1>14 DEF AttemptFail, LocalTypes, Labels, PreparedStates, Intents, Releases, Evidence,
           Procs
  <2>3. DecisionTypes' /\ PaymentTypes' /\ EvidenceTypes' /\ KeyTypes' /\ RailTypes' /\ HistoryTypes'
    BY <1>14 DEF AttemptFail, DecisionTypes, PaymentTypes, EvidenceTypes, KeyTypes, RailTypes,
           HistoryTypes
  <2> QED
    BY <2>1, <2>2, <2>3
<1>15. ASSUME NEW c \in Calls, Begin(c) PROVE TypeOK'
  <2>1. AttemptTypes'
    BY <1>15 DEF Begin, AttemptTo, AttemptTypes, AttemptStates, LocalTypes
  <2>2. LocalTypes'
    BY <1>15 DEF Begin, LocalTypes, Labels, PreparedStates, Intents, Releases, Evidence, Procs
  <2>3. DecisionTypes' /\ PaymentTypes' /\ EvidenceTypes' /\ KeyTypes' /\ RailTypes' /\ HistoryTypes'
    BY <1>15 DEF Begin, DecisionTypes, PaymentTypes, EvidenceTypes, KeyTypes, RailTypes,
           HistoryTypes
  <2> QED
    BY <2>1, <2>2, <2>3
<1>16. ASSUME NEW c \in Calls, KeyExecuting(c) PROVE TypeOK'
  <2>1. KeyTypes'
    BY <1>16 DEF KeyExecuting, KeyTypes, OperationStates, LocalTypes
  <2>2. LocalTypes'
    BY <1>16 DEF KeyExecuting, LocalTypes, Labels, PreparedStates, Intents, Releases,
           Evidence, Procs
  <2>3. /\ DecisionTypes' /\ PaymentTypes' /\ EvidenceTypes' /\ AttemptTypes'
        /\ RailTypes' /\ HistoryTypes'
    BY <1>16 DEF KeyExecuting, DecisionTypes, PaymentTypes, EvidenceTypes, AttemptTypes,
           RailTypes, HistoryTypes
  <2> QED
    BY <2>1, <2>2, <2>3
<1>17. ASSUME NEW c \in Calls, Invoke(c) PROVE TypeOK'
  <2>1. LocalTypes'
    BY <1>17 DEF Invoke, LocalTypes, Labels, PreparedStates, Intents, Releases, Evidence,
           Procs
  <2>2. HistoryTypes'
    BY <1>17 DEF Invoke, HistoryTypes, Control, PayLabels, Procs, LocalTypes
  <2>3. DecisionTypes' /\ PaymentTypes' /\ EvidenceTypes' /\ KeyTypes' /\ AttemptTypes' /\ RailTypes'
    BY <1>17 DEF Invoke, DecisionTypes, PaymentTypes, EvidenceTypes, KeyTypes, AttemptTypes,
           RailTypes
  <2> QED
    BY <2>1, <2>2, <2>3
<1>18. ASSUME NEW c \in Calls, InvokeRaises(c) PROVE TypeOK'
  <2>1. LocalTypes'
    BY <1>18 DEF InvokeRaises, LocalTypes, Labels, PreparedStates, Intents, Releases,
           Evidence, Procs
  <2>2. /\ DecisionTypes' /\ PaymentTypes' /\ EvidenceTypes' /\ KeyTypes'
        /\ AttemptTypes' /\ RailTypes' /\ HistoryTypes'
    BY <1>18 DEF InvokeRaises, DecisionTypes, PaymentTypes, EvidenceTypes, KeyTypes,
           AttemptTypes, RailTypes, HistoryTypes
  <2> QED
    BY <2>1, <2>2
<1>19. ASSUME NEW c \in Calls, Return(c) PROVE TypeOK'
  <2>1. AttemptTypes'
    BY <1>19 DEF Return, AttemptTo, AttemptTypes, AttemptStates, LocalTypes
  <2>2. LocalTypes'
    BY <1>19 DEF Return, LocalTypes, Labels, PreparedStates, Intents, Releases, Evidence,
           Procs
  <2>3. HistoryTypes'
    BY <1>19 DEF Return, HistoryTypes, Control, PayLabels, Procs, LocalTypes
  <2>4. DecisionTypes' /\ PaymentTypes' /\ EvidenceTypes' /\ KeyTypes' /\ RailTypes'
    BY <1>19 DEF Return, DecisionTypes, PaymentTypes, EvidenceTypes, KeyTypes, RailTypes
  <2> QED
    BY <2>1, <2>2, <2>3, <2>4
<1>20. ASSUME NEW c \in Calls, Validate(c) PROVE TypeOK'
  <2>1. EvidenceTypes'
    BY <1>20 DEF Validate, Evidence, EvidenceTypes, Results, Control, PayLabels, Procs,
           LocalTypes
  <2>2. AttemptTypes'
    BY <1>20 DEF Validate, Results, Evidence, AttemptTo, AttemptTypes, AttemptStates,
           LocalTypes
  <2>3. LocalTypes'
    BY <1>20 DEF Validate, Results, LocalTypes, Labels, PreparedStates, Intents, Releases,
           Evidence, Procs
  <2>4. DecisionTypes' /\ PaymentTypes' /\ KeyTypes' /\ RailTypes' /\ HistoryTypes'
    BY <1>20 DEF Validate, DecisionTypes, PaymentTypes, KeyTypes, RailTypes, HistoryTypes
  <2> QED
    BY <2>1, <2>2, <2>3, <2>4
<1>21. ASSUME NEW c \in Calls, FreeSettling(c) PROVE TypeOK'
  <2>1. DecisionTypes'
    BY <1>21 DEF FreeSettling, Advance, DecisionTypes, PreparedStates, LocalTypes
  <2>2. LocalTypes'
    BY <1>21 DEF FreeSettling, Advance, LocalTypes, Labels, PreparedStates, Intents, Releases,
           Evidence, Procs
  <2>3. PaymentTypes' /\ EvidenceTypes' /\ KeyTypes' /\ AttemptTypes' /\ RailTypes' /\ HistoryTypes'
    BY <1>21 DEF FreeSettling, Advance, PaymentTypes, EvidenceTypes, KeyTypes, AttemptTypes,
           RailTypes, HistoryTypes
  <2> QED
    BY <2>1, <2>2, <2>3
<1>22. ASSUME NEW c \in Calls, FreeSettled(c) PROVE TypeOK'
  <2>1. DecisionTypes'
    BY <1>22 DEF FreeSettled, Advance, DecisionTypes, PreparedStates, LocalTypes
  <2>2. LocalTypes'
    BY <1>22 DEF FreeSettled, Advance, LocalTypes, Labels, PreparedStates, Intents, Releases,
           Evidence, Procs
  <2>3. PaymentTypes' /\ EvidenceTypes' /\ KeyTypes' /\ AttemptTypes' /\ RailTypes' /\ HistoryTypes'
    BY <1>22 DEF FreeSettled, Advance, PaymentTypes, EvidenceTypes, KeyTypes, AttemptTypes,
           RailTypes, HistoryTypes
  <2> QED
    BY <2>1, <2>2, <2>3
<1>23. ASSUME NEW c \in Calls, AwaitUsage(c) PROVE TypeOK'
  <2>1. DecisionTypes'
    BY <1>23 DEF AwaitUsage, DecisionTypes, PreparedStates, LocalTypes
  <2>2. LocalTypes'
    BY <1>23 DEF AwaitUsage, LocalTypes, Labels, PreparedStates, Intents, Releases, Evidence,
           Procs
  <2>3. PaymentTypes' /\ EvidenceTypes' /\ KeyTypes' /\ AttemptTypes' /\ RailTypes' /\ HistoryTypes'
    BY <1>23 DEF AwaitUsage, PaymentTypes, EvidenceTypes, KeyTypes, AttemptTypes, RailTypes,
           HistoryTypes
  <2> QED
    BY <2>1, <2>2, <2>3
<1>24. ASSUME NEW c \in Calls, SaveUsage(c) PROVE TypeOK'
  <2>1. EvidenceTypes'
    BY <1>24 DEF SaveUsage, EvidenceTypes, Results, Control, PayLabels, Procs, LocalTypes,
           Evidence
  <2>2. LocalTypes'
    BY <1>24 DEF SaveUsage, LocalTypes, Labels, PreparedStates, Intents, Releases, Evidence,
           Procs
  <2>3. DecisionTypes' /\ PaymentTypes' /\ KeyTypes' /\ AttemptTypes' /\ RailTypes' /\ HistoryTypes'
    BY <1>24 DEF SaveUsage, DecisionTypes, PaymentTypes, KeyTypes, AttemptTypes, RailTypes,
           HistoryTypes
  <2> QED
    BY <2>1, <2>2, <2>3
<1>25. ASSUME NEW c \in Calls, DecideUncertain(c) PROVE TypeOK'
  <2>1. LocalTypes'
    BY <1>25 DEF DecideUncertain, LocalTypes, Labels, PreparedStates, Intents, Releases,
           Evidence, Procs
  <2>2. /\ DecisionTypes' /\ PaymentTypes' /\ EvidenceTypes' /\ KeyTypes'
        /\ AttemptTypes' /\ RailTypes' /\ HistoryTypes'
    BY <1>25 DEF DecideUncertain, DecisionTypes, PaymentTypes, EvidenceTypes, KeyTypes,
           AttemptTypes, RailTypes, HistoryTypes
  <2> QED
    BY <2>1, <2>2
<1>26. ASSUME NEW c \in Calls, DecideSettle(c) PROVE TypeOK'
  <2>1. DecisionTypes'
    BY <1>26 DEF DecideSettle, DecisionTypes, PreparedStates, LocalTypes
  <2>2. LocalTypes'
    BY <1>26 DEF DecideSettle, LocalTypes, Labels, PreparedStates, Intents, Releases,
           Evidence, Procs
  <2>3. PaymentTypes' /\ EvidenceTypes' /\ KeyTypes' /\ AttemptTypes' /\ RailTypes' /\ HistoryTypes'
    BY <1>26 DEF DecideSettle, PaymentTypes, EvidenceTypes, KeyTypes, AttemptTypes, RailTypes,
           HistoryTypes
  <2> QED
    BY <2>1, <2>2, <2>3
<1>27. ASSUME NEW c \in Calls, Final(c) PROVE TypeOK'
  <2>1. EvidenceTypes'
    BY <1>27 DEF Final, EvidenceTypes, Results, Control, PayLabels, Procs, LocalTypes
  <2>2. AttemptTypes'
    BY <1>27 DEF Final, AttemptTo, AttemptTypes, AttemptStates, LocalTypes
  <2>3. LocalTypes'
    BY <1>27 DEF Final, LocalTypes, Labels, PreparedStates, Intents, Releases, Evidence, Procs
  <2>4. DecisionTypes' /\ PaymentTypes' /\ KeyTypes' /\ RailTypes' /\ HistoryTypes'
    BY <1>27 DEF Final, DecisionTypes, PaymentTypes, KeyTypes, RailTypes, HistoryTypes
  <2> QED
    BY <2>1, <2>2, <2>3, <2>4
<1>28. ASSUME NEW c \in Calls, Complete(c) PROVE TypeOK'
  <2>1. KeyTypes'
    BY <1>28 DEF Complete, CompleteKey, KeyTypes, OperationStates, LocalTypes
  <2>2. LocalTypes'
    BY <1>28 DEF Complete, LocalTypes, Labels, PreparedStates, Intents, Releases, Evidence,
           Procs
  <2>3. /\ DecisionTypes' /\ PaymentTypes' /\ EvidenceTypes' /\ AttemptTypes'
        /\ RailTypes' /\ HistoryTypes'
    BY <1>28 DEF Complete, DecisionTypes, PaymentTypes, EvidenceTypes, AttemptTypes,
           RailTypes, HistoryTypes
  <2> QED
    BY <2>1, <2>2, <2>3
<1>29. ASSUME NEW c \in Calls, PayCancelled(c) PROVE TypeOK'
  <2>1. LocalTypes'
    BY <1>29 DEF PayCancelled, LocalTypes, Labels, PreparedStates, Intents, Releases,
           Evidence, Procs
  <2>2. /\ DecisionTypes' /\ PaymentTypes' /\ EvidenceTypes' /\ KeyTypes'
        /\ AttemptTypes' /\ RailTypes' /\ HistoryTypes'
    BY <1>29 DEF PayCancelled, DecisionTypes, PaymentTypes, EvidenceTypes, KeyTypes,
           AttemptTypes, RailTypes, HistoryTypes
  <2> QED
    BY <2>1, <2>2
<1>30. ASSUME NEW c \in Calls, MarkKey(c) PROVE TypeOK'
  <2>1. KeyTypes'
    BY <1>30 DEF MarkKey, KeyTypes, OperationStates, LocalTypes
  <2>2. LocalTypes'
    BY <1>30 DEF MarkKey, LocalTypes, Labels, PreparedStates, Intents, Releases, Evidence,
           Procs
  <2>3. /\ DecisionTypes' /\ PaymentTypes' /\ EvidenceTypes' /\ AttemptTypes'
        /\ RailTypes' /\ HistoryTypes'
    BY <1>30 DEF MarkKey, DecisionTypes, PaymentTypes, EvidenceTypes, AttemptTypes, RailTypes,
           HistoryTypes
  <2> QED
    BY <2>1, <2>2, <2>3
<1>31. ASSUME NEW x \in Procs, PayReplay(x) PROVE TypeOK'
  <2>1. PaymentTypes'
    BY <1>31 DEF PayReplay, PaymentTypes, ReservationStates, OperationStates, Intents,
           Releases, Ops, LocalTypes
  <2>2. LocalTypes'
    BY <1>31 DEF PayReplay, Succeeded, LocalTypes, Labels, PreparedStates, Intents, Releases,
           Evidence, Procs
  <2>3. DecisionTypes' /\ EvidenceTypes' /\ KeyTypes' /\ AttemptTypes' /\ RailTypes' /\ HistoryTypes'
    BY <1>31 DEF PayReplay, DecisionTypes, EvidenceTypes, KeyTypes, AttemptTypes, RailTypes,
           HistoryTypes
  <2> QED
    BY <2>1, <2>2, <2>3
<1>32. ASSUME NEW x \in Procs, PayClaim(x) PROVE TypeOK'
  <2>1. PaymentTypes'
    BY <1>32 DEF PayClaim, PaymentTypes, ReservationStates, OperationStates, Intents,
           Releases, Ops, LocalTypes
  <2>2. LocalTypes'
    BY <1>32 DEF PayClaim, Failed, LocalTypes, Labels, PreparedStates, Intents, Releases,
           Evidence, Procs, Control, PayLabels
  <2>3. DecisionTypes' /\ EvidenceTypes' /\ KeyTypes' /\ AttemptTypes' /\ RailTypes' /\ HistoryTypes'
    BY <1>32 DEF PayClaim, DecisionTypes, EvidenceTypes, KeyTypes, AttemptTypes, RailTypes,
           HistoryTypes
  <2> QED
    BY <2>1, <2>2, <2>3
<1>33. ASSUME NEW x \in Procs, PayIntent(x) PROVE TypeOK'
  <2>1. job[x] \in Intents
    BY <1>33 DEF PayIntent, Control, PayLabels
  <2>2. PaymentTypes'
    BY <1>33, <2>1 DEF PayIntent, PaymentTypes, ReservationStates
  <2>3. RailTypes'
    BY <1>33 DEF PayIntent, Touch, RailTypes, Ops, Intents, Procs, LocalTypes
  <2>4. LocalTypes'
    BY <1>33 DEF PayIntent, LocalTypes, Labels, PreparedStates, Intents, Releases, Evidence,
           Procs
  <2>5. DecisionTypes' /\ EvidenceTypes' /\ KeyTypes' /\ AttemptTypes' /\ HistoryTypes'
    BY <1>33 DEF PayIntent, DecisionTypes, EvidenceTypes, KeyTypes, AttemptTypes, HistoryTypes
  <2> QED
    BY <2>1, <2>2, <2>3, <2>4, <2>5
<1>34. ASSUME NEW x \in Procs, PayIntentRefused(x) PROVE TypeOK'
  <2>1. LocalTypes'
    BY <1>34 DEF PayIntentRefused, Failed, LocalTypes, Labels, PreparedStates, Intents,
           Releases, Evidence, Procs
  <2>2. /\ DecisionTypes' /\ PaymentTypes' /\ EvidenceTypes' /\ KeyTypes'
        /\ AttemptTypes' /\ RailTypes' /\ HistoryTypes'
    BY <1>34 DEF PayIntentRefused, DecisionTypes, PaymentTypes, EvidenceTypes, KeyTypes,
           AttemptTypes, RailTypes, HistoryTypes
  <2> QED
    BY <2>1, <2>2
<1>35. ASSUME NEW x \in Procs, PayExec(x) PROVE TypeOK'
  <2>1. PaymentTypes'
    BY <1>35 DEF PayExec, PaymentTypes, ReservationStates, OperationStates, Intents, Releases,
           Ops, LocalTypes
  <2>2. RailTypes'
    BY <1>35 DEF PayExec, RailTypes, Ops, Intents, Procs, Control, PayLabels, LocalTypes
  <2>3. LocalTypes'
    BY <1>35 DEF PayExec, Failed, LocalTypes, Labels, PreparedStates, Intents, Releases,
           Evidence, Procs
  <2>4. DecisionTypes' /\ EvidenceTypes' /\ KeyTypes' /\ AttemptTypes' /\ HistoryTypes'
    BY <1>35 DEF PayExec, DecisionTypes, EvidenceTypes, KeyTypes, AttemptTypes, HistoryTypes
  <2> QED
    BY <2>1, <2>2, <2>3, <2>4
<1>36. ASSUME NEW x \in Procs, PayReply(x) PROVE TypeOK'
  <2>1. RailTypes'
    BY <1>36 DEF PayReply, RailTypes, Ops, Intents, Procs, Control, PayLabels, LocalTypes
  <2>2. LocalTypes'
    BY <1>36 DEF PayReply, LocalTypes, Labels, PreparedStates, Intents, Releases, Evidence,
           Procs
  <2>3. /\ DecisionTypes' /\ PaymentTypes' /\ EvidenceTypes' /\ KeyTypes'
        /\ AttemptTypes' /\ HistoryTypes'
    BY <1>36 DEF PayReply, DecisionTypes, PaymentTypes, EvidenceTypes, KeyTypes, AttemptTypes,
           HistoryTypes
  <2> QED
    BY <2>1, <2>2, <2>3
<1>37. ASSUME NEW x \in Procs, PayStore(x) PROVE TypeOK'
  <2>1. DecisionTypes'
    BY <1>37 DEF PayStore, DecisionTypes, PreparedStates, LocalTypes
  <2>2. PaymentTypes'
    BY <1>37 DEF PayStore, PaymentTypes, ReservationStates, OperationStates, Intents,
           Releases, Ops, Control, PayLabels, Procs, LocalTypes
  <2>3. LocalTypes'
    BY <1>37 DEF PayStore, LocalTypes, Labels, PreparedStates, Intents, Releases, Evidence,
           Procs
  <2>4. EvidenceTypes' /\ KeyTypes' /\ AttemptTypes' /\ RailTypes' /\ HistoryTypes'
    BY <1>37 DEF PayStore, EvidenceTypes, KeyTypes, AttemptTypes, RailTypes, HistoryTypes
  <2> QED
    BY <2>1, <2>2, <2>3, <2>4
<1>38. ASSUME NEW x \in Procs, PayDone(x) PROVE TypeOK'
  <2>1. PaymentTypes'
    BY <1>38 DEF PayDone, PaymentTypes, ReservationStates, OperationStates, Intents, Releases,
           Ops, LocalTypes
  <2>2. LocalTypes'
    BY <1>38 DEF PayDone, Succeeded, LocalTypes, Labels, PreparedStates, Intents, Releases,
           Evidence, Procs
  <2>3. DecisionTypes' /\ EvidenceTypes' /\ KeyTypes' /\ AttemptTypes' /\ RailTypes' /\ HistoryTypes'
    BY <1>38 DEF PayDone, DecisionTypes, EvidenceTypes, KeyTypes, AttemptTypes, RailTypes,
           HistoryTypes
  <2> QED
    BY <2>1, <2>2, <2>3
<1>39. ASSUME NEW x \in Procs, PayError(x) PROVE TypeOK'
  <2>1. PaymentTypes'
    BY <1>39 DEF PayError, Procs, PaymentTypes, ReservationStates, OperationStates, Intents,
           Releases, Ops, LocalTypes
  <2>2. RailTypes'
    BY <1>39 DEF PayError, Touch, RailTypes, Ops, Intents, Procs, LocalTypes
  <2>3. LocalTypes'
    BY <1>39 DEF PayError, Failed, LocalTypes, Labels, PreparedStates, Intents, Releases,
           Evidence, Procs
  <2>4. DecisionTypes' /\ EvidenceTypes' /\ KeyTypes' /\ AttemptTypes' /\ HistoryTypes'
    BY <1>39 DEF PayError, DecisionTypes, EvidenceTypes, KeyTypes, AttemptTypes, HistoryTypes
  <2> QED
    BY <2>1, <2>2, <2>3, <2>4
<1>40. ASSUME NEW x \in Procs, MarkReservation(x) PROVE TypeOK'
  <2>1. PaymentTypes'
    BY <1>40 DEF MarkReservation, Procs, PaymentTypes, ReservationStates, OperationStates,
           Intents, Releases, Ops, LocalTypes
  <2>2. RailTypes'
    BY <1>40 DEF MarkReservation, Touch, RailTypes, Ops, Intents, Procs, LocalTypes
  <2>3. LocalTypes'
    BY <1>40 DEF MarkReservation, LocalTypes, Labels, PreparedStates, Intents, Releases,
           Evidence, Procs
  <2>4. DecisionTypes' /\ EvidenceTypes' /\ KeyTypes' /\ AttemptTypes' /\ HistoryTypes'
    BY <1>40 DEF MarkReservation, DecisionTypes, EvidenceTypes, KeyTypes, AttemptTypes,
           HistoryTypes
  <2> QED
    BY <2>1, <2>2, <2>3, <2>4
<1>41. ASSUME NEW x \in Procs, MarkPrepared(x) PROVE TypeOK'
  <2>1. DecisionTypes'
    BY <1>41 DEF MarkPrepared, DecisionTypes, PreparedStates, LocalTypes
  <2>2. LocalTypes'
    BY <1>41 DEF MarkPrepared, LocalTypes, Labels, PreparedStates, Intents, Releases,
           Evidence, Procs
  <2>3. PaymentTypes' /\ EvidenceTypes' /\ KeyTypes' /\ AttemptTypes' /\ RailTypes' /\ HistoryTypes'
    BY <1>41 DEF MarkPrepared, PaymentTypes, EvidenceTypes, KeyTypes, AttemptTypes, RailTypes,
           HistoryTypes
  <2> QED
    BY <2>1, <2>2, <2>3
<1>42. ASSUME NEW x \in Procs, MarkAttempt(x) PROVE TypeOK'
  <2>1. AttemptTypes'
    BY <1>42 DEF MarkAttempt, AttemptTo, AttemptTypes, AttemptStates, LocalTypes
  <2>2. LocalTypes'
    BY <1>42 DEF MarkAttempt, AfterMark, LocalTypes, Labels, PreparedStates, Intents,
           Releases, Evidence, Procs
  <2>3. DecisionTypes' /\ PaymentTypes' /\ EvidenceTypes' /\ KeyTypes' /\ RailTypes' /\ HistoryTypes'
    BY <1>42 DEF MarkAttempt, DecisionTypes, PaymentTypes, EvidenceTypes, KeyTypes, RailTypes,
           HistoryTypes
  <2> QED
    BY <2>1, <2>2, <2>3
<1>43. ASSUME NEW x \in Procs, Dispute(x) PROVE TypeOK'
  <2>1. DecisionTypes'
    BY <1>43 DEF Dispute, DecisionTypes, PreparedStates, LocalTypes
  <2>2. LocalTypes'
    BY <1>43 DEF Dispute, AfterMark, LocalTypes, Labels, PreparedStates, Intents, Releases,
           Evidence, Procs
  <2>3. PaymentTypes' /\ EvidenceTypes' /\ KeyTypes' /\ AttemptTypes' /\ RailTypes' /\ HistoryTypes'
    BY <1>43 DEF Dispute, PaymentTypes, EvidenceTypes, KeyTypes, AttemptTypes, RailTypes,
           HistoryTypes
  <2> QED
    BY <2>1, <2>2, <2>3
<1>44. ASSUME NEW x \in Procs, Crash(x) PROVE TypeOK'
  <2>1. RailTypes'
    BY <1>44 DEF Crash, RailTypes, Ops, Intents, Procs, LocalTypes
  <2>2. LocalTypes'
    BY <1>44 DEF Crash, LocalTypes, Labels, PreparedStates, Intents, Releases, Evidence, Procs
  <2>3. /\ DecisionTypes' /\ PaymentTypes' /\ EvidenceTypes' /\ KeyTypes'
        /\ AttemptTypes' /\ HistoryTypes'
    BY <1>44 DEF Crash, DecisionTypes, PaymentTypes, EvidenceTypes, KeyTypes, AttemptTypes,
           HistoryTypes
  <2> QED
    BY <2>1, <2>2, <2>3
<1>45. ASSUME NEW r \in Recoverers, FinalizeLink(r) PROVE TypeOK'
  <2>1. PaymentTypes'
    BY <1>45 DEF FinalizeLink, PaymentTypes, ReservationStates, OperationStates, Intents,
           Releases, Ops, LocalTypes
  <2>2. EvidenceTypes'
    BY <1>45 DEF FinalizeLink, EvidenceTypes, Results, Control, PayLabels, Procs, LocalTypes
  <2>3. LocalTypes'
    BY <1>45 DEF FinalizeLink, LocalTypes, Labels, PreparedStates, Intents, Releases,
           Evidence, Procs
  <2>4. DecisionTypes' /\ KeyTypes' /\ AttemptTypes' /\ RailTypes' /\ HistoryTypes'
    BY <1>45 DEF FinalizeLink, DecisionTypes, KeyTypes, AttemptTypes, RailTypes, HistoryTypes
  <2> QED
    BY <2>1, <2>2, <2>3, <2>4
<1>46. ASSUME NEW r \in Recoverers, FinalizeKey(r) PROVE TypeOK'
  <2>1. KeyTypes'
    BY <1>46 DEF FinalizeKey, CompleteKey, KeyTypes, OperationStates, LocalTypes
  <2>2. LocalTypes'
    BY <1>46 DEF FinalizeKey, LocalTypes, Labels, PreparedStates, Intents, Releases, Evidence,
           Procs
  <2>3. /\ DecisionTypes' /\ PaymentTypes' /\ EvidenceTypes' /\ AttemptTypes'
        /\ RailTypes' /\ HistoryTypes'
    BY <1>46 DEF FinalizeKey, DecisionTypes, PaymentTypes, EvidenceTypes, AttemptTypes,
           RailTypes, HistoryTypes
  <2> QED
    BY <2>1, <2>2, <2>3
<1>47. ASSUME NEW r \in Recoverers, CancelOrphan(r) PROVE TypeOK'
  <2>1. DecisionTypes'
    BY <1>47 DEF CancelOrphan, DecisionTypes, PreparedStates, LocalTypes
  <2>2. KeyTypes'
    BY <1>47 DEF CancelOrphan, DropKey, KeyTypes, OperationStates, LocalTypes
  <2>3. LocalTypes'
    BY <1>47 DEF CancelOrphan, LocalTypes, Labels, PreparedStates, Intents, Releases,
           Evidence, Procs
  <2>4. PaymentTypes' /\ EvidenceTypes' /\ AttemptTypes' /\ RailTypes' /\ HistoryTypes'
    BY <1>47 DEF CancelOrphan, PaymentTypes, EvidenceTypes, AttemptTypes, RailTypes,
           HistoryTypes
  <2> QED
    BY <2>1, <2>2, <2>3, <2>4
<1>48. ASSUME NEW r \in Recoverers, RecoverReserved(r) PROVE TypeOK'
  <2>1. LocalTypes'
    BY <1>48 DEF RecoverReserved, LocalTypes, Labels, PreparedStates, Intents, Releases,
           Evidence, Procs
  <2>2. /\ DecisionTypes' /\ PaymentTypes' /\ EvidenceTypes' /\ KeyTypes'
        /\ AttemptTypes' /\ RailTypes' /\ HistoryTypes'
    BY <1>48 DEF RecoverReserved, DecisionTypes, PaymentTypes, EvidenceTypes, KeyTypes,
           AttemptTypes, RailTypes, HistoryTypes
  <2> QED
    BY <2>1, <2>2
<1>49. ASSUME NEW r \in Recoverers, RecoverDispute(r) PROVE TypeOK'
  <2>1. LocalTypes'
    BY <1>49 DEF RecoverDispute, LocalTypes, Labels, PreparedStates, Intents, Releases,
           Evidence, Procs
  <2>2. /\ DecisionTypes' /\ PaymentTypes' /\ EvidenceTypes' /\ KeyTypes'
        /\ AttemptTypes' /\ RailTypes' /\ HistoryTypes'
    BY <1>49 DEF RecoverDispute, DecisionTypes, PaymentTypes, EvidenceTypes, KeyTypes,
           AttemptTypes, RailTypes, HistoryTypes
  <2> QED
    BY <2>1, <2>2
<1>50. ASSUME NEW r \in Recoverers, RecoverSettle(r) PROVE TypeOK'
  <2>1. DecisionTypes'
    BY <1>50 DEF RecoverSettle, DecisionTypes, PreparedStates, LocalTypes
  <2>2. LocalTypes'
    BY <1>50 DEF RecoverSettle, LocalTypes, Labels, PreparedStates, Intents, Releases,
           Evidence, Procs
  <2>3. PaymentTypes' /\ EvidenceTypes' /\ KeyTypes' /\ AttemptTypes' /\ RailTypes' /\ HistoryTypes'
    BY <1>50 DEF RecoverSettle, PaymentTypes, EvidenceTypes, KeyTypes, AttemptTypes,
           RailTypes, HistoryTypes
  <2> QED
    BY <2>1, <2>2, <2>3
<1>51. ASSUME NEW r \in Recoverers, RecoverNoEvidence(r) PROVE TypeOK'
  <2>1. LocalTypes'
    BY <1>51 DEF RecoverNoEvidence, LocalTypes, Labels, PreparedStates, Intents, Releases,
           Evidence, Procs
  <2>2. /\ DecisionTypes' /\ PaymentTypes' /\ EvidenceTypes' /\ KeyTypes'
        /\ AttemptTypes' /\ RailTypes' /\ HistoryTypes'
    BY <1>51 DEF RecoverNoEvidence, DecisionTypes, PaymentTypes, EvidenceTypes, KeyTypes,
           AttemptTypes, RailTypes, HistoryTypes
  <2> QED
    BY <2>1, <2>2
<1>52. ASSUME NEW r \in Recoverers, RecoverError(r) PROVE TypeOK'
  <2>1. LocalTypes'
    BY <1>52 DEF RecoverError, LocalTypes, Labels, PreparedStates, Intents, Releases,
           Evidence, Procs
  <2>2. /\ DecisionTypes' /\ PaymentTypes' /\ EvidenceTypes' /\ KeyTypes'
        /\ AttemptTypes' /\ RailTypes' /\ HistoryTypes'
    BY <1>52 DEF RecoverError, DecisionTypes, PaymentTypes, EvidenceTypes, KeyTypes,
           AttemptTypes, RailTypes, HistoryTypes
  <2> QED
    BY <2>1, <2>2
<1>53. ASSUME NEW r \in Recoverers, NEW p \in Prepared, FinalizeRelease(r, p) PROVE TypeOK'
  <2>1. PaymentTypes'
    BY <1>53 DEF FinalizeRelease, PaymentTypes, ReservationStates, OperationStates, Intents,
           Releases, Ops, LocalTypes
  <2>2. /\ DecisionTypes' /\ EvidenceTypes' /\ KeyTypes' /\ AttemptTypes'
        /\ RailTypes' /\ LocalTypes' /\ HistoryTypes'
    BY <1>53 DEF FinalizeRelease, DecisionTypes, EvidenceTypes, KeyTypes, AttemptTypes,
           RailTypes, LocalTypes, HistoryTypes
  <2> QED
    BY <2>1, <2>2
<1>54. ASSUME NEW r \in Recoverers, NEW p \in Prepared, AbandonReleased(r, p) PROVE TypeOK'
  <2>1. KeyTypes'
    BY <1>54 DEF AbandonReleased, DropKey, KeyTypes, OperationStates, LocalTypes
  <2>2. /\ DecisionTypes' /\ PaymentTypes' /\ EvidenceTypes' /\ AttemptTypes'
        /\ RailTypes' /\ LocalTypes' /\ HistoryTypes'
    BY <1>54 DEF AbandonReleased, DecisionTypes, PaymentTypes, EvidenceTypes, AttemptTypes,
           RailTypes, LocalTypes, HistoryTypes
  <2> QED
    BY <2>1, <2>2
<1>55. ASSUME NEW r \in Recoverers, NEW p \in Prepared, SettleFree(r, p) PROVE TypeOK'
  <2>1. DecisionTypes'
    BY <1>55 DEF SettleFree, DecisionTypes, PreparedStates, LocalTypes
  <2>2. LocalTypes'
    BY <1>55 DEF SettleFree, LocalTypes, Labels, PreparedStates, Intents, Releases, Evidence,
           Procs
  <2>3. PaymentTypes' /\ EvidenceTypes' /\ KeyTypes' /\ AttemptTypes' /\ RailTypes' /\ HistoryTypes'
    BY <1>55 DEF SettleFree, PaymentTypes, EvidenceTypes, KeyTypes, AttemptTypes, RailTypes,
           HistoryTypes
  <2> QED
    BY <2>1, <2>2, <2>3
<1>56. ASSUME NEW r \in Recoverers, NEW p \in Prepared, FinalizeSettled(r, p) PROVE TypeOK'
  <2>1. LocalTypes'
    BY <1>56 DEF FinalizeSettled, LocalTypes, Labels, PreparedStates, Intents, Releases,
           Evidence, Procs
  <2>2. /\ DecisionTypes' /\ PaymentTypes' /\ EvidenceTypes' /\ KeyTypes'
        /\ AttemptTypes' /\ RailTypes' /\ HistoryTypes'
    BY <1>56 DEF FinalizeSettled, DecisionTypes, PaymentTypes, EvidenceTypes, KeyTypes,
           AttemptTypes, RailTypes, HistoryTypes
  <2> QED
    BY <2>1, <2>2
<1>57. ASSUME NEW r \in Recoverers, NEW p \in Prepared, Scan(r, p) PROVE TypeOK'
  <2>1. LocalTypes'
    BY <1>57 DEF Scan, LocalTypes, Labels, PreparedStates, Intents, Releases, Evidence, Procs,
           DecisionTypes
  <2>2. /\ DecisionTypes' /\ PaymentTypes' /\ EvidenceTypes' /\ KeyTypes'
        /\ AttemptTypes' /\ RailTypes' /\ HistoryTypes'
    BY <1>57 DEF Scan, DecisionTypes, PaymentTypes, EvidenceTypes, KeyTypes, AttemptTypes,
           RailTypes, HistoryTypes
  <2> QED
    BY <2>1, <2>2
<1>58. ASSUME NEW o \in Operators, NEW p \in Prepared, CancelPrepared(o, p) PROVE TypeOK'
  <2>1. DecisionTypes'
    BY <1>58 DEF CancelPrepared, DecisionTypes, PreparedStates, LocalTypes
  <2>2. LocalTypes'
    BY <1>58 DEF CancelPrepared, LocalTypes, Labels, PreparedStates, Intents, Releases,
           Evidence, Procs
  <2>3. PaymentTypes' /\ EvidenceTypes' /\ KeyTypes' /\ AttemptTypes' /\ RailTypes' /\ HistoryTypes'
    BY <1>58 DEF CancelPrepared, PaymentTypes, EvidenceTypes, KeyTypes, AttemptTypes,
           RailTypes, HistoryTypes
  <2> QED
    BY <2>1, <2>2, <2>3
<1>59. ASSUME NEW p \in Prepared, ShowPrepared(p) PROVE TypeOK'
  <2>1. DecisionTypes'
    BY <1>59 DEF ShowPrepared, DecisionTypes, PreparedStates, LocalTypes
  <2>2. /\ PaymentTypes' /\ EvidenceTypes' /\ KeyTypes' /\ AttemptTypes'
        /\ RailTypes' /\ LocalTypes' /\ HistoryTypes'
    BY <1>59 DEF ShowPrepared, PaymentTypes, EvidenceTypes, KeyTypes, AttemptTypes, RailTypes,
           LocalTypes, HistoryTypes
  <2> QED
    BY <2>1, <2>2
<1>60. ASSUME NEW p \in Prepared, Expire(p) PROVE TypeOK'
  <2>1. DecisionTypes'
    BY <1>60 DEF Expire, DecisionTypes, PreparedStates, LocalTypes
  <2>2. /\ PaymentTypes' /\ EvidenceTypes' /\ KeyTypes' /\ AttemptTypes'
        /\ RailTypes' /\ LocalTypes' /\ HistoryTypes'
    BY <1>60 DEF Expire, PaymentTypes, EvidenceTypes, KeyTypes, AttemptTypes, RailTypes,
           LocalTypes, HistoryTypes
  <2> QED
    BY <2>1, <2>2
<1>61. ASSUME NEW p \in Prepared, NEW o \in Ops, RailPerform(p, o) PROVE TypeOK'
  <2>1. RailTypes'
    BY <1>61 DEF RailPerform, RailTypes, Ops, Intents, Procs, LocalTypes
  <2>2. /\ DecisionTypes' /\ PaymentTypes' /\ EvidenceTypes' /\ KeyTypes'
        /\ AttemptTypes' /\ LocalTypes' /\ HistoryTypes'
    BY <1>61 DEF RailPerform, DecisionTypes, PaymentTypes, EvidenceTypes, KeyTypes,
           AttemptTypes, LocalTypes, HistoryTypes
  <2> QED
    BY <2>1, <2>2
<1>62. QED
  BY <1>1, <1>2, <1>3, <1>4, <1>5, <1>6, <1>7, <1>8, <1>9, <1>10, <1>11, <1>12,
     <1>13, <1>14, <1>15, <1>16, <1>17, <1>18, <1>19, <1>20, <1>21, <1>22, <1>23, <1>24,
     <1>25, <1>26, <1>27, <1>28, <1>29, <1>30, <1>31, <1>32, <1>33, <1>34, <1>35, <1>36,
     <1>37, <1>38, <1>39, <1>40, <1>41, <1>42, <1>43, <1>44, <1>45, <1>46, <1>47, <1>48,
     <1>49, <1>50, <1>51, <1>52, <1>53, <1>54, <1>55, <1>56, <1>57, <1>58, <1>59, <1>60, <1>61
     DEF Next, BeforeGate, AfterGate, Payment, Mark, Recover, Finalize

(* Every step keeps each kind of process on its own labels.                *)
LEMMA ControlStep ==
    ASSUME TypeOK, Control, Next
    PROVE  Control'
<1> USE DEF decisionVars, paymentVars, evidenceVars, keyVars, attemptVars, railVars,
          localVars, historyVars, Goto, Stay, Leave, Enter, MoveTo, Control, PayLabels,
          MarkLabels, LocalTypes, Procs, Intents, Releases
<1> USE ProcAssumption
<1>0. LocalTypes
  BY DEF TypeOK
<1>1. ASSUME NEW c \in Calls, NEW p \in Prepared, Start(c, p) PROVE Control'
  BY <1>0, <1>1 DEF Start
<1>2. ASSUME NEW c \in Calls, CreateAttempt(c) PROVE Control'
  BY <1>0, <1>2 DEF CreateAttempt
<1>3. ASSUME NEW c \in Calls, Claim(c) PROVE Control'
  BY <1>0, <1>3 DEF Claim
<1>4. ASSUME NEW c \in Calls, ClaimRefused(c) PROVE Control'
  BY <1>0, <1>4 DEF ClaimRefused
<1>5. ASSUME NEW c \in Calls, Reserve(c) PROVE Control'
  BY <1>0, <1>5 DEF Reserve
<1>6. ASSUME NEW c \in Calls, ReserveRefused(c) PROVE Control'
  BY <1>0, <1>6 DEF ReserveRefused
<1>7. ASSUME NEW c \in Calls, ReserveReply(c) PROVE Control'
  BY <1>0, <1>7 DEF ReserveReply
<1>8. ASSUME NEW c \in Calls, ReserveError(c) PROVE Control'
  BY <1>0, <1>8 DEF ReserveError
<1>9. ASSUME NEW c \in Calls, ReserveCancelled(c) PROVE Control'
  BY <1>0, <1>9 DEF ReserveCancelled
<1>10. ASSUME NEW c \in Calls, Reserved(c) PROVE Control'
  BY <1>0, <1>10 DEF Reserved
<1>11. ASSUME NEW c \in Calls, Gate(c) PROVE Control'
  BY <1>0, <1>11 DEF Gate
<1>12. ASSUME NEW c \in Calls, Refused(c) PROVE Control'
  BY <1>0, <1>12 DEF Refused
<1>13. ASSUME NEW c \in Calls, Abandon(c) PROVE Control'
  BY <1>0, <1>13 DEF Abandon
<1>14. ASSUME NEW c \in Calls, AttemptFail(c) PROVE Control'
  BY <1>0, <1>14 DEF AttemptFail
<1>15. ASSUME NEW c \in Calls, Begin(c) PROVE Control'
  BY <1>0, <1>15 DEF Begin
<1>16. ASSUME NEW c \in Calls, KeyExecuting(c) PROVE Control'
  BY <1>0, <1>16 DEF KeyExecuting
<1>17. ASSUME NEW c \in Calls, Invoke(c) PROVE Control'
  BY <1>0, <1>17 DEF Invoke
<1>18. ASSUME NEW c \in Calls, InvokeRaises(c) PROVE Control'
  BY <1>0, <1>18 DEF InvokeRaises
<1>19. ASSUME NEW c \in Calls, Return(c) PROVE Control'
  BY <1>0, <1>19 DEF Return
<1>20. ASSUME NEW c \in Calls, Validate(c) PROVE Control'
  BY <1>0, <1>20 DEF Validate, Results, Evidence
<1>21. ASSUME NEW c \in Calls, FreeSettling(c) PROVE Control'
  BY <1>0, <1>21 DEF FreeSettling, Advance
<1>22. ASSUME NEW c \in Calls, FreeSettled(c) PROVE Control'
  BY <1>0, <1>22 DEF FreeSettled, Advance
<1>23. ASSUME NEW c \in Calls, AwaitUsage(c) PROVE Control'
  BY <1>0, <1>23 DEF AwaitUsage
<1>24. ASSUME NEW c \in Calls, SaveUsage(c) PROVE Control'
  BY <1>0, <1>24 DEF SaveUsage
<1>25. ASSUME NEW c \in Calls, DecideUncertain(c) PROVE Control'
  BY <1>0, <1>25 DEF DecideUncertain
<1>26. ASSUME NEW c \in Calls, DecideSettle(c) PROVE Control'
  BY <1>0, <1>26 DEF DecideSettle
<1>27. ASSUME NEW c \in Calls, Final(c) PROVE Control'
  BY <1>0, <1>27 DEF Final
<1>28. ASSUME NEW c \in Calls, Complete(c) PROVE Control'
  BY <1>0, <1>28 DEF Complete
<1>29. ASSUME NEW c \in Calls, PayCancelled(c) PROVE Control'
  BY <1>0, <1>29 DEF PayCancelled
<1>30. ASSUME NEW c \in Calls, MarkKey(c) PROVE Control'
  BY <1>0, <1>30 DEF MarkKey
<1>31. ASSUME NEW x \in Procs, PayReplay(x) PROVE Control'
  BY <1>0, <1>31 DEF PayReplay, Succeeded
<1>32. ASSUME NEW x \in Procs, PayClaim(x) PROVE Control'
  BY <1>0, <1>32 DEF PayClaim, Failed
<1>33. ASSUME NEW x \in Procs, PayIntent(x) PROVE Control'
  BY <1>0, <1>33 DEF PayIntent
<1>34. ASSUME NEW x \in Procs, PayIntentRefused(x) PROVE Control'
  BY <1>0, <1>34 DEF PayIntentRefused, Failed
<1>35. ASSUME NEW x \in Procs, PayExec(x) PROVE Control'
  BY <1>0, <1>35 DEF PayExec, Failed
<1>36. ASSUME NEW x \in Procs, PayReply(x) PROVE Control'
  BY <1>0, <1>36 DEF PayReply
<1>37. ASSUME NEW x \in Procs, PayStore(x) PROVE Control'
  BY <1>0, <1>37 DEF PayStore
<1>38. ASSUME NEW x \in Procs, PayDone(x) PROVE Control'
  BY <1>0, <1>38 DEF PayDone, Succeeded
<1>39. ASSUME NEW x \in Procs, PayError(x) PROVE Control'
  BY <1>0, <1>39 DEF PayError, Failed
<1>40. ASSUME NEW x \in Procs, MarkReservation(x) PROVE Control'
  BY <1>0, <1>40 DEF MarkReservation
<1>41. ASSUME NEW x \in Procs, MarkPrepared(x) PROVE Control'
  BY <1>0, <1>41 DEF MarkPrepared
<1>42. ASSUME NEW x \in Procs, MarkAttempt(x) PROVE Control'
  BY <1>0, <1>42 DEF MarkAttempt, AfterMark
<1>43. ASSUME NEW x \in Procs, Dispute(x) PROVE Control'
  BY <1>0, <1>43 DEF Dispute, AfterMark
<1>44. ASSUME NEW x \in Procs, Crash(x) PROVE Control'
  BY <1>0, <1>44 DEF Crash
<1>45. ASSUME NEW r \in Recoverers, FinalizeLink(r) PROVE Control'
  BY <1>0, <1>45 DEF FinalizeLink
<1>46. ASSUME NEW r \in Recoverers, FinalizeKey(r) PROVE Control'
  BY <1>0, <1>46 DEF FinalizeKey
<1>47. ASSUME NEW r \in Recoverers, CancelOrphan(r) PROVE Control'
  BY <1>0, <1>47 DEF CancelOrphan
<1>48. ASSUME NEW r \in Recoverers, RecoverReserved(r) PROVE Control'
  BY <1>0, <1>48 DEF RecoverReserved
<1>49. ASSUME NEW r \in Recoverers, RecoverDispute(r) PROVE Control'
  BY <1>0, <1>49 DEF RecoverDispute
<1>50. ASSUME NEW r \in Recoverers, RecoverSettle(r) PROVE Control'
  BY <1>0, <1>50 DEF RecoverSettle
<1>51. ASSUME NEW r \in Recoverers, RecoverNoEvidence(r) PROVE Control'
  BY <1>0, <1>51 DEF RecoverNoEvidence
<1>52. ASSUME NEW r \in Recoverers, RecoverError(r) PROVE Control'
  BY <1>0, <1>52 DEF RecoverError
<1>53. ASSUME NEW r \in Recoverers, NEW p \in Prepared, FinalizeRelease(r, p) PROVE Control'
  BY <1>0, <1>53 DEF FinalizeRelease
<1>54. ASSUME NEW r \in Recoverers, NEW p \in Prepared, AbandonReleased(r, p) PROVE Control'
  BY <1>0, <1>54 DEF AbandonReleased
<1>55. ASSUME NEW r \in Recoverers, NEW p \in Prepared, SettleFree(r, p) PROVE Control'
  BY <1>0, <1>55 DEF SettleFree
<1>56. ASSUME NEW r \in Recoverers, NEW p \in Prepared, FinalizeSettled(r, p) PROVE Control'
  BY <1>0, <1>56 DEF FinalizeSettled
<1>57. ASSUME NEW r \in Recoverers, NEW p \in Prepared, Scan(r, p) PROVE Control'
  BY <1>0, <1>57 DEF Scan
<1>58. ASSUME NEW o \in Operators, NEW p \in Prepared, CancelPrepared(o, p) PROVE Control'
  BY <1>0, <1>58 DEF CancelPrepared
<1>59. ASSUME NEW p \in Prepared, ShowPrepared(p) PROVE Control'
  BY <1>0, <1>59 DEF ShowPrepared
<1>60. ASSUME NEW p \in Prepared, Expire(p) PROVE Control'
  BY <1>0, <1>60 DEF Expire
<1>61. ASSUME NEW p \in Prepared, NEW o \in Ops, RailPerform(p, o) PROVE Control'
  BY <1>0, <1>61 DEF RailPerform
<1>62. QED
  BY <1>1, <1>2, <1>3, <1>4, <1>5, <1>6, <1>7, <1>8, <1>9, <1>10, <1>11, <1>12,
     <1>13, <1>14, <1>15, <1>16, <1>17, <1>18, <1>19, <1>20, <1>21, <1>22, <1>23, <1>24,
     <1>25, <1>26, <1>27, <1>28, <1>29, <1>30, <1>31, <1>32, <1>33, <1>34, <1>35, <1>36,
     <1>37, <1>38, <1>39, <1>40, <1>41, <1>42, <1>43, <1>44, <1>45, <1>46, <1>47, <1>48,
     <1>49, <1>50, <1>51, <1>52, <1>53, <1>54, <1>55, <1>56, <1>57, <1>58, <1>59, <1>60, <1>61
     DEF Next, BeforeGate, AfterGate, Payment, Mark, Recover, Finalize

(* The initial state is typed and every process is idle.                   *)
LEMMA TypeInit == Init => TypeOK /\ Control
<1> SUFFICES ASSUME Init PROVE TypeOK /\ Control
  OBVIOUS
<1> USE DEF Init
<1>1. DecisionTypes /\ AttemptTypes /\ HistoryTypes
  BY DEF DecisionTypes, AttemptTypes, HistoryTypes, PreparedStates, AttemptStates
<1>2. PaymentTypes /\ EvidenceTypes /\ KeyTypes
  BY DEF PaymentTypes, EvidenceTypes, KeyTypes, ReservationStates, OperationStates
<1>3. RailTypes /\ LocalTypes
  BY DEF RailTypes, LocalTypes, Labels, Evidence
<1>4. Control
  BY DEF Control, Procs, PayLabels
<1> QED
  BY <1>1, <1>2, <1>3, <1>4 DEF TypeOK

(* A stuttering step changes nothing the invariants speak about.           *)
LEMMA TypeStutter ==
    ASSUME TypeOK, Control, UNCHANGED vars
    PROVE  TypeOK' /\ Control'
<1> USE DEF vars, decisionVars, paymentVars, evidenceVars, keyVars, attemptVars, railVars,
          localVars, historyVars
<1>1. TypeOK'
  BY DEF TypeOK, DecisionTypes, PaymentTypes, EvidenceTypes, KeyTypes, AttemptTypes, RailTypes,
         LocalTypes, HistoryTypes
<1>2. Control'
  BY DEF Control
<1> QED
  BY <1>1, <1>2

(* The type invariant holds in every reachable state, whatever the number  *)
(* of decisions, calls, recoverers and operators: in particular a step     *)
(* never reads the decision, the operation or the claim of a process that  *)
(* has none.                                                               *)
THEOREM TypeCorrect == Spec => [](TypeOK /\ Control)
<1>1. TypeOK /\ Control /\ [Next]_vars => (TypeOK /\ Control)'
  BY TypeStep, ControlStep, TypeStutter
<1> QED
  BY TypeInit, <1>1, PTL DEF Spec

-----------------------------------------------------------------------------
(* The invariant is inductive, part by part.                               *)

(* Every step keeps decisions with the call that claimed them.             *)
LEMMA OwnershipStep ==
    ASSUME TypeOK, Control, Ownership, Next
    PROVE  Ownership'
<1> USE DEF decisionVars, paymentVars, evidenceVars, keyVars, attemptVars, railVars,
          localVars, historyVars, Goto, Stay, Leave, Enter, MoveTo, Control, Ownership, Owner,
          PastGate, Uninvoked, Procs, PayLabels, MarkLabels, BeforeLabels, UntilReceipt,
          AfterLabels, PaidLabels, LocalTypes, DecisionTypes, HistoryTypes
<1> USE ProcAssumption
<1>0. LocalTypes /\ DecisionTypes /\ HistoryTypes
  BY DEF TypeOK
<1>1. ASSUME NEW c \in Calls, NEW p \in Prepared, Start(c, p) PROVE Ownership'
  BY <1>0, <1>1 DEF Start
<1>2. ASSUME NEW c \in Calls, CreateAttempt(c) PROVE Ownership'
  BY <1>0, <1>2 DEF CreateAttempt
<1>3. ASSUME NEW c \in Calls, Claim(c) PROVE Ownership'
  BY <1>0, <1>3 DEF Claim, Claimable
<1>4. ASSUME NEW c \in Calls, ClaimRefused(c) PROVE Ownership'
  BY <1>0, <1>4 DEF ClaimRefused, Claimable
<1>5. ASSUME NEW c \in Calls, Reserve(c) PROVE Ownership'
  BY <1>0, <1>5 DEF Reserve
<1>6. ASSUME NEW c \in Calls, ReserveRefused(c) PROVE Ownership'
  BY <1>0, <1>6 DEF ReserveRefused
<1>7. ASSUME NEW c \in Calls, ReserveReply(c) PROVE Ownership'
  BY <1>0, <1>7 DEF ReserveReply
<1>8. ASSUME NEW c \in Calls, ReserveError(c) PROVE Ownership'
  BY <1>0, <1>8 DEF ReserveError
<1>9. ASSUME NEW c \in Calls, ReserveCancelled(c) PROVE Ownership'
  BY <1>0, <1>9 DEF ReserveCancelled
<1>10. ASSUME NEW c \in Calls, Reserved(c) PROVE Ownership'
  BY <1>0, <1>10 DEF Reserved
<1>11. ASSUME NEW c \in Calls, Gate(c) PROVE Ownership'
  BY <1>0, <1>11 DEF Gate, GateOpen
<1>12. ASSUME NEW c \in Calls, Refused(c) PROVE Ownership'
  BY <1>0, <1>12 DEF Refused
<1>13. ASSUME NEW c \in Calls, Abandon(c) PROVE Ownership'
  BY <1>0, <1>13 DEF Abandon, Abandonable, Releases
<1>14. ASSUME NEW c \in Calls, AttemptFail(c) PROVE Ownership'
  BY <1>0, <1>14 DEF AttemptFail
<1>15. ASSUME NEW c \in Calls, Begin(c) PROVE Ownership'
  BY <1>0, <1>15 DEF Begin
<1>16. ASSUME NEW c \in Calls, KeyExecuting(c) PROVE Ownership'
  BY <1>0, <1>16 DEF KeyExecuting
<1>17. ASSUME NEW c \in Calls, Invoke(c) PROVE Ownership'
  BY <1>0, <1>17 DEF Invoke
<1>18. ASSUME NEW c \in Calls, InvokeRaises(c) PROVE Ownership'
  BY <1>0, <1>18 DEF InvokeRaises
<1>19. ASSUME NEW c \in Calls, Return(c) PROVE Ownership'
  BY <1>0, <1>19 DEF Return
<1>20. ASSUME NEW c \in Calls, Validate(c) PROVE Ownership'
  BY <1>0, <1>20 DEF Validate, Results, Evidence
<1>21. ASSUME NEW c \in Calls, FreeSettling(c) PROVE Ownership'
  BY <1>0, <1>21 DEF FreeSettling, Advance
<1>22. ASSUME NEW c \in Calls, FreeSettled(c) PROVE Ownership'
  BY <1>0, <1>22 DEF FreeSettled, Advance
<1>23. ASSUME NEW c \in Calls, AwaitUsage(c) PROVE Ownership'
  BY <1>0, <1>23 DEF AwaitUsage
<1>24. ASSUME NEW c \in Calls, SaveUsage(c) PROVE Ownership'
  BY <1>0, <1>24 DEF SaveUsage
<1>25. ASSUME NEW c \in Calls, DecideUncertain(c) PROVE Ownership'
  BY <1>0, <1>25 DEF DecideUncertain
<1>26. ASSUME NEW c \in Calls, DecideSettle(c) PROVE Ownership'
  BY <1>0, <1>26 DEF DecideSettle
<1>27. ASSUME NEW c \in Calls, Final(c) PROVE Ownership'
  BY <1>0, <1>27 DEF Final
<1>28. ASSUME NEW c \in Calls, Complete(c) PROVE Ownership'
  BY <1>0, <1>28 DEF Complete
<1>29. ASSUME NEW c \in Calls, PayCancelled(c) PROVE Ownership'
  BY <1>0, <1>29 DEF PayCancelled
<1>30. ASSUME NEW c \in Calls, MarkKey(c) PROVE Ownership'
  BY <1>0, <1>30 DEF MarkKey
<1>31. ASSUME NEW x \in Procs, PayReplay(x) PROVE Ownership'
  BY <1>0, <1>31 DEF PayReplay, Succeeded
<1>32. ASSUME NEW x \in Procs, PayClaim(x) PROVE Ownership'
  BY <1>0, <1>32 DEF PayClaim, Failed
<1>33. ASSUME NEW x \in Procs, PayIntent(x) PROVE Ownership'
  BY <1>0, <1>33 DEF PayIntent
<1>34. ASSUME NEW x \in Procs, PayIntentRefused(x) PROVE Ownership'
  BY <1>0, <1>34 DEF PayIntentRefused, Failed
<1>35. ASSUME NEW x \in Procs, PayExec(x) PROVE Ownership'
  BY <1>0, <1>35 DEF PayExec, Failed
<1>36. ASSUME NEW x \in Procs, PayReply(x) PROVE Ownership'
  BY <1>0, <1>36 DEF PayReply
<1>37. ASSUME NEW x \in Procs, PayStore(x) PROVE Ownership'
  BY <1>0, <1>37 DEF PayStore, Storable
<1>38. ASSUME NEW x \in Procs, PayDone(x) PROVE Ownership'
  BY <1>0, <1>38 DEF PayDone, Succeeded
<1>39. ASSUME NEW x \in Procs, PayError(x) PROVE Ownership'
  BY <1>0, <1>39 DEF PayError, Storable, Failed
<1>40. ASSUME NEW x \in Procs, MarkReservation(x) PROVE Ownership'
  BY <1>0, <1>40 DEF MarkReservation
<1>41. ASSUME NEW x \in Procs, MarkPrepared(x) PROVE Ownership'
  BY <1>0, <1>41 DEF MarkPrepared
<1>42. ASSUME NEW x \in Procs, MarkAttempt(x) PROVE Ownership'
  BY <1>0, <1>42 DEF MarkAttempt, AfterMark
<1>43. ASSUME NEW x \in Procs, Dispute(x) PROVE Ownership'
  BY <1>0, <1>43 DEF Dispute, AfterMark
<1>44. ASSUME NEW x \in Procs, Crash(x) PROVE Ownership'
  BY <1>0, <1>44 DEF Crash
<1>45. ASSUME NEW r \in Recoverers, FinalizeLink(r) PROVE Ownership'
  BY <1>0, <1>45 DEF FinalizeLink
<1>46. ASSUME NEW r \in Recoverers, FinalizeKey(r) PROVE Ownership'
  BY <1>0, <1>46 DEF FinalizeKey
<1>47. ASSUME NEW r \in Recoverers, CancelOrphan(r) PROVE Ownership'
  BY <1>0, <1>47 DEF CancelOrphan, Abandonable, Releases
<1>48. ASSUME NEW r \in Recoverers, RecoverReserved(r) PROVE Ownership'
  BY <1>0, <1>48 DEF RecoverReserved, Releases
<1>49. ASSUME NEW r \in Recoverers, RecoverDispute(r) PROVE Ownership'
  BY <1>0, <1>49 DEF RecoverDispute, PostInvocation
<1>50. ASSUME NEW r \in Recoverers, RecoverSettle(r) PROVE Ownership'
  BY <1>0, <1>50 DEF RecoverSettle, PostInvocation
<1>51. ASSUME NEW r \in Recoverers, RecoverNoEvidence(r) PROVE Ownership'
  BY <1>0, <1>51 DEF RecoverNoEvidence, PostInvocation
<1>52. ASSUME NEW r \in Recoverers, RecoverError(r) PROVE Ownership'
  BY <1>0, <1>52 DEF RecoverError
<1>53. ASSUME NEW r \in Recoverers, NEW p \in Prepared, FinalizeRelease(r, p) PROVE Ownership'
  BY <1>0, <1>53 DEF FinalizeRelease, Releases
<1>54. ASSUME NEW r \in Recoverers, NEW p \in Prepared, AbandonReleased(r, p) PROVE Ownership'
  BY <1>0, <1>54 DEF AbandonReleased, Abandonable, Releases
<1>55. ASSUME NEW r \in Recoverers, NEW p \in Prepared, SettleFree(r, p) PROVE Ownership'
  BY <1>0, <1>55 DEF SettleFree
<1>56. ASSUME NEW r \in Recoverers, NEW p \in Prepared, FinalizeSettled(r, p) PROVE Ownership'
  BY <1>0, <1>56 DEF FinalizeSettled
<1>57. ASSUME NEW r \in Recoverers, NEW p \in Prepared, Scan(r, p) PROVE Ownership'
  BY <1>0, <1>57 DEF Scan
<1>58. ASSUME NEW o \in Operators, NEW p \in Prepared, CancelPrepared(o, p) PROVE Ownership'
  BY <1>0, <1>58 DEF CancelPrepared
<1>59. ASSUME NEW p \in Prepared, ShowPrepared(p) PROVE Ownership'
  BY <1>0, <1>59 DEF ShowPrepared
<1>60. ASSUME NEW p \in Prepared, Expire(p) PROVE Ownership'
  BY <1>0, <1>60 DEF Expire
<1>61. ASSUME NEW p \in Prepared, NEW o \in Ops, RailPerform(p, o) PROVE Ownership'
  BY <1>0, <1>61 DEF RailPerform
<1>62. QED
  BY <1>1, <1>2, <1>3, <1>4, <1>5, <1>6, <1>7, <1>8, <1>9, <1>10, <1>11, <1>12,
     <1>13, <1>14, <1>15, <1>16, <1>17, <1>18, <1>19, <1>20, <1>21, <1>22, <1>23, <1>24,
     <1>25, <1>26, <1>27, <1>28, <1>29, <1>30, <1>31, <1>32, <1>33, <1>34, <1>35, <1>36,
     <1>37, <1>38, <1>39, <1>40, <1>41, <1>42, <1>43, <1>44, <1>45, <1>46, <1>47, <1>48,
     <1>49, <1>50, <1>51, <1>52, <1>53, <1>54, <1>55, <1>56, <1>57, <1>58, <1>59, <1>60, <1>61
     DEF Next, BeforeGate, AfterGate, Payment, Mark, Recover, Finalize

(* Every step keeps an idempotency key with one decision.                  *)
LEMMA KeyStep ==
    ASSUME TypeOK, Control, Ownership, KeyOwnership, Next
    PROVE  KeyOwnership'
<1> USE DEF decisionVars, paymentVars, evidenceVars, keyVars, attemptVars, railVars,
          localVars, historyVars, Goto, Stay, Leave, Enter, MoveTo, KeyOwnership, Keyed,
          DecisionTypes, KeyTypes, LocalTypes
<1> USE ProcAssumption, DecisionAssumption
<1>0. DecisionTypes /\ KeyTypes /\ LocalTypes
  BY DEF TypeOK
<1>1. ASSUME NEW c \in Calls, NEW p \in Prepared, Start(c, p) PROVE KeyOwnership'
  BY <1>0, <1>1 DEF Start
<1>2. ASSUME NEW c \in Calls, CreateAttempt(c) PROVE KeyOwnership'
  BY <1>0, <1>2 DEF CreateAttempt
<1>3. ASSUME NEW c \in Calls, Claim(c) PROVE KeyOwnership'
  BY <1>0, <1>3 DEF Claim, Claimable, KeyClaimable, Control, Procs
<1>4. ASSUME NEW c \in Calls, ClaimRefused(c) PROVE KeyOwnership'
  BY <1>0, <1>4 DEF ClaimRefused, Claimable, KeyClaimable
<1>5. ASSUME NEW c \in Calls, Reserve(c) PROVE KeyOwnership'
  BY <1>0, <1>5 DEF Reserve
<1>6. ASSUME NEW c \in Calls, ReserveRefused(c) PROVE KeyOwnership'
  BY <1>0, <1>6 DEF ReserveRefused
<1>7. ASSUME NEW c \in Calls, ReserveReply(c) PROVE KeyOwnership'
  BY <1>0, <1>7 DEF ReserveReply
<1>8. ASSUME NEW c \in Calls, ReserveError(c) PROVE KeyOwnership'
  BY <1>0, <1>8 DEF ReserveError
<1>9. ASSUME NEW c \in Calls, ReserveCancelled(c) PROVE KeyOwnership'
  BY <1>0, <1>9 DEF ReserveCancelled
<1>10. ASSUME NEW c \in Calls, Reserved(c) PROVE KeyOwnership'
  BY <1>0, <1>10 DEF Reserved
<1>11. ASSUME NEW c \in Calls, Gate(c) PROVE KeyOwnership'
  BY <1>0, <1>11 DEF Gate, GateOpen
<1>12. ASSUME NEW c \in Calls, Refused(c) PROVE KeyOwnership'
  BY <1>0, <1>12 DEF Refused
<1>13. ASSUME NEW c \in Calls, Abandon(c) PROVE KeyOwnership'
  BY <1>0, <1>13 DEF Abandon, Abandonable, DropKey, Releases, Control, Procs
<1>14. ASSUME NEW c \in Calls, AttemptFail(c) PROVE KeyOwnership'
  BY <1>0, <1>14 DEF AttemptFail
<1>15. ASSUME NEW c \in Calls, Begin(c) PROVE KeyOwnership'
  BY <1>0, <1>15 DEF Begin
<1>16. ASSUME NEW c \in Calls, KeyExecuting(c) PROVE KeyOwnership'
  BY <1>0, <1>16 DEF KeyExecuting, Control, Procs
<1>17. ASSUME NEW c \in Calls, Invoke(c) PROVE KeyOwnership'
  BY <1>0, <1>17 DEF Invoke
<1>18. ASSUME NEW c \in Calls, InvokeRaises(c) PROVE KeyOwnership'
  BY <1>0, <1>18 DEF InvokeRaises
<1>19. ASSUME NEW c \in Calls, Return(c) PROVE KeyOwnership'
  BY <1>0, <1>19 DEF Return
<1>20. ASSUME NEW c \in Calls, Validate(c) PROVE KeyOwnership'
  BY <1>0, <1>20 DEF Validate, Results, Evidence
<1>21. ASSUME NEW c \in Calls, FreeSettling(c) PROVE KeyOwnership'
  BY <1>0, <1>21 DEF FreeSettling, Advance
<1>22. ASSUME NEW c \in Calls, FreeSettled(c) PROVE KeyOwnership'
  BY <1>0, <1>22 DEF FreeSettled, Advance
<1>23. ASSUME NEW c \in Calls, AwaitUsage(c) PROVE KeyOwnership'
  BY <1>0, <1>23 DEF AwaitUsage
<1>24. ASSUME NEW c \in Calls, SaveUsage(c) PROVE KeyOwnership'
  BY <1>0, <1>24 DEF SaveUsage
<1>25. ASSUME NEW c \in Calls, DecideUncertain(c) PROVE KeyOwnership'
  BY <1>0, <1>25 DEF DecideUncertain
<1>26. ASSUME NEW c \in Calls, DecideSettle(c) PROVE KeyOwnership'
  BY <1>0, <1>26 DEF DecideSettle
<1>27. ASSUME NEW c \in Calls, Final(c) PROVE KeyOwnership'
  BY <1>0, <1>27 DEF Final
<1>28. ASSUME NEW c \in Calls, Complete(c) PROVE KeyOwnership'
  BY <1>0, <1>28 DEF Complete, Completable, CompleteKey, Control, Procs
<1>29. ASSUME NEW c \in Calls, PayCancelled(c) PROVE KeyOwnership'
  BY <1>0, <1>29 DEF PayCancelled
<1>30. ASSUME NEW c \in Calls, MarkKey(c) PROVE KeyOwnership'
  BY <1>0, <1>30 DEF MarkKey, Control, Procs
<1>31. ASSUME NEW x \in Procs, PayReplay(x) PROVE KeyOwnership'
  BY <1>0, <1>31 DEF PayReplay
<1>32. ASSUME NEW x \in Procs, PayClaim(x) PROVE KeyOwnership'
  BY <1>0, <1>32 DEF PayClaim
<1>33. ASSUME NEW x \in Procs, PayIntent(x) PROVE KeyOwnership'
  BY <1>0, <1>33 DEF PayIntent
<1>34. ASSUME NEW x \in Procs, PayIntentRefused(x) PROVE KeyOwnership'
  BY <1>0, <1>34 DEF PayIntentRefused
<1>35. ASSUME NEW x \in Procs, PayExec(x) PROVE KeyOwnership'
  BY <1>0, <1>35 DEF PayExec
<1>36. ASSUME NEW x \in Procs, PayReply(x) PROVE KeyOwnership'
  BY <1>0, <1>36 DEF PayReply
<1>37. ASSUME NEW x \in Procs, PayStore(x) PROVE KeyOwnership'
  BY <1>0, <1>37 DEF PayStore, Storable
<1>38. ASSUME NEW x \in Procs, PayDone(x) PROVE KeyOwnership'
  BY <1>0, <1>38 DEF PayDone
<1>39. ASSUME NEW x \in Procs, PayError(x) PROVE KeyOwnership'
  BY <1>0, <1>39 DEF PayError, Storable
<1>40. ASSUME NEW x \in Procs, MarkReservation(x) PROVE KeyOwnership'
  BY <1>0, <1>40 DEF MarkReservation
<1>41. ASSUME NEW x \in Procs, MarkPrepared(x) PROVE KeyOwnership'
  BY <1>0, <1>41 DEF MarkPrepared
<1>42. ASSUME NEW x \in Procs, MarkAttempt(x) PROVE KeyOwnership'
  BY <1>0, <1>42 DEF MarkAttempt
<1>43. ASSUME NEW x \in Procs, Dispute(x) PROVE KeyOwnership'
  BY <1>0, <1>43 DEF Dispute
<1>44. ASSUME NEW x \in Procs, Crash(x) PROVE KeyOwnership'
  BY <1>0, <1>44 DEF Crash
<1>45. ASSUME NEW r \in Recoverers, FinalizeLink(r) PROVE KeyOwnership'
  BY <1>0, <1>45 DEF FinalizeLink
<1>46. ASSUME NEW r \in Recoverers, FinalizeKey(r) PROVE KeyOwnership'
  BY <1>0, <1>46 DEF FinalizeKey, Completable, CompleteKey, Control, Procs
<1>47. ASSUME NEW r \in Recoverers, CancelOrphan(r) PROVE KeyOwnership'
  BY <1>0, <1>47 DEF CancelOrphan, Abandonable, DropKey, Releases, Control, Procs
<1>48. ASSUME NEW r \in Recoverers, RecoverReserved(r) PROVE KeyOwnership'
  BY <1>0, <1>48 DEF RecoverReserved, Releases
<1>49. ASSUME NEW r \in Recoverers, RecoverDispute(r) PROVE KeyOwnership'
  BY <1>0, <1>49 DEF RecoverDispute
<1>50. ASSUME NEW r \in Recoverers, RecoverSettle(r) PROVE KeyOwnership'
  BY <1>0, <1>50 DEF RecoverSettle
<1>51. ASSUME NEW r \in Recoverers, RecoverNoEvidence(r) PROVE KeyOwnership'
  BY <1>0, <1>51 DEF RecoverNoEvidence
<1>52. ASSUME NEW r \in Recoverers, RecoverError(r) PROVE KeyOwnership'
  BY <1>0, <1>52 DEF RecoverError
<1>53. ASSUME NEW r \in Recoverers, NEW p \in Prepared, FinalizeRelease(r, p) PROVE KeyOwnership'
  BY <1>0, <1>53 DEF FinalizeRelease, Releases
<1>54. ASSUME NEW r \in Recoverers, NEW p \in Prepared, AbandonReleased(r, p) PROVE KeyOwnership'
  BY <1>0, <1>54 DEF AbandonReleased, Abandonable, DropKey, Releases
<1>55. ASSUME NEW r \in Recoverers, NEW p \in Prepared, SettleFree(r, p) PROVE KeyOwnership'
  BY <1>0, <1>55 DEF SettleFree
<1>56. ASSUME NEW r \in Recoverers, NEW p \in Prepared, FinalizeSettled(r, p) PROVE KeyOwnership'
  BY <1>0, <1>56 DEF FinalizeSettled
<1>57. ASSUME NEW r \in Recoverers, NEW p \in Prepared, Scan(r, p) PROVE KeyOwnership'
  BY <1>0, <1>57 DEF Scan
<1>58. ASSUME NEW o \in Operators, NEW p \in Prepared, CancelPrepared(o, p) PROVE KeyOwnership'
  BY <1>0, <1>58 DEF CancelPrepared
<1>59. ASSUME NEW p \in Prepared, ShowPrepared(p) PROVE KeyOwnership'
  BY <1>0, <1>59 DEF ShowPrepared
<1>60. ASSUME NEW p \in Prepared, Expire(p) PROVE KeyOwnership'
  BY <1>0, <1>60 DEF Expire
<1>61. ASSUME NEW p \in Prepared, NEW o \in Ops, RailPerform(p, o) PROVE KeyOwnership'
  BY <1>0, <1>61 DEF RailPerform
<1>62. QED
  BY <1>1, <1>2, <1>3, <1>4, <1>5, <1>6, <1>7, <1>8, <1>9, <1>10, <1>11, <1>12,
     <1>13, <1>14, <1>15, <1>16, <1>17, <1>18, <1>19, <1>20, <1>21, <1>22, <1>23, <1>24,
     <1>25, <1>26, <1>27, <1>28, <1>29, <1>30, <1>31, <1>32, <1>33, <1>34, <1>35, <1>36,
     <1>37, <1>38, <1>39, <1>40, <1>41, <1>42, <1>43, <1>44, <1>45, <1>46, <1>47, <1>48,
     <1>49, <1>50, <1>51, <1>52, <1>53, <1>54, <1>55, <1>56, <1>57, <1>58, <1>59, <1>60, <1>61
     DEF Next, BeforeGate, AfterGate, Payment, Mark, Recover, Finalize

(* Every step keeps free decisions away from the payment labels.           *)
LEMMA PaidStep ==
    ASSUME TypeOK, Control, PaidOnly, Next
    PROVE  PaidOnly'
<1> USE DEF decisionVars, paymentVars, evidenceVars, keyVars, attemptVars, railVars,
          localVars, historyVars, Goto, Stay, Leave, Enter, MoveTo, Control, PaidOnly, Free,
          Procs, PayLabels, MarkLabels, PaidLabels, LocalTypes, DecisionTypes
<1> USE ProcAssumption
<1>0. LocalTypes /\ DecisionTypes
  BY DEF TypeOK
<1>1. ASSUME NEW c \in Calls, NEW p \in Prepared, Start(c, p) PROVE PaidOnly'
  BY <1>0, <1>1 DEF Start
<1>2. ASSUME NEW c \in Calls, CreateAttempt(c) PROVE PaidOnly'
  BY <1>0, <1>2 DEF CreateAttempt
<1>3. ASSUME NEW c \in Calls, Claim(c) PROVE PaidOnly'
  BY <1>0, <1>3 DEF Claim
<1>4. ASSUME NEW c \in Calls, ClaimRefused(c) PROVE PaidOnly'
  BY <1>0, <1>4 DEF ClaimRefused
<1>5. ASSUME NEW c \in Calls, Reserve(c) PROVE PaidOnly'
  BY <1>0, <1>5 DEF Reserve
<1>6. ASSUME NEW c \in Calls, ReserveRefused(c) PROVE PaidOnly'
  BY <1>0, <1>6 DEF ReserveRefused
<1>7. ASSUME NEW c \in Calls, ReserveReply(c) PROVE PaidOnly'
  BY <1>0, <1>7 DEF ReserveReply
<1>8. ASSUME NEW c \in Calls, ReserveError(c) PROVE PaidOnly'
  BY <1>0, <1>8 DEF ReserveError
<1>9. ASSUME NEW c \in Calls, ReserveCancelled(c) PROVE PaidOnly'
  BY <1>0, <1>9 DEF ReserveCancelled
<1>10. ASSUME NEW c \in Calls, Reserved(c) PROVE PaidOnly'
  BY <1>0, <1>10 DEF Reserved
<1>11. ASSUME NEW c \in Calls, Gate(c) PROVE PaidOnly'
  BY <1>0, <1>11 DEF Gate, GateOpen
<1>12. ASSUME NEW c \in Calls, Refused(c) PROVE PaidOnly'
  BY <1>0, <1>12 DEF Refused
<1>13. ASSUME NEW c \in Calls, Abandon(c) PROVE PaidOnly'
  BY <1>0, <1>13 DEF Abandon
<1>14. ASSUME NEW c \in Calls, AttemptFail(c) PROVE PaidOnly'
  BY <1>0, <1>14 DEF AttemptFail
<1>15. ASSUME NEW c \in Calls, Begin(c) PROVE PaidOnly'
  BY <1>0, <1>15 DEF Begin
<1>16. ASSUME NEW c \in Calls, KeyExecuting(c) PROVE PaidOnly'
  BY <1>0, <1>16 DEF KeyExecuting
<1>17. ASSUME NEW c \in Calls, Invoke(c) PROVE PaidOnly'
  BY <1>0, <1>17 DEF Invoke
<1>18. ASSUME NEW c \in Calls, InvokeRaises(c) PROVE PaidOnly'
  BY <1>0, <1>18 DEF InvokeRaises
<1>19. ASSUME NEW c \in Calls, Return(c) PROVE PaidOnly'
  BY <1>0, <1>19 DEF Return
<1>20. ASSUME NEW c \in Calls, Validate(c) PROVE PaidOnly'
  BY <1>0, <1>20 DEF Validate, Results, Evidence
<1>21. ASSUME NEW c \in Calls, FreeSettling(c) PROVE PaidOnly'
  BY <1>0, <1>21 DEF FreeSettling, Advance
<1>22. ASSUME NEW c \in Calls, FreeSettled(c) PROVE PaidOnly'
  BY <1>0, <1>22 DEF FreeSettled, Advance
<1>23. ASSUME NEW c \in Calls, AwaitUsage(c) PROVE PaidOnly'
  BY <1>0, <1>23 DEF AwaitUsage
<1>24. ASSUME NEW c \in Calls, SaveUsage(c) PROVE PaidOnly'
  BY <1>0, <1>24 DEF SaveUsage
<1>25. ASSUME NEW c \in Calls, DecideUncertain(c) PROVE PaidOnly'
  BY <1>0, <1>25 DEF DecideUncertain
<1>26. ASSUME NEW c \in Calls, DecideSettle(c) PROVE PaidOnly'
  BY <1>0, <1>26 DEF DecideSettle
<1>27. ASSUME NEW c \in Calls, Final(c) PROVE PaidOnly'
  BY <1>0, <1>27 DEF Final
<1>28. ASSUME NEW c \in Calls, Complete(c) PROVE PaidOnly'
  BY <1>0, <1>28 DEF Complete
<1>29. ASSUME NEW c \in Calls, PayCancelled(c) PROVE PaidOnly'
  BY <1>0, <1>29 DEF PayCancelled
<1>30. ASSUME NEW c \in Calls, MarkKey(c) PROVE PaidOnly'
  BY <1>0, <1>30 DEF MarkKey
<1>31. ASSUME NEW x \in Procs, PayReplay(x) PROVE PaidOnly'
  BY <1>0, <1>31 DEF PayReplay, Succeeded
<1>32. ASSUME NEW x \in Procs, PayClaim(x) PROVE PaidOnly'
  BY <1>0, <1>32 DEF PayClaim, Failed
<1>33. ASSUME NEW x \in Procs, PayIntent(x) PROVE PaidOnly'
  BY <1>0, <1>33 DEF PayIntent
<1>34. ASSUME NEW x \in Procs, PayIntentRefused(x) PROVE PaidOnly'
  BY <1>0, <1>34 DEF PayIntentRefused, Failed
<1>35. ASSUME NEW x \in Procs, PayExec(x) PROVE PaidOnly'
  BY <1>0, <1>35 DEF PayExec, Failed
<1>36. ASSUME NEW x \in Procs, PayReply(x) PROVE PaidOnly'
  BY <1>0, <1>36 DEF PayReply
<1>37. ASSUME NEW x \in Procs, PayStore(x) PROVE PaidOnly'
  BY <1>0, <1>37 DEF PayStore, Storable
<1>38. ASSUME NEW x \in Procs, PayDone(x) PROVE PaidOnly'
  BY <1>0, <1>38 DEF PayDone, Succeeded
<1>39. ASSUME NEW x \in Procs, PayError(x) PROVE PaidOnly'
  BY <1>0, <1>39 DEF PayError, Storable, Failed
<1>40. ASSUME NEW x \in Procs, MarkReservation(x) PROVE PaidOnly'
  BY <1>0, <1>40 DEF MarkReservation
<1>41. ASSUME NEW x \in Procs, MarkPrepared(x) PROVE PaidOnly'
  BY <1>0, <1>41 DEF MarkPrepared
<1>42. ASSUME NEW x \in Procs, MarkAttempt(x) PROVE PaidOnly'
  BY <1>0, <1>42 DEF MarkAttempt, AfterMark
<1>43. ASSUME NEW x \in Procs, Dispute(x) PROVE PaidOnly'
  BY <1>0, <1>43 DEF Dispute, AfterMark
<1>44. ASSUME NEW x \in Procs, Crash(x) PROVE PaidOnly'
  BY <1>0, <1>44 DEF Crash
<1>45. ASSUME NEW r \in Recoverers, FinalizeLink(r) PROVE PaidOnly'
  BY <1>0, <1>45 DEF FinalizeLink
<1>46. ASSUME NEW r \in Recoverers, FinalizeKey(r) PROVE PaidOnly'
  BY <1>0, <1>46 DEF FinalizeKey
<1>47. ASSUME NEW r \in Recoverers, CancelOrphan(r) PROVE PaidOnly'
  BY <1>0, <1>47 DEF CancelOrphan
<1>48. ASSUME NEW r \in Recoverers, RecoverReserved(r) PROVE PaidOnly'
  BY <1>0, <1>48 DEF RecoverReserved, Releases
<1>49. ASSUME NEW r \in Recoverers, RecoverDispute(r) PROVE PaidOnly'
  BY <1>0, <1>49 DEF RecoverDispute, Evidenced
<1>50. ASSUME NEW r \in Recoverers, RecoverSettle(r) PROVE PaidOnly'
  BY <1>0, <1>50 DEF RecoverSettle, Evidenced
<1>51. ASSUME NEW r \in Recoverers, RecoverNoEvidence(r) PROVE PaidOnly'
  BY <1>0, <1>51 DEF RecoverNoEvidence, Evidenced
<1>52. ASSUME NEW r \in Recoverers, RecoverError(r) PROVE PaidOnly'
  BY <1>0, <1>52 DEF RecoverError
<1>53. ASSUME NEW r \in Recoverers, NEW p \in Prepared, FinalizeRelease(r, p) PROVE PaidOnly'
  BY <1>0, <1>53 DEF FinalizeRelease, Releases
<1>54. ASSUME NEW r \in Recoverers, NEW p \in Prepared, AbandonReleased(r, p) PROVE PaidOnly'
  BY <1>0, <1>54 DEF AbandonReleased
<1>55. ASSUME NEW r \in Recoverers, NEW p \in Prepared, SettleFree(r, p) PROVE PaidOnly'
  BY <1>0, <1>55 DEF SettleFree
<1>56. ASSUME NEW r \in Recoverers, NEW p \in Prepared, FinalizeSettled(r, p) PROVE PaidOnly'
  BY <1>0, <1>56 DEF FinalizeSettled
<1>57. ASSUME NEW r \in Recoverers, NEW p \in Prepared, Scan(r, p) PROVE PaidOnly'
  BY <1>0, <1>57 DEF Scan, Recoverable, Incomplete
<1>58. ASSUME NEW o \in Operators, NEW p \in Prepared, CancelPrepared(o, p) PROVE PaidOnly'
  BY <1>0, <1>58 DEF CancelPrepared
<1>59. ASSUME NEW p \in Prepared, ShowPrepared(p) PROVE PaidOnly'
  BY <1>0, <1>59 DEF ShowPrepared
<1>60. ASSUME NEW p \in Prepared, Expire(p) PROVE PaidOnly'
  BY <1>0, <1>60 DEF Expire
<1>61. ASSUME NEW p \in Prepared, NEW o \in Ops, RailPerform(p, o) PROVE PaidOnly'
  BY <1>0, <1>61 DEF RailPerform
<1>62. QED
  BY <1>1, <1>2, <1>3, <1>4, <1>5, <1>6, <1>7, <1>8, <1>9, <1>10, <1>11, <1>12,
     <1>13, <1>14, <1>15, <1>16, <1>17, <1>18, <1>19, <1>20, <1>21, <1>22, <1>23, <1>24,
     <1>25, <1>26, <1>27, <1>28, <1>29, <1>30, <1>31, <1>32, <1>33, <1>34, <1>35, <1>36,
     <1>37, <1>38, <1>39, <1>40, <1>41, <1>42, <1>43, <1>44, <1>45, <1>46, <1>47, <1>48,
     <1>49, <1>50, <1>51, <1>52, <1>53, <1>54, <1>55, <1>56, <1>57, <1>58, <1>59, <1>60, <1>61
     DEF Next, BeforeGate, AfterGate, Payment, Mark, Recover, Finalize

(* Every step keeps the reservation in step with the decision.             *)
LEMMA AccountsStep ==
    ASSUME TypeOK, Control, Ownership, PaidOnly, Accounts, Next
    PROVE  Accounts'
<1> USE DEF decisionVars, paymentVars, evidenceVars, keyVars, attemptVars, railVars,
          localVars, historyVars, Goto, Stay, Leave, Enter, MoveTo, Accounts, Untouched, Held,
          Closed, PostInvocation, Releases, Intents, DecisionTypes, PaymentTypes, LocalTypes
<1>0. DecisionTypes /\ PaymentTypes /\ LocalTypes
  BY DEF TypeOK
<1>1. ASSUME NEW c \in Calls, NEW p \in Prepared, Start(c, p) PROVE Accounts'
  BY <1>0, <1>1 DEF Start
<1>2. ASSUME NEW c \in Calls, CreateAttempt(c) PROVE Accounts'
  BY <1>0, <1>2 DEF CreateAttempt
<1>3. ASSUME NEW c \in Calls, Claim(c) PROVE Accounts'
  BY <1>0, <1>3 DEF Claim, Free
<1>4. ASSUME NEW c \in Calls, ClaimRefused(c) PROVE Accounts'
  BY <1>0, <1>4 DEF ClaimRefused
<1>5. ASSUME NEW c \in Calls, Reserve(c) PROVE Accounts'
  BY <1>0, <1>5 DEF Reserve, Control, Ownership, PaidOnly, PastGate, Owner, Procs, PayLabels,
         MarkLabels, BeforeLabels, UntilReceipt, AfterLabels, PaidLabels
<1>6. ASSUME NEW c \in Calls, ReserveRefused(c) PROVE Accounts'
  BY <1>0, <1>6 DEF ReserveRefused
<1>7. ASSUME NEW c \in Calls, ReserveReply(c) PROVE Accounts'
  BY <1>0, <1>7 DEF ReserveReply
<1>8. ASSUME NEW c \in Calls, ReserveError(c) PROVE Accounts'
  BY <1>0, <1>8 DEF ReserveError, Control, Ownership, PaidOnly, PastGate, Owner, Procs,
         PayLabels, MarkLabels, BeforeLabels, UntilReceipt, AfterLabels, PaidLabels
<1>9. ASSUME NEW c \in Calls, ReserveCancelled(c) PROVE Accounts'
  BY <1>0, <1>9 DEF ReserveCancelled
<1>10. ASSUME NEW c \in Calls, Reserved(c) PROVE Accounts'
  BY <1>0, <1>10 DEF Reserved
<1>11. ASSUME NEW c \in Calls, Gate(c) PROVE Accounts'
  BY <1>0, <1>11 DEF Gate, GateOpen, Free, Control, Ownership, PaidOnly, PastGate, Owner,
         Procs, PayLabels, MarkLabels, BeforeLabels, UntilReceipt, AfterLabels, PaidLabels
<1>12. ASSUME NEW c \in Calls, Refused(c) PROVE Accounts'
  BY <1>0, <1>12 DEF Refused, Free
<1>13. ASSUME NEW c \in Calls, Abandon(c) PROVE Accounts'
  BY <1>0, <1>13 DEF Abandon, Abandonable, Control, Ownership, PaidOnly, PastGate, Owner,
         Procs, PayLabels, MarkLabels, BeforeLabels, UntilReceipt, AfterLabels, PaidLabels
<1>14. ASSUME NEW c \in Calls, AttemptFail(c) PROVE Accounts'
  BY <1>0, <1>14 DEF AttemptFail
<1>15. ASSUME NEW c \in Calls, Begin(c) PROVE Accounts'
  BY <1>0, <1>15 DEF Begin
<1>16. ASSUME NEW c \in Calls, KeyExecuting(c) PROVE Accounts'
  BY <1>0, <1>16 DEF KeyExecuting
<1>17. ASSUME NEW c \in Calls, Invoke(c) PROVE Accounts'
  BY <1>0, <1>17 DEF Invoke
<1>18. ASSUME NEW c \in Calls, InvokeRaises(c) PROVE Accounts'
  BY <1>0, <1>18 DEF InvokeRaises
<1>19. ASSUME NEW c \in Calls, Return(c) PROVE Accounts'
  BY <1>0, <1>19 DEF Return
<1>20. ASSUME NEW c \in Calls, Validate(c) PROVE Accounts'
  BY <1>0, <1>20 DEF Validate, Results, Evidence, Free
<1>21. ASSUME NEW c \in Calls, FreeSettling(c) PROVE Accounts'
  BY <1>0, <1>21 DEF FreeSettling, Advance, Control, Ownership, PaidOnly, PastGate, Owner,
         Procs, PayLabels, MarkLabels, BeforeLabels, UntilReceipt, AfterLabels, PaidLabels
<1>22. ASSUME NEW c \in Calls, FreeSettled(c) PROVE Accounts'
  BY <1>0, <1>22 DEF FreeSettled, Advance, Control, Ownership, PaidOnly, PastGate, Owner,
         Procs, PayLabels, MarkLabels, BeforeLabels, UntilReceipt, AfterLabels, PaidLabels
<1>23. ASSUME NEW c \in Calls, AwaitUsage(c) PROVE Accounts'
  BY <1>0, <1>23 DEF AwaitUsage, Control, Ownership, PaidOnly, PastGate, Owner, Procs,
         PayLabels, MarkLabels, BeforeLabels, UntilReceipt, AfterLabels, PaidLabels
<1>24. ASSUME NEW c \in Calls, SaveUsage(c) PROVE Accounts'
  BY <1>0, <1>24 DEF SaveUsage
<1>25. ASSUME NEW c \in Calls, DecideUncertain(c) PROVE Accounts'
  BY <1>0, <1>25 DEF DecideUncertain
<1>26. ASSUME NEW c \in Calls, DecideSettle(c) PROVE Accounts'
  BY <1>0, <1>26 DEF DecideSettle, Control, Ownership, PaidOnly, PastGate, Owner, Procs,
         PayLabels, MarkLabels, BeforeLabels, UntilReceipt, AfterLabels, PaidLabels
<1>27. ASSUME NEW c \in Calls, Final(c) PROVE Accounts'
  BY <1>0, <1>27 DEF Final, Free
<1>28. ASSUME NEW c \in Calls, Complete(c) PROVE Accounts'
  BY <1>0, <1>28 DEF Complete, Free
<1>29. ASSUME NEW c \in Calls, PayCancelled(c) PROVE Accounts'
  BY <1>0, <1>29 DEF PayCancelled
<1>30. ASSUME NEW c \in Calls, MarkKey(c) PROVE Accounts'
  BY <1>0, <1>30 DEF MarkKey
<1>31. ASSUME NEW x \in Procs, PayReplay(x) PROVE Accounts'
  BY <1>0, <1>31 DEF PayReplay
<1>32. ASSUME NEW x \in Procs, PayClaim(x) PROVE Accounts'
  BY <1>0, <1>32 DEF PayClaim, Required
<1>33. ASSUME NEW x \in Procs, PayIntent(x) PROVE Accounts'
  BY <1>0, <1>33 DEF PayIntent, IntentResumes, IntentOpens, Required, Control, Ownership,
         PaidOnly, PastGate, Owner, Procs, PayLabels, MarkLabels, BeforeLabels, UntilReceipt,
         AfterLabels, PaidLabels
<1>34. ASSUME NEW x \in Procs, PayIntentRefused(x) PROVE Accounts'
  BY <1>0, <1>34 DEF PayIntentRefused, IntentResumes, IntentOpens, Required
<1>35. ASSUME NEW x \in Procs, PayExec(x) PROVE Accounts'
  BY <1>0, <1>35 DEF PayExec
<1>36. ASSUME NEW x \in Procs, PayReply(x) PROVE Accounts'
  BY <1>0, <1>36 DEF PayReply
<1>37. ASSUME NEW x \in Procs, PayStore(x) PROVE Accounts'
  BY <1>0, <1>37 DEF PayStore, Storable, Control, Ownership, PaidOnly, PastGate, Owner, Procs,
         PayLabels, MarkLabels, BeforeLabels, UntilReceipt, AfterLabels, PaidLabels
<1>38. ASSUME NEW x \in Procs, PayDone(x) PROVE Accounts'
  BY <1>0, <1>38 DEF PayDone
<1>39. ASSUME NEW x \in Procs, PayError(x) PROVE Accounts'
  BY <1>0, <1>39 DEF PayError, Storable, Control, Ownership, PaidOnly, PastGate, Owner, Procs,
         PayLabels, MarkLabels, BeforeLabels, UntilReceipt, AfterLabels, PaidLabels
<1>40. ASSUME NEW x \in Procs, MarkReservation(x) PROVE Accounts'
  BY <1>0, <1>40 DEF MarkReservation, Control, Ownership, PaidOnly, PastGate, Owner, Procs,
         PayLabels, MarkLabels, BeforeLabels, UntilReceipt, AfterLabels, PaidLabels
<1>41. ASSUME NEW x \in Procs, MarkPrepared(x) PROVE Accounts'
  BY <1>0, <1>41 DEF MarkPrepared, Control, Ownership, PaidOnly, PastGate, Owner, Procs,
         PayLabels, MarkLabels, BeforeLabels, UntilReceipt, AfterLabels, PaidLabels
<1>42. ASSUME NEW x \in Procs, MarkAttempt(x) PROVE Accounts'
  BY <1>0, <1>42 DEF MarkAttempt
<1>43. ASSUME NEW x \in Procs, Dispute(x) PROVE Accounts'
  BY <1>0, <1>43 DEF Dispute, Control, Ownership, PaidOnly, PastGate, Owner, Procs, PayLabels,
         MarkLabels, BeforeLabels, UntilReceipt, AfterLabels, PaidLabels
<1>44. ASSUME NEW x \in Procs, Crash(x) PROVE Accounts'
  BY <1>0, <1>44 DEF Crash
<1>45. ASSUME NEW r \in Recoverers, FinalizeLink(r) PROVE Accounts'
  BY <1>0, <1>45 DEF FinalizeLink
<1>46. ASSUME NEW r \in Recoverers, FinalizeKey(r) PROVE Accounts'
  BY <1>0, <1>46 DEF FinalizeKey
<1>47. ASSUME NEW r \in Recoverers, CancelOrphan(r) PROVE Accounts'
  BY <1>0, <1>47 DEF CancelOrphan, Abandonable, Control, Ownership, PaidOnly, PastGate, Owner,
         Procs, PayLabels, MarkLabels, BeforeLabels, UntilReceipt, AfterLabels, PaidLabels
<1>48. ASSUME NEW r \in Recoverers, RecoverReserved(r) PROVE Accounts'
  BY <1>0, <1>48 DEF RecoverReserved
<1>49. ASSUME NEW r \in Recoverers, RecoverDispute(r) PROVE Accounts'
  BY <1>0, <1>49 DEF RecoverDispute
<1>50. ASSUME NEW r \in Recoverers, RecoverSettle(r) PROVE Accounts'
  BY <1>0, <1>50 DEF RecoverSettle, Control, Ownership, PaidOnly, PastGate, Owner, Procs,
         PayLabels, MarkLabels, BeforeLabels, UntilReceipt, AfterLabels, PaidLabels
<1>51. ASSUME NEW r \in Recoverers, RecoverNoEvidence(r) PROVE Accounts'
  BY <1>0, <1>51 DEF RecoverNoEvidence
<1>52. ASSUME NEW r \in Recoverers, RecoverError(r) PROVE Accounts'
  BY <1>0, <1>52 DEF RecoverError
<1>53. ASSUME NEW r \in Recoverers, NEW p \in Prepared, FinalizeRelease(r, p) PROVE Accounts'
  BY <1>0, <1>53 DEF FinalizeRelease
<1>54. ASSUME NEW r \in Recoverers, NEW p \in Prepared, AbandonReleased(r, p) PROVE Accounts'
  BY <1>0, <1>54 DEF AbandonReleased, Abandonable
<1>55. ASSUME NEW r \in Recoverers, NEW p \in Prepared, SettleFree(r, p) PROVE Accounts'
  BY <1>0, <1>55 DEF SettleFree, Free, Control, Ownership, PaidOnly, PastGate, Owner, Procs,
         PayLabels, MarkLabels, BeforeLabels, UntilReceipt, AfterLabels, PaidLabels
<1>56. ASSUME NEW r \in Recoverers, NEW p \in Prepared, FinalizeSettled(r, p) PROVE Accounts'
  BY <1>0, <1>56 DEF FinalizeSettled
<1>57. ASSUME NEW r \in Recoverers, NEW p \in Prepared, Scan(r, p) PROVE Accounts'
  BY <1>0, <1>57 DEF Scan
<1>58. ASSUME NEW o \in Operators, NEW p \in Prepared, CancelPrepared(o, p) PROVE Accounts'
  BY <1>0, <1>58 DEF CancelPrepared, Control, Ownership, PaidOnly, PastGate, Owner, Procs,
         PayLabels, MarkLabels, BeforeLabels, UntilReceipt, AfterLabels, PaidLabels
<1>59. ASSUME NEW p \in Prepared, ShowPrepared(p) PROVE Accounts'
  BY <1>0, <1>59 DEF ShowPrepared
<1>60. ASSUME NEW p \in Prepared, Expire(p) PROVE Accounts'
  BY <1>0, <1>60 DEF Expire
<1>61. ASSUME NEW p \in Prepared, NEW o \in Ops, RailPerform(p, o) PROVE Accounts'
  BY <1>0, <1>61 DEF RailPerform
<1>62. QED
  BY <1>1, <1>2, <1>3, <1>4, <1>5, <1>6, <1>7, <1>8, <1>9, <1>10, <1>11, <1>12,
     <1>13, <1>14, <1>15, <1>16, <1>17, <1>18, <1>19, <1>20, <1>21, <1>22, <1>23, <1>24,
     <1>25, <1>26, <1>27, <1>28, <1>29, <1>30, <1>31, <1>32, <1>33, <1>34, <1>35, <1>36,
     <1>37, <1>38, <1>39, <1>40, <1>41, <1>42, <1>43, <1>44, <1>45, <1>46, <1>47, <1>48,
     <1>49, <1>50, <1>51, <1>52, <1>53, <1>54, <1>55, <1>56, <1>57, <1>58, <1>59, <1>60, <1>61
     DEF Next, BeforeGate, AfterGate, Payment, Mark, Recover, Finalize

(* An operation that owns the money keeps it when an intent is claimed ...  *)
LEMMA IntentKeepsOwner ==
    ASSUME TypeOK, Control, Accounts, NEW x \in Procs, PayIntent(x),
           NEW p \in Prepared, NEW o \in Intents, Committed(p, o)
    PROVE  Committed(p, o)'
<1>1. LocalTypes /\ PaymentTypes /\ DecisionTypes
  BY DEF TypeOK
<1>2. at[x] \in Prepared /\ job[x] \in Intents
  BY <1>1 DEF Control, PayIntent, PayLabels
<1>3. CASE p # at[x]
  BY <1>1, <1>2, <1>3 DEF PayIntent, Committed, PaymentTypes
<1>4. CASE p = at[x] /\ IntentResumes(p, job[x])
  <2>1. res[p] = "SETTLING" /\ intent[p] = job[x]
    BY <1>4 DEF IntentResumes
  <2>2. intent[p] = o
    BY <1>1, <1>2, <1>4, <2>1 DEF Committed, Accounts, Untouched, Held, Closed, PostInvocation,
           Intents, Releases, DecisionTypes, PreparedStates
  <2> QED
    BY <1>1, <1>2, <1>4, <2>1, <2>2 DEF PayIntent, Committed, PaymentTypes
<1>5. CASE p = at[x] /\ IntentOpens(p, job[x])
  <2>1. res[p] \in {"RESERVED", "INDETERMINATE"} /\ intent[p] \in {job[x], "none"}
    BY <1>5 DEF IntentOpens
  <2>2. intent[p] = o
    BY <1>1, <1>2, <1>5, <2>1 DEF Committed, Accounts, Untouched, Held, Closed, PostInvocation,
           Intents, Releases, DecisionTypes, PreparedStates
  <2>3. o = job[x]
    BY <2>1, <2>2 DEF Intents, Releases
  <2> QED
    BY <1>1, <1>2, <1>5, <2>2, <2>3 DEF PayIntent, Committed, PaymentTypes
<1> QED
  BY <1>3, <1>4, <1>5 DEF PayIntent

(* ... and when its receipt is stored.                                      *)
LEMMA StoreKeepsOwner ==
    ASSUME TypeOK, Control, Accounts, NEW x \in Procs, PayStore(x),
           NEW p \in Prepared, NEW o \in Intents, Committed(p, o)
    PROVE  Committed(p, o)'
<1>1. LocalTypes /\ PaymentTypes
  BY DEF TypeOK
<1>2. at[x] \in Prepared /\ job[x] \in Intents
  BY <1>1 DEF Control, PayStore, PayLabels
<1>3. settlement[at[x]] = "none" /\ intent[at[x]] = job[x]
  BY DEF PayStore, Storable
<1>4. CASE p # at[x]
  BY <1>1, <1>2, <1>4 DEF PayStore, Committed, PaymentTypes
<1>5. CASE p = at[x]
  <2>1. o = job[x]
    BY <1>3, <1>5 DEF Committed, Intents, Releases
  <2> QED
    BY <1>1, <1>2, <1>5, <2>1 DEF PayStore, Committed, PaymentTypes
<1> QED
  BY <1>4, <1>5

(* Every step keeps the rail to the one operation that owns the money.     *)
LEMMA RailStep ==
    ASSUME TypeOK, Control, Accounts, RailAgrees, PayersCommitted, Next
    PROVE  RailAgrees'
<1> USE DEF decisionVars, paymentVars, evidenceVars, keyVars, attemptVars, railVars,
          localVars, historyVars, Goto, Stay, Leave, Enter, MoveTo, RailAgrees, Intents,
          Releases, Ops, PaymentTypes, RailTypes
<1>0. PaymentTypes /\ RailTypes
  BY DEF TypeOK
<1>1. ASSUME NEW c \in Calls, NEW p \in Prepared, Start(c, p) PROVE RailAgrees'
  BY <1>0, <1>1 DEF Start, Committed
<1>2. ASSUME NEW c \in Calls, CreateAttempt(c) PROVE RailAgrees'
  BY <1>0, <1>2 DEF CreateAttempt, Committed
<1>3. ASSUME NEW c \in Calls, Claim(c) PROVE RailAgrees'
  BY <1>0, <1>3 DEF Claim, Committed
<1>4. ASSUME NEW c \in Calls, ClaimRefused(c) PROVE RailAgrees'
  BY <1>0, <1>4 DEF ClaimRefused, Committed
<1>5. ASSUME NEW c \in Calls, Reserve(c) PROVE RailAgrees'
  BY <1>0, <1>5 DEF Reserve, Committed
<1>6. ASSUME NEW c \in Calls, ReserveRefused(c) PROVE RailAgrees'
  BY <1>0, <1>6 DEF ReserveRefused, Committed
<1>7. ASSUME NEW c \in Calls, ReserveReply(c) PROVE RailAgrees'
  BY <1>0, <1>7 DEF ReserveReply, Committed
<1>8. ASSUME NEW c \in Calls, ReserveError(c) PROVE RailAgrees'
  BY <1>0, <1>8 DEF ReserveError, Committed
<1>9. ASSUME NEW c \in Calls, ReserveCancelled(c) PROVE RailAgrees'
  BY <1>0, <1>9 DEF ReserveCancelled, Committed
<1>10. ASSUME NEW c \in Calls, Reserved(c) PROVE RailAgrees'
  BY <1>0, <1>10 DEF Reserved, Committed
<1>11. ASSUME NEW c \in Calls, Gate(c) PROVE RailAgrees'
  BY <1>0, <1>11 DEF Gate, Committed
<1>12. ASSUME NEW c \in Calls, Refused(c) PROVE RailAgrees'
  BY <1>0, <1>12 DEF Refused, Committed
<1>13. ASSUME NEW c \in Calls, Abandon(c) PROVE RailAgrees'
  BY <1>0, <1>13 DEF Abandon, Committed
<1>14. ASSUME NEW c \in Calls, AttemptFail(c) PROVE RailAgrees'
  BY <1>0, <1>14 DEF AttemptFail, Committed
<1>15. ASSUME NEW c \in Calls, Begin(c) PROVE RailAgrees'
  BY <1>0, <1>15 DEF Begin, Committed
<1>16. ASSUME NEW c \in Calls, KeyExecuting(c) PROVE RailAgrees'
  BY <1>0, <1>16 DEF KeyExecuting, Committed
<1>17. ASSUME NEW c \in Calls, Invoke(c) PROVE RailAgrees'
  BY <1>0, <1>17 DEF Invoke, Committed
<1>18. ASSUME NEW c \in Calls, InvokeRaises(c) PROVE RailAgrees'
  BY <1>0, <1>18 DEF InvokeRaises, Committed
<1>19. ASSUME NEW c \in Calls, Return(c) PROVE RailAgrees'
  BY <1>0, <1>19 DEF Return, Committed
<1>20. ASSUME NEW c \in Calls, Validate(c) PROVE RailAgrees'
  BY <1>0, <1>20 DEF Validate, Results, Evidence, Committed
<1>21. ASSUME NEW c \in Calls, FreeSettling(c) PROVE RailAgrees'
  BY <1>0, <1>21 DEF FreeSettling, Advance, Committed
<1>22. ASSUME NEW c \in Calls, FreeSettled(c) PROVE RailAgrees'
  BY <1>0, <1>22 DEF FreeSettled, Advance, Committed
<1>23. ASSUME NEW c \in Calls, AwaitUsage(c) PROVE RailAgrees'
  BY <1>0, <1>23 DEF AwaitUsage, Committed
<1>24. ASSUME NEW c \in Calls, SaveUsage(c) PROVE RailAgrees'
  BY <1>0, <1>24 DEF SaveUsage, Committed
<1>25. ASSUME NEW c \in Calls, DecideUncertain(c) PROVE RailAgrees'
  BY <1>0, <1>25 DEF DecideUncertain, Committed
<1>26. ASSUME NEW c \in Calls, DecideSettle(c) PROVE RailAgrees'
  BY <1>0, <1>26 DEF DecideSettle, Committed
<1>27. ASSUME NEW c \in Calls, Final(c) PROVE RailAgrees'
  BY <1>0, <1>27 DEF Final, Committed
<1>28. ASSUME NEW c \in Calls, Complete(c) PROVE RailAgrees'
  BY <1>0, <1>28 DEF Complete, Committed
<1>29. ASSUME NEW c \in Calls, PayCancelled(c) PROVE RailAgrees'
  BY <1>0, <1>29 DEF PayCancelled, Committed
<1>30. ASSUME NEW c \in Calls, MarkKey(c) PROVE RailAgrees'
  BY <1>0, <1>30 DEF MarkKey, Committed
<1>31. ASSUME NEW x \in Procs, PayReplay(x) PROVE RailAgrees'
  BY <1>0, <1>31 DEF PayReplay, Committed
<1>32. ASSUME NEW x \in Procs, PayClaim(x) PROVE RailAgrees'
  BY <1>0, <1>32 DEF PayClaim, Committed
<1>33. ASSUME NEW x \in Procs, PayIntent(x) PROVE RailAgrees'
  <2>1. \A p \in Prepared, o \in Intents : Committed(p, o) => Committed(p, o)'
    BY <1>33, IntentKeepsOwner
  <2> QED
    BY <1>0, <1>33, <2>1 DEF PayIntent
<1>34. ASSUME NEW x \in Procs, PayIntentRefused(x) PROVE RailAgrees'
  BY <1>0, <1>34 DEF PayIntentRefused, Committed
<1>35. ASSUME NEW x \in Procs, PayExec(x) PROVE RailAgrees'
  <2>1. at[x] \in Prepared /\ Committed(at[x], job[x])
    BY <1>35 DEF PayExec, Control, PayersCommitted
  <2> QED
    BY <1>0, <1>35, <2>1 DEF PayExec, Committed
<1>36. ASSUME NEW x \in Procs, PayReply(x) PROVE RailAgrees'
  BY <1>0, <1>36 DEF PayReply, Committed
<1>37. ASSUME NEW x \in Procs, PayStore(x) PROVE RailAgrees'
  <2>1. \A p \in Prepared, o \in Intents : Committed(p, o) => Committed(p, o)'
    BY <1>37, StoreKeepsOwner
  <2>2. at[x] \in Prepared /\ job[x] \in rail[at[x]]
    BY <1>37 DEF PayStore, Control, PayersCommitted
  <2> QED
    BY <1>0, <1>37, <2>1, <2>2 DEF PayStore
<1>38. ASSUME NEW x \in Procs, PayDone(x) PROVE RailAgrees'
  BY <1>0, <1>38 DEF PayDone, Committed
<1>39. ASSUME NEW x \in Procs, PayError(x) PROVE RailAgrees'
  BY <1>0, <1>39 DEF PayError, Committed
<1>40. ASSUME NEW x \in Procs, MarkReservation(x) PROVE RailAgrees'
  BY <1>0, <1>40 DEF MarkReservation, Committed
<1>41. ASSUME NEW x \in Procs, MarkPrepared(x) PROVE RailAgrees'
  BY <1>0, <1>41 DEF MarkPrepared, Committed
<1>42. ASSUME NEW x \in Procs, MarkAttempt(x) PROVE RailAgrees'
  BY <1>0, <1>42 DEF MarkAttempt, Committed
<1>43. ASSUME NEW x \in Procs, Dispute(x) PROVE RailAgrees'
  BY <1>0, <1>43 DEF Dispute, Committed
<1>44. ASSUME NEW x \in Procs, Crash(x) PROVE RailAgrees'
  BY <1>0, <1>44 DEF Crash, Committed
<1>45. ASSUME NEW r \in Recoverers, FinalizeLink(r) PROVE RailAgrees'
  BY <1>0, <1>45 DEF FinalizeLink, Committed
<1>46. ASSUME NEW r \in Recoverers, FinalizeKey(r) PROVE RailAgrees'
  BY <1>0, <1>46 DEF FinalizeKey, Committed
<1>47. ASSUME NEW r \in Recoverers, CancelOrphan(r) PROVE RailAgrees'
  BY <1>0, <1>47 DEF CancelOrphan, Committed
<1>48. ASSUME NEW r \in Recoverers, RecoverReserved(r) PROVE RailAgrees'
  BY <1>0, <1>48 DEF RecoverReserved, Committed
<1>49. ASSUME NEW r \in Recoverers, RecoverDispute(r) PROVE RailAgrees'
  BY <1>0, <1>49 DEF RecoverDispute, Committed
<1>50. ASSUME NEW r \in Recoverers, RecoverSettle(r) PROVE RailAgrees'
  BY <1>0, <1>50 DEF RecoverSettle, Committed
<1>51. ASSUME NEW r \in Recoverers, RecoverNoEvidence(r) PROVE RailAgrees'
  BY <1>0, <1>51 DEF RecoverNoEvidence, Committed
<1>52. ASSUME NEW r \in Recoverers, RecoverError(r) PROVE RailAgrees'
  BY <1>0, <1>52 DEF RecoverError, Committed
<1>53. ASSUME NEW r \in Recoverers, NEW p \in Prepared, FinalizeRelease(r, p) PROVE RailAgrees'
  BY <1>0, <1>53 DEF FinalizeRelease, Committed
<1>54. ASSUME NEW r \in Recoverers, NEW p \in Prepared, AbandonReleased(r, p) PROVE RailAgrees'
  BY <1>0, <1>54 DEF AbandonReleased, Committed
<1>55. ASSUME NEW r \in Recoverers, NEW p \in Prepared, SettleFree(r, p) PROVE RailAgrees'
  BY <1>0, <1>55 DEF SettleFree, Committed
<1>56. ASSUME NEW r \in Recoverers, NEW p \in Prepared, FinalizeSettled(r, p) PROVE RailAgrees'
  BY <1>0, <1>56 DEF FinalizeSettled, Committed
<1>57. ASSUME NEW r \in Recoverers, NEW p \in Prepared, Scan(r, p) PROVE RailAgrees'
  BY <1>0, <1>57 DEF Scan, Committed
<1>58. ASSUME NEW o \in Operators, NEW p \in Prepared, CancelPrepared(o, p) PROVE RailAgrees'
  BY <1>0, <1>58 DEF CancelPrepared, Committed
<1>59. ASSUME NEW p \in Prepared, ShowPrepared(p) PROVE RailAgrees'
  BY <1>0, <1>59 DEF ShowPrepared, Committed
<1>60. ASSUME NEW p \in Prepared, Expire(p) PROVE RailAgrees'
  BY <1>0, <1>60 DEF Expire, Committed
<1>61. ASSUME NEW p \in Prepared, NEW o \in Ops, RailPerform(p, o) PROVE RailAgrees'
  BY <1>0, <1>61 DEF RailPerform, Committed
<1>62. QED
  BY <1>1, <1>2, <1>3, <1>4, <1>5, <1>6, <1>7, <1>8, <1>9, <1>10, <1>11, <1>12,
     <1>13, <1>14, <1>15, <1>16, <1>17, <1>18, <1>19, <1>20, <1>21, <1>22, <1>23, <1>24,
     <1>25, <1>26, <1>27, <1>28, <1>29, <1>30, <1>31, <1>32, <1>33, <1>34, <1>35, <1>36,
     <1>37, <1>38, <1>39, <1>40, <1>41, <1>42, <1>43, <1>44, <1>45, <1>46, <1>47, <1>48,
     <1>49, <1>50, <1>51, <1>52, <1>53, <1>54, <1>55, <1>56, <1>57, <1>58, <1>59, <1>60, <1>61
     DEF Next, BeforeGate, AfterGate, Payment, Mark, Recover, Finalize

(* Every step keeps a paying process on the operation that owns the money. *)
LEMMA PayersStep ==
    ASSUME TypeOK, Control, Accounts, RailAgrees, PayersCommitted, Next
    PROVE  PayersCommitted'
<1> USE DEF decisionVars, paymentVars, evidenceVars, keyVars, attemptVars, railVars,
          localVars, historyVars, Goto, Stay, Leave, Enter, MoveTo, PayersCommitted, Procs,
          LocalTypes
<1> USE ProcAssumption
<1>0. LocalTypes
  BY DEF TypeOK
<1>1. ASSUME NEW c \in Calls, NEW p \in Prepared, Start(c, p) PROVE PayersCommitted'
  BY <1>0, <1>1 DEF Start, Committed
<1>2. ASSUME NEW c \in Calls, CreateAttempt(c) PROVE PayersCommitted'
  BY <1>0, <1>2 DEF CreateAttempt, Committed
<1>3. ASSUME NEW c \in Calls, Claim(c) PROVE PayersCommitted'
  BY <1>0, <1>3 DEF Claim, Committed
<1>4. ASSUME NEW c \in Calls, ClaimRefused(c) PROVE PayersCommitted'
  BY <1>0, <1>4 DEF ClaimRefused, Committed
<1>5. ASSUME NEW c \in Calls, Reserve(c) PROVE PayersCommitted'
  BY <1>0, <1>5 DEF Reserve, Committed
<1>6. ASSUME NEW c \in Calls, ReserveRefused(c) PROVE PayersCommitted'
  BY <1>0, <1>6 DEF ReserveRefused, Committed
<1>7. ASSUME NEW c \in Calls, ReserveReply(c) PROVE PayersCommitted'
  BY <1>0, <1>7 DEF ReserveReply, Committed
<1>8. ASSUME NEW c \in Calls, ReserveError(c) PROVE PayersCommitted'
  BY <1>0, <1>8 DEF ReserveError, Committed
<1>9. ASSUME NEW c \in Calls, ReserveCancelled(c) PROVE PayersCommitted'
  BY <1>0, <1>9 DEF ReserveCancelled, Committed
<1>10. ASSUME NEW c \in Calls, Reserved(c) PROVE PayersCommitted'
  BY <1>0, <1>10 DEF Reserved, Committed
<1>11. ASSUME NEW c \in Calls, Gate(c) PROVE PayersCommitted'
  BY <1>0, <1>11 DEF Gate, Committed
<1>12. ASSUME NEW c \in Calls, Refused(c) PROVE PayersCommitted'
  BY <1>0, <1>12 DEF Refused, Committed
<1>13. ASSUME NEW c \in Calls, Abandon(c) PROVE PayersCommitted'
  BY <1>0, <1>13 DEF Abandon, Committed
<1>14. ASSUME NEW c \in Calls, AttemptFail(c) PROVE PayersCommitted'
  BY <1>0, <1>14 DEF AttemptFail, Committed
<1>15. ASSUME NEW c \in Calls, Begin(c) PROVE PayersCommitted'
  BY <1>0, <1>15 DEF Begin, Committed
<1>16. ASSUME NEW c \in Calls, KeyExecuting(c) PROVE PayersCommitted'
  BY <1>0, <1>16 DEF KeyExecuting, Committed
<1>17. ASSUME NEW c \in Calls, Invoke(c) PROVE PayersCommitted'
  BY <1>0, <1>17 DEF Invoke, Committed
<1>18. ASSUME NEW c \in Calls, InvokeRaises(c) PROVE PayersCommitted'
  BY <1>0, <1>18 DEF InvokeRaises, Committed
<1>19. ASSUME NEW c \in Calls, Return(c) PROVE PayersCommitted'
  BY <1>0, <1>19 DEF Return, Committed
<1>20. ASSUME NEW c \in Calls, Validate(c) PROVE PayersCommitted'
  BY <1>0, <1>20 DEF Validate, Results, Evidence, Committed
<1>21. ASSUME NEW c \in Calls, FreeSettling(c) PROVE PayersCommitted'
  BY <1>0, <1>21 DEF FreeSettling, Advance, Committed
<1>22. ASSUME NEW c \in Calls, FreeSettled(c) PROVE PayersCommitted'
  BY <1>0, <1>22 DEF FreeSettled, Advance, Committed
<1>23. ASSUME NEW c \in Calls, AwaitUsage(c) PROVE PayersCommitted'
  BY <1>0, <1>23 DEF AwaitUsage, Committed
<1>24. ASSUME NEW c \in Calls, SaveUsage(c) PROVE PayersCommitted'
  BY <1>0, <1>24 DEF SaveUsage, Committed
<1>25. ASSUME NEW c \in Calls, DecideUncertain(c) PROVE PayersCommitted'
  BY <1>0, <1>25 DEF DecideUncertain, Committed
<1>26. ASSUME NEW c \in Calls, DecideSettle(c) PROVE PayersCommitted'
  BY <1>0, <1>26 DEF DecideSettle, Committed
<1>27. ASSUME NEW c \in Calls, Final(c) PROVE PayersCommitted'
  BY <1>0, <1>27 DEF Final, Committed
<1>28. ASSUME NEW c \in Calls, Complete(c) PROVE PayersCommitted'
  BY <1>0, <1>28 DEF Complete, Committed
<1>29. ASSUME NEW c \in Calls, PayCancelled(c) PROVE PayersCommitted'
  BY <1>0, <1>29 DEF PayCancelled, Committed
<1>30. ASSUME NEW c \in Calls, MarkKey(c) PROVE PayersCommitted'
  BY <1>0, <1>30 DEF MarkKey, Committed
<1>31. ASSUME NEW x \in Procs, PayReplay(x) PROVE PayersCommitted'
  BY <1>0, <1>31 DEF PayReplay, Succeeded, Committed
<1>32. ASSUME NEW x \in Procs, PayClaim(x) PROVE PayersCommitted'
  BY <1>0, <1>32 DEF PayClaim, Failed, Committed
<1>33. ASSUME NEW x \in Procs, PayIntent(x) PROVE PayersCommitted'
  <2>1. \A p \in Prepared, o \in Intents : Committed(p, o) => Committed(p, o)'
    BY <1>33, IntentKeepsOwner
  <2>2. \A y \in Procs : pc[y] \in PayLabels => at[y] \in Prepared /\ job[y] \in Intents
    BY DEF Control, PayLabels
  <2>3. Committed(at[x], job[x])'
    <3>1. PaymentTypes
      BY DEF TypeOK
    <3> QED
      BY <1>0, <1>33, <2>2, <3>1 DEF PayIntent, Committed, IntentResumes, PaymentTypes, PayLabels
  <2>4. ASSUME NEW y \in Procs, pc'[y] \in {"pay_exec", "pay_rail", "pay_store", "pay_done"}
        PROVE  Committed(at[y], job[y])'
    <3>1. CASE y = x
      BY <2>3, <3>1
    <3>2. CASE y # x
      <4>1. at'[y] = at[y] /\ job'[y] = job[y] /\ pc[y] = pc'[y]
        BY <1>0, <1>33, <3>2 DEF PayIntent
      <4>2. Committed(at[y], job[y]) /\ at[y] \in Prepared /\ job[y] \in Intents
        BY <2>2, <2>4, <4>1 DEF PayLabels
      <4> QED
        BY <2>1, <4>1, <4>2 DEF Committed
    <3> QED
      BY <3>1, <3>2
  <2>5. ASSUME NEW y \in Procs, pc'[y] = "pay_store" PROVE job'[y] \in rail'[at'[y]]
    BY <1>0, <1>33, <2>5 DEF PayIntent
  <2> QED
    BY <2>4, <2>5
<1>34. ASSUME NEW x \in Procs, PayIntentRefused(x) PROVE PayersCommitted'
  BY <1>0, <1>34 DEF PayIntentRefused, Failed, Committed
<1>35. ASSUME NEW x \in Procs, PayExec(x) PROVE PayersCommitted'
  BY <1>0, <1>35 DEF PayExec, Failed, Committed
<1>36. ASSUME NEW x \in Procs, PayReply(x) PROVE PayersCommitted'
  BY <1>0, <1>36 DEF PayReply, Committed
<1>37. ASSUME NEW x \in Procs, PayStore(x) PROVE PayersCommitted'
  <2>1. \A p \in Prepared, o \in Intents : Committed(p, o) => Committed(p, o)'
    BY <1>37, StoreKeepsOwner
  <2>2. \A y \in Procs : pc[y] \in PayLabels => at[y] \in Prepared /\ job[y] \in Intents
    BY DEF Control, PayLabels
  <2>3. ASSUME NEW y \in Procs, pc'[y] \in {"pay_exec", "pay_rail", "pay_store", "pay_done"}
        PROVE  Committed(at[y], job[y])'
    <3>1. /\ at'[y] = at[y] /\ job'[y] = job[y]
          /\ pc[y] \in {"pay_exec", "pay_rail", "pay_store", "pay_done"}
      BY <1>0, <1>37, <2>3 DEF PayStore
    <3>2. Committed(at[y], job[y]) /\ at[y] \in Prepared /\ job[y] \in Intents
      BY <2>2, <3>1 DEF PayLabels
    <3> QED
      BY <2>1, <3>1, <3>2 DEF Committed
  <2>4. ASSUME NEW y \in Procs, pc'[y] = "pay_store" PROVE job'[y] \in rail'[at'[y]]
    BY <1>0, <1>37, <2>4 DEF PayStore
  <2> QED
    BY <2>3, <2>4
<1>38. ASSUME NEW x \in Procs, PayDone(x) PROVE PayersCommitted'
  BY <1>0, <1>38 DEF PayDone, Succeeded, Committed
<1>39. ASSUME NEW x \in Procs, PayError(x) PROVE PayersCommitted'
  BY <1>0, <1>39 DEF PayError, Failed, Committed
<1>40. ASSUME NEW x \in Procs, MarkReservation(x) PROVE PayersCommitted'
  BY <1>0, <1>40 DEF MarkReservation, Committed
<1>41. ASSUME NEW x \in Procs, MarkPrepared(x) PROVE PayersCommitted'
  BY <1>0, <1>41 DEF MarkPrepared, Committed
<1>42. ASSUME NEW x \in Procs, MarkAttempt(x) PROVE PayersCommitted'
  BY <1>0, <1>42 DEF MarkAttempt, AfterMark, Committed
<1>43. ASSUME NEW x \in Procs, Dispute(x) PROVE PayersCommitted'
  BY <1>0, <1>43 DEF Dispute, AfterMark, Committed
<1>44. ASSUME NEW x \in Procs, Crash(x) PROVE PayersCommitted'
  BY <1>0, <1>44 DEF Crash, Committed
<1>45. ASSUME NEW r \in Recoverers, FinalizeLink(r) PROVE PayersCommitted'
  BY <1>0, <1>45 DEF FinalizeLink, Committed
<1>46. ASSUME NEW r \in Recoverers, FinalizeKey(r) PROVE PayersCommitted'
  BY <1>0, <1>46 DEF FinalizeKey, Committed
<1>47. ASSUME NEW r \in Recoverers, CancelOrphan(r) PROVE PayersCommitted'
  BY <1>0, <1>47 DEF CancelOrphan, Committed
<1>48. ASSUME NEW r \in Recoverers, RecoverReserved(r) PROVE PayersCommitted'
  BY <1>0, <1>48 DEF RecoverReserved, Releases, Committed
<1>49. ASSUME NEW r \in Recoverers, RecoverDispute(r) PROVE PayersCommitted'
  BY <1>0, <1>49 DEF RecoverDispute, Committed
<1>50. ASSUME NEW r \in Recoverers, RecoverSettle(r) PROVE PayersCommitted'
  BY <1>0, <1>50 DEF RecoverSettle, Committed
<1>51. ASSUME NEW r \in Recoverers, RecoverNoEvidence(r) PROVE PayersCommitted'
  BY <1>0, <1>51 DEF RecoverNoEvidence, Committed
<1>52. ASSUME NEW r \in Recoverers, RecoverError(r) PROVE PayersCommitted'
  BY <1>0, <1>52 DEF RecoverError, Committed
<1>53. ASSUME NEW r \in Recoverers, NEW p \in Prepared, FinalizeRelease(r, p) PROVE PayersCommitted'
  BY <1>0, <1>53 DEF FinalizeRelease, Releases, Committed
<1>54. ASSUME NEW r \in Recoverers, NEW p \in Prepared, AbandonReleased(r, p) PROVE PayersCommitted'
  BY <1>0, <1>54 DEF AbandonReleased, Committed
<1>55. ASSUME NEW r \in Recoverers, NEW p \in Prepared, SettleFree(r, p) PROVE PayersCommitted'
  BY <1>0, <1>55 DEF SettleFree, Committed
<1>56. ASSUME NEW r \in Recoverers, NEW p \in Prepared, FinalizeSettled(r, p) PROVE PayersCommitted'
  BY <1>0, <1>56 DEF FinalizeSettled, Committed
<1>57. ASSUME NEW r \in Recoverers, NEW p \in Prepared, Scan(r, p) PROVE PayersCommitted'
  BY <1>0, <1>57 DEF Scan, Committed
<1>58. ASSUME NEW o \in Operators, NEW p \in Prepared, CancelPrepared(o, p) PROVE PayersCommitted'
  BY <1>0, <1>58 DEF CancelPrepared, Committed
<1>59. ASSUME NEW p \in Prepared, ShowPrepared(p) PROVE PayersCommitted'
  BY <1>0, <1>59 DEF ShowPrepared, Committed
<1>60. ASSUME NEW p \in Prepared, Expire(p) PROVE PayersCommitted'
  BY <1>0, <1>60 DEF Expire, Committed
<1>61. ASSUME NEW p \in Prepared, NEW o \in Ops, RailPerform(p, o) PROVE PayersCommitted'
  BY <1>0, <1>61 DEF RailPerform, Committed
<1>62. QED
  BY <1>1, <1>2, <1>3, <1>4, <1>5, <1>6, <1>7, <1>8, <1>9, <1>10, <1>11, <1>12,
     <1>13, <1>14, <1>15, <1>16, <1>17, <1>18, <1>19, <1>20, <1>21, <1>22, <1>23, <1>24,
     <1>25, <1>26, <1>27, <1>28, <1>29, <1>30, <1>31, <1>32, <1>33, <1>34, <1>35, <1>36,
     <1>37, <1>38, <1>39, <1>40, <1>41, <1>42, <1>43, <1>44, <1>45, <1>46, <1>47, <1>48,
     <1>49, <1>50, <1>51, <1>52, <1>53, <1>54, <1>55, <1>56, <1>57, <1>58, <1>59, <1>60, <1>61
     DEF Next, BeforeGate, AfterGate, Payment, Mark, Recover, Finalize

(* Every step keeps receipts and statements with an invoked decision.      *)
LEMMA EvidencesStep ==
    ASSUME TypeOK, Control, Ownership, Evidences, CallEvidence, Next
    PROVE  Evidences'
<1> USE DEF decisionVars, paymentVars, evidenceVars, keyVars, attemptVars, railVars,
          localVars, historyVars, Goto, Stay, Leave, Enter, MoveTo, Evidences, Procs,
          DecisionTypes, EvidenceTypes, LocalTypes
<1> USE ProcAssumption
<1>0. DecisionTypes /\ EvidenceTypes /\ LocalTypes
  BY DEF TypeOK
<1>1. ASSUME NEW c \in Calls, NEW p \in Prepared, Start(c, p) PROVE Evidences'
  BY <1>0, <1>1 DEF Start
<1>2. ASSUME NEW c \in Calls, CreateAttempt(c) PROVE Evidences'
  BY <1>0, <1>2 DEF CreateAttempt
<1>3. ASSUME NEW c \in Calls, Claim(c) PROVE Evidences'
  BY <1>0, <1>3 DEF Claim, Control, Claimable
<1>4. ASSUME NEW c \in Calls, ClaimRefused(c) PROVE Evidences'
  BY <1>0, <1>4 DEF ClaimRefused
<1>5. ASSUME NEW c \in Calls, Reserve(c) PROVE Evidences'
  BY <1>0, <1>5 DEF Reserve
<1>6. ASSUME NEW c \in Calls, ReserveRefused(c) PROVE Evidences'
  BY <1>0, <1>6 DEF ReserveRefused
<1>7. ASSUME NEW c \in Calls, ReserveReply(c) PROVE Evidences'
  BY <1>0, <1>7 DEF ReserveReply
<1>8. ASSUME NEW c \in Calls, ReserveError(c) PROVE Evidences'
  BY <1>0, <1>8 DEF ReserveError
<1>9. ASSUME NEW c \in Calls, ReserveCancelled(c) PROVE Evidences'
  BY <1>0, <1>9 DEF ReserveCancelled
<1>10. ASSUME NEW c \in Calls, Reserved(c) PROVE Evidences'
  BY <1>0, <1>10 DEF Reserved
<1>11. ASSUME NEW c \in Calls, Gate(c) PROVE Evidences'
  BY <1>0, <1>11 DEF Gate
<1>12. ASSUME NEW c \in Calls, Refused(c) PROVE Evidences'
  BY <1>0, <1>12 DEF Refused
<1>13. ASSUME NEW c \in Calls, Abandon(c) PROVE Evidences'
  BY <1>0, <1>13 DEF Abandon
<1>14. ASSUME NEW c \in Calls, AttemptFail(c) PROVE Evidences'
  BY <1>0, <1>14 DEF AttemptFail
<1>15. ASSUME NEW c \in Calls, Begin(c) PROVE Evidences'
  BY <1>0, <1>15 DEF Begin
<1>16. ASSUME NEW c \in Calls, KeyExecuting(c) PROVE Evidences'
  BY <1>0, <1>16 DEF KeyExecuting
<1>17. ASSUME NEW c \in Calls, Invoke(c) PROVE Evidences'
  BY <1>0, <1>17 DEF Invoke
<1>18. ASSUME NEW c \in Calls, InvokeRaises(c) PROVE Evidences'
  BY <1>0, <1>18 DEF InvokeRaises
<1>19. ASSUME NEW c \in Calls, Return(c) PROVE Evidences'
  BY <1>0, <1>19 DEF Return
<1>20. ASSUME NEW c \in Calls, Validate(c) PROVE Evidences'
  <2>1. at[c] \in Prepared /\ token[at[c]] # None /\ <<at[c], c>> \in invoked
    BY <1>0, <1>20 DEF Validate, Control, Ownership, Owner, AfterLabels, UntilReceipt, CallEvidence
  <2>2. receipt' = receipt \/ \E r \in Results : receipt' = [receipt EXCEPT ![at[c]] = r]
    BY <1>20 DEF Validate
  <2>3. statement[at[c]] = "none"
    BY <2>1, <1>20 DEF Validate, CallEvidence, UntilReceipt
  <2> QED
    BY <1>0, <1>20, <2>1, <2>2, <2>3 DEF Validate, Results
<1>21. ASSUME NEW c \in Calls, FreeSettling(c) PROVE Evidences'
  BY <1>0, <1>21 DEF FreeSettling, Advance
<1>22. ASSUME NEW c \in Calls, FreeSettled(c) PROVE Evidences'
  BY <1>0, <1>22 DEF FreeSettled, Advance
<1>23. ASSUME NEW c \in Calls, AwaitUsage(c) PROVE Evidences'
  BY <1>0, <1>23 DEF AwaitUsage
<1>24. ASSUME NEW c \in Calls, SaveUsage(c) PROVE Evidences'
  <2>1. at[c] \in Prepared /\ receipt[at[c]] # "none"
    BY <1>0, <1>24 DEF SaveUsage, Control, CallEvidence, HeardLabels
  <2>2. Kind[at[c]] = "fixed" => ev[c] \in {"none", "invalid"}
    BY <1>0, <1>24 DEF SaveUsage, CallEvidence, HeardLabels
  <2> QED
    BY <1>0, <1>24, <2>1, <2>2 DEF SaveUsage
<1>25. ASSUME NEW c \in Calls, DecideUncertain(c) PROVE Evidences'
  BY <1>0, <1>25 DEF DecideUncertain
<1>26. ASSUME NEW c \in Calls, DecideSettle(c) PROVE Evidences'
  BY <1>0, <1>26 DEF DecideSettle
<1>27. ASSUME NEW c \in Calls, Final(c) PROVE Evidences'
  BY <1>0, <1>27 DEF Final
<1>28. ASSUME NEW c \in Calls, Complete(c) PROVE Evidences'
  BY <1>0, <1>28 DEF Complete
<1>29. ASSUME NEW c \in Calls, PayCancelled(c) PROVE Evidences'
  BY <1>0, <1>29 DEF PayCancelled
<1>30. ASSUME NEW c \in Calls, MarkKey(c) PROVE Evidences'
  BY <1>0, <1>30 DEF MarkKey
<1>31. ASSUME NEW x \in Procs, PayReplay(x) PROVE Evidences'
  BY <1>0, <1>31 DEF PayReplay
<1>32. ASSUME NEW x \in Procs, PayClaim(x) PROVE Evidences'
  BY <1>0, <1>32 DEF PayClaim
<1>33. ASSUME NEW x \in Procs, PayIntent(x) PROVE Evidences'
  BY <1>0, <1>33 DEF PayIntent
<1>34. ASSUME NEW x \in Procs, PayIntentRefused(x) PROVE Evidences'
  BY <1>0, <1>34 DEF PayIntentRefused
<1>35. ASSUME NEW x \in Procs, PayExec(x) PROVE Evidences'
  BY <1>0, <1>35 DEF PayExec
<1>36. ASSUME NEW x \in Procs, PayReply(x) PROVE Evidences'
  BY <1>0, <1>36 DEF PayReply
<1>37. ASSUME NEW x \in Procs, PayStore(x) PROVE Evidences'
  BY <1>0, <1>37 DEF PayStore
<1>38. ASSUME NEW x \in Procs, PayDone(x) PROVE Evidences'
  BY <1>0, <1>38 DEF PayDone
<1>39. ASSUME NEW x \in Procs, PayError(x) PROVE Evidences'
  BY <1>0, <1>39 DEF PayError
<1>40. ASSUME NEW x \in Procs, MarkReservation(x) PROVE Evidences'
  BY <1>0, <1>40 DEF MarkReservation
<1>41. ASSUME NEW x \in Procs, MarkPrepared(x) PROVE Evidences'
  BY <1>0, <1>41 DEF MarkPrepared
<1>42. ASSUME NEW x \in Procs, MarkAttempt(x) PROVE Evidences'
  BY <1>0, <1>42 DEF MarkAttempt
<1>43. ASSUME NEW x \in Procs, Dispute(x) PROVE Evidences'
  BY <1>0, <1>43 DEF Dispute
<1>44. ASSUME NEW x \in Procs, Crash(x) PROVE Evidences'
  BY <1>0, <1>44 DEF Crash
<1>45. ASSUME NEW r \in Recoverers, FinalizeLink(r) PROVE Evidences'
  BY <1>0, <1>45 DEF FinalizeLink
<1>46. ASSUME NEW r \in Recoverers, FinalizeKey(r) PROVE Evidences'
  BY <1>0, <1>46 DEF FinalizeKey
<1>47. ASSUME NEW r \in Recoverers, CancelOrphan(r) PROVE Evidences'
  BY <1>0, <1>47 DEF CancelOrphan
<1>48. ASSUME NEW r \in Recoverers, RecoverReserved(r) PROVE Evidences'
  BY <1>0, <1>48 DEF RecoverReserved, Releases
<1>49. ASSUME NEW r \in Recoverers, RecoverDispute(r) PROVE Evidences'
  BY <1>0, <1>49 DEF RecoverDispute
<1>50. ASSUME NEW r \in Recoverers, RecoverSettle(r) PROVE Evidences'
  BY <1>0, <1>50 DEF RecoverSettle
<1>51. ASSUME NEW r \in Recoverers, RecoverNoEvidence(r) PROVE Evidences'
  BY <1>0, <1>51 DEF RecoverNoEvidence
<1>52. ASSUME NEW r \in Recoverers, RecoverError(r) PROVE Evidences'
  BY <1>0, <1>52 DEF RecoverError
<1>53. ASSUME NEW r \in Recoverers, NEW p \in Prepared, FinalizeRelease(r, p) PROVE Evidences'
  BY <1>0, <1>53 DEF FinalizeRelease, Releases
<1>54. ASSUME NEW r \in Recoverers, NEW p \in Prepared, AbandonReleased(r, p) PROVE Evidences'
  BY <1>0, <1>54 DEF AbandonReleased
<1>55. ASSUME NEW r \in Recoverers, NEW p \in Prepared, SettleFree(r, p) PROVE Evidences'
  BY <1>0, <1>55 DEF SettleFree
<1>56. ASSUME NEW r \in Recoverers, NEW p \in Prepared, FinalizeSettled(r, p) PROVE Evidences'
  BY <1>0, <1>56 DEF FinalizeSettled
<1>57. ASSUME NEW r \in Recoverers, NEW p \in Prepared, Scan(r, p) PROVE Evidences'
  BY <1>0, <1>57 DEF Scan
<1>58. ASSUME NEW o \in Operators, NEW p \in Prepared, CancelPrepared(o, p) PROVE Evidences'
  BY <1>0, <1>58 DEF CancelPrepared
<1>59. ASSUME NEW p \in Prepared, ShowPrepared(p) PROVE Evidences'
  BY <1>0, <1>59 DEF ShowPrepared
<1>60. ASSUME NEW p \in Prepared, Expire(p) PROVE Evidences'
  BY <1>0, <1>60 DEF Expire
<1>61. ASSUME NEW p \in Prepared, NEW o \in Ops, RailPerform(p, o) PROVE Evidences'
  BY <1>0, <1>61 DEF RailPerform
<1>62. QED
  BY <1>1, <1>2, <1>3, <1>4, <1>5, <1>6, <1>7, <1>8, <1>9, <1>10, <1>11, <1>12,
     <1>13, <1>14, <1>15, <1>16, <1>17, <1>18, <1>19, <1>20, <1>21, <1>22, <1>23, <1>24,
     <1>25, <1>26, <1>27, <1>28, <1>29, <1>30, <1>31, <1>32, <1>33, <1>34, <1>35, <1>36,
     <1>37, <1>38, <1>39, <1>40, <1>41, <1>42, <1>43, <1>44, <1>45, <1>46, <1>47, <1>48,
     <1>49, <1>50, <1>51, <1>52, <1>53, <1>54, <1>55, <1>56, <1>57, <1>58, <1>59, <1>60, <1>61
     DEF Next, BeforeGate, AfterGate, Payment, Mark, Recover, Finalize

(* Every step keeps what a call knows in step with the stored evidence.    *)
LEMMA CallEvidenceStep ==
    ASSUME TypeOK, Control, Ownership, PaidOnly, Evidences, CallEvidence, Next
    PROVE  CallEvidence'
<1> USE DEF decisionVars, paymentVars, evidenceVars, keyVars, attemptVars, railVars,
          localVars, historyVars, Goto, Stay, Leave, Enter, MoveTo, CallEvidence, HeardLabels,
          BeforeLabels, UntilReceipt, Procs, LocalTypes, EvidenceTypes
<1> USE ProcAssumption
<1>0. LocalTypes /\ EvidenceTypes
  BY DEF TypeOK
<1>1. ASSUME NEW c \in Calls, NEW p \in Prepared, Start(c, p) PROVE CallEvidence'
  BY <1>0, <1>1 DEF Start
<1>2. ASSUME NEW c \in Calls, CreateAttempt(c) PROVE CallEvidence'
  BY <1>0, <1>2 DEF CreateAttempt
<1>3. ASSUME NEW c \in Calls, Claim(c) PROVE CallEvidence'
  BY <1>0, <1>3 DEF Claim, Control, Claimable, Evidences, DecisionTypes
<1>4. ASSUME NEW c \in Calls, ClaimRefused(c) PROVE CallEvidence'
  BY <1>0, <1>4 DEF ClaimRefused
<1>5. ASSUME NEW c \in Calls, Reserve(c) PROVE CallEvidence'
  BY <1>0, <1>5 DEF Reserve
<1>6. ASSUME NEW c \in Calls, ReserveRefused(c) PROVE CallEvidence'
  BY <1>0, <1>6 DEF ReserveRefused
<1>7. ASSUME NEW c \in Calls, ReserveReply(c) PROVE CallEvidence'
  BY <1>0, <1>7 DEF ReserveReply
<1>8. ASSUME NEW c \in Calls, ReserveError(c) PROVE CallEvidence'
  BY <1>0, <1>8 DEF ReserveError
<1>9. ASSUME NEW c \in Calls, ReserveCancelled(c) PROVE CallEvidence'
  BY <1>0, <1>9 DEF ReserveCancelled
<1>10. ASSUME NEW c \in Calls, Reserved(c) PROVE CallEvidence'
  BY <1>0, <1>10 DEF Reserved
<1>11. ASSUME NEW c \in Calls, Gate(c) PROVE CallEvidence'
  BY <1>0, <1>11 DEF Gate
<1>12. ASSUME NEW c \in Calls, Refused(c) PROVE CallEvidence'
  BY <1>0, <1>12 DEF Refused
<1>13. ASSUME NEW c \in Calls, Abandon(c) PROVE CallEvidence'
  BY <1>0, <1>13 DEF Abandon
<1>14. ASSUME NEW c \in Calls, AttemptFail(c) PROVE CallEvidence'
  BY <1>0, <1>14 DEF AttemptFail
<1>15. ASSUME NEW c \in Calls, Begin(c) PROVE CallEvidence'
  BY <1>0, <1>15 DEF Begin
<1>16. ASSUME NEW c \in Calls, KeyExecuting(c) PROVE CallEvidence'
  BY <1>0, <1>16 DEF KeyExecuting
<1>17. ASSUME NEW c \in Calls, Invoke(c) PROVE CallEvidence'
  BY <1>0, <1>17 DEF Invoke, Control, Ownership, Owner, AfterLabels, MarkLabels, PayLabels
<1>18. ASSUME NEW c \in Calls, InvokeRaises(c) PROVE CallEvidence'
  BY <1>0, <1>18 DEF InvokeRaises
<1>19. ASSUME NEW c \in Calls, Return(c) PROVE CallEvidence'
  BY <1>0, <1>19 DEF Return
<1>20. ASSUME NEW c \in Calls, Validate(c) PROVE CallEvidence'
  <2>1. at[c] \in Prepared /\ token[at[c]] = c /\ c \in Procs
    BY <1>0, <1>20 DEF Validate, Control, Ownership, Owner, AfterLabels, UntilReceipt
  <2>2. \A d \in Calls : d # c /\ pc[d] \in BeforeLabels \cup UntilReceipt \cup HeardLabels
                            => at[d] # at[c]
    BY <2>1 DEF Ownership, Owner, AfterLabels, HeardLabels
  <2>3. statement[at[c]] = "none" /\ <<at[c], c>> \in invoked
    BY <1>0, <1>20, <2>1 DEF Validate, Evidences
  <2>4. CASE attempt[c] # "VALIDATING"
    BY <1>0, <1>20, <2>4 DEF Validate
  <2>5. CASE attempt[c] = "VALIDATING"
    <3>1. PICK r \in Results, e \in Evidence :
               /\ e \in {"ok", "over", "localover", "conflict"} => Kind[at[c]] = "quote"
               /\ receipt' = [receipt EXCEPT ![at[c]] = r]
               /\ ev' = [ev EXCEPT ![c] = e]
               /\ pc' = [pc EXCEPT ![c] =
                            IF Free(at[c]) THEN "free_settling" ELSE "await_usage"]
      BY <1>20, <2>5 DEF Validate
    <3>2. Kind[at[c]] = "fixed" => e \in {"none", "invalid"}
      BY <3>1 DEF Evidence
    <3>3. at' = at /\ statement' = statement /\ invoked' = invoked
      BY <1>20 DEF Validate
    <3> QED
      BY <1>0, <1>20, <2>1, <2>2, <2>3, <3>1, <3>2, <3>3 DEF Results
  <2> QED
    BY <2>4, <2>5
<1>21. ASSUME NEW c \in Calls, FreeSettling(c) PROVE CallEvidence'
  BY <1>0, <1>21 DEF FreeSettling, Advance
<1>22. ASSUME NEW c \in Calls, FreeSettled(c) PROVE CallEvidence'
  BY <1>0, <1>22 DEF FreeSettled, Advance
<1>23. ASSUME NEW c \in Calls, AwaitUsage(c) PROVE CallEvidence'
  BY <1>0, <1>23 DEF AwaitUsage
<1>24. ASSUME NEW c \in Calls, SaveUsage(c) PROVE CallEvidence'
  <2>1. at[c] \in Prepared /\ token[at[c]] = c /\ c \in Procs
    BY <1>0, <1>24 DEF SaveUsage, Control, Ownership, Owner, AfterLabels, UntilReceipt
  <2>2. \A d \in Calls : d # c /\ pc[d] \in BeforeLabels \cup UntilReceipt \cup HeardLabels
                            => at[d] # at[c]
    BY <2>1 DEF Ownership, Owner, AfterLabels, HeardLabels
  <2>3. statement[at[c]] = "none"
    BY <1>24 DEF SaveUsage
  <2> QED
    BY <1>0, <1>24, <2>1, <2>2, <2>3 DEF SaveUsage
<1>25. ASSUME NEW c \in Calls, DecideUncertain(c) PROVE CallEvidence'
  BY <1>0, <1>25 DEF DecideUncertain, OverMaximum
<1>26. ASSUME NEW c \in Calls, DecideSettle(c) PROVE CallEvidence'
  BY <1>0, <1>26 DEF DecideSettle, OverMaximum
<1>27. ASSUME NEW c \in Calls, Final(c) PROVE CallEvidence'
  BY <1>0, <1>27 DEF Final
<1>28. ASSUME NEW c \in Calls, Complete(c) PROVE CallEvidence'
  BY <1>0, <1>28 DEF Complete
<1>29. ASSUME NEW c \in Calls, PayCancelled(c) PROVE CallEvidence'
  BY <1>0, <1>29 DEF PayCancelled
<1>30. ASSUME NEW c \in Calls, MarkKey(c) PROVE CallEvidence'
  BY <1>0, <1>30 DEF MarkKey
<1>31. ASSUME NEW x \in Procs, PayReplay(x) PROVE CallEvidence'
  BY <1>0, <1>31 DEF PayReplay, Succeeded
<1>32. ASSUME NEW x \in Procs, PayClaim(x) PROVE CallEvidence'
  BY <1>0, <1>32 DEF PayClaim, Failed
<1>33. ASSUME NEW x \in Procs, PayIntent(x) PROVE CallEvidence'
  BY <1>0, <1>33 DEF PayIntent
<1>34. ASSUME NEW x \in Procs, PayIntentRefused(x) PROVE CallEvidence'
  BY <1>0, <1>34 DEF PayIntentRefused, Failed
<1>35. ASSUME NEW x \in Procs, PayExec(x) PROVE CallEvidence'
  BY <1>0, <1>35 DEF PayExec, Failed
<1>36. ASSUME NEW x \in Procs, PayReply(x) PROVE CallEvidence'
  BY <1>0, <1>36 DEF PayReply
<1>37. ASSUME NEW x \in Procs, PayStore(x) PROVE CallEvidence'
  BY <1>0, <1>37 DEF PayStore
<1>38. ASSUME NEW x \in Procs, PayDone(x) PROVE CallEvidence'
  BY <1>0, <1>38 DEF PayDone, Succeeded
<1>39. ASSUME NEW x \in Procs, PayError(x) PROVE CallEvidence'
  BY <1>0, <1>39 DEF PayError, Failed
<1>40. ASSUME NEW x \in Procs, MarkReservation(x) PROVE CallEvidence'
  BY <1>0, <1>40 DEF MarkReservation
<1>41. ASSUME NEW x \in Procs, MarkPrepared(x) PROVE CallEvidence'
  BY <1>0, <1>41 DEF MarkPrepared
<1>42. ASSUME NEW x \in Procs, MarkAttempt(x) PROVE CallEvidence'
  BY <1>0, <1>42 DEF MarkAttempt, AfterMark
<1>43. ASSUME NEW x \in Procs, Dispute(x) PROVE CallEvidence'
  BY <1>0, <1>43 DEF Dispute, AfterMark
<1>44. ASSUME NEW x \in Procs, Crash(x) PROVE CallEvidence'
  BY <1>0, <1>44 DEF Crash
<1>45. ASSUME NEW r \in Recoverers, FinalizeLink(r) PROVE CallEvidence'
  BY <1>0, <1>45 DEF FinalizeLink
<1>46. ASSUME NEW r \in Recoverers, FinalizeKey(r) PROVE CallEvidence'
  BY <1>0, <1>46 DEF FinalizeKey
<1>47. ASSUME NEW r \in Recoverers, CancelOrphan(r) PROVE CallEvidence'
  BY <1>0, <1>47 DEF CancelOrphan
<1>48. ASSUME NEW r \in Recoverers, RecoverReserved(r) PROVE CallEvidence'
  BY <1>0, <1>48 DEF RecoverReserved, Releases
<1>49. ASSUME NEW r \in Recoverers, RecoverDispute(r) PROVE CallEvidence'
  BY <1>0, <1>49 DEF RecoverDispute
<1>50. ASSUME NEW r \in Recoverers, RecoverSettle(r) PROVE CallEvidence'
  BY <1>0, <1>50 DEF RecoverSettle
<1>51. ASSUME NEW r \in Recoverers, RecoverNoEvidence(r) PROVE CallEvidence'
  BY <1>0, <1>51 DEF RecoverNoEvidence
<1>52. ASSUME NEW r \in Recoverers, RecoverError(r) PROVE CallEvidence'
  BY <1>0, <1>52 DEF RecoverError
<1>53. ASSUME NEW r \in Recoverers, NEW p \in Prepared, FinalizeRelease(r, p) PROVE CallEvidence'
  BY <1>0, <1>53 DEF FinalizeRelease, Releases
<1>54. ASSUME NEW r \in Recoverers, NEW p \in Prepared, AbandonReleased(r, p) PROVE CallEvidence'
  BY <1>0, <1>54 DEF AbandonReleased
<1>55. ASSUME NEW r \in Recoverers, NEW p \in Prepared, SettleFree(r, p) PROVE CallEvidence'
  BY <1>0, <1>55 DEF SettleFree
<1>56. ASSUME NEW r \in Recoverers, NEW p \in Prepared, FinalizeSettled(r, p) PROVE CallEvidence'
  BY <1>0, <1>56 DEF FinalizeSettled
<1>57. ASSUME NEW r \in Recoverers, NEW p \in Prepared, Scan(r, p) PROVE CallEvidence'
  BY <1>0, <1>57 DEF Scan
<1>58. ASSUME NEW o \in Operators, NEW p \in Prepared, CancelPrepared(o, p) PROVE CallEvidence'
  BY <1>0, <1>58 DEF CancelPrepared
<1>59. ASSUME NEW p \in Prepared, ShowPrepared(p) PROVE CallEvidence'
  BY <1>0, <1>59 DEF ShowPrepared
<1>60. ASSUME NEW p \in Prepared, Expire(p) PROVE CallEvidence'
  BY <1>0, <1>60 DEF Expire
<1>61. ASSUME NEW p \in Prepared, NEW o \in Ops, RailPerform(p, o) PROVE CallEvidence'
  BY <1>0, <1>61 DEF RailPerform
<1>62. QED
  BY <1>1, <1>2, <1>3, <1>4, <1>5, <1>6, <1>7, <1>8, <1>9, <1>10, <1>11, <1>12,
     <1>13, <1>14, <1>15, <1>16, <1>17, <1>18, <1>19, <1>20, <1>21, <1>22, <1>23, <1>24,
     <1>25, <1>26, <1>27, <1>28, <1>29, <1>30, <1>31, <1>32, <1>33, <1>34, <1>35, <1>36,
     <1>37, <1>38, <1>39, <1>40, <1>41, <1>42, <1>43, <1>44, <1>45, <1>46, <1>47, <1>48,
     <1>49, <1>50, <1>51, <1>52, <1>53, <1>54, <1>55, <1>56, <1>57, <1>58, <1>59, <1>60, <1>61
     DEF Next, BeforeGate, AfterGate, Payment, Mark, Recover, Finalize

(* A justified capture stays justified.                                    *)
LEMMA CapturableStays ==
    ASSUME TypeOK, Control, Ownership, Evidences, CallEvidence, NEW q \in Prepared, Capturable(q), Next
    PROVE  Capturable(q)'
<1> USE DEF decisionVars, paymentVars, evidenceVars, keyVars, attemptVars, railVars,
          localVars, historyVars, Goto, Stay, Leave, Enter, MoveTo, Capturable, Unheard,
          BeforeLabels, UntilReceipt, Procs, LocalTypes, EvidenceTypes
<1> USE ProcAssumption
<1>0. LocalTypes /\ EvidenceTypes
  BY DEF TypeOK
<1>1. ASSUME NEW c \in Calls, NEW p \in Prepared, Start(c, p) PROVE Capturable(q)'
  BY <1>0, <1>1 DEF Start
<1>2. ASSUME NEW c \in Calls, CreateAttempt(c) PROVE Capturable(q)'
  BY <1>0, <1>2 DEF CreateAttempt
<1>3. ASSUME NEW c \in Calls, Claim(c) PROVE Capturable(q)'
  BY <1>0, <1>3 DEF Claim, Control, Claimable, Evidences, DecisionTypes
<1>4. ASSUME NEW c \in Calls, ClaimRefused(c) PROVE Capturable(q)'
  BY <1>0, <1>4 DEF ClaimRefused
<1>5. ASSUME NEW c \in Calls, Reserve(c) PROVE Capturable(q)'
  BY <1>0, <1>5 DEF Reserve
<1>6. ASSUME NEW c \in Calls, ReserveRefused(c) PROVE Capturable(q)'
  BY <1>0, <1>6 DEF ReserveRefused
<1>7. ASSUME NEW c \in Calls, ReserveReply(c) PROVE Capturable(q)'
  BY <1>0, <1>7 DEF ReserveReply
<1>8. ASSUME NEW c \in Calls, ReserveError(c) PROVE Capturable(q)'
  BY <1>0, <1>8 DEF ReserveError
<1>9. ASSUME NEW c \in Calls, ReserveCancelled(c) PROVE Capturable(q)'
  BY <1>0, <1>9 DEF ReserveCancelled
<1>10. ASSUME NEW c \in Calls, Reserved(c) PROVE Capturable(q)'
  BY <1>0, <1>10 DEF Reserved
<1>11. ASSUME NEW c \in Calls, Gate(c) PROVE Capturable(q)'
  BY <1>0, <1>11 DEF Gate
<1>12. ASSUME NEW c \in Calls, Refused(c) PROVE Capturable(q)'
  BY <1>0, <1>12 DEF Refused
<1>13. ASSUME NEW c \in Calls, Abandon(c) PROVE Capturable(q)'
  BY <1>0, <1>13 DEF Abandon
<1>14. ASSUME NEW c \in Calls, AttemptFail(c) PROVE Capturable(q)'
  BY <1>0, <1>14 DEF AttemptFail
<1>15. ASSUME NEW c \in Calls, Begin(c) PROVE Capturable(q)'
  BY <1>0, <1>15 DEF Begin
<1>16. ASSUME NEW c \in Calls, KeyExecuting(c) PROVE Capturable(q)'
  BY <1>0, <1>16 DEF KeyExecuting
<1>17. ASSUME NEW c \in Calls, Invoke(c) PROVE Capturable(q)'
  BY <1>0, <1>17 DEF Invoke
<1>18. ASSUME NEW c \in Calls, InvokeRaises(c) PROVE Capturable(q)'
  BY <1>0, <1>18 DEF InvokeRaises
<1>19. ASSUME NEW c \in Calls, Return(c) PROVE Capturable(q)'
  BY <1>0, <1>19 DEF Return
<1>20. ASSUME NEW c \in Calls, Validate(c) PROVE Capturable(q)'
  <2>1. receipt[at[c]] = "none" /\ c \in Procs
    BY <1>0, <1>20 DEF Validate, CallEvidence
  <2>2. q # at[c]
    BY <2>1
  <2>3. /\ receipt'[q] = receipt[q] /\ statement' = statement /\ invoked' = invoked /\ at' = at
        /\ \A d \in Calls : d # c => pc'[d] = pc[d]
    BY <1>0, <1>20, <2>2 DEF Validate, Free
  <2> QED
    BY <2>1, <2>2, <2>3
<1>21. ASSUME NEW c \in Calls, FreeSettling(c) PROVE Capturable(q)'
  BY <1>0, <1>21 DEF FreeSettling, Advance
<1>22. ASSUME NEW c \in Calls, FreeSettled(c) PROVE Capturable(q)'
  BY <1>0, <1>22 DEF FreeSettled, Advance
<1>23. ASSUME NEW c \in Calls, AwaitUsage(c) PROVE Capturable(q)'
  BY <1>0, <1>23 DEF AwaitUsage
<1>24. ASSUME NEW c \in Calls, SaveUsage(c) PROVE Capturable(q)'
  <2>1. statement[at[c]] = "none" /\ c \in Procs /\ at[c] \in Prepared
    BY <1>0, <1>24 DEF SaveUsage, CallEvidence, Control
  <2>2. Kind[at[c]] = "fixed" => ev[c] \in {"none", "invalid"}
    BY <1>24 DEF SaveUsage, CallEvidence, HeardLabels
  <2>3. CASE q = at[c]
    BY <1>0, <1>24, <2>1, <2>2, <2>3 DEF SaveUsage
  <2>4. CASE q # at[c]
    BY <1>0, <1>24, <2>1, <2>4 DEF SaveUsage
  <2> QED
    BY <2>3, <2>4
<1>25. ASSUME NEW c \in Calls, DecideUncertain(c) PROVE Capturable(q)'
  BY <1>0, <1>25 DEF DecideUncertain
<1>26. ASSUME NEW c \in Calls, DecideSettle(c) PROVE Capturable(q)'
  BY <1>0, <1>26 DEF DecideSettle
<1>27. ASSUME NEW c \in Calls, Final(c) PROVE Capturable(q)'
  BY <1>0, <1>27 DEF Final
<1>28. ASSUME NEW c \in Calls, Complete(c) PROVE Capturable(q)'
  BY <1>0, <1>28 DEF Complete
<1>29. ASSUME NEW c \in Calls, PayCancelled(c) PROVE Capturable(q)'
  BY <1>0, <1>29 DEF PayCancelled
<1>30. ASSUME NEW c \in Calls, MarkKey(c) PROVE Capturable(q)'
  BY <1>0, <1>30 DEF MarkKey
<1>31. ASSUME NEW x \in Procs, PayReplay(x) PROVE Capturable(q)'
  BY <1>0, <1>31 DEF PayReplay, Succeeded
<1>32. ASSUME NEW x \in Procs, PayClaim(x) PROVE Capturable(q)'
  BY <1>0, <1>32 DEF PayClaim, Failed
<1>33. ASSUME NEW x \in Procs, PayIntent(x) PROVE Capturable(q)'
  BY <1>0, <1>33 DEF PayIntent
<1>34. ASSUME NEW x \in Procs, PayIntentRefused(x) PROVE Capturable(q)'
  BY <1>0, <1>34 DEF PayIntentRefused, Failed
<1>35. ASSUME NEW x \in Procs, PayExec(x) PROVE Capturable(q)'
  BY <1>0, <1>35 DEF PayExec, Failed
<1>36. ASSUME NEW x \in Procs, PayReply(x) PROVE Capturable(q)'
  BY <1>0, <1>36 DEF PayReply
<1>37. ASSUME NEW x \in Procs, PayStore(x) PROVE Capturable(q)'
  BY <1>0, <1>37 DEF PayStore
<1>38. ASSUME NEW x \in Procs, PayDone(x) PROVE Capturable(q)'
  BY <1>0, <1>38 DEF PayDone, Succeeded
<1>39. ASSUME NEW x \in Procs, PayError(x) PROVE Capturable(q)'
  BY <1>0, <1>39 DEF PayError, Failed
<1>40. ASSUME NEW x \in Procs, MarkReservation(x) PROVE Capturable(q)'
  BY <1>0, <1>40 DEF MarkReservation
<1>41. ASSUME NEW x \in Procs, MarkPrepared(x) PROVE Capturable(q)'
  BY <1>0, <1>41 DEF MarkPrepared
<1>42. ASSUME NEW x \in Procs, MarkAttempt(x) PROVE Capturable(q)'
  BY <1>0, <1>42 DEF MarkAttempt, AfterMark
<1>43. ASSUME NEW x \in Procs, Dispute(x) PROVE Capturable(q)'
  BY <1>0, <1>43 DEF Dispute, AfterMark
<1>44. ASSUME NEW x \in Procs, Crash(x) PROVE Capturable(q)'
  BY <1>0, <1>44 DEF Crash
<1>45. ASSUME NEW r \in Recoverers, FinalizeLink(r) PROVE Capturable(q)'
  BY <1>0, <1>45 DEF FinalizeLink
<1>46. ASSUME NEW r \in Recoverers, FinalizeKey(r) PROVE Capturable(q)'
  BY <1>0, <1>46 DEF FinalizeKey
<1>47. ASSUME NEW r \in Recoverers, CancelOrphan(r) PROVE Capturable(q)'
  BY <1>0, <1>47 DEF CancelOrphan
<1>48. ASSUME NEW r \in Recoverers, RecoverReserved(r) PROVE Capturable(q)'
  BY <1>0, <1>48 DEF RecoverReserved, Releases
<1>49. ASSUME NEW r \in Recoverers, RecoverDispute(r) PROVE Capturable(q)'
  BY <1>0, <1>49 DEF RecoverDispute
<1>50. ASSUME NEW r \in Recoverers, RecoverSettle(r) PROVE Capturable(q)'
  BY <1>0, <1>50 DEF RecoverSettle
<1>51. ASSUME NEW r \in Recoverers, RecoverNoEvidence(r) PROVE Capturable(q)'
  BY <1>0, <1>51 DEF RecoverNoEvidence
<1>52. ASSUME NEW r \in Recoverers, RecoverError(r) PROVE Capturable(q)'
  BY <1>0, <1>52 DEF RecoverError
<1>53. ASSUME NEW r \in Recoverers, NEW p \in Prepared, FinalizeRelease(r, p) PROVE Capturable(q)'
  BY <1>0, <1>53 DEF FinalizeRelease, Releases
<1>54. ASSUME NEW r \in Recoverers, NEW p \in Prepared, AbandonReleased(r, p) PROVE Capturable(q)'
  BY <1>0, <1>54 DEF AbandonReleased
<1>55. ASSUME NEW r \in Recoverers, NEW p \in Prepared, SettleFree(r, p) PROVE Capturable(q)'
  BY <1>0, <1>55 DEF SettleFree
<1>56. ASSUME NEW r \in Recoverers, NEW p \in Prepared, FinalizeSettled(r, p) PROVE Capturable(q)'
  BY <1>0, <1>56 DEF FinalizeSettled
<1>57. ASSUME NEW r \in Recoverers, NEW p \in Prepared, Scan(r, p) PROVE Capturable(q)'
  BY <1>0, <1>57 DEF Scan
<1>58. ASSUME NEW o \in Operators, NEW p \in Prepared, CancelPrepared(o, p) PROVE Capturable(q)'
  BY <1>0, <1>58 DEF CancelPrepared
<1>59. ASSUME NEW p \in Prepared, ShowPrepared(p) PROVE Capturable(q)'
  BY <1>0, <1>59 DEF ShowPrepared
<1>60. ASSUME NEW p \in Prepared, Expire(p) PROVE Capturable(q)'
  BY <1>0, <1>60 DEF Expire
<1>61. ASSUME NEW p \in Prepared, NEW o \in Ops, RailPerform(p, o) PROVE Capturable(q)'
  BY <1>0, <1>61 DEF RailPerform
<1>62. QED
  BY <1>1, <1>2, <1>3, <1>4, <1>5, <1>6, <1>7, <1>8, <1>9, <1>10, <1>11, <1>12,
     <1>13, <1>14, <1>15, <1>16, <1>17, <1>18, <1>19, <1>20, <1>21, <1>22, <1>23, <1>24,
     <1>25, <1>26, <1>27, <1>28, <1>29, <1>30, <1>31, <1>32, <1>33, <1>34, <1>35, <1>36,
     <1>37, <1>38, <1>39, <1>40, <1>41, <1>42, <1>43, <1>44, <1>45, <1>46, <1>47, <1>48,
     <1>49, <1>50, <1>51, <1>52, <1>53, <1>54, <1>55, <1>56, <1>57, <1>58, <1>59, <1>60, <1>61
     DEF Next, BeforeGate, AfterGate, Payment, Mark, Recover, Finalize

(* Every step captures only what is justified.                             *)
LEMMA JustifiedStep ==
    ASSUME TypeOK, Control, Ownership, PaidOnly, Evidences, CallEvidence, CapturesJustified, Next
    PROVE  CapturesJustified'
<1> USE DEF decisionVars, paymentVars, evidenceVars, keyVars, attemptVars, railVars,
          localVars, historyVars, Goto, Stay, Leave, Enter, MoveTo, CapturesJustified,
          PayLabels, Procs, Committed, Control, LocalTypes, PaymentTypes
<1> USE ProcAssumption
<1>0. LocalTypes /\ PaymentTypes
  BY DEF TypeOK
<1>a. \A q \in Prepared : Capturable(q) => Capturable(q)'
  BY CapturableStays
<1>1. ASSUME NEW c \in Calls, NEW p \in Prepared, Start(c, p) PROVE CapturesJustified'
  BY <1>0, <1>a, <1>1 DEF Start
<1>2. ASSUME NEW c \in Calls, CreateAttempt(c) PROVE CapturesJustified'
  BY <1>0, <1>a, <1>2 DEF CreateAttempt
<1>3. ASSUME NEW c \in Calls, Claim(c) PROVE CapturesJustified'
  BY <1>0, <1>a, <1>3 DEF Claim
<1>4. ASSUME NEW c \in Calls, ClaimRefused(c) PROVE CapturesJustified'
  BY <1>0, <1>a, <1>4 DEF ClaimRefused
<1>5. ASSUME NEW c \in Calls, Reserve(c) PROVE CapturesJustified'
  BY <1>0, <1>a, <1>5 DEF Reserve
<1>6. ASSUME NEW c \in Calls, ReserveRefused(c) PROVE CapturesJustified'
  BY <1>0, <1>a, <1>6 DEF ReserveRefused
<1>7. ASSUME NEW c \in Calls, ReserveReply(c) PROVE CapturesJustified'
  BY <1>0, <1>a, <1>7 DEF ReserveReply
<1>8. ASSUME NEW c \in Calls, ReserveError(c) PROVE CapturesJustified'
  BY <1>0, <1>a, <1>8 DEF ReserveError
<1>9. ASSUME NEW c \in Calls, ReserveCancelled(c) PROVE CapturesJustified'
  BY <1>0, <1>a, <1>9 DEF ReserveCancelled
<1>10. ASSUME NEW c \in Calls, Reserved(c) PROVE CapturesJustified'
  BY <1>0, <1>a, <1>10 DEF Reserved
<1>11. ASSUME NEW c \in Calls, Gate(c) PROVE CapturesJustified'
  BY <1>0, <1>a, <1>11 DEF Gate
<1>12. ASSUME NEW c \in Calls, Refused(c) PROVE CapturesJustified'
  BY <1>0, <1>a, <1>12 DEF Refused
<1>13. ASSUME NEW c \in Calls, Abandon(c) PROVE CapturesJustified'
  BY <1>0, <1>a, <1>13 DEF Abandon
<1>14. ASSUME NEW c \in Calls, AttemptFail(c) PROVE CapturesJustified'
  BY <1>0, <1>a, <1>14 DEF AttemptFail
<1>15. ASSUME NEW c \in Calls, Begin(c) PROVE CapturesJustified'
  BY <1>0, <1>a, <1>15 DEF Begin
<1>16. ASSUME NEW c \in Calls, KeyExecuting(c) PROVE CapturesJustified'
  BY <1>0, <1>a, <1>16 DEF KeyExecuting
<1>17. ASSUME NEW c \in Calls, Invoke(c) PROVE CapturesJustified'
  BY <1>0, <1>a, <1>17 DEF Invoke
<1>18. ASSUME NEW c \in Calls, InvokeRaises(c) PROVE CapturesJustified'
  BY <1>0, <1>a, <1>18 DEF InvokeRaises
<1>19. ASSUME NEW c \in Calls, Return(c) PROVE CapturesJustified'
  BY <1>0, <1>a, <1>19 DEF Return
<1>20. ASSUME NEW c \in Calls, Validate(c) PROVE CapturesJustified'
  BY <1>0, <1>a, <1>20 DEF Validate, Results, Evidence
<1>21. ASSUME NEW c \in Calls, FreeSettling(c) PROVE CapturesJustified'
  BY <1>0, <1>a, <1>21 DEF FreeSettling, Advance
<1>22. ASSUME NEW c \in Calls, FreeSettled(c) PROVE CapturesJustified'
  BY <1>0, <1>a, <1>22 DEF FreeSettled, Advance
<1>23. ASSUME NEW c \in Calls, AwaitUsage(c) PROVE CapturesJustified'
  BY <1>0, <1>a, <1>23 DEF AwaitUsage
<1>24. ASSUME NEW c \in Calls, SaveUsage(c) PROVE CapturesJustified'
  BY <1>0, <1>a, <1>24 DEF SaveUsage
<1>25. ASSUME NEW c \in Calls, DecideUncertain(c) PROVE CapturesJustified'
  BY <1>0, <1>a, <1>25 DEF DecideUncertain
<1>26. ASSUME NEW c \in Calls, DecideSettle(c) PROVE CapturesJustified'
  <2>1. at[c] \in Prepared /\ c \in Procs
    BY <1>26 DEF DecideSettle
  <2>2. Capturable(at[c])
    <3>1. /\ <<at[c], c>> \in invoked /\ receipt[at[c]] = "billable"
          /\ statement[at[c]] \in {"none", "ok"}
      BY <1>0, <1>26 DEF DecideSettle, OverMaximum, CallEvidence, HeardLabels
    <3>2. \A d \in Calls : at[d] = at[c] => ~Unheard(d)
      BY <1>0, <1>26, <2>1 DEF DecideSettle, Ownership, Owner, Unheard, AfterLabels, BeforeLabels,
             UntilReceipt
    <3> QED
      BY <3>1, <3>2 DEF Capturable
  <2> QED
    BY <1>0, <1>a, <1>26, <2>1, <2>2 DEF DecideSettle
<1>27. ASSUME NEW c \in Calls, Final(c) PROVE CapturesJustified'
  BY <1>0, <1>a, <1>27 DEF Final
<1>28. ASSUME NEW c \in Calls, Complete(c) PROVE CapturesJustified'
  BY <1>0, <1>a, <1>28 DEF Complete
<1>29. ASSUME NEW c \in Calls, PayCancelled(c) PROVE CapturesJustified'
  BY <1>0, <1>a, <1>29 DEF PayCancelled
<1>30. ASSUME NEW c \in Calls, MarkKey(c) PROVE CapturesJustified'
  BY <1>0, <1>a, <1>30 DEF MarkKey
<1>31. ASSUME NEW x \in Procs, PayReplay(x) PROVE CapturesJustified'
  BY <1>0, <1>a, <1>31 DEF PayReplay, Succeeded
<1>32. ASSUME NEW x \in Procs, PayClaim(x) PROVE CapturesJustified'
  BY <1>0, <1>a, <1>32 DEF PayClaim, Failed
<1>33. ASSUME NEW x \in Procs, PayIntent(x) PROVE CapturesJustified'
  BY <1>0, <1>a, <1>33 DEF PayIntent
<1>34. ASSUME NEW x \in Procs, PayIntentRefused(x) PROVE CapturesJustified'
  BY <1>0, <1>a, <1>34 DEF PayIntentRefused, Failed
<1>35. ASSUME NEW x \in Procs, PayExec(x) PROVE CapturesJustified'
  BY <1>0, <1>a, <1>35 DEF PayExec, Failed
<1>36. ASSUME NEW x \in Procs, PayReply(x) PROVE CapturesJustified'
  BY <1>0, <1>a, <1>36 DEF PayReply
<1>37. ASSUME NEW x \in Procs, PayStore(x) PROVE CapturesJustified'
  BY <1>0, <1>a, <1>37 DEF PayStore
<1>38. ASSUME NEW x \in Procs, PayDone(x) PROVE CapturesJustified'
  BY <1>0, <1>a, <1>38 DEF PayDone, Succeeded
<1>39. ASSUME NEW x \in Procs, PayError(x) PROVE CapturesJustified'
  BY <1>0, <1>a, <1>39 DEF PayError, Failed
<1>40. ASSUME NEW x \in Procs, MarkReservation(x) PROVE CapturesJustified'
  BY <1>0, <1>a, <1>40 DEF MarkReservation
<1>41. ASSUME NEW x \in Procs, MarkPrepared(x) PROVE CapturesJustified'
  BY <1>0, <1>a, <1>41 DEF MarkPrepared
<1>42. ASSUME NEW x \in Procs, MarkAttempt(x) PROVE CapturesJustified'
  BY <1>0, <1>a, <1>42 DEF MarkAttempt, AfterMark
<1>43. ASSUME NEW x \in Procs, Dispute(x) PROVE CapturesJustified'
  BY <1>0, <1>a, <1>43 DEF Dispute, AfterMark
<1>44. ASSUME NEW x \in Procs, Crash(x) PROVE CapturesJustified'
  BY <1>0, <1>a, <1>44 DEF Crash
<1>45. ASSUME NEW r \in Recoverers, FinalizeLink(r) PROVE CapturesJustified'
  BY <1>0, <1>a, <1>45 DEF FinalizeLink
<1>46. ASSUME NEW r \in Recoverers, FinalizeKey(r) PROVE CapturesJustified'
  BY <1>0, <1>a, <1>46 DEF FinalizeKey
<1>47. ASSUME NEW r \in Recoverers, CancelOrphan(r) PROVE CapturesJustified'
  BY <1>0, <1>a, <1>47 DEF CancelOrphan
<1>48. ASSUME NEW r \in Recoverers, RecoverReserved(r) PROVE CapturesJustified'
  BY <1>0, <1>a, <1>48 DEF RecoverReserved, Releases
<1>49. ASSUME NEW r \in Recoverers, RecoverDispute(r) PROVE CapturesJustified'
  BY <1>0, <1>a, <1>49 DEF RecoverDispute
<1>50. ASSUME NEW r \in Recoverers, RecoverSettle(r) PROVE CapturesJustified'
  <2>1. at[r] \in Prepared /\ r \in Procs
    BY <1>50 DEF RecoverSettle
  <2>2. receipt[at[r]] = "billable" => Capturable(at[r])
    BY <2>1, <1>50 DEF RecoverSettle, Evidenced, Evidences, Capturable
  <2> QED
    BY <1>0, <1>a, <1>50, <2>1, <2>2 DEF RecoverSettle
<1>51. ASSUME NEW r \in Recoverers, RecoverNoEvidence(r) PROVE CapturesJustified'
  BY <1>0, <1>a, <1>51 DEF RecoverNoEvidence
<1>52. ASSUME NEW r \in Recoverers, RecoverError(r) PROVE CapturesJustified'
  BY <1>0, <1>a, <1>52 DEF RecoverError
<1>53. ASSUME NEW r \in Recoverers, NEW p \in Prepared, FinalizeRelease(r, p) PROVE CapturesJustified'
  BY <1>0, <1>a, <1>53 DEF FinalizeRelease, Releases
<1>54. ASSUME NEW r \in Recoverers, NEW p \in Prepared, AbandonReleased(r, p) PROVE CapturesJustified'
  BY <1>0, <1>a, <1>54 DEF AbandonReleased
<1>55. ASSUME NEW r \in Recoverers, NEW p \in Prepared, SettleFree(r, p) PROVE CapturesJustified'
  BY <1>0, <1>a, <1>55 DEF SettleFree
<1>56. ASSUME NEW r \in Recoverers, NEW p \in Prepared, FinalizeSettled(r, p) PROVE CapturesJustified'
  BY <1>0, <1>a, <1>56 DEF FinalizeSettled
<1>57. ASSUME NEW r \in Recoverers, NEW p \in Prepared, Scan(r, p) PROVE CapturesJustified'
  BY <1>0, <1>a, <1>57 DEF Scan
<1>58. ASSUME NEW o \in Operators, NEW p \in Prepared, CancelPrepared(o, p) PROVE CapturesJustified'
  BY <1>0, <1>a, <1>58 DEF CancelPrepared
<1>59. ASSUME NEW p \in Prepared, ShowPrepared(p) PROVE CapturesJustified'
  BY <1>0, <1>a, <1>59 DEF ShowPrepared
<1>60. ASSUME NEW p \in Prepared, Expire(p) PROVE CapturesJustified'
  BY <1>0, <1>a, <1>60 DEF Expire
<1>61. ASSUME NEW p \in Prepared, NEW o \in Ops, RailPerform(p, o) PROVE CapturesJustified'
  BY <1>0, <1>a, <1>61 DEF RailPerform
<1>62. QED
  BY <1>1, <1>2, <1>3, <1>4, <1>5, <1>6, <1>7, <1>8, <1>9, <1>10, <1>11, <1>12,
     <1>13, <1>14, <1>15, <1>16, <1>17, <1>18, <1>19, <1>20, <1>21, <1>22, <1>23, <1>24,
     <1>25, <1>26, <1>27, <1>28, <1>29, <1>30, <1>31, <1>32, <1>33, <1>34, <1>35, <1>36,
     <1>37, <1>38, <1>39, <1>40, <1>41, <1>42, <1>43, <1>44, <1>45, <1>46, <1>47, <1>48,
     <1>49, <1>50, <1>51, <1>52, <1>53, <1>54, <1>55, <1>56, <1>57, <1>58, <1>59, <1>60, <1>61
     DEF Next, BeforeGate, AfterGate, Payment, Mark, Recover, Finalize

(* The parts of the invariant hold initially.                              *)
LEMMA ConsistentInit == Init => Consistent
<1> SUFFICES ASSUME Init PROVE Consistent
  OBVIOUS
<1>1. TypeOK /\ Control
  BY TypeInit
<1>2. Ownership /\ KeyOwnership /\ PaidOnly
  BY DEF Init, Ownership, Owner, PastGate, KeyOwnership, PaidOnly, PayLabels, MarkLabels,
         BeforeLabels, AfterLabels, UntilReceipt, PaidLabels, Procs
<1>3. Accounts /\ RailAgrees /\ PayersCommitted
  BY DEF Init, Accounts, Untouched, PostInvocation, RailAgrees, PayersCommitted, Committed,
         Intents, Releases
<1>4. Evidences /\ CallEvidence /\ CapturesJustified
  BY DEF Init, Evidences, CallEvidence, CapturesJustified, Committed, HeardLabels,
         BeforeLabels, UntilReceipt, PayLabels, Procs
<1> QED
  BY <1>1, <1>2, <1>3, <1>4 DEF Consistent

(* A stuttering step keeps every part.                                     *)
LEMMA ConsistentStutter ==
    ASSUME Consistent, UNCHANGED vars
    PROVE  Consistent'
<1> USE DEF vars, decisionVars, paymentVars, evidenceVars, keyVars, attemptVars, railVars,
          localVars, historyVars, Consistent
<1>1. TypeOK' /\ Control'
  BY TypeStutter
<1>2. Ownership' /\ KeyOwnership' /\ PaidOnly'
  BY DEF Ownership, Owner, PastGate, KeyOwnership, PaidOnly
<1>3. Accounts' /\ RailAgrees' /\ PayersCommitted'
  BY DEF Accounts, Untouched, Held, Closed, RailAgrees, PayersCommitted, Committed
<1>4. Evidences' /\ CallEvidence'
  BY DEF Evidences, CallEvidence
<1>5. CapturesJustified'
  BY DEF CapturesJustified, Committed, Capturable, Unheard
<1> QED
  BY <1>1, <1>2, <1>3, <1>4, <1>5

(* The invariant is inductive: in every reachable state, for any number of *)
(* decisions, keys, calls, recoverers and operators and any crashes, the   *)
(* store, the rail and the processes agree on who owns each decision, its  *)
(* key and its money.                                                      *)
THEOREM Consistency == Spec => []Consistent
<1>1. Consistent /\ [Next]_vars => Consistent'
  <2> SUFFICES ASSUME Consistent, [Next]_vars PROVE Consistent'
    OBVIOUS
  <2>1. CASE UNCHANGED vars
    BY <2>1, ConsistentStutter
  <2>2. CASE Next
    <3>1. /\ TypeOK /\ Control /\ Ownership /\ KeyOwnership /\ PaidOnly /\ Accounts /\ RailAgrees
          /\ PayersCommitted /\ Evidences /\ CallEvidence /\ CapturesJustified
      BY DEF Consistent
    <3>2. TypeOK' /\ Control' /\ Ownership' /\ KeyOwnership'
      BY <2>2, <3>1, TypeStep, ControlStep, OwnershipStep, KeyStep
    <3>3. PaidOnly' /\ Accounts' /\ RailAgrees' /\ PayersCommitted'
      BY <2>2, <3>1, PaidStep, AccountsStep, RailStep, PayersStep
    <3>4. Evidences' /\ CallEvidence' /\ CapturesJustified'
      BY <2>2, <3>1, EvidencesStep, CallEvidenceStep, JustifiedStep
    <3> QED
      BY <3>2, <3>3, <3>4 DEF Consistent
  <2> QED
    BY <2>1, <2>2
<1> QED
  BY ConsistentInit, <1>1, PTL DEF Spec

-----------------------------------------------------------------------------
(* The safety properties, for every instance.                              *)

(* An external action runs at most once per decision and per idempotency   *)
(* key: the claim names one call, and the key is bound to one decision for *)
(* as long as that decision may have been invoked.                         *)
THEOREM SingleInvocation == Spec => []AtMostOneInvocation
<1>1. Consistent => AtMostOneInvocation
  <2> SUFFICES ASSUME Consistent, NEW i \in invoked, NEW j \in invoked,
                      i[1] = j[1] \/ (Keyed(i[1]) /\ KeyOf[i[1]] = KeyOf[j[1]])
               PROVE  i = j
    BY DEF AtMostOneInvocation
  <2>1. i \in Prepared \X Calls /\ j \in Prepared \X Calls
    BY DEF Consistent, TypeOK, HistoryTypes
  <2>2. /\ token[i[1]] = i[2] /\ state[i[1]] \notin Uninvoked
        /\ token[j[1]] = j[2] /\ state[j[1]] \notin Uninvoked
    BY DEF Consistent, Ownership
  <2>3. i[1] = j[1]
    <3>1. CASE Keyed(i[1]) /\ KeyOf[i[1]] = KeyOf[j[1]]
      <4>1. i[1] \in bound /\ j[1] \in bound
        BY <2>1, <2>2, <3>1, ProcAssumption DEF Consistent, KeyOwnership, Keyed, Uninvoked, Procs
      <4> QED
        BY <3>1, <4>1 DEF Consistent, KeyOwnership
    <3> QED
      BY <3>1
  <2> QED
    BY <2>1, <2>2, <2>3
<1> QED
  BY Consistency, <1>1, PTL

(* What is released, cancelled or expired was never invoked: a release     *)
(* that reached the rail was claimed before the gate could open.           *)
THEOREM ReleaseSafety == Spec => []ReleasedNeverInvoked
<1>1. Consistent => ReleasedNeverInvoked
  <2> SUFFICES ASSUME Consistent, NEW p \in Prepared, NEW i \in invoked, i[1] = p,
                      state[p] \in {"RELEASED", "CANCELLED", "EXPIRED"} \/ rail[p] \cap Releases # {}
               PROVE  FALSE
    BY DEF ReleasedNeverInvoked
  <2>1. state[p] \notin Uninvoked
    BY DEF Consistent, Ownership
  <2>2. PICK o \in Releases : o \in rail[p]
    BY <2>1 DEF Uninvoked
  <2>3. Committed(p, o)
    BY <2>2 DEF Consistent, RailAgrees, Intents
  <2>4. state[p] \in PostInvocation \cup {"DISPUTED", "SETTLED"}
    BY <2>1 DEF Consistent, TypeOK, DecisionTypes, PreparedStates, PostInvocation, Uninvoked
  <2> QED
    BY <2>3, <2>4 DEF Consistent, Accounts, Untouched, Held, Closed, Committed, Releases
<1> QED
  BY Consistency, <1>1, PTL

(* Money is captured only for an invoked action with a billable receipt    *)
(* and no statement that contradicts it or exceeds the maximum.            *)
THEOREM CaptureSafety == Spec => []CaptureIsEvidenced
<1>1. Consistent => CaptureIsEvidenced
  BY DEF Consistent, CaptureIsEvidenced, RailAgrees, CapturesJustified, Capturable, Intents
<1> QED
  BY Consistency, <1>1, PTL

(* One operation closes a reservation at the rail, and the store records   *)
(* that one.                                                               *)
THEOREM LedgerAgreement == Spec => []LedgerMatchesRail
<1>1. Consistent => LedgerMatchesRail
  <2> SUFFICES ASSUME Consistent, NEW p \in Prepared
               PROVE  /\ settlement[p] # "none" => rail[p] \cap Intents = {settlement[p]}
                      /\ \A a, b \in rail[p] \cap Intents : a = b
    BY DEF LedgerMatchesRail
  <2>1. /\ \A o \in rail[p] \cap Intents : Committed(p, o)
        /\ settlement[p] # "none" => settlement[p] \in rail[p]
        /\ settlement[p] \in Intents \cup {"none"}
    BY DEF Consistent, RailAgrees, TypeOK, PaymentTypes
  <2>2. settlement[p] # "none" => intent[p] = "none"
    <3>1. state[p] \in PreparedStates
      BY DEF Consistent, TypeOK, DecisionTypes
    <3> QED
      BY <3>1 DEF Consistent, Accounts, Untouched, Held, Closed, PreparedStates, PostInvocation
  <2>3. \A o \in Intents : o # "none"
    BY DEF Intents, Releases
  <2>4. \A o \in rail[p] \cap Intents :
            o = IF settlement[p] = "none" THEN intent[p] ELSE settlement[p]
    BY <2>1, <2>2, <2>3 DEF Committed
  <2> QED
    BY <2>1, <2>4
<1> QED
  BY Consistency, <1>1, PTL

(* Between the gate and the settlement a paid decision keeps its hold.     *)
THEOREM HoldRetention == Spec => []UncertainKeepsHold
<1>1. Consistent => UncertainKeepsHold
  BY DEF Consistent, UncertainKeepsHold, Accounts, Held, Releases
<1> QED
  BY Consistency, <1>1, PTL

(* The idempotency key of an invoked action is never reopened.             *)
THEOREM KeyRetention == Spec => []InvokedKeyStaysBound
<1>1. Consistent => InvokedKeyStaysBound
  <2> SUFFICES ASSUME Consistent, NEW i \in invoked, Keyed(i[1])
               PROVE  i[1] \in bound /\ keyrec[KeyOf[i[1]]] # "absent"
    BY DEF InvokedKeyStaysBound
  <2>1. i \in Prepared \X Calls
    BY DEF Consistent, TypeOK, HistoryTypes
  <2>2. token[i[1]] = i[2] /\ state[i[1]] \notin Uninvoked
    BY DEF Consistent, Ownership
  <2>3. i[1] \in bound
    BY <2>1, <2>2, ProcAssumption DEF Consistent, KeyOwnership, Uninvoked, Procs
  <2> QED
    BY <2>3 DEF Consistent, KeyOwnership
<1> QED
  BY Consistency, <1>1, PTL

(* The change of a decision's state in one step is an allowed transition.  *)
LEMMA TableStep ==
    ASSUME TypeOK, Control, Next, NEW q \in Prepared, state'[q] # state[q]
    PROVE  \/ <<state[q], state'[q]>> \in AllowedTransitions
           \/ Free(q) /\ state[q] = "INVOKING" /\ state'[q] = "SETTLED"
<1> DEFINE Allowed == \/ <<state[q], state'[q]>> \in AllowedTransitions
                      \/ Free(q) /\ state[q] = "INVOKING" /\ state'[q] = "SETTLED"
<1> USE DEF decisionVars, MoveTo, AllowedTransitions, DecisionTypes
<1>0. DecisionTypes
  BY DEF TypeOK
<1>1. ASSUME NEW c \in Calls, Reserve(c) PROVE Allowed
  BY <1>0, <1>1 DEF Reserve
<1>2. ASSUME NEW c \in Calls, Gate(c) PROVE Allowed
  BY <1>0, <1>2 DEF Gate, GateOpen
<1>3. ASSUME NEW c \in Calls, Abandon(c) PROVE Allowed
  BY <1>0, <1>3 DEF Abandon, Abandonable
<1>4. ASSUME NEW c \in Calls, FreeSettling(c) PROVE Allowed
  BY <1>0, <1>4 DEF FreeSettling, Advance
<1>5. ASSUME NEW c \in Calls, FreeSettled(c) PROVE Allowed
  BY <1>0, <1>5 DEF FreeSettled, Advance
<1>6. ASSUME NEW c \in Calls, AwaitUsage(c) PROVE Allowed
  BY <1>0, <1>6 DEF AwaitUsage
<1>7. ASSUME NEW c \in Calls, DecideSettle(c) PROVE Allowed
  BY <1>0, <1>7 DEF DecideSettle
<1>8. ASSUME NEW x \in Procs, PayStore(x) PROVE Allowed
  BY <1>0, <1>8 DEF PayStore, Storable
<1>9. ASSUME NEW x \in Procs, MarkPrepared(x) PROVE Allowed
  BY <1>0, <1>9 DEF MarkPrepared
<1>10. ASSUME NEW x \in Procs, Dispute(x) PROVE Allowed
  BY <1>0, <1>10 DEF Dispute
<1>11. ASSUME NEW r \in Recoverers, CancelOrphan(r) PROVE Allowed
  BY <1>0, <1>11 DEF CancelOrphan, Abandonable
<1>12. ASSUME NEW r \in Recoverers, RecoverSettle(r) PROVE Allowed
  BY <1>0, <1>12 DEF RecoverSettle
<1>13. ASSUME NEW r \in Recoverers, NEW p \in Prepared, SettleFree(r, p) PROVE Allowed
  BY <1>0, <1>13 DEF SettleFree
<1>14. ASSUME NEW o \in Operators, NEW p \in Prepared, CancelPrepared(o, p) PROVE Allowed
  BY <1>0, <1>14 DEF CancelPrepared
<1>15. ASSUME NEW p \in Prepared, ShowPrepared(p) PROVE Allowed
  BY <1>0, <1>15 DEF ShowPrepared
<1>16. ASSUME NEW c \in Calls, NEW p \in Prepared, Start(c, p) PROVE Allowed
  BY <1>16 DEF Start
<1>17. ASSUME NEW c \in Calls, CreateAttempt(c) PROVE Allowed
  BY <1>17 DEF CreateAttempt
<1>18. ASSUME NEW c \in Calls, Claim(c) PROVE Allowed
  BY <1>18 DEF Claim
<1>19. ASSUME NEW c \in Calls, ClaimRefused(c) PROVE Allowed
  BY <1>19 DEF ClaimRefused
<1>20. ASSUME NEW c \in Calls, ReserveRefused(c) PROVE Allowed
  BY <1>20 DEF ReserveRefused
<1>21. ASSUME NEW c \in Calls, ReserveReply(c) PROVE Allowed
  BY <1>21 DEF ReserveReply
<1>22. ASSUME NEW c \in Calls, ReserveError(c) PROVE Allowed
  BY <1>22 DEF ReserveError
<1>23. ASSUME NEW c \in Calls, ReserveCancelled(c) PROVE Allowed
  BY <1>23 DEF ReserveCancelled
<1>24. ASSUME NEW c \in Calls, Reserved(c) PROVE Allowed
  BY <1>24 DEF Reserved
<1>25. ASSUME NEW c \in Calls, Refused(c) PROVE Allowed
  BY <1>25 DEF Refused
<1>26. ASSUME NEW c \in Calls, AttemptFail(c) PROVE Allowed
  BY <1>26 DEF AttemptFail
<1>27. ASSUME NEW c \in Calls, Begin(c) PROVE Allowed
  BY <1>27 DEF Begin
<1>28. ASSUME NEW c \in Calls, KeyExecuting(c) PROVE Allowed
  BY <1>28 DEF KeyExecuting
<1>29. ASSUME NEW c \in Calls, Invoke(c) PROVE Allowed
  BY <1>29 DEF Invoke
<1>30. ASSUME NEW c \in Calls, InvokeRaises(c) PROVE Allowed
  BY <1>30 DEF InvokeRaises
<1>31. ASSUME NEW c \in Calls, Return(c) PROVE Allowed
  BY <1>31 DEF Return
<1>32. ASSUME NEW c \in Calls, Validate(c) PROVE Allowed
  BY <1>32 DEF Validate
<1>33. ASSUME NEW c \in Calls, SaveUsage(c) PROVE Allowed
  BY <1>33 DEF SaveUsage
<1>34. ASSUME NEW c \in Calls, DecideUncertain(c) PROVE Allowed
  BY <1>34 DEF DecideUncertain
<1>35. ASSUME NEW c \in Calls, Final(c) PROVE Allowed
  BY <1>35 DEF Final
<1>36. ASSUME NEW c \in Calls, Complete(c) PROVE Allowed
  BY <1>36 DEF Complete
<1>37. ASSUME NEW c \in Calls, PayCancelled(c) PROVE Allowed
  BY <1>37 DEF PayCancelled
<1>38. ASSUME NEW c \in Calls, MarkKey(c) PROVE Allowed
  BY <1>38 DEF MarkKey
<1>39. ASSUME NEW x \in Procs, PayReplay(x) PROVE Allowed
  BY <1>39 DEF PayReplay
<1>40. ASSUME NEW x \in Procs, PayClaim(x) PROVE Allowed
  BY <1>40 DEF PayClaim
<1>41. ASSUME NEW x \in Procs, PayIntent(x) PROVE Allowed
  BY <1>41 DEF PayIntent
<1>42. ASSUME NEW x \in Procs, PayIntentRefused(x) PROVE Allowed
  BY <1>42 DEF PayIntentRefused
<1>43. ASSUME NEW x \in Procs, PayExec(x) PROVE Allowed
  BY <1>43 DEF PayExec
<1>44. ASSUME NEW x \in Procs, PayReply(x) PROVE Allowed
  BY <1>44 DEF PayReply
<1>45. ASSUME NEW x \in Procs, PayDone(x) PROVE Allowed
  BY <1>45 DEF PayDone
<1>46. ASSUME NEW x \in Procs, PayError(x) PROVE Allowed
  BY <1>46 DEF PayError
<1>47. ASSUME NEW x \in Procs, MarkReservation(x) PROVE Allowed
  BY <1>47 DEF MarkReservation
<1>48. ASSUME NEW x \in Procs, MarkAttempt(x) PROVE Allowed
  BY <1>48 DEF MarkAttempt
<1>49. ASSUME NEW x \in Procs, Crash(x) PROVE Allowed
  BY <1>49 DEF Crash
<1>50. ASSUME NEW r \in Recoverers, FinalizeLink(r) PROVE Allowed
  BY <1>50 DEF FinalizeLink
<1>51. ASSUME NEW r \in Recoverers, FinalizeKey(r) PROVE Allowed
  BY <1>51 DEF FinalizeKey
<1>52. ASSUME NEW r \in Recoverers, RecoverReserved(r) PROVE Allowed
  BY <1>52 DEF RecoverReserved
<1>53. ASSUME NEW r \in Recoverers, RecoverDispute(r) PROVE Allowed
  BY <1>53 DEF RecoverDispute
<1>54. ASSUME NEW r \in Recoverers, RecoverNoEvidence(r) PROVE Allowed
  BY <1>54 DEF RecoverNoEvidence
<1>55. ASSUME NEW r \in Recoverers, RecoverError(r) PROVE Allowed
  BY <1>55 DEF RecoverError
<1>56. ASSUME NEW r \in Recoverers, NEW p \in Prepared, FinalizeRelease(r, p) PROVE Allowed
  BY <1>56 DEF FinalizeRelease
<1>57. ASSUME NEW r \in Recoverers, NEW p \in Prepared, AbandonReleased(r, p) PROVE Allowed
  BY <1>57 DEF AbandonReleased
<1>58. ASSUME NEW r \in Recoverers, NEW p \in Prepared, FinalizeSettled(r, p) PROVE Allowed
  BY <1>58 DEF FinalizeSettled
<1>59. ASSUME NEW r \in Recoverers, NEW p \in Prepared, Scan(r, p) PROVE Allowed
  BY <1>59 DEF Scan
<1>60. ASSUME NEW p \in Prepared, Expire(p) PROVE Allowed
  BY <1>60 DEF Expire
<1>61. ASSUME NEW p \in Prepared, NEW o \in Ops, RailPerform(p, o) PROVE Allowed
  BY <1>61 DEF RailPerform
<1>62. QED
  BY <1>1, <1>2, <1>3, <1>4, <1>5, <1>6, <1>7, <1>8, <1>9, <1>10, <1>11, <1>12,
     <1>13, <1>14, <1>15, <1>16, <1>17, <1>18, <1>19, <1>20, <1>21, <1>22, <1>23, <1>24,
     <1>25, <1>26, <1>27, <1>28, <1>29, <1>30, <1>31, <1>32, <1>33, <1>34, <1>35, <1>36,
     <1>37, <1>38, <1>39, <1>40, <1>41, <1>42, <1>43, <1>44, <1>45, <1>46, <1>47, <1>48,
     <1>49, <1>50, <1>51, <1>52, <1>53, <1>54, <1>55, <1>56, <1>57, <1>58, <1>59, <1>60, <1>61
     DEF Next, BeforeGate, AfterGate, Payment, Mark, Recover, Finalize

(* Every step of every process moves decisions along the table of allowed  *)
(* transitions.                                                            *)
THEOREM TableFollowed == Spec => DecisionsFollowTable
<1>1. TypeOK /\ Control /\ [Next]_vars =>
        [\A p \in Prepared :
            state'[p] # state[p] =>
              \/ <<state[p], state'[p]>> \in AllowedTransitions
              \/ Free(p) /\ state[p] = "INVOKING" /\ state'[p] = "SETTLED"]_vars
  BY TableStep
<1> QED
  BY TypeCorrect, <1>1, PTL DEF DecisionsFollowTable, Spec
=============================================================================
