---------------------------- MODULE OutboxProofs ----------------------------
(***************************************************************************)
(* The rules of internal/submit for every number of submissions, every     *)
(* attempt cap, batch size and fault budget: IndInv is inductive, and the  *)
(* rules are what it says.                                                 *)
(***************************************************************************)
EXTENDS OutboxRows

-----------------------------------------------------------------------------
(* Reply, persist and repersist follow a message the server has taken.     *)
LEMMA TakenStep == TypeOK /\ Ownership /\ TakenInHand /\ [Next]_vars => TakenInHand'
  <1> SUFFICES ASSUME TypeOK /\ Ownership /\ TakenInHand, [Next]_vars PROVE TakenInHand'
    OBVIOUS
  <1> USE OutboxAssumption DEF TakenInHand, Many, Bump, TypeOK, Ownership, InHand, Holding, Steps, At, Goto, Drop,
              Transient, rowVars, clientVars, mailVars, historyVars, workerVars
  <1>1. ASSUME NEW i \in Intents, Submit(i) PROVE TakenInHand'
    BY <1>1 DEF Submit
  <1>2. ASSUME NEW i \in Intents, ImplicitMove(i) PROVE TakenInHand'
    BY <1>2 DEF ImplicitMove
  <1>3. ASSUME NEW i \in Intents, Cancel(i) PROVE TakenInHand'
    BY <1>3 DEF Cancel
  <1>4. ASSUME NEW i \in Intents, UserDestroy(i) PROVE TakenInHand'
    BY <1>4 DEF UserDestroy
  <1>5. ASSUME NEW i \in Intents, SyncSent(i) PROVE TakenInHand'
    BY <1>5 DEF SyncSent
  <1>6. CASE Boot
    BY <1>6 DEF Boot
  <1>7. CASE Recover
    BY <1>7 DEF Recover
  <1>8. ASSUME NEW rows \in SUBSET Intents, Claim(rows) PROVE TakenInHand'
    BY <1>8 DEF Claim
  <1>9. CASE BatchDone
    BY <1>9 DEF BatchDone
  <1>10. ASSUME NEW i \in Intents, Execute(i) PROVE TakenInHand'
    BY <1>10 DEF Execute, FirstStep
  <1>11. CASE Probe
    BY <1>11 DEF Probe
  <1>12. CASE Adopt
    BY <1>12 DEF Adopt
  <1>13. CASE Prepare
    BY <1>13 DEF Prepare
  <1>14. CASE LoadAccount
    BY <1>14 DEF LoadAccount
  <1>15. CASE Smtp
    BY <1>15 DEF Smtp
  <1>16. CASE Reply
    BY <1>16 DEF Reply
  <1>17. CASE Persist
    BY <1>17 DEF Persist
  <1>18. CASE Repersist
    BY <1>18 DEF Repersist
  <1>19. CASE Copy
    BY <1>19 DEF Copy
  <1>20. CASE Dedupe
    BY <1>20 DEF Dedupe
  <1>21. CASE Append
    BY <1>21 DEF Append
  <1>22. CASE Reflect
    BY <1>22 DEF Reflect
  <1>23. CASE Stamp
    BY <1>23 DEF Stamp
  <1>24. CASE Retire
    BY <1>24 DEF Retire
  <1>25. CASE Complete
    BY <1>25 DEF Complete
  <1>26. CASE Requeue
    BY <1>26 DEF Requeue
  <1>27. CASE Fail
    BY <1>27 DEF Fail
  <1>28. CASE Crash
    BY <1>28 DEF Crash
  <1>29. CASE UNCHANGED vars
    BY <1>29 DEF vars
  <1> QED
    BY <1>1, <1>2, <1>3, <1>4, <1>5, <1>6, <1>7, <1>8, <1>9, <1>10, <1>11, <1>12, <1>13, <1>14, <1>15, <1>16, <1>17, <1>18, <1>19, <1>20, <1>21, <1>22, <1>23, <1>24, <1>25, <1>26, <1>27, <1>28, <1>29
    DEF Next, Worker, Environment, Transmit, PostSend

(* Recover hands over every in_flight row; after it, only an error lets go *)
(* of a row that is still in_flight.                                       *)
LEMMA StrandedStep == TypeOK /\ Ownership /\ StrandedOnlyByFault /\ [Next]_vars => StrandedOnlyByFault'
  <1> SUFFICES ASSUME TypeOK /\ Ownership /\ StrandedOnlyByFault, [Next]_vars PROVE StrandedOnlyByFault'
    OBVIOUS
  <1> USE OutboxAssumption DEF StrandedOnlyByFault, Stranded, Fault, NoFault, States, TypeOK, Ownership, InHand, Holding, Steps, At, Goto, Drop,
              Transient, rowVars, clientVars, mailVars, historyVars, workerVars
  <1>1. ASSUME NEW i \in Intents, Submit(i) PROVE StrandedOnlyByFault'
    BY <1>1 DEF Submit
  <1>2. ASSUME NEW i \in Intents, ImplicitMove(i) PROVE StrandedOnlyByFault'
    BY <1>2 DEF ImplicitMove
  <1>3. ASSUME NEW i \in Intents, Cancel(i) PROVE StrandedOnlyByFault'
    BY <1>3 DEF Cancel
  <1>4. ASSUME NEW i \in Intents, UserDestroy(i) PROVE StrandedOnlyByFault'
    BY <1>4 DEF UserDestroy
  <1>5. ASSUME NEW i \in Intents, SyncSent(i) PROVE StrandedOnlyByFault'
    BY <1>5 DEF SyncSent
  <1>6. CASE Boot
    BY <1>6 DEF Boot
  <1>7. CASE Recover
    BY <1>7 DEF Recover
  <1>8. ASSUME NEW rows \in SUBSET Intents, Claim(rows) PROVE StrandedOnlyByFault'
    BY <1>8 DEF Claim
  <1>9. CASE BatchDone
    BY <1>9 DEF BatchDone
  <1>10. ASSUME NEW i \in Intents, Execute(i) PROVE StrandedOnlyByFault'
    BY <1>10 DEF Execute, FirstStep
  <1>11. CASE Probe
    BY <1>11 DEF Probe
  <1>12. CASE Adopt
    BY <1>12 DEF Adopt
  <1>13. CASE Prepare
    BY <1>13 DEF Prepare
  <1>14. CASE LoadAccount
    BY <1>14 DEF LoadAccount
  <1>15. CASE Smtp
    BY <1>15 DEF Smtp
  <1>16. CASE Reply
    BY <1>16 DEF Reply
  <1>17. CASE Persist
    BY <1>17 DEF Persist
  <1>18. CASE Repersist
    BY <1>18 DEF Repersist
  <1>19. CASE Copy
    BY <1>19 DEF Copy
  <1>20. CASE Dedupe
    BY <1>20 DEF Dedupe
  <1>21. CASE Append
    BY <1>21 DEF Append
  <1>22. CASE Reflect
    BY <1>22 DEF Reflect
  <1>23. CASE Stamp
    BY <1>23 DEF Stamp
  <1>24. CASE Retire
    BY <1>24 DEF Retire
  <1>25. CASE Complete
    BY <1>25 DEF Complete
  <1>26. CASE Requeue
    BY <1>26 DEF Requeue
  <1>27. CASE Fail
    BY <1>27 DEF Fail
  <1>28. CASE Crash
    BY <1>28 DEF Crash
  <1>29. CASE UNCHANGED vars
    BY <1>29 DEF vars
  <1> QED
    BY <1>1, <1>2, <1>3, <1>4, <1>5, <1>6, <1>7, <1>8, <1>9, <1>10, <1>11, <1>12, <1>13, <1>14, <1>15, <1>16, <1>17, <1>18, <1>19, <1>20, <1>21, <1>22, <1>23, <1>24, <1>25, <1>26, <1>27, <1>28, <1>29
    DEF Next, Worker, Environment, Transmit, PostSend

(* Copies in Sent are never taken back, and Moov sees them after they are  *)
(* there.                                                                  *)
LEMMA SeenStep == TypeOK /\ Ownership /\ SeenIsThere /\ [Next]_vars => SeenIsThere'
  <1> SUFFICES ASSUME TypeOK /\ Ownership /\ SeenIsThere, [Next]_vars PROVE SeenIsThere'
    OBVIOUS
  <1> USE OutboxAssumption DEF SeenIsThere, Many, Bump, TypeOK, Ownership, InHand, Holding, Steps, At, Goto, Drop,
              Transient, rowVars, clientVars, mailVars, historyVars, workerVars
  <1>1. ASSUME NEW i \in Intents, Submit(i) PROVE SeenIsThere'
    BY <1>1 DEF Submit
  <1>2. ASSUME NEW i \in Intents, ImplicitMove(i) PROVE SeenIsThere'
    BY <1>2 DEF ImplicitMove
  <1>3. ASSUME NEW i \in Intents, Cancel(i) PROVE SeenIsThere'
    BY <1>3 DEF Cancel
  <1>4. ASSUME NEW i \in Intents, UserDestroy(i) PROVE SeenIsThere'
    BY <1>4 DEF UserDestroy
  <1>5. ASSUME NEW i \in Intents, SyncSent(i) PROVE SeenIsThere'
    BY <1>5 DEF SyncSent
  <1>6. CASE Boot
    BY <1>6 DEF Boot
  <1>7. CASE Recover
    BY <1>7 DEF Recover
  <1>8. ASSUME NEW rows \in SUBSET Intents, Claim(rows) PROVE SeenIsThere'
    BY <1>8 DEF Claim
  <1>9. CASE BatchDone
    BY <1>9 DEF BatchDone
  <1>10. ASSUME NEW i \in Intents, Execute(i) PROVE SeenIsThere'
    BY <1>10 DEF Execute, FirstStep
  <1>11. CASE Probe
    BY <1>11 DEF Probe
  <1>12. CASE Adopt
    BY <1>12 DEF Adopt
  <1>13. CASE Prepare
    BY <1>13 DEF Prepare
  <1>14. CASE LoadAccount
    BY <1>14 DEF LoadAccount
  <1>15. CASE Smtp
    BY <1>15 DEF Smtp
  <1>16. CASE Reply
    BY <1>16 DEF Reply
  <1>17. CASE Persist
    BY <1>17 DEF Persist
  <1>18. CASE Repersist
    BY <1>18 DEF Repersist
  <1>19. CASE Copy
    BY <1>19 DEF Copy
  <1>20. CASE Dedupe
    BY <1>20 DEF Dedupe
  <1>21. CASE Append
    BY <1>21 DEF Append
  <1>22. CASE Reflect
    BY <1>22 DEF Reflect
  <1>23. CASE Stamp
    BY <1>23 DEF Stamp
  <1>24. CASE Retire
    BY <1>24 DEF Retire
  <1>25. CASE Complete
    BY <1>25 DEF Complete
  <1>26. CASE Requeue
    BY <1>26 DEF Requeue
  <1>27. CASE Fail
    BY <1>27 DEF Fail
  <1>28. CASE Crash
    BY <1>28 DEF Crash
  <1>29. CASE UNCHANGED vars
    BY <1>29 DEF vars
  <1> QED
    BY <1>1, <1>2, <1>3, <1>4, <1>5, <1>6, <1>7, <1>8, <1>9, <1>10, <1>11, <1>12, <1>13, <1>14, <1>15, <1>16, <1>17, <1>18, <1>19, <1>20, <1>21, <1>22, <1>23, <1>24, <1>25, <1>26, <1>27, <1>28, <1>29
    DEF Next, Worker, Environment, Transmit, PostSend

(* A draft reaches Sent only through a handler's implicit Email/set, and a *)
(* copy of the executor's belongs to an accepted row, which is not probed. *)
LEMMA IdleStep == TypeOK /\ Ownership /\ PhaseMatchesRow /\ SentCopyMeansAccepted /\ SeenIsThere /\ SecondNetIdle /\ [Next]_vars => SecondNetIdle'
  <1> SUFFICES ASSUME TypeOK /\ Ownership /\ PhaseMatchesRow /\ SentCopyMeansAccepted /\ SeenIsThere /\ SecondNetIdle, [Next]_vars PROVE SecondNetIdle'
    OBVIOUS
  <1> USE OutboxAssumption DEF SecondNetIdle, SeenIsThere, SentCopyMeansAccepted, SentContains, Destroyed,
              PhaseMatchesRow, Unaccepted, Accepted, TypeOK, Ownership, InHand, Holding, Steps, At, Goto, Drop,
              Transient, rowVars, clientVars, mailVars, historyVars, workerVars
  <1>1. ASSUME NEW i \in Intents, Submit(i) PROVE SecondNetIdle'
    BY <1>1 DEF Submit
  <1>2. ASSUME NEW i \in Intents, ImplicitMove(i) PROVE SecondNetIdle'
    BY <1>2 DEF ImplicitMove
  <1>3. ASSUME NEW i \in Intents, Cancel(i) PROVE SecondNetIdle'
    BY <1>3 DEF Cancel
  <1>4. ASSUME NEW i \in Intents, UserDestroy(i) PROVE SecondNetIdle'
    BY <1>4 DEF UserDestroy
  <1>5. ASSUME NEW i \in Intents, SyncSent(i) PROVE SecondNetIdle'
    BY <1>5 DEF SyncSent
  <1>6. CASE Boot
    BY <1>6 DEF Boot
  <1>7. CASE Recover
    BY <1>7 DEF Recover
  <1>8. ASSUME NEW rows \in SUBSET Intents, Claim(rows) PROVE SecondNetIdle'
    BY <1>8 DEF Claim
  <1>9. CASE BatchDone
    BY <1>9 DEF BatchDone
  <1>10. ASSUME NEW i \in Intents, Execute(i) PROVE SecondNetIdle'
    BY <1>10 DEF Execute, FirstStep
  <1>11. CASE Probe
    BY <1>11 DEF Probe
  <1>12. CASE Adopt
    BY <1>12 DEF Adopt
  <1>13. CASE Prepare
    BY <1>13 DEF Prepare
  <1>14. CASE LoadAccount
    BY <1>14 DEF LoadAccount
  <1>15. CASE Smtp
    BY <1>15 DEF Smtp
  <1>16. CASE Reply
    BY <1>16 DEF Reply
  <1>17. CASE Persist
    BY <1>17 DEF Persist
  <1>18. CASE Repersist
    BY <1>18 DEF Repersist
  <1>19. CASE Copy
    BY <1>19 DEF Copy
  <1>20. CASE Dedupe
    BY <1>20 DEF Dedupe
  <1>21. CASE Append
    BY <1>21 DEF Append
  <1>22. CASE Reflect
    BY <1>22 DEF Reflect
  <1>23. CASE Stamp
    BY <1>23 DEF Stamp
  <1>24. CASE Retire
    BY <1>24 DEF Retire
  <1>25. CASE Complete
    BY <1>25 DEF Complete
  <1>26. CASE Requeue
    BY <1>26 DEF Requeue
  <1>27. CASE Fail
    BY <1>27 DEF Fail
  <1>28. CASE Crash
    BY <1>28 DEF Crash
  <1>29. CASE UNCHANGED vars
    BY <1>29 DEF vars
  <1> QED
    BY <1>1, <1>2, <1>3, <1>4, <1>5, <1>6, <1>7, <1>8, <1>9, <1>10, <1>11, <1>12, <1>13, <1>14, <1>15, <1>16, <1>17, <1>18, <1>19, <1>20, <1>21, <1>22, <1>23, <1>24, <1>25, <1>26, <1>27, <1>28, <1>29
    DEF Next, Worker, Environment, Transmit, PostSend

(* A submission is scheduled or owes a move, is inserted once, and is      *)
(* accepted only in the executor's hands.                                  *)
LEMMA HoldStep == TypeOK /\ Ownership /\ HoldOrMove /\ [Next]_vars => HoldOrMove'
  <1> SUFFICES ASSUME TypeOK /\ Ownership /\ HoldOrMove, [Next]_vars PROVE HoldOrMove'
    OBVIOUS
  <1> USE OutboxAssumption DEF HoldOrMove, States, TypeOK, Ownership, InHand, Holding, Steps, At, Goto, Drop,
              Transient, rowVars, clientVars, mailVars, historyVars, workerVars
  <1>1. ASSUME NEW i \in Intents, Submit(i) PROVE HoldOrMove'
    BY <1>1 DEF Submit
  <1>2. ASSUME NEW i \in Intents, ImplicitMove(i) PROVE HoldOrMove'
    BY <1>2 DEF ImplicitMove
  <1>3. ASSUME NEW i \in Intents, Cancel(i) PROVE HoldOrMove'
    BY <1>3 DEF Cancel
  <1>4. ASSUME NEW i \in Intents, UserDestroy(i) PROVE HoldOrMove'
    BY <1>4 DEF UserDestroy
  <1>5. ASSUME NEW i \in Intents, SyncSent(i) PROVE HoldOrMove'
    BY <1>5 DEF SyncSent
  <1>6. CASE Boot
    BY <1>6 DEF Boot
  <1>7. CASE Recover
    BY <1>7 DEF Recover
  <1>8. ASSUME NEW rows \in SUBSET Intents, Claim(rows) PROVE HoldOrMove'
    BY <1>8 DEF Claim
  <1>9. CASE BatchDone
    BY <1>9 DEF BatchDone
  <1>10. ASSUME NEW i \in Intents, Execute(i) PROVE HoldOrMove'
    BY <1>10 DEF Execute, FirstStep
  <1>11. CASE Probe
    BY <1>11 DEF Probe
  <1>12. CASE Adopt
    BY <1>12 DEF Adopt
  <1>13. CASE Prepare
    BY <1>13 DEF Prepare
  <1>14. CASE LoadAccount
    BY <1>14 DEF LoadAccount
  <1>15. CASE Smtp
    BY <1>15 DEF Smtp
  <1>16. CASE Reply
    BY <1>16 DEF Reply
  <1>17. CASE Persist
    BY <1>17 DEF Persist
  <1>18. CASE Repersist
    BY <1>18 DEF Repersist
  <1>19. CASE Copy
    BY <1>19 DEF Copy
  <1>20. CASE Dedupe
    BY <1>20 DEF Dedupe
  <1>21. CASE Append
    BY <1>21 DEF Append
  <1>22. CASE Reflect
    BY <1>22 DEF Reflect
  <1>23. CASE Stamp
    BY <1>23 DEF Stamp
  <1>24. CASE Retire
    BY <1>24 DEF Retire
  <1>25. CASE Complete
    BY <1>25 DEF Complete
  <1>26. CASE Requeue
    BY <1>26 DEF Requeue
  <1>27. CASE Fail
    BY <1>27 DEF Fail
  <1>28. CASE Crash
    BY <1>28 DEF Crash
  <1>29. CASE UNCHANGED vars
    BY <1>29 DEF vars
  <1> QED
    BY <1>1, <1>2, <1>3, <1>4, <1>5, <1>6, <1>7, <1>8, <1>9, <1>10, <1>11, <1>12, <1>13, <1>14, <1>15, <1>16, <1>17, <1>18, <1>19, <1>20, <1>21, <1>22, <1>23, <1>24, <1>25, <1>26, <1>27, <1>28, <1>29
    DEF Next, Worker, Environment, Transmit, PostSend

(* IndInv holds in every reachable state.                                  *)
THEOREM Inductive == Spec => []IndInv
  <1>1. Init => IndInv
    <2> SUFFICES ASSUME Init PROVE IndInv
      OBVIOUS
    <2>1. TypeOK
      BY TypeInit
    <2>2. Ownership
      BY DEF Init, Ownership, InHand, Holding, Steps
    <2> QED
      BY <2>1, <2>2
      DEF Init, IndInv, PhaseMatchesRow, Unaccepted, Accepted, Accounted,
          DuplicateOnlyInWindow, RefusedMeansUnsent, SentCopyMeansAccepted, Many,
          TakenInHand, StrandedOnlyByFault, Stranded, SeenIsThere, SecondNetIdle, HoldOrMove
  <1>2. IndInv /\ [Next]_vars => IndInv'
    BY TypeStep, OwnershipStep, PhaseStep, AccountedStep, OutcomesStep, TakenStep,
       StrandedStep, SeenStep, IdleStep, HoldStep
    DEF IndInv, Outcomes
  <1> QED
    BY <1>1, <1>2, PTL DEF Spec

(* Every variable keeps the type the model gives it.                       *)
THEOREM TypeCorrect == Spec => []TypeOK
  <1>1. IndInv => TypeOK
    BY DEF IndInv
  <1> QED
    BY <1>1, Inductive, PTL

(* Single execution, rule 3: ClaimDueSendIntents, CancelSendIntent and     *)
(* DestroySendIntent never take a row execute() is working on.             *)
THEOREM SingleExecution == Spec => []Ownership
  <1>1. IndInv => Ownership
    BY DEF IndInv
  <1> QED
    BY <1>1, Inductive, PTL

(* A double send needs a 250 that was not read or not recorded.            *)
THEOREM DoubleSendWindow == Spec => []DuplicateOnlyInWindow
  <1>1. IndInv => DuplicateOnlyInWindow
    BY DEF IndInv
  <1> QED
    BY <1>1, Inductive, PTL

(* A canceled or failed submission is not accepted, and was not taken by   *)
(* the server outside that window.                                         *)
THEOREM RefusalIsHonest == Spec => []RefusedMeansUnsent
  <1>1. IndInv => RefusedMeansUnsent
    BY DEF IndInv
  <1> QED
    BY <1>1, Inductive, PTL

(* Never retry after the 250, rule 2: execute() branches on accepted_at    *)
(* first, and Smtp is only reached with a row that does not have it.       *)
THEOREM NeverRetryAfter250 == Spec => NoSendAfterRecord
  <1>1. IndInv /\ [Next]_vars => [\A i \in accepted : deliveries'[i] = deliveries[i]]_vars
    <2> SUFFICES ASSUME IndInv, Next PROVE \A i \in accepted : deliveries'[i] = deliveries[i]
      OBVIOUS
    <2>1. CASE Smtp
      BY <2>1 DEF Smtp, At, IndInv, TypeOK, PhaseMatchesRow, Unaccepted
    <2>2. CASE ~Smtp
      <3>1. UNCHANGED deliveries
        BY <2>2 DEF Next, Worker, Environment, Transmit, PostSend, Boot, Recover, Claim,
          BatchDone, Execute, Probe, Adopt, Prepare, LoadAccount, Reply, Persist, Repersist,
          Copy, Dedupe, Append, Reflect, Stamp, Retire, Complete, Requeue, Fail, Crash,
          Submit, ImplicitMove, Cancel, UserDestroy, SyncSent, historyVars
      <3> QED
        BY <3>1
    <2> QED
      BY <2>1, <2>2
  <1> QED
    BY <1>1, Inductive, PTL DEF Spec, NoSendAfterRecord
=============================================================================
