----------------------------- MODULE OutboxRows -----------------------------
(***************************************************************************)
(* The bookkeeping of the outbox, one step lemma per conjunct of IndInv: rows*)
(* in hand are in_flight (Ownership), the step the executor is at tells    *)
(* whether its row is accepted (PhaseMatchesRow), and so every message the *)
(* server took is accounted for (Accounted).                               *)
(***************************************************************************)
EXTENDS Outbox, TLAPS

-----------------------------------------------------------------------------
(* The worker's position is one of the named steps, its counters stay in   *)
(* range, and its rows are rows.                                           *)
LEMMA TypeInit == Init => TypeOK
  <1> SUFFICES ASSUME Init PROVE TypeOK
    OBVIOUS
  <1>1. recovered \in BOOLEAN /\ faults \in Nat
    BY OutboxAssumption DEF Init
  <1> QED
    BY <1>1, OutboxAssumption DEF Init, TypeOK, States, Mailboxes, Many, Steps

LEMMA TypeStep == TypeOK /\ Ownership /\ [Next]_vars => TypeOK'
  <1> SUFFICES ASSUME TypeOK, Ownership, [Next]_vars PROVE TypeOK'
    OBVIOUS
  <1> USE OutboxAssumption
  <1>0. pc \in Holding => cur \in Intents
    BY DEF Ownership, TypeOK
  <1>1. ASSUME NEW i \in Intents, Submit(i) PROVE TypeOK'
    BY <1>1 DEF Submit, TypeOK, States, mailVars, historyVars, workerVars
  <1>2. ASSUME NEW i \in Intents, ImplicitMove(i) PROVE TypeOK'
    BY <1>2 DEF ImplicitMove, TypeOK, Mailboxes, rowVars, historyVars, workerVars, Fault, NoFault
  <1>3. ASSUME NEW i \in Intents, Cancel(i) PROVE TypeOK'
    BY <1>3 DEF Cancel, TypeOK, States, clientVars, mailVars, historyVars, workerVars
  <1>4. ASSUME NEW i \in Intents, UserDestroy(i) PROVE TypeOK'
    BY <1>4 DEF UserDestroy, Destroyed, TypeOK, Mailboxes, rowVars, clientVars, historyVars, workerVars
  <1>5. ASSUME NEW i \in Intents, SyncSent(i) PROVE TypeOK'
    BY <1>5 DEF SyncSent, TypeOK, rowVars, clientVars, historyVars, workerVars
  <1>6. CASE Boot
    BY <1>6 DEF Boot, At, TypeOK, Steps, rowVars, clientVars, mailVars, historyVars
  <1>7. CASE Recover
    <2>1. \A n \in 0..MaxAttempts : Bump(n, MaxAttempts) \in 0..MaxAttempts
      BY DEF Bump
    <2>2. attempts' \in [Intents -> 0..MaxAttempts]
      BY <1>7, <2>1 DEF Recover, TypeOK
    <2>3. recovered' \in BOOLEAN
      BY <1>7 DEF Recover
    <2> QED
      BY <1>7, <2>2, <2>3 DEF Recover, At, TypeOK, Steps, clientVars, mailVars, historyVars, Fault, NoFault
  <1>8. ASSUME NEW rows \in SUBSET Intents, Claim(rows) PROVE TypeOK'
    <2>1. \A n \in 0..MaxAttempts : Bump(n, MaxAttempts) \in 0..MaxAttempts
      BY DEF Bump
    <2>2. attempts' \in [Intents -> 0..MaxAttempts]
      BY <1>8, <2>1 DEF Claim, TypeOK
    <2>3. state' \in [Intents -> States]
      BY <1>8 DEF Claim, TypeOK, States
    <2>4. recovered' \in BOOLEAN
      BY <1>8 DEF Claim
    <2> QED
      BY <1>8, <2>2, <2>3, <2>4 DEF Claim, TypeOK, Steps, clientVars, mailVars, historyVars, Fault, NoFault
  <1>9. CASE BatchDone
    BY <1>9 DEF BatchDone, TypeOK, Steps, rowVars, clientVars, mailVars, historyVars
  <1>10. ASSUME NEW i \in Intents, Execute(i) PROVE TypeOK'
    BY <1>10 DEF Execute, FirstStep, TypeOK, Steps, rowVars, clientVars, mailVars, historyVars
  <1> USE DEF TypeOK, Holding, Steps, At, Goto, Drop, Transient, Fault, NoFault,
              rowVars, clientVars, mailVars, historyVars, workerVars
  <1>11. CASE Probe
    BY <1>0, <1>11 DEF Probe
  <1>12. CASE Adopt
    BY <1>0, <1>12 DEF Adopt
  <1>13. CASE Prepare
    BY <1>0, <1>13 DEF Prepare
  <1>14. CASE LoadAccount
    BY <1>0, <1>14 DEF LoadAccount
  <1>15. CASE Smtp
    <2>1. \A k \in 0..Many : Bump(k, Many) \in 0..Many
      BY DEF Bump, Many
    <2>2. cur \in Intents
      BY <1>0, <1>15 DEF Smtp
    <2>3. deliveries' \in [Intents -> 0..Many]
      BY <1>15, <2>1, <2>2 DEF Smtp
    <2> QED
      BY <1>15, <2>2, <2>3 DEF Smtp
  <1>16. CASE Reply
    BY <1>0, <1>16 DEF Reply
  <1>17. CASE Persist
    BY <1>0, <1>17 DEF Persist
  <1>18. CASE Repersist
    BY <1>0, <1>18 DEF Repersist
  <1>19. CASE Copy
    BY <1>0, <1>19 DEF Copy
  <1>20. CASE Dedupe
    BY <1>0, <1>20 DEF Dedupe
  <1>21. CASE Append
    <2>1. \A k \in 0..Many : Bump(k, Many) \in 0..Many
      BY DEF Bump, Many
    <2>2. cur \in Intents
      BY <1>0, <1>21 DEF Append
    <2>3. copies' \in [Intents -> 0..Many]
      BY <1>21, <2>1, <2>2 DEF Append
    <2> QED
      BY <1>21, <2>2, <2>3 DEF Append
  <1>22. CASE Reflect
    BY <1>0, <1>22 DEF Reflect
  <1>23. CASE Stamp
    BY <1>0, <1>23 DEF Stamp
  <1>24. CASE Retire
    BY <1>0, <1>24 DEF Retire, Destroyed, Mailboxes
  <1>25. CASE Complete
    BY <1>0, <1>25 DEF Complete, States
  <1>26. CASE Requeue
    BY <1>0, <1>26 DEF Requeue, States
  <1>27. CASE Fail
    BY <1>0, <1>27 DEF Fail, States
  <1>28. CASE Crash
    <2>1. recovered' \in BOOLEAN
      BY <1>28 DEF Crash
    <2> QED
      BY <1>0, <1>28, <2>1 DEF Crash
  <1>29. CASE UNCHANGED vars
    BY <1>29 DEF vars
  <1> QED
    BY <1>1, <1>2, <1>3, <1>4, <1>5, <1>6, <1>7, <1>8, <1>9, <1>10, <1>11, <1>12, <1>13,
       <1>14, <1>15, <1>16, <1>17, <1>18, <1>19, <1>20, <1>21, <1>22, <1>23, <1>24, <1>25,
       <1>26, <1>27, <1>28, <1>29
    DEF Next, Worker, Environment, Transmit, PostSend

(* No cancel and no claim takes a row the executor has in hand.            *)
LEMMA OwnershipStep == TypeOK /\ Ownership /\ [Next]_vars => Ownership'
  <1> SUFFICES ASSUME TypeOK /\ Ownership, [Next]_vars PROVE Ownership'
    OBVIOUS
  <1> USE OutboxAssumption DEF TypeOK, Ownership, InHand, Holding, Steps, At, Goto, Drop, Transient,
              rowVars, clientVars, mailVars, historyVars, workerVars
  <1>1. ASSUME NEW i \in Intents, Submit(i) PROVE Ownership'
    BY <1>1 DEF Submit
  <1>2. ASSUME NEW i \in Intents, ImplicitMove(i) PROVE Ownership'
    BY <1>2 DEF ImplicitMove
  <1>3. ASSUME NEW i \in Intents, Cancel(i) PROVE Ownership'
    BY <1>3 DEF Cancel
  <1>4. ASSUME NEW i \in Intents, UserDestroy(i) PROVE Ownership'
    BY <1>4 DEF UserDestroy
  <1>5. ASSUME NEW i \in Intents, SyncSent(i) PROVE Ownership'
    BY <1>5 DEF SyncSent
  <1>6. CASE Boot
    BY <1>6 DEF Boot
  <1>7. CASE Recover
    BY <1>7 DEF Recover
  <1>8. ASSUME NEW rows \in SUBSET Intents, Claim(rows) PROVE Ownership'
    BY <1>8 DEF Claim
  <1>9. CASE BatchDone
    BY <1>9 DEF BatchDone
  <1>10. ASSUME NEW i \in Intents, Execute(i) PROVE Ownership'
    BY <1>10 DEF Execute, FirstStep
  <1>11. CASE Probe
    BY <1>11 DEF Probe
  <1>12. CASE Adopt
    BY <1>12 DEF Adopt
  <1>13. CASE Prepare
    BY <1>13 DEF Prepare
  <1>14. CASE LoadAccount
    BY <1>14 DEF LoadAccount
  <1>15. CASE Smtp
    BY <1>15 DEF Smtp
  <1>16. CASE Reply
    BY <1>16 DEF Reply
  <1>17. CASE Persist
    BY <1>17 DEF Persist
  <1>18. CASE Repersist
    BY <1>18 DEF Repersist
  <1>19. CASE Copy
    BY <1>19 DEF Copy
  <1>20. CASE Dedupe
    BY <1>20 DEF Dedupe
  <1>21. CASE Append
    BY <1>21 DEF Append
  <1>22. CASE Reflect
    BY <1>22 DEF Reflect
  <1>23. CASE Stamp
    BY <1>23 DEF Stamp
  <1>24. CASE Retire
    BY <1>24 DEF Retire
  <1>25. CASE Complete
    BY <1>25 DEF Complete
  <1>26. CASE Requeue
    BY <1>26 DEF Requeue
  <1>27. CASE Fail
    BY <1>27 DEF Fail
  <1>28. CASE Crash
    BY <1>28 DEF Crash
  <1>29. CASE UNCHANGED vars
    BY <1>29 DEF vars
  <1> QED
    BY <1>1, <1>2, <1>3, <1>4, <1>5, <1>6, <1>7, <1>8, <1>9, <1>10, <1>11, <1>12, <1>13,
       <1>14, <1>15, <1>16, <1>17, <1>18, <1>19, <1>20, <1>21, <1>22, <1>23, <1>24, <1>25,
       <1>26, <1>27, <1>28, <1>29
    DEF Next, Worker, Environment, Transmit, PostSend

(* A row becomes accepted only at a step that goes on to the post-send     *)
(* half, and only the rows in hand become accepted.                        *)
LEMMA PhaseStep == TypeOK /\ Ownership /\ PhaseMatchesRow /\ [Next]_vars => PhaseMatchesRow'
  <1> SUFFICES ASSUME TypeOK /\ Ownership /\ PhaseMatchesRow, [Next]_vars PROVE PhaseMatchesRow'
    OBVIOUS
  <1> USE OutboxAssumption DEF PhaseMatchesRow, TypeOK, Ownership, InHand, Holding, Steps, At, Goto, Drop, Transient,
              Unaccepted, Accepted, rowVars, clientVars, mailVars, historyVars, workerVars
  <1>1. ASSUME NEW i \in Intents, Submit(i) PROVE PhaseMatchesRow'
    BY <1>1 DEF Submit
  <1>2. ASSUME NEW i \in Intents, ImplicitMove(i) PROVE PhaseMatchesRow'
    BY <1>2 DEF ImplicitMove
  <1>3. ASSUME NEW i \in Intents, Cancel(i) PROVE PhaseMatchesRow'
    BY <1>3 DEF Cancel
  <1>4. ASSUME NEW i \in Intents, UserDestroy(i) PROVE PhaseMatchesRow'
    BY <1>4 DEF UserDestroy
  <1>5. ASSUME NEW i \in Intents, SyncSent(i) PROVE PhaseMatchesRow'
    BY <1>5 DEF SyncSent
  <1>6. CASE Boot
    BY <1>6 DEF Boot
  <1>7. CASE Recover
    BY <1>7 DEF Recover
  <1>8. ASSUME NEW rows \in SUBSET Intents, Claim(rows) PROVE PhaseMatchesRow'
    BY <1>8 DEF Claim
  <1>9. CASE BatchDone
    BY <1>9 DEF BatchDone
  <1>10. ASSUME NEW i \in Intents, Execute(i) PROVE PhaseMatchesRow'
    BY <1>10 DEF Execute, FirstStep
  <1>11. CASE Probe
    BY <1>11 DEF Probe
  <1>12. CASE Adopt
    BY <1>12 DEF Adopt
  <1>13. CASE Prepare
    BY <1>13 DEF Prepare
  <1>14. CASE LoadAccount
    BY <1>14 DEF LoadAccount
  <1>15. CASE Smtp
    BY <1>15 DEF Smtp
  <1>16. CASE Reply
    BY <1>16 DEF Reply
  <1>17. CASE Persist
    BY <1>17 DEF Persist
  <1>18. CASE Repersist
    BY <1>18 DEF Repersist
  <1>19. CASE Copy
    BY <1>19 DEF Copy
  <1>20. CASE Dedupe
    BY <1>20 DEF Dedupe
  <1>21. CASE Append
    BY <1>21 DEF Append
  <1>22. CASE Reflect
    BY <1>22 DEF Reflect
  <1>23. CASE Stamp
    BY <1>23 DEF Stamp
  <1>24. CASE Retire
    BY <1>24 DEF Retire
  <1>25. CASE Complete
    BY <1>25 DEF Complete
  <1>26. CASE Requeue
    BY <1>26 DEF Requeue
  <1>27. CASE Fail
    BY <1>27 DEF Fail
  <1>28. CASE Crash
    BY <1>28 DEF Crash
  <1>29. CASE UNCHANGED vars
    BY <1>29 DEF vars
  <1> QED
    BY <1>1, <1>2, <1>3, <1>4, <1>5, <1>6, <1>7, <1>8, <1>9, <1>10, <1>11, <1>12, <1>13,
       <1>14, <1>15, <1>16, <1>17, <1>18, <1>19, <1>20, <1>21, <1>22, <1>23, <1>24, <1>25,
       <1>26, <1>27, <1>28, <1>29
    DEF Next, Worker, Environment, Transmit, PostSend

(* The server takes a message at Smtp only; what it took stays accounted   *)
(* for until the row is accepted or the acceptance is known to be lost.    *)
LEMMA AccountedStep == TypeOK /\ Ownership /\ PhaseMatchesRow /\ Accounted /\ [Next]_vars => Accounted'
  <1> SUFFICES ASSUME TypeOK /\ Ownership /\ PhaseMatchesRow /\ Accounted, [Next]_vars PROVE Accounted'
    OBVIOUS
  <1> USE OutboxAssumption DEF Accounted, Unrecorded, PhaseMatchesRow, TypeOK, Ownership, InHand, Holding, Steps, At, Goto, Drop, Transient,
              Unaccepted, Accepted, rowVars, clientVars, mailVars, historyVars, workerVars
  <1>1. ASSUME NEW i \in Intents, Submit(i) PROVE Accounted'
    BY <1>1 DEF Submit
  <1>2. ASSUME NEW i \in Intents, ImplicitMove(i) PROVE Accounted'
    BY <1>2 DEF ImplicitMove
  <1>3. ASSUME NEW i \in Intents, Cancel(i) PROVE Accounted'
    BY <1>3 DEF Cancel
  <1>4. ASSUME NEW i \in Intents, UserDestroy(i) PROVE Accounted'
    BY <1>4 DEF UserDestroy
  <1>5. ASSUME NEW i \in Intents, SyncSent(i) PROVE Accounted'
    BY <1>5 DEF SyncSent
  <1>6. CASE Boot
    BY <1>6 DEF Boot
  <1>7. CASE Recover
    BY <1>7 DEF Recover
  <1>8. ASSUME NEW rows \in SUBSET Intents, Claim(rows) PROVE Accounted'
    BY <1>8 DEF Claim
  <1>9. CASE BatchDone
    BY <1>9 DEF BatchDone
  <1>10. ASSUME NEW i \in Intents, Execute(i) PROVE Accounted'
    BY <1>10 DEF Execute, FirstStep
  <1>11. CASE Probe
    BY <1>11 DEF Probe
  <1>12. CASE Adopt
    BY <1>12 DEF Adopt
  <1>13. CASE Prepare
    BY <1>13 DEF Prepare
  <1>14. CASE LoadAccount
    BY <1>14 DEF LoadAccount
  <1>15. CASE Smtp
    BY <1>15 DEF Smtp
  <1>16. CASE Reply
    BY <1>16 DEF Reply
  <1>17. CASE Persist
    BY <1>17 DEF Persist
  <1>18. CASE Repersist
    BY <1>18 DEF Repersist
  <1>19. CASE Copy
    BY <1>19 DEF Copy
  <1>20. CASE Dedupe
    BY <1>20 DEF Dedupe
  <1>21. CASE Append
    BY <1>21 DEF Append
  <1>22. CASE Reflect
    BY <1>22 DEF Reflect
  <1>23. CASE Stamp
    BY <1>23 DEF Stamp
  <1>24. CASE Retire
    BY <1>24 DEF Retire
  <1>25. CASE Complete
    BY <1>25 DEF Complete
  <1>26. CASE Requeue
    BY <1>26 DEF Requeue
  <1>27. CASE Fail
    BY <1>27 DEF Fail
  <1>28. CASE Crash
    BY <1>28 DEF Crash
  <1>29. CASE UNCHANGED vars
    BY <1>29 DEF vars
  <1> QED
    BY <1>1, <1>2, <1>3, <1>4, <1>5, <1>6, <1>7, <1>8, <1>9, <1>10, <1>11, <1>12, <1>13,
       <1>14, <1>15, <1>16, <1>17, <1>18, <1>19, <1>20, <1>21, <1>22, <1>23, <1>24, <1>25,
       <1>26, <1>27, <1>28, <1>29
    DEF Next, Worker, Environment, Transmit, PostSend

(* The three facts about outcomes that follow from the bookkeeping above.  *)
Outcomes == DuplicateOnlyInWindow /\ RefusedMeansUnsent /\ SentCopyMeansAccepted

(* A row is refused only while it is not accepted, and a copy is filed     *)
(* only after it is.                                                       *)
LEMMA OutcomesStep == TypeOK /\ Ownership /\ PhaseMatchesRow /\ Accounted /\ Outcomes /\ [Next]_vars => Outcomes'
  <1> SUFFICES ASSUME TypeOK /\ Ownership /\ PhaseMatchesRow /\ Accounted /\ Outcomes, [Next]_vars PROVE Outcomes'
    OBVIOUS
  <1> USE OutboxAssumption DEF Outcomes, DuplicateOnlyInWindow, RefusedMeansUnsent, SentCopyMeansAccepted,
              Accounted, Unrecorded, PhaseMatchesRow, Many, Bump, TypeOK, Ownership, InHand, Holding, Steps, At, Goto, Drop, Transient,
              Unaccepted, Accepted, rowVars, clientVars, mailVars, historyVars, workerVars
  <1>1. ASSUME NEW i \in Intents, Submit(i) PROVE Outcomes'
    BY <1>1 DEF Submit
  <1>2. ASSUME NEW i \in Intents, ImplicitMove(i) PROVE Outcomes'
    BY <1>2 DEF ImplicitMove
  <1>3. ASSUME NEW i \in Intents, Cancel(i) PROVE Outcomes'
    BY <1>3 DEF Cancel
  <1>4. ASSUME NEW i \in Intents, UserDestroy(i) PROVE Outcomes'
    BY <1>4 DEF UserDestroy
  <1>5. ASSUME NEW i \in Intents, SyncSent(i) PROVE Outcomes'
    BY <1>5 DEF SyncSent
  <1>6. CASE Boot
    BY <1>6 DEF Boot
  <1>7. CASE Recover
    BY <1>7 DEF Recover
  <1>8. ASSUME NEW rows \in SUBSET Intents, Claim(rows) PROVE Outcomes'
    BY <1>8 DEF Claim
  <1>9. CASE BatchDone
    BY <1>9 DEF BatchDone
  <1>10. ASSUME NEW i \in Intents, Execute(i) PROVE Outcomes'
    BY <1>10 DEF Execute, FirstStep
  <1>11. CASE Probe
    BY <1>11 DEF Probe
  <1>12. CASE Adopt
    BY <1>12 DEF Adopt
  <1>13. CASE Prepare
    BY <1>13 DEF Prepare
  <1>14. CASE LoadAccount
    BY <1>14 DEF LoadAccount
  <1>15. CASE Smtp
    BY <1>15 DEF Smtp
  <1>16. CASE Reply
    BY <1>16 DEF Reply
  <1>17. CASE Persist
    BY <1>17 DEF Persist
  <1>18. CASE Repersist
    BY <1>18 DEF Repersist
  <1>19. CASE Copy
    BY <1>19 DEF Copy
  <1>20. CASE Dedupe
    BY <1>20 DEF Dedupe
  <1>21. CASE Append
    BY <1>21 DEF Append
  <1>22. CASE Reflect
    BY <1>22 DEF Reflect
  <1>23. CASE Stamp
    BY <1>23 DEF Stamp
  <1>24. CASE Retire
    BY <1>24 DEF Retire
  <1>25. CASE Complete
    BY <1>25 DEF Complete
  <1>26. CASE Requeue
    BY <1>26 DEF Requeue
  <1>27. CASE Fail
    BY <1>27 DEF Fail
  <1>28. CASE Crash
    BY <1>28 DEF Crash
  <1>29. CASE UNCHANGED vars
    BY <1>29 DEF vars
  <1> QED
    BY <1>1, <1>2, <1>3, <1>4, <1>5, <1>6, <1>7, <1>8, <1>9, <1>10, <1>11, <1>12, <1>13,
       <1>14, <1>15, <1>16, <1>17, <1>18, <1>19, <1>20, <1>21, <1>22, <1>23, <1>24, <1>25,
       <1>26, <1>27, <1>28, <1>29
    DEF Next, Worker, Environment, Transmit, PostSend
=============================================================================
