--------------------------- MODULE OutboxPromise ----------------------------
(***************************************************************************)
(* What internal/submit promises the client of EmailSubmission, for every  *)
(* value of the constants: outcomes are final, nothing is lost or moved that*)
(* the client did not ask for, and Spec implements Submission.             *)
(***************************************************************************)
EXTENDS OutboxProofs

-----------------------------------------------------------------------------
(* What a step may do to a terminal row.                                   *)
TerminalStep ==
    \A i \in Intents : state[i] \in Terminal /\ state'[i] # state[i] =>
        state[i] = "done" /\ state'[i] = "queued" /\ i \in accepted

(* Only requeue touches a terminal row, the one whose completion reported  *)
(* an error.                                                               *)
LEMMA TerminalStepHolds == IndInv /\ [Next]_vars => TerminalStep
  <1> SUFFICES ASSUME IndInv, [Next]_vars PROVE TerminalStep
    OBVIOUS
  <1> USE OutboxAssumption DEF TerminalStep, Terminal, States, IndInv, TypeOK, Ownership, PhaseMatchesRow, InHand, Holding, Steps, At, Goto,
              Drop, Transient, Unaccepted, Accepted, rowVars, clientVars, mailVars, historyVars, workerVars
  <1>1. ASSUME NEW i \in Intents, Submit(i) PROVE TerminalStep
    BY <1>1 DEF Submit
  <1>2. ASSUME NEW i \in Intents, ImplicitMove(i) PROVE TerminalStep
    BY <1>2 DEF ImplicitMove
  <1>3. ASSUME NEW i \in Intents, Cancel(i) PROVE TerminalStep
    BY <1>3 DEF Cancel
  <1>4. ASSUME NEW i \in Intents, UserDestroy(i) PROVE TerminalStep
    BY <1>4 DEF UserDestroy
  <1>5. ASSUME NEW i \in Intents, SyncSent(i) PROVE TerminalStep
    BY <1>5 DEF SyncSent
  <1>6. CASE Boot
    BY <1>6 DEF Boot
  <1>7. CASE Recover
    BY <1>7 DEF Recover
  <1>8. ASSUME NEW rows \in SUBSET Intents, Claim(rows) PROVE TerminalStep
    BY <1>8 DEF Claim
  <1>9. CASE BatchDone
    BY <1>9 DEF BatchDone
  <1>10. ASSUME NEW i \in Intents, Execute(i) PROVE TerminalStep
    BY <1>10 DEF Execute, FirstStep
  <1>11. CASE Probe
    BY <1>11 DEF Probe
  <1>12. CASE Adopt
    BY <1>12 DEF Adopt
  <1>13. CASE Prepare
    BY <1>13 DEF Prepare
  <1>14. CASE LoadAccount
    BY <1>14 DEF LoadAccount
  <1>15. CASE Smtp
    BY <1>15 DEF Smtp
  <1>16. CASE Reply
    BY <1>16 DEF Reply
  <1>17. CASE Persist
    BY <1>17 DEF Persist
  <1>18. CASE Repersist
    BY <1>18 DEF Repersist
  <1>19. CASE Copy
    BY <1>19 DEF Copy
  <1>20. CASE Dedupe
    BY <1>20 DEF Dedupe
  <1>21. CASE Append
    BY <1>21 DEF Append
  <1>22. CASE Reflect
    BY <1>22 DEF Reflect
  <1>23. CASE Stamp
    BY <1>23 DEF Stamp
  <1>24. CASE Retire
    BY <1>24 DEF Retire
  <1>25. CASE Complete
    BY <1>25 DEF Complete
  <1>26. CASE Requeue
    BY <1>26 DEF Requeue
  <1>27. CASE Fail
    BY <1>27 DEF Fail
  <1>28. CASE Crash
    BY <1>28 DEF Crash
  <1>29. CASE UNCHANGED vars
    BY <1>29 DEF vars
  <1> QED
    BY <1>1, <1>2, <1>3, <1>4, <1>5, <1>6, <1>7, <1>8, <1>9, <1>10, <1>11, <1>12, <1>13,
       <1>14, <1>15, <1>16, <1>17, <1>18, <1>19, <1>20, <1>21, <1>22, <1>23, <1>24, <1>25,
       <1>26, <1>27, <1>28, <1>29
    DEF Next, Worker, Environment, Transmit, PostSend

(* canceled and failed are final, and a done row that comes back is        *)
(* accepted, so that only its post-send steps are repeated.                *)
THEOREM TerminalIsStable == Spec => TerminalStable
  <1>1. IndInv /\ [Next]_vars => [TerminalStep]_vars
    BY TerminalStepHolds
  <1> QED
    BY <1>1, Inductive, PTL DEF Spec, TerminalStable, TerminalStep

-----------------------------------------------------------------------------
(* Clients that do not pass onSuccessUpdateEmail.                          *)
(* The Sent probe never hits, so the only way to acceptance is a 250.      *)
LEMMA DeliveredStep == MayFile = FALSE /\ TypeOK /\ Ownership /\ TakenInHand /\ SecondNetIdle /\ AcceptedMeansDelivered /\ [Next]_vars => AcceptedMeansDelivered'
  <1> SUFFICES ASSUME MayFile = FALSE /\ TypeOK /\ Ownership /\ TakenInHand /\ SecondNetIdle /\ AcceptedMeansDelivered, [Next]_vars PROVE AcceptedMeansDelivered'
    OBVIOUS
  <1> USE OutboxAssumption DEF AcceptedMeansDelivered, TakenInHand, SecondNetIdle, Many, Bump,
              TypeOK, Ownership, InHand, Holding, Steps, At, Goto, Drop,
              Transient, rowVars, clientVars, mailVars, historyVars, workerVars
  <1>1. ASSUME NEW i \in Intents, Submit(i) PROVE AcceptedMeansDelivered'
    BY <1>1 DEF Submit
  <1>2. ASSUME NEW i \in Intents, ImplicitMove(i) PROVE AcceptedMeansDelivered'
    BY <1>2 DEF ImplicitMove
  <1>3. ASSUME NEW i \in Intents, Cancel(i) PROVE AcceptedMeansDelivered'
    BY <1>3 DEF Cancel
  <1>4. ASSUME NEW i \in Intents, UserDestroy(i) PROVE AcceptedMeansDelivered'
    BY <1>4 DEF UserDestroy
  <1>5. ASSUME NEW i \in Intents, SyncSent(i) PROVE AcceptedMeansDelivered'
    BY <1>5 DEF SyncSent
  <1>6. CASE Boot
    BY <1>6 DEF Boot
  <1>7. CASE Recover
    BY <1>7 DEF Recover
  <1>8. ASSUME NEW rows \in SUBSET Intents, Claim(rows) PROVE AcceptedMeansDelivered'
    BY <1>8 DEF Claim
  <1>9. CASE BatchDone
    BY <1>9 DEF BatchDone
  <1>10. ASSUME NEW i \in Intents, Execute(i) PROVE AcceptedMeansDelivered'
    BY <1>10 DEF Execute, FirstStep
  <1>11. CASE Probe
    BY <1>11 DEF Probe
  <1>12. CASE Adopt
    BY <1>12 DEF Adopt
  <1>13. CASE Prepare
    BY <1>13 DEF Prepare
  <1>14. CASE LoadAccount
    BY <1>14 DEF LoadAccount
  <1>15. CASE Smtp
    BY <1>15 DEF Smtp
  <1>16. CASE Reply
    BY <1>16 DEF Reply
  <1>17. CASE Persist
    BY <1>17 DEF Persist
  <1>18. CASE Repersist
    BY <1>18 DEF Repersist
  <1>19. CASE Copy
    BY <1>19 DEF Copy
  <1>20. CASE Dedupe
    BY <1>20 DEF Dedupe
  <1>21. CASE Append
    BY <1>21 DEF Append
  <1>22. CASE Reflect
    BY <1>22 DEF Reflect
  <1>23. CASE Stamp
    BY <1>23 DEF Stamp
  <1>24. CASE Retire
    BY <1>24 DEF Retire
  <1>25. CASE Complete
    BY <1>25 DEF Complete
  <1>26. CASE Requeue
    BY <1>26 DEF Requeue
  <1>27. CASE Fail
    BY <1>27 DEF Fail
  <1>28. CASE Crash
    BY <1>28 DEF Crash
  <1>29. CASE UNCHANGED vars
    BY <1>29 DEF vars
  <1> QED
    BY <1>1, <1>2, <1>3, <1>4, <1>5, <1>6, <1>7, <1>8, <1>9, <1>10, <1>11, <1>12, <1>13, <1>14, <1>15, <1>16, <1>17, <1>18, <1>19, <1>20, <1>21, <1>22, <1>23, <1>24, <1>25, <1>26, <1>27, <1>28, <1>29
    DEF Next, Worker, Environment, Transmit, PostSend

(* No message is lost when clients do not file their drafts: a row with    *)
(* accepted_at was transmitted.                                            *)
THEOREM NothingLostUnlessFiled ==
    ASSUME MayFile = FALSE PROVE Spec => []AcceptedMeansDelivered
  <1>1. Init => AcceptedMeansDelivered
    BY DEF Init, AcceptedMeansDelivered
  <1>2. IndInv /\ AcceptedMeansDelivered /\ [Next]_vars => AcceptedMeansDelivered'
    BY MayFile = FALSE, DeliveredStep DEF IndInv
  <1> QED
    BY <1>1, <1>2, Inductive, PTL DEF Spec

-----------------------------------------------------------------------------
(* A user who leaves drafts and sent mail alone.                           *)
Held == DraftHeldUntilSent /\ \A i \in Intents : state[i] = "absent" => mailbox[i] = "Drafts"

(* Only retireScheduledDraft moves the draft of a scheduled send.          *)
LEMMA HeldStep == MayTouch = FALSE /\ TypeOK /\ Ownership /\ PhaseMatchesRow /\ HoldOrMove /\ Held /\ [Next]_vars => Held'
  <1> SUFFICES ASSUME MayTouch = FALSE /\ TypeOK /\ Ownership /\ PhaseMatchesRow /\ HoldOrMove /\ Held, [Next]_vars PROVE Held'
    OBVIOUS
  <1> USE OutboxAssumption DEF Held, DraftHeldUntilSent, HoldOrMove, PhaseMatchesRow, Accepted, Unaccepted,
              States, Destroyed, TypeOK, Ownership, InHand, Holding, Steps, At, Goto, Drop,
              Transient, rowVars, clientVars, mailVars, historyVars, workerVars
  <1>1. ASSUME NEW i \in Intents, Submit(i) PROVE Held'
    BY <1>1 DEF Submit
  <1>2. ASSUME NEW i \in Intents, ImplicitMove(i) PROVE Held'
    BY <1>2 DEF ImplicitMove
  <1>3. ASSUME NEW i \in Intents, Cancel(i) PROVE Held'
    BY <1>3 DEF Cancel
  <1>4. ASSUME NEW i \in Intents, UserDestroy(i) PROVE Held'
    BY <1>4 DEF UserDestroy
  <1>5. ASSUME NEW i \in Intents, SyncSent(i) PROVE Held'
    BY <1>5 DEF SyncSent
  <1>6. CASE Boot
    BY <1>6 DEF Boot
  <1>7. CASE Recover
    BY <1>7 DEF Recover
  <1>8. ASSUME NEW rows \in SUBSET Intents, Claim(rows) PROVE Held'
    BY <1>8 DEF Claim
  <1>9. CASE BatchDone
    BY <1>9 DEF BatchDone
  <1>10. ASSUME NEW i \in Intents, Execute(i) PROVE Held'
    BY <1>10 DEF Execute, FirstStep
  <1>11. CASE Probe
    BY <1>11 DEF Probe
  <1>12. CASE Adopt
    BY <1>12 DEF Adopt
  <1>13. CASE Prepare
    BY <1>13 DEF Prepare
  <1>14. CASE LoadAccount
    BY <1>14 DEF LoadAccount
  <1>15. CASE Smtp
    BY <1>15 DEF Smtp
  <1>16. CASE Reply
    BY <1>16 DEF Reply
  <1>17. CASE Persist
    BY <1>17 DEF Persist
  <1>18. CASE Repersist
    BY <1>18 DEF Repersist
  <1>19. CASE Copy
    BY <1>19 DEF Copy
  <1>20. CASE Dedupe
    BY <1>20 DEF Dedupe
  <1>21. CASE Append
    BY <1>21 DEF Append
  <1>22. CASE Reflect
    BY <1>22 DEF Reflect
  <1>23. CASE Stamp
    BY <1>23 DEF Stamp
  <1>24. CASE Retire
    BY <1>24 DEF Retire
  <1>25. CASE Complete
    BY <1>25 DEF Complete
  <1>26. CASE Requeue
    BY <1>26 DEF Requeue
  <1>27. CASE Fail
    BY <1>27 DEF Fail
  <1>28. CASE Crash
    BY <1>28 DEF Crash
  <1>29. CASE UNCHANGED vars
    BY <1>29 DEF vars
  <1> QED
    BY <1>1, <1>2, <1>3, <1>4, <1>5, <1>6, <1>7, <1>8, <1>9, <1>10, <1>11, <1>12, <1>13, <1>14, <1>15, <1>16, <1>17, <1>18, <1>19, <1>20, <1>21, <1>22, <1>23, <1>24, <1>25, <1>26, <1>27, <1>28, <1>29
    DEF Next, Worker, Environment, Transmit, PostSend

(* A scheduled message is a draft the user can still edit until it is sent *)
(* and its copy in Sent is stamped, through every crash and retry.         *)
THEOREM ScheduledDraftHeld ==
    ASSUME MayTouch = FALSE PROVE Spec => []DraftHeldUntilSent
  <1>1. Init => Held
    BY DEF Init, Held, DraftHeldUntilSent
  <1>2. IndInv /\ Held /\ [Next]_vars => Held'
    BY MayTouch = FALSE, HeldStep DEF IndInv
  <1>3. Held => DraftHeldUntilSent
    BY DEF Held
  <1> QED
    BY <1>1, <1>2, <1>3, Inductive, PTL DEF Spec

-----------------------------------------------------------------------------
(* The refinement.  A step of the executor, a handler or a crash is one    *)
(* step of Submission on one submission, or none.                          *)

(* What a row says of its submission.                                      *)
LEMMA FateOfRow ==
    ASSUME TypeOK, NEW i \in Intents
    PROVE  /\ state[i] = "absent" => Fate[i] = "draft"
           /\ state[i] \in {"queued", "in_flight", "done"} =>
                 Fate[i] = IF i \in accepted THEN "sent" ELSE "pending"
           /\ state[i] \in {"canceled", "failed"} => Fate[i] = state[i]
  BY DEF Fate

(* A step that changes the outcome of one submission.                      *)
LEMMA FateUpdate ==
    ASSUME NEW i \in Intents, NEW f,
           \A j \in Intents : Fate'[j] = IF j = i THEN f ELSE Fate[j]
    PROVE  Fate' = [Fate EXCEPT ![i] = f]
  <1>1. Fate = [j \in Intents |-> Fate[j]] /\ Fate' = [j \in Intents |-> Fate'[j]]
    BY DEF Fate
  <1>2. [Fate EXCEPT ![i] = f] = [j \in Intents |-> IF j = i THEN f ELSE Fate[j]]
    BY <1>1
  <1>3. Fate' = [j \in Intents |-> IF j = i THEN f ELSE Fate[j]]
    BY <1>1
  <1> QED
    BY <1>2, <1>3

(* A step that leaves the rows' states, the acceptances and the history    *)
(* alone is invisible to the client of EmailSubmission.                    *)
LEMMA QuietStep ==
    UNCHANGED <<state, accepted, deliveries, lostReply, lostRecord>>
        => UNCHANGED Promise!submissionVars
  BY DEF Fate, Unrecorded, Promise!submissionVars

LEMMA PromiseStep == IndInv /\ [Next]_vars => [Promise!SubNext]_(Promise!submissionVars)
  <1> SUFFICES ASSUME IndInv, [Next]_vars
               PROVE  Promise!SubNext \/ UNCHANGED Promise!submissionVars
    OBVIOUS
  <1> USE OutboxAssumption
  <1> DEFINE Goal == Promise!SubNext \/ UNCHANGED Promise!submissionVars
  <1>0. /\ TypeOK /\ Ownership /\ PhaseMatchesRow /\ Accounted
        /\ TakenInHand /\ SecondNetIdle /\ HoldOrMove
    BY DEF IndInv
  \* What is known of the intent in hand, by the step the executor is at.
  <1>h. pc \in Holding => cur \in Intents
    BY <1>0 DEF TypeOK, Ownership
  <1>p. pc \in Unaccepted => state[cur] = "in_flight" /\ Fate[cur] = "pending"
    BY <1>0, <1>h, FateOfRow DEF Ownership, PhaseMatchesRow, Unaccepted, Holding, Steps, InHand
  <1>1. ASSUME NEW i \in Intents, Submit(i) PROVE Promise!Create(i)
    <2>1. Fate[i] = "draft" /\ i \notin accepted
      BY <1>0, <1>1, FateOfRow DEF Submit, HoldOrMove
    <2>2. Fate' = [Fate EXCEPT ![i] = "pending"]
      <3>1. \A j \in Intents : Fate'[j] = IF j = i THEN "pending" ELSE Fate[j]
        BY <1>0, <1>1, <2>1 DEF Submit, Fate, TypeOK, States
      <3> QED
        BY <3>1, FateUpdate
    <2> QED
      BY <1>1, <2>1, <2>2 DEF Submit, Promise!Create, Unrecorded, historyVars
  <1>2. ASSUME NEW i \in Intents, Cancel(i) PROVE Promise!GiveUp(i)
    <2>1. Fate[i] = "pending"
      BY <1>0, <1>2, FateOfRow DEF Cancel
    <2>2. Fate' = [Fate EXCEPT ![i] = "canceled"]
      <3>1. \A j \in Intents : Fate'[j] = IF j = i THEN "canceled" ELSE Fate[j]
        BY <1>0, <1>2 DEF Cancel, Fate, TypeOK, States
      <3> QED
        BY <3>1, FateUpdate
    <2>3. Promise!Untaken(i)
      BY <1>0, <1>2 DEF Cancel, Accounted, Ownership, InHand, Holding, Steps, TypeOK, Promise!Untaken, Many
    <2> QED
      BY <1>2, <2>1, <2>2, <2>3 DEF Cancel, Promise!GiveUp, Promise!Settle, Unrecorded, historyVars
  <1>3. ASSUME NEW rows \in SUBSET Intents, Claim(rows) PROVE UNCHANGED Promise!submissionVars
    BY <1>0, <1>3 DEF Claim, Fate, TypeOK, States, Unrecorded, historyVars, Promise!submissionVars
  <1>4. ASSUME Adopt PROVE Goal
    <2>1. cur \in Intents /\ Fate[cur] = "pending" /\ MayFile
      BY <1>0, <1>4, <1>h, <1>p DEF Adopt, At, Holding, Steps, Unaccepted, SecondNetIdle
    <2>2. CASE accepted' = accepted
      BY <1>4, <2>2, QuietStep DEF Adopt, historyVars
    <2>3. CASE accepted' = accepted \cup {cur}
      <3>1. Fate' = [Fate EXCEPT ![cur] = "sent"]
        <4>1. \A j \in Intents : Fate'[j] = IF j = cur THEN "sent" ELSE Fate[j]
          BY <1>0, <1>4, <2>1, <2>3, <1>p DEF Adopt, At, Unaccepted, Fate, TypeOK, States
        <4> QED
          BY <2>1, <4>1, FateUpdate
      <3>p. Promise!Confirm(cur)
        BY <1>4, <2>1, <3>1 DEF Adopt, Promise!Confirm, Promise!Settle, Unrecorded, historyVars
      <3> QED
        BY <2>1, <3>p DEF Promise!SubNext
    <2> QED
      BY <1>4, <2>2, <2>3 DEF Adopt
  <1>5. ASSUME Smtp PROVE Goal
    <2>1. cur \in Intents /\ Fate[cur] = "pending"
      BY <1>5, <1>h, <1>p DEF Smtp, At, Holding, Steps, Unaccepted
    <2>2. CASE UNCHANGED deliveries
      BY <1>5, <2>2, QuietStep DEF Smtp, rowVars
    <2>3. CASE deliveries' = [deliveries EXCEPT ![cur] = Bump(@, Many)]
      <3>1. Promise!Untaken(cur)
        BY <1>0, <1>5, <2>1 DEF Smtp, At, Accounted, PhaseMatchesRow, Unaccepted, TypeOK, Promise!Untaken, Many
      <3>2. Fate' = Fate /\ Unrecorded' = Unrecorded
        BY <1>5 DEF Smtp, Fate, Unrecorded, rowVars
      <3>p. Promise!Take(cur)
        BY <2>1, <2>3, <3>1, <3>2 DEF Promise!Take, Bump, Many
      <3> QED
        BY <2>1, <3>p DEF Promise!SubNext
    <2> QED
      BY <1>5, <2>2, <2>3 DEF Smtp
  <1>6. ASSUME Reply PROVE Goal
    <2>1. cur \in Intents /\ Fate[cur] = "pending" /\ deliveries[cur] > 0
      BY <1>0, <1>6, <1>h, <1>p DEF Reply, At, Holding, Steps, Unaccepted, TakenInHand
    <2>2. CASE UNCHANGED lostReply
      BY <1>6, <2>2, QuietStep DEF Reply, rowVars
    <2>3. CASE lostReply' = lostReply \cup {cur}
      <3>1. Fate' = Fate /\ Unrecorded' = Unrecorded \cup {cur}
        BY <1>6, <2>3 DEF Reply, Fate, Unrecorded, rowVars
      <3>p. Promise!LoseTrack(cur)
        BY <1>6, <2>1, <3>1 DEF Reply, Promise!LoseTrack
      <3> QED
        BY <2>1, <3>p DEF Promise!SubNext
    <2> QED
      BY <1>6, <2>2, <2>3 DEF Reply
  <1>7. ASSUME Persist PROVE Goal
    <2>1. cur \in Intents /\ Fate[cur] = "pending" /\ deliveries[cur] > 0
      BY <1>0, <1>7, <1>h, <1>p DEF Persist, At, Holding, Steps, Unaccepted, TakenInHand
    <2>2. CASE accepted' = accepted
      BY <1>7, <2>2, QuietStep DEF Persist, historyVars
    <2>3. CASE accepted' = accepted \cup {cur}
      <3>1. Fate' = [Fate EXCEPT ![cur] = "sent"]
        <4>1. \A j \in Intents : Fate'[j] = IF j = cur THEN "sent" ELSE Fate[j]
          BY <1>0, <1>7, <2>1, <2>3, <1>p DEF Persist, At, Unaccepted, Fate, TypeOK, States
        <4> QED
          BY <2>1, <4>1, FateUpdate
      <3>p. Promise!Confirm(cur)
        BY <1>7, <2>1, <3>1 DEF Persist, Promise!Confirm, Promise!Settle, Unrecorded, historyVars
      <3> QED
        BY <2>1, <3>p DEF Promise!SubNext
    <2> QED
      BY <1>7, <2>2, <2>3 DEF Persist
  <1>8. ASSUME Repersist PROVE Goal
    <2>1. cur \in Intents /\ deliveries[cur] > 0 /\ state[cur] = "in_flight"
      BY <1>0, <1>8, <1>h DEF Repersist, At, Holding, Steps, TakenInHand, Ownership, InHand
    <2>2. CASE cur \in accepted
      BY <1>8, <2>2, QuietStep DEF Repersist
    <2>3. CASE cur \notin accepted /\ accepted' = accepted \cup {cur} /\ UNCHANGED lostRecord
      <3>1. Fate[cur] = "pending" /\ Fate' = [Fate EXCEPT ![cur] = "sent"]
        <4>1. Fate[cur] = "pending" /\ \A j \in Intents : Fate'[j] = IF j = cur THEN "sent" ELSE Fate[j]
          BY <1>0, <1>8, <2>1, <2>3, FateOfRow DEF Repersist, Fate, TypeOK, States
        <4> QED
          BY <2>1, <4>1, FateUpdate
      <3>p. Promise!Confirm(cur)
        BY <1>8, <2>1, <2>3, <3>1 DEF Repersist, Promise!Confirm, Promise!Settle, Unrecorded
      <3> QED
        BY <2>1, <3>p DEF Promise!SubNext
    <2>4. CASE cur \notin accepted /\ UNCHANGED accepted /\ lostRecord' = lostRecord \cup {cur}
      <3>1. Fate[cur] = "pending" /\ Fate' = Fate
        BY <1>0, <1>8, <2>1, <2>4, FateOfRow DEF Repersist, Fate
      <3>p. Promise!LoseTrack(cur)
        BY <1>8, <2>1, <2>4, <3>1 DEF Repersist, Promise!LoseTrack, Unrecorded
      <3> QED
        BY <2>1, <3>p DEF Promise!SubNext
    <2> QED
      BY <1>8, <2>2, <2>3, <2>4 DEF Repersist
  <1>9. ASSUME Complete PROVE UNCHANGED Promise!submissionVars
    <2>1. cur \in accepted /\ state[cur] = "in_flight"
      BY <1>0, <1>9 DEF Complete, At, PhaseMatchesRow, Accepted, Ownership, InHand, Holding, Steps
    <2> QED
      BY <1>0, <1>9, <2>1 DEF Complete, Fate, TypeOK, States, Unrecorded, historyVars, Promise!submissionVars
  <1>10. ASSUME Requeue PROVE UNCHANGED Promise!submissionVars
    <2>1. state[cur] = "in_flight" \/ (state[cur] = "done" /\ cur \in accepted)
      BY <1>0, <1>10, <1>h DEF Requeue, At, PhaseMatchesRow, Ownership, InHand, Holding, Steps
    <2> QED
      BY <1>0, <1>10, <2>1 DEF Requeue, Fate, TypeOK, States, Unrecorded, historyVars, Promise!submissionVars
  <1>11. ASSUME Fail PROVE Goal
    <2>1. cur \in Intents /\ Fate[cur] = "pending" /\ cur \notin accepted
      BY <1>0, <1>11, <1>h, <1>p DEF Fail, At, Holding, Steps, Unaccepted, PhaseMatchesRow
    <2>2. CASE UNCHANGED state
      BY <1>11, <2>2, QuietStep DEF Fail, historyVars
    <2>3. CASE state' = [state EXCEPT ![cur] = "failed"]
      <3>1. Fate' = [Fate EXCEPT ![cur] = "failed"]
        <4>1. \A j \in Intents : Fate'[j] = IF j = cur THEN "failed" ELSE Fate[j]
          BY <1>0, <1>11, <2>1, <2>3 DEF Fail, Fate, TypeOK, States
        <4> QED
          BY <2>1, <4>1, FateUpdate
      <3>2. Promise!Untaken(cur)
        BY <1>0, <1>11, <2>1 DEF Fail, At, Accounted, TypeOK, Promise!Untaken, Many
      <3>p. Promise!GiveUp(cur)
        BY <1>11, <2>1, <3>1, <3>2 DEF Fail, Promise!GiveUp, Promise!Settle, Unrecorded, historyVars
      <3> QED
        BY <2>1, <3>p DEF Promise!SubNext
    <2> QED
      BY <1>11, <2>2, <2>3 DEF Fail
  <1>12. ASSUME Crash PROVE Goal
    <2>1. CASE UNCHANGED <<lostReply, lostRecord>>
      BY <1>12, <2>1, QuietStep DEF Crash, rowVars
    <2>2. CASE ~UNCHANGED <<lostReply, lostRecord>>
      <3>1. /\ pc \in {"reply", "persist", "repersist"} /\ cur \notin accepted
            /\ Unrecorded' = Unrecorded \cup {cur}
        BY <1>0, <1>12, <2>2 DEF Crash, At, PhaseMatchesRow, Unaccepted, Unrecorded
      <3>2. cur \in Intents /\ deliveries[cur] > 0 /\ state[cur] = "in_flight"
        BY <1>0, <1>h, <3>1 DEF Holding, Steps, TakenInHand, Ownership, InHand
      <3>3. Fate[cur] = "pending" /\ Fate' = Fate
        BY <1>0, <1>12, <3>1, <3>2, FateOfRow DEF Crash, Fate, rowVars
      <3>p. Promise!LoseTrack(cur)
        BY <1>12, <3>1, <3>2, <3>3 DEF Crash, Promise!LoseTrack
      <3> QED
        BY <3>2, <3>p DEF Promise!SubNext
    <2> QED
      BY <2>1, <2>2
  <1>13. ASSUME \/ Boot \/ Recover \/ BatchDone \/ Probe \/ Prepare \/ LoadAccount
                \/ PostSend /\ ~Complete
                \/ \E i \in Intents : Execute(i) \/ ImplicitMove(i) \/ UserDestroy(i) \/ SyncSent(i)
                \/ UNCHANGED vars
         PROVE  UNCHANGED Promise!submissionVars
    <2>1. UNCHANGED <<state, accepted, deliveries, lostReply, lostRecord>>
      BY <1>13, Zenon DEF Boot, Recover, BatchDone, Probe, Prepare, LoadAccount, PostSend, Copy, Dedupe,
        Append, Reflect, Stamp, Retire, Execute, ImplicitMove, UserDestroy, SyncSent, vars,
        rowVars, historyVars
    <2> QED
      BY <2>1, QuietStep
  <1> QED
    BY <1>1, <1>2, <1>3, <1>4, <1>5, <1>6, <1>7, <1>8, <1>9, <1>10, <1>11, <1>12, <1>13
    DEF Next, Worker, Environment, Transmit, Promise!SubNext

(* The executor with its rows, retries, crashes and mailboxes implements   *)
(* the few lines of Submission: pending until sent, canceled or failed,    *)
(* each final; taken again only in doubt; given up only if untaken or in   *)
(* doubt.                                                                  *)
THEOREM ImplementsSubmission == Spec => KeepsPromise
  <1>1. Init => Promise!SubInit
    BY DEF Init, Fate, Unrecorded, Promise!SubInit
  <1>2. IndInv /\ [Next]_vars => [Promise!SubNext]_(Promise!submissionVars)
    BY PromiseStep
  <1> QED
    BY <1>1, <1>2, Inductive, PTL DEF Spec, KeepsPromise, Promise!SubSpec
=============================================================================
