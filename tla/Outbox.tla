------------------------------- MODULE Outbox -------------------------------
(***************************************************************************)
(* The outbox executor of internal/submit, the send-intent rows of         *)
(* internal/store it drives, and the handlers and mailboxes it races with. *)
(*                                                                         *)
(* A send intent is one row of the intents table.  EmailSubmission/set     *)
(* inserts and cancels rows, one executor goroutine claims and executes    *)
(* them one at a time, and the message itself lives on the IMAP server,    *)
(* where the user, the implicit Email/set of RFC 8621 7.5 and the executor *)
(* all move it.  A step of the executor is one database statement, one     *)
(* SMTP exchange or one IMAP command; it may fail, and the process may die *)
(* between any two of them.                                                *)
(*                                                                         *)
(* Time is abstracted: any queued row may be due.  Wherever the code       *)
(* compares not_before with created_at the result is kept in late.         *)
(***************************************************************************)
EXTENDS Naturals, FiniteSets

CONSTANTS
    Intents,       \* the send intents that may be created
    None,          \* no intent in hand
    MaxAttempts,   \* Options.MaxAttempts, the cap on transient failures
    ClaimBatch,    \* Options.ClaimBatch, the rows one claim takes
    MaxFaults,     \* how many I/O faults and crashes a behaviour may have
    MayFile,       \* TRUE: clients pass onSuccessUpdateEmail with a send
    MayTouch       \* TRUE: the user deletes drafts and sent messages

ASSUME OutboxAssumption ==
    /\ None \notin Intents
    /\ MaxAttempts \in Nat /\ MaxAttempts >= 2
    /\ ClaimBatch \in Nat \ {0}
    /\ MaxFaults \in Nat
    /\ MayFile \in BOOLEAN /\ MayTouch \in BOOLEAN

VARIABLES
    state,       \* intents.state of each row; "absent" before the INSERT
    attempts,    \* intents.attempts, saturated at MaxAttempts
    accepted,    \* the rows with accepted_at set
    appended,    \* the rows with appended_at set
    late,        \* the rows with not_before more than 30 s after created_at
    scheduled,   \* the submissions created with a future sendAt
    mailbox,     \* where the message the intent names (EmailID) is
    moving,      \* submissions whose handler still owes the implicit Email/set
    copies,      \* copies of the message APPENDed to Sent, 0, 1 or Many
    seen,        \* the intents a Sent copy of which is in Moov's own store
    deliveries,  \* transmissions the SMTP server took, 0, 1 or Many
    lostReply,   \* history: taken by the server, and its 250 was never read
    lostRecord,  \* history: the 250 was read, and never recorded
    refused,     \* history: the server answered 5yz
    pc, cur,     \* the executor: its next step, the intent it executes,
    batch,       \* the other intents it has in hand,
    recovered,   \* and whether they came from the recovery pass
    faults       \* faults left

rowVars     == <<state, attempts, accepted, appended, late>>
clientVars  == <<scheduled, moving>>
mailVars    == <<mailbox, copies, seen>>
historyVars == <<deliveries, lostReply, lostRecord, refused>>
workerVars  == <<pc, cur, batch, recovered>>
vars == <<rowVars, clientVars, mailVars, historyVars, workerVars, faults>>

States    == {"absent", "queued", "in_flight", "canceled", "failed", "done"}
Terminal  == {"canceled", "failed", "done"}
Mailboxes == {"Drafts", "Sent", "Trash", "Expunged"}
Many      == 2

Steps == {"down", "recover", "idle", "next", "probe", "adopt", "prepare",
          "account", "smtp", "reply", "persist", "repersist", "copy",
          "dedupe", "append", "reflect", "stamp", "retire", "complete", "requeue", "fail"}

(* The steps in which the executor has an intent in hand.                  *)
Holding == Steps \ {"down", "recover", "idle", "next"}

Bump(n, cap) == IF n < cap THEN n + 1 ELSE n

(* Every error return, every crash takes one fault from the budget.        *)
Fault   == faults > 0 /\ faults' = faults - 1
NoFault == faults' = faults

-----------------------------------------------------------------------------
Init ==
    /\ state = [i \in Intents |-> "absent"]
    /\ attempts = [i \in Intents |-> 0]
    /\ accepted = {} /\ appended = {} /\ late = {} /\ scheduled = {}
    /\ mailbox = [i \in Intents |-> "Drafts"]
    /\ moving = {} /\ seen = {}
    /\ copies = [i \in Intents |-> 0]
    /\ deliveries = [i \in Intents |-> 0]
    /\ lostReply = {} /\ lostRecord = {} /\ refused = {}
    /\ pc = "down" /\ cur = None /\ batch = {} /\ recovered = FALSE
    /\ faults = MaxFaults

-----------------------------------------------------------------------------
(* EmailSubmission/set and the user.                                       *)

(* applySubmissionCreate: the row is inserted queued.  A scheduled         *)
(* submission holds its draft: the implicit Email/set skips it.            *)
Submit(i) ==
    /\ state[i] = "absent"
    /\ mailbox[i] # "Expunged"
    /\ state' = [state EXCEPT ![i] = "queued"]
    /\ \/ /\ scheduled' = scheduled \cup {i}
          /\ late' = late \cup {i}
          /\ UNCHANGED moving
       \/ /\ moving' \in {moving} \cup (IF MayFile THEN {moving \cup {i}} ELSE {})
          /\ UNCHANGED <<scheduled, late>>
    /\ UNCHANGED <<attempts, accepted, appended, mailVars, historyVars, workerVars, faults>>

(* applyOnSuccess: the handler's implicit Email/set files the draft in     *)
(* Sent, or fails; the row is already queued either way.                   *)
ImplicitMove(i) ==
    /\ i \in moving
    /\ moving' = moving \ {i}
    /\ \/ /\ mailbox[i] # "Expunged"
          /\ mailbox' = [mailbox EXCEPT ![i] = "Sent"]
          /\ NoFault
       \/ /\ mailbox[i] = "Expunged"
          /\ NoFault /\ UNCHANGED mailbox
       \/ Fault /\ UNCHANGED mailbox
    /\ UNCHANGED <<rowVars, scheduled, copies, seen, historyVars, workerVars>>

(* Variant: a cancel that does not test the state of the row.              *)
CancelAnyState(i) ==
    /\ state[i] \in {"queued", "in_flight"} /\ i \notin accepted
    /\ state' = [state EXCEPT ![i] = "canceled"]
    /\ UNCHANGED <<attempts, accepted, appended, late, clientVars, mailVars,
                   historyVars, workerVars, faults>>

(* Variant: a cancel that does not test accepted_at.                       *)
CancelAccepted(i) ==
    /\ state[i] = "queued"
    /\ state' = [state EXCEPT ![i] = "canceled"]
    /\ UNCHANGED <<attempts, accepted, appended, late, clientVars, mailVars,
                   historyVars, workerVars, faults>>

(* CancelSendIntent and the cancel half of DestroySendIntent: one          *)
(* compare-and-set.                                                        *)
Cancel(i) ==
    /\ state[i] = "queued"
    /\ i \notin accepted
    /\ state' = [state EXCEPT ![i] = "canceled"]
    /\ UNCHANGED <<attempts, accepted, appended, late, clientVars, mailVars,
                   historyVars, workerVars, faults>>

(* Variant: a destroy that moves to a mailbox the account does not have.   *)
DestroyedElsewhere(m) == IF m \in {"Trash", "Expunged"} THEN "Expunged" ELSE "Bin"

(* ApplyDestroy: to Trash from anywhere else, expunged from Trash, and     *)
(* ErrWriteNotFound once it is gone.                                       *)
Destroyed(m) == IF m \in {"Trash", "Expunged"} THEN "Expunged" ELSE "Trash"

UserDestroy(i) ==
    /\ MayTouch
    /\ mailbox[i] # "Expunged"
    /\ mailbox' = [mailbox EXCEPT ![i] = Destroyed(@)]
    /\ UNCHANGED <<rowVars, clientVars, copies, seen, historyVars, workerVars, faults>>

(* The watcher finds a Sent copy whose reflection was lost.                *)
SyncSent(i) ==
    /\ copies[i] > 0
    /\ i \notin seen
    /\ seen' = seen \cup {i}
    /\ UNCHANGED <<rowVars, clientVars, mailbox, copies, historyVars, workerVars, faults>>

-----------------------------------------------------------------------------
(* The executor.  Goto(p) continues with the intent in hand at step p,     *)
(* Drop gives it up and takes the next of the batch.                       *)

Goto(p) == pc' = p /\ UNCHANGED <<cur, batch, recovered>>
Drop    == pc' = "next" /\ cur' = None /\ UNCHANGED <<batch, recovered>>

At(p) == pc = p

(* Variant: the Message-ID question asked of every mailbox.                *)
AnyMailboxContains(i) == i \in seen \/ mailbox[i] # "Expunged"

(* MailboxContainsMessageID on Sent, answered from Moov's own store: a     *)
(* reflected copy, or the draft itself once it was filed there.            *)
SentContains(i) == i \in seen \/ mailbox[i] = "Sent"

(* Variant: retries without a cap.                                         *)
TransientForever == Goto("requeue")

(* The branch taken by an error that is not a 5yz.                         *)
Transient == Goto(IF attempts[cur] >= MaxAttempts THEN "fail" ELSE "requeue")

Boot ==
    /\ At("down")
    /\ pc' = "recover"
    /\ UNCHANGED <<rowVars, clientVars, mailVars, historyVars, cur, batch, recovered, faults>>

(* recover: RecoverInFlightSendIntents hands over every in_flight row, or  *)
(* fails (its UPDATE committed or not) and the poll loop starts without.   *)
Recover ==
    LET stranded == {i \in Intents : state[i] = "in_flight"}
        bumped   == [i \in Intents |-> IF i \in stranded
                        THEN Bump(attempts[i], MaxAttempts) ELSE attempts[i]]
    IN  /\ At("recover")
        /\ cur' = None
        /\ \/ /\ attempts' = bumped
              /\ batch' = stranded
              /\ recovered' = TRUE
              /\ pc' = "next" /\ NoFault
           \/ /\ attempts' \in {attempts, bumped}
              /\ batch' = {}
              /\ recovered' = FALSE
              /\ pc' = "idle" /\ Fault
        /\ UNCHANGED <<state, accepted, appended, late, clientVars, mailVars, historyVars>>

(* runOnce: ClaimDueSendIntents takes due rows, or its answer is lost      *)
(* after the commit and the rows stay in_flight with nobody executing them.*)
Claim(rows) ==
    /\ At("idle")
    /\ rows # {} /\ Cardinality(rows) <= ClaimBatch
    /\ \A i \in rows : state[i] = "queued"
    /\ state' = [i \in Intents |-> IF i \in rows THEN "in_flight" ELSE state[i]]
    /\ attempts' = [i \in Intents |-> IF i \in rows
                       THEN Bump(attempts[i], MaxAttempts) ELSE attempts[i]]
    /\ recovered' = FALSE /\ cur' = None
    /\ \/ batch' = rows /\ pc' = "next" /\ NoFault
       \/ batch' = {} /\ pc' = "idle" /\ Fault
    /\ UNCHANGED <<accepted, appended, late, clientVars, mailVars, historyVars>>

BatchDone ==
    /\ At("next") /\ batch = {}
    /\ pc' = "idle" /\ cur' = None /\ recovered' = FALSE
    /\ UNCHANGED <<rowVars, clientVars, mailVars, historyVars, batch, faults>>

(* Variant: acceptance is not looked at before transmitting.               *)
FirstStepResend(i) == IF recovered \/ attempts[i] > 1 THEN "probe" ELSE "prepare"

(* execute: acceptance decides everything, then the second net.            *)
FirstStep(i) ==
    IF i \in accepted THEN "copy"
    ELSE IF recovered \/ attempts[i] > 1 THEN "probe"
    ELSE "prepare"

(* Variant: the loop over the claimed rows returns after the first.        *)
ExecuteFirstOnly(i) ==
    /\ At("next") /\ i \in batch
    /\ cur' = i /\ batch' = {}
    /\ pc' = FirstStep(i)
    /\ UNCHANGED <<rowVars, clientVars, mailVars, historyVars, recovered, faults>>

Execute(i) ==
    /\ At("next") /\ i \in batch
    /\ cur' = i /\ batch' = batch \ {i}
    /\ pc' = FirstStep(i)
    /\ UNCHANGED <<rowVars, clientVars, mailVars, historyVars, recovered, faults>>

(* transmit, the Sent probe of a re-execution.                             *)
Probe ==
    /\ At("probe")
    /\ \/ Goto(IF SentContains(cur) THEN "adopt" ELSE "prepare") /\ NoFault
       \/ Goto("requeue") /\ Fault
    /\ UNCHANGED <<rowVars, clientVars, mailVars, historyVars>>

(* persistAcceptance of a probe hit; when it fails the row is re-queued.   *)
Adopt ==
    /\ At("adopt")
    /\ \/ accepted' = accepted \cup {cur} /\ Goto("copy") /\ NoFault
       \/ accepted' \in {accepted, accepted \cup {cur}} /\ Goto("requeue") /\ Fault
    /\ UNCHANGED <<state, attempts, appended, late, clientVars, mailVars, historyVars>>

(* prepare: every error is permanent, a read that failed included.  The    *)
(* bytes of an expunged message may outlive it until the blob GC.          *)
Prepare ==
    /\ At("prepare")
    /\ \/ Goto("account") /\ NoFault
       \/ mailbox[cur] = "Expunged" /\ Goto("fail") /\ NoFault
       \/ Goto("fail") /\ Fault
    /\ UNCHANGED <<rowVars, clientVars, mailVars, historyVars>>

LoadAccount ==
    /\ At("account")
    /\ \/ Goto("smtp") /\ NoFault
       \/ Goto("requeue") /\ Fault
    /\ UNCHANGED <<rowVars, clientVars, mailVars, historyVars>>

(* Send up to the end of DATA: no connection or a 4yz, a 5yz, or the       *)
(* server takes the message.                                               *)
Smtp ==
    /\ At("smtp")
    /\ \/ Transient /\ UNCHANGED <<deliveries, refused>>
       \/ refused' = refused \cup {cur} /\ Goto("fail") /\ UNCHANGED deliveries
       \/ /\ deliveries' = [deliveries EXCEPT ![cur] = Bump(@, Many)]
          /\ Goto("reply") /\ UNCHANGED refused
    /\ UNCHANGED <<rowVars, clientVars, mailVars, lostReply, lostRecord, faults>>

(* Variant: the Sent copy is filed before the acceptance is recorded.      *)
ReplyCopyFirst ==
    /\ At("reply")
    /\ \/ Goto("copy") /\ UNCHANGED lostReply /\ NoFault
       \/ Transient /\ lostReply' = lostReply \cup {cur} /\ Fault
    /\ UNCHANGED <<rowVars, clientVars, mailVars, deliveries, lostRecord, refused>>

(* The 250 is read, or the connection dies first and the error is an       *)
(* ordinary transient one.                                                 *)
Reply ==
    /\ At("reply")
    /\ \/ Goto("persist") /\ UNCHANGED lostReply /\ NoFault
       \/ Transient /\ lostReply' = lostReply \cup {cur} /\ Fault
    /\ UNCHANGED <<rowVars, clientVars, mailVars, deliveries, lostRecord, refused>>

(* The onAccepted callback: MarkSendIntentAccepted right after the 250.    *)
Persist ==
    /\ At("persist")
    /\ \/ accepted' = accepted \cup {cur} /\ Goto("copy") /\ NoFault
       \/ accepted' \in {accepted, accepted \cup {cur}} /\ Goto("repersist") /\ Fault
    /\ UNCHANGED <<state, attempts, appended, late, clientVars, mailVars, historyVars>>

(* ErrAcceptedUnrecorded: persistAcceptance retries, and when the store    *)
(* stays down the row is left in_flight.                                   *)
Repersist ==
    /\ At("repersist")
    /\ \/ /\ accepted' = accepted \cup {cur} /\ Goto("copy")
          /\ NoFault /\ UNCHANGED lostRecord
       \/ /\ lostRecord' = IF cur \in accepted THEN lostRecord ELSE lostRecord \cup {cur}
          /\ Drop /\ Fault /\ UNCHANGED accepted
    /\ UNCHANGED <<state, attempts, appended, late, clientVars, mailVars,
                   deliveries, lostReply, refused>>

(* Variant: the draft is retired before the Sent copy.                     *)
CopyAfterRetire ==
    /\ At("copy")
    /\ Goto("retire") /\ NoFault
    /\ UNCHANGED <<rowVars, clientVars, mailVars, historyVars>>

(* postSend: the Sent copy is derived again, unless it was stamped or its  *)
(* bytes cannot be read.                                                   *)
Copy ==
    /\ At("copy")
    /\ \/ cur \in appended /\ Goto("retire") /\ NoFault
       \/ cur \notin appended /\ Goto("dedupe") /\ NoFault
       \/ cur \notin appended /\ mailbox[cur] = "Expunged" /\ Goto("stamp") /\ NoFault
       \/ cur \notin appended /\ Goto("stamp") /\ Fault
    /\ UNCHANGED <<rowVars, clientVars, mailVars, historyVars>>

(* AppendToSent: the Message-ID question, then APPEND, then the row and    *)
(* the blob that reflect it.                                               *)
Dedupe ==
    /\ At("dedupe")
    /\ \/ Goto(IF SentContains(cur) THEN "stamp" ELSE "append") /\ NoFault
       \/ Goto("requeue") /\ Fault
    /\ UNCHANGED <<rowVars, clientVars, mailVars, historyVars>>

Append ==
    LET taken == [copies EXCEPT ![cur] = Bump(@, Many)]
    IN  /\ At("append")
        /\ \/ copies' = taken /\ Goto("reflect") /\ NoFault
           \/ copies' \in {copies, taken} /\ Goto("requeue") /\ Fault
        /\ UNCHANGED <<rowVars, clientVars, mailbox, seen, historyVars>>

Reflect ==
    /\ At("reflect")
    /\ \/ seen' = seen \cup {cur} /\ Goto("stamp") /\ NoFault
       \/ Goto("requeue") /\ Fault /\ UNCHANGED seen
    /\ UNCHANGED <<rowVars, clientVars, mailbox, copies, historyVars>>

(* MarkSendIntentAppended.                                                 *)
Stamp ==
    /\ At("stamp")
    /\ \/ appended' = appended \cup {cur} /\ Goto("retire") /\ NoFault
       \/ appended' \in {appended, appended \cup {cur}} /\ Goto("requeue") /\ Fault
    /\ UNCHANGED <<state, attempts, accepted, late, clientVars, mailVars, historyVars>>

(* retireScheduledDraft, through RetireDraft and ApplyDestroy; a failure   *)
(* is only logged.                                                         *)
Retire ==
    /\ At("retire")
    /\ \/ /\ cur \in late
          /\ mailbox' = [mailbox EXCEPT ![cur] = Destroyed(@)]
          /\ NoFault
       \/ cur \notin late /\ NoFault /\ UNCHANGED mailbox
       \/ cur \in late /\ Fault /\ UNCHANGED mailbox
    /\ Goto("complete")
    /\ UNCHANGED <<rowVars, clientVars, copies, seen, historyVars>>

(* CompleteIntent; an error whose UPDATE committed is still an error.      *)
Complete ==
    LET completed == [state EXCEPT ![cur] = "done"]
    IN  /\ At("complete")
        /\ \/ state' = completed /\ Drop /\ NoFault
           \/ state' \in {state, completed} /\ Goto("requeue") /\ Fault
        /\ UNCHANGED <<attempts, accepted, appended, late, clientVars, mailVars, historyVars>>

(* requeue: FailIntent moves not_before to the retry time, which for most  *)
(* retries is more than 30 s after created_at.  FailIntent tests no state. *)
Requeue ==
    /\ At("requeue")
    /\ \/ /\ state' = [state EXCEPT ![cur] = "queued"]
          /\ late' \in {late, late \cup {cur}}
          /\ NoFault
       \/ Fault /\ UNCHANGED <<state, late>>
    /\ Drop
    /\ UNCHANGED <<attempts, accepted, appended, clientVars, mailVars, historyVars>>

(* failPermanently: FailIntent without a retry time.                       *)
Fail ==
    /\ At("fail")
    /\ \/ /\ state' = [state EXCEPT ![cur] = "failed"]
          /\ late' \in {late, late \cup {cur}}
          /\ NoFault
       \/ Fault /\ UNCHANGED <<state, late>>
    /\ Drop
    /\ UNCHANGED <<attempts, accepted, appended, clientVars, mailVars, historyVars>>

(* The process dies: the rows and the mailboxes survive, the executor's    *)
(* memory and the handlers in progress do not.                             *)
Crash ==
    /\ ~At("down") /\ Fault
    /\ pc' = "down" /\ cur' = None /\ batch' = {} /\ recovered' = FALSE
    /\ moving' = {}
    /\ lostReply' = IF At("reply") THEN lostReply \cup {cur} ELSE lostReply
    /\ lostRecord' = IF pc \in {"persist", "repersist"} /\ cur \notin accepted
                     THEN lostRecord \cup {cur} ELSE lostRecord
    /\ UNCHANGED <<rowVars, scheduled, mailVars, deliveries, refused>>

-----------------------------------------------------------------------------
Transmit == Probe \/ Adopt \/ Prepare \/ LoadAccount \/ Smtp \/ Reply \/ Persist \/ Repersist
PostSend == Copy \/ Dedupe \/ Append \/ Reflect \/ Stamp \/ Retire \/ Complete

(* What the executor does on its own, in a process that stays up.          *)
Worker ==
    \/ Recover \/ BatchDone \/ Transmit \/ PostSend \/ Requeue \/ Fail
    \/ \E i \in Intents : Execute(i)
    \/ \E rows \in SUBSET Intents : Claim(rows)

Environment ==
    \/ \E i \in Intents : Submit(i) \/ ImplicitMove(i) \/ Cancel(i)
                           \/ UserDestroy(i) \/ SyncSent(i)
    \/ Crash

Next == Boot \/ Worker \/ Environment

Spec == Init /\ [][Next]_vars

(* The executor and the daemon's supervisor are scheduled: a process that  *)
(* is down is started, a step that can be taken is taken.  Faults are a    *)
(* finite budget, so every behaviour has a last one.                       *)
FairSpec == Spec /\ WF_vars(Boot) /\ WF_vars(Worker)

-----------------------------------------------------------------------------
(* Properties.                                                             *)

InHand == batch \cup ({cur} \ {None})

Unrecorded == lostReply \cup lostRecord

TypeOK ==
    /\ state \in [Intents -> States]
    /\ attempts \in [Intents -> 0..MaxAttempts]
    /\ accepted \subseteq Intents /\ appended \subseteq Intents
    /\ late \subseteq Intents /\ scheduled \subseteq Intents
    /\ mailbox \in [Intents -> Mailboxes]
    /\ moving \subseteq Intents /\ seen \subseteq Intents
    /\ copies \in [Intents -> 0..Many] /\ deliveries \in [Intents -> 0..Many]
    /\ lostReply \subseteq Intents /\ lostRecord \subseteq Intents
    /\ refused \subseteq Intents
    /\ pc \in Steps /\ cur \in Intents \cup {None}
    /\ batch \subseteq Intents /\ recovered \in BOOLEAN
    /\ faults \in 0..MaxFaults

(* Rule 3 of doc.go, single execution: the rows the executor has in hand   *)
(* are in_flight, so that no cancel and no second claim can take them.     *)
(* The one exception is a row whose completion committed with an error.    *)
Ownership ==
    /\ cur \notin batch
    /\ (cur # None) <=> (pc \in Holding)
    /\ pc \in {"down", "recover", "idle"} => batch = {}
    /\ \A i \in InHand : state[i] = "in_flight"
                          \/ (i = cur /\ pc = "requeue" /\ state[i] = "done")

(* The steps at which the intent in hand is not accepted, and those at     *)
(* which it is.  At "repersist" and "requeue" it may be either: the answer *)
(* to an UPDATE was lost.                                                  *)
Unaccepted == {"probe", "adopt", "prepare", "account", "smtp", "reply", "persist", "fail"}
Accepted   == {"copy", "dedupe", "append", "reflect", "stamp", "retire", "complete"}

(* The executor's position tells whether its row is accepted: everything   *)
(* before the recorded 250 happens to unaccepted rows, and everything      *)
(* after it to accepted ones.  Only accepted rows are done.                *)
PhaseMatchesRow ==
    /\ pc \in Unaccepted => cur \notin accepted
    /\ pc \in Accepted => cur \in accepted
    /\ \A i \in Intents : state[i] = "done" => i \in accepted

(* Every message the server took is accounted for: its row is accepted, or *)
(* it is known to be unrecorded, or the executor is about to record it.    *)
Accounted ==
    \A i \in Intents : deliveries[i] > 0 =>
        \/ i \in accepted \/ i \in Unrecorded
        \/ i = cur /\ pc \in {"reply", "persist", "repersist"}

(* A message goes out twice only if the server took it once without the    *)
(* row saying so: its 250 was never read, or was never recorded.           *)
DuplicateOnlyInWindow ==
    \A i \in Intents : deliveries[i] = Many => i \in Unrecorded

(* undoStatus "canceled" and a permanent failure tell the user that the    *)
(* message was not sent: the row is not accepted, and outside the window   *)
(* the server never took it.                                               *)
RefusedMeansUnsent ==
    \A i \in Intents : state[i] \in {"canceled", "failed"} =>
        i \notin accepted /\ (deliveries[i] > 0 => i \in Unrecorded)

(* No message is lost: a row recorded as accepted was transmitted.         *)
AcceptedMeansDelivered ==
    \A i \in accepted : deliveries[i] > 0

(* Without filed drafts the second net has nothing to catch: no message is *)
(* ever in Sent but by the executor, so the Sent probe of a recovery or a  *)
(* retry never answers yes, and rule 1 alone decides.                      *)
SecondNetIdle ==
    ~MayFile => moving = {} /\ pc # "adopt" /\ \A i \in Intents : mailbox[i] # "Sent"

(* What Moov's own store says is in Sent is in Sent.                       *)
SeenIsThere ==
    /\ \A i \in seen : copies[i] > 0
    /\ pc = "reflect" => copies[cur] > 0

(* "A hit means the message was sent, whatever the row says": the copies   *)
(* the executor files in Sent are copies of accepted messages.             *)
SentCopyMeansAccepted ==
    \A i \in Intents : copies[i] > 0 => i \in accepted

(* A scheduled message stays a draft the user can edit and cancel back to  *)
(* until it is sent, and it is retired only after its Sent copy.           *)
DraftHeldUntilSent ==
    \A i \in scheduled : mailbox[i] # "Drafts" => i \in accepted /\ i \in appended

(* A row waits for a restart only if something failed: without a fault     *)
(* every in_flight row is in the executor's hands.                         *)
Stranded(i) ==
    /\ state[i] = "in_flight" /\ i \notin InHand
    /\ pc \notin {"down", "recover"}

StrandedOnlyByFault ==
    \A i \in Intents : Stranded(i) => faults < MaxFaults

(* Rule 2 of doc.go, never retry after the 250: once accepted_at is set    *)
(* the transport is not touched again for that row.                        *)
NoSendAfterRecord ==
    [][\A i \in accepted : deliveries'[i] = deliveries[i]]_vars

(* Terminal rows stay terminal, except that a completion which reported an *)
(* error is re-queued, and then only for its post-send steps.              *)
TerminalStable ==
    [][\A i \in Intents : state[i] \in Terminal /\ state'[i] # state[i] =>
            state[i] = "done" /\ state'[i] = "queued" /\ i \in accepted]_vars

(* Every submission settles: canceled, failed or done, or left in_flight   *)
(* for the next start, whose recovery pass settles it in turn.             *)
Settles ==
    \A i \in Intents :
        (state[i] \in {"queued", "in_flight"} /\ ~Stranded(i))
            ~> (state[i] \in Terminal \/ Stranded(i))

(* What a submission has come to, whatever its row and the executor are    *)
(* doing: a row that is accepted is sent, even when its post-send steps    *)
(* are queued again.                                                       *)
Fate == [i \in Intents |->
    IF state[i] = "absent" THEN "draft"
    ELSE IF state[i] \in {"canceled", "failed"} THEN state[i]
    ELSE IF i \in accepted THEN "sent" ELSE "pending"]

Promise == INSTANCE Submission
    WITH Submissions <- Intents, MayAdopt <- MayFile,
         fate <- Fate, taken <- deliveries, doubt <- Unrecorded

(* The executor, the handlers, crashes and lost answers together do to a   *)
(* submission only what Submission allows: doc.go's three rules, and the   *)
(* window they leave.                                                      *)
KeepsPromise == Promise!SubSpec

(* While a reply is awaited or recorded, the server has taken the message. *)
TakenInHand == pc \in {"reply", "persist", "repersist"} => deliveries[cur] > 0

(* A scheduled draft is nobody's to file: its handler owes no move, and    *)
(* the executor retires it after its Sent copy is stamped.  Only a row     *)
(* that was inserted is scheduled, owes a move or is accepted.             *)
HoldOrMove ==
    /\ moving \cap scheduled = {}
    /\ \A i \in moving \cup scheduled \cup accepted : state[i] # "absent"
    /\ pc = "retire" => cur \in appended

(* The inductive invariant behind the theorems of OutboxProofs, which is   *)
(* all of the safety above: one executor, known phases, everything taken   *)
(* accounted for, honest outcomes, and no row left behind without a fault. *)
IndInv ==
    /\ TypeOK /\ Ownership /\ PhaseMatchesRow /\ Accounted
    /\ DuplicateOnlyInWindow /\ RefusedMeansUnsent /\ SentCopyMeansAccepted
    /\ TakenInHand /\ StrandedOnlyByFault
    /\ SeenIsThere /\ SecondNetIdle /\ HoldOrMove
=============================================================================
