---------------------------- MODULE MailboxSync ----------------------------
(***************************************************************************)
(* The sync engine of internal/sync on one mailbox: the initial sync with  *)
(* its resumable backfill, the incremental QRESYNC pass, the reconciler    *)
(* that verifies and escalates, and the write executor that shares the     *)
(* stored rows with them.                                                  *)
(*                                                                         *)
(* The IMAP server is the source of truth and is changed at any time by    *)
(* other clients.  The engine is one goroutine: the supervisor's Run until *)
(* the first sync is complete, then the watcher's dispatch loop, which     *)
(* runs a pass per event and a Reconcile per heartbeat.  A step is one     *)
(* IMAP command, one database transaction, or a fetch pipeline over one    *)
(* window; the connection may break and the process may die between any    *)
(* two steps, and in the middle of a pipeline.                             *)
(*                                                                         *)
(* A message is a UID.  Of its flags only one bit is kept.  A stored row   *)
(* is a pair <<uidvalidity, uid>>, the unique key of message_state.        *)
(***************************************************************************)
EXTENDS Naturals, FiniteSets, FiniteSetsExt

CONSTANTS
    MaxUid,        \* UIDs 1..MaxUid may be assigned
    Initial,       \* messages in the mailbox at the start
    RecentFrom,    \* the lowest UID inside Options.RecentWindow
    FetchWindow,   \* Options.FetchWindow, the UIDs of one backfill window
    Poison,        \* UIDs whose row the store refuses even when stripped
    Starts,        \* how the mailbox may start: "empty", "synced"
    MayWrite,      \* TRUE: the write executor is used
    MaxValidity,   \* UIDVALIDITY values 1..MaxValidity
    MaxChanges,    \* changes made on the server
    MaxFaults      \* crashes and lost connections

ASSUME MailboxAssumption ==
    /\ MaxUid \in Nat /\ Initial \in 0..MaxUid /\ RecentFrom \in Nat \ {0}
    /\ FetchWindow \in Nat \ {0}
    /\ Poison \subseteq 1..MaxUid
    /\ Starts \subseteq {"empty", "synced"} /\ MayWrite \in BOOLEAN
    /\ MaxValidity \in Nat \ {0} /\ MaxChanges \in Nat /\ MaxFaults \in Nat

VARIABLES
    (* The IMAP server *)
    validity, uidNext, modSeq,
    live,        \* UIDs in the mailbox
    seen,        \* the UIDs with the flag set
    at,          \* the modseq of each UID's last change, its expunge included
    (* The store *)
    row,         \* mailboxes: uidvalidity, uidnext and highestmodseq; 0 is NULL
    bstate,      \* mailboxes.backfill_state
    cp,          \* the mailbox checkpoint in sync_log
    phaseDone,   \* the account checkpoint says PhaseComplete
    have,        \* rows of message_state
    dead,        \* the rows with deleted_at set
    flagged,     \* the rows with the flag set
    esc,         \* the persisted escalation bound
    (* The engine *)
    pc, job,     \* its next step, and what the pass or walk is for
    known,       \* mb.row.UIDValidity as it was read
    cursor, sel, \* the row a pass started from, the last SELECT
    vanished, changed, changedSeen,   \* the collected delta
    high,        \* top of the next backfill window
    escKnown,    \* PushWatcher.escalated holds this mailbox
    notified,    \* an event for this mailbox waits in the debouncer
    (* The write executor *)
    wpc, wrow, wval,
    (* History and bounds *)
    skipped,     \* rows a change of which was stepped over or overwritten
    blind,       \* a walk met a new UIDVALIDITY without knowing the old one
    changes, faults

serverVars == <<validity, uidNext, modSeq, live, seen, at>>
cursorVars == <<row, bstate, cp, phaseDone>>
rowVars    == <<have, dead, flagged>>
deltaVars  == <<cursor, sel, vanished, changed, changedSeen>>
escVars    == <<esc, escKnown>>
writeVars  == <<wpc, wrow, wval>>
histVars   == <<skipped, blind>>
vars == <<serverVars, cursorVars, rowVars, deltaVars, escVars, writeVars,
          histVars, pc, job, known, high, notified, changes, faults>>

Uids       == 1..MaxUid
Validities == 1..MaxValidity
Rows       == Validities \X Uids
NullRow    == [validity |-> 0, uidNext |-> 0, modSeq |-> 0]
NoSelect   == [validity |-> 0, uidNext |-> 0, modSeq |-> 0, count |-> 0]
Fresh(v)   == [validity |-> v, low |-> 0, complete |-> FALSE, recent |-> FALSE]

Steps == {"boot", "select", "invalidate", "reset", "setcursor", "recent",
          "recent_save", "recent_mark", "phase", "load", "window", "save", "mark", "marked",
          "finish", "pass", "changes", "vanish", "flags", "new", "cursor",
          "resync", "resync_reset", "acquire", "watch", "verify", "rewind",
          "reverify"}
Jobs  == {"recent", "run", "sweep", "event", "repair", "escalate"}

At(S) == {<<sel.validity, u>> : u \in S}

Shown == have \ dead

-----------------------------------------------------------------------------
(* The server, as SELECT and STATUS report it.                             *)

Snapshot == [validity |-> validity, uidNext |-> uidNext, modSeq |-> modSeq,
             count |-> Cardinality(live)]

(* The UIDs a VANISHED (EARLIER) response names.                           *)
VanishedSince(m) == {u \in 1..(uidNext - 1) : u \notin live /\ at[u] > m}

ChangedSince(m) == {u \in live : at[u] > m}

(* What a stored row still has to learn about a UID of this incarnation.   *)
Behind(u) ==
    LET r == <<validity, u>> IN
    \/ r \in Shown /\ (u \notin live \/ (r \in flagged) # (u \in seen))
    \/ u \in live /\ r \notin have

InSync == \A u \in Uids \ Poison : ~Behind(u)

-----------------------------------------------------------------------------
Init ==
    /\ validity = 1 /\ uidNext = Initial + 1 /\ modSeq = 1
    /\ live = 1..Initial /\ seen = {} /\ at = [u \in Uids |-> 1]
    /\ \/ /\ "synced" \in Starts
          /\ row = [validity |-> 1, uidNext |-> Initial + 1, modSeq |-> 1]
          /\ cp = [validity |-> 1, low |-> 1, complete |-> TRUE, recent |-> TRUE]
          /\ bstate = "complete" /\ phaseDone = TRUE
          /\ have = {1} \X ((1..Initial) \ Poison)
       \/ /\ "empty" \in Starts
          /\ row = NullRow /\ cp = Fresh(0)
          /\ bstate = "pending" /\ phaseDone = FALSE /\ have = {}
    /\ dead = {} /\ flagged = {} /\ esc = "clear" /\ escKnown = FALSE
    /\ pc = "boot" /\ job = "run" /\ known = 0 /\ high = 0
    /\ cursor = NullRow /\ sel = NoSelect
    /\ vanished = {} /\ changed = {} /\ changedSeen = {}
    /\ notified = FALSE
    /\ wpc = "idle" /\ wrow = <<1, 1>> /\ wval = FALSE
    /\ skipped = {} /\ blind = FALSE
    /\ changes = MaxChanges /\ faults = MaxFaults

-----------------------------------------------------------------------------
(* Other clients.  The event of a change may be lost on its way to the     *)
(* debouncer (a full channel, an overflow, a silent NOTIFY).               *)

Touch(u) ==
    /\ changes > 0 /\ changes' = changes - 1
    /\ modSeq' = modSeq + 1 /\ at' = [at EXCEPT ![u] = modSeq + 1]
    /\ notified' \in {TRUE, notified}

engineVars == <<cursorVars, rowVars, deltaVars, escVars, histVars,
                pc, job, known, high>>

Deliver ==
    /\ uidNext <= MaxUid
    /\ Touch(uidNext)
    /\ live' = live \cup {uidNext} /\ uidNext' = uidNext + 1
    /\ UNCHANGED <<validity, seen, engineVars, writeVars, faults>>

Flip(S, u) == IF u \in S THEN S \ {u} ELSE S \cup {u}

SetFlag(u) ==
    /\ u \in live
    /\ Touch(u)
    /\ seen' = Flip(seen, u)
    /\ UNCHANGED <<validity, uidNext, live, engineVars, writeVars, faults>>

Expunge(u) ==
    /\ u \in live
    /\ Touch(u)
    /\ live' = live \ {u} /\ seen' = seen \ {u}
    /\ UNCHANGED <<validity, uidNext, engineVars, writeVars, faults>>

(* The mailbox is deleted and created again, with one message in it.       *)
Recreate ==
    /\ validity < MaxValidity /\ MaxUid > 0
    /\ validity' = validity + 1 /\ uidNext' = 2 /\ modSeq' = 1
    /\ live' = {1} /\ seen' = {} /\ at' = [u \in Uids |-> 1]
    /\ notified' \in {TRUE, notified}
    /\ UNCHANGED <<engineVars, writeVars, changes, faults>>

OtherClients ==
    \/ Deliver
    \/ \E u \in Uids : SetFlag(u) \/ Expunge(u)
    \/ Recreate

-----------------------------------------------------------------------------
(* The fetch pipeline: what is not stored under the selected UIDVALIDITY   *)
(* is fetched with its current flags and inserted, batch by batch; a UID   *)
(* that is gone answers nothing, and a row the store refuses even when     *)
(* stripped is skipped.  It never rewrites a stored row.                   *)

filterStored(S) == {u \in S : <<sel.validity, u>> \notin have}

Wanted(S) == (filterStored(S) \cap live) \ Poison

commitBatch(S) ==
    /\ have' = have \cup At(S)
    /\ flagged' = flagged \cup At(S \cap seen)
    /\ UNCHANGED dead

InsertMessages(S) == commitBatch(Wanted(S))

-----------------------------------------------------------------------------
(* Where a finished pass or walk hands control back to.                    *)

After(j) ==
    CASE j = "run"               -> "finish"
      [] j \in {"sweep", "event"} -> "watch"
      [] j = "repair"            -> "verify"
      [] j = "escalate"          -> "reverify"

(* The locals of a pass or a walk, gone when it returns.                   *)
Forget ==
    /\ cursor' = NullRow /\ sel' = NoSelect
    /\ vanished' = {} /\ changed' = {} /\ changedSeen' = {}
    /\ known' = 0 /\ high' = 0

Finished == pc' = After(job) /\ job' = job /\ Forget

Goto(l) == pc' = l /\ job' = job

(* Everything a step of the engine leaves alone by default.                *)
Calm == UNCHANGED <<serverVars, writeVars, notified, changes, faults>>

-----------------------------------------------------------------------------
(* Supervisor.superviseAccount: the initial sync unless the checkpoints    *)
(* say it is complete, then the watcher, whose session opens with a sweep. *)

alreadyComplete == phaseDone /\ bstate = "complete"

superviseAccount ==
    /\ pc = "boot"
    /\ IF alreadyComplete
       THEN pc' = "pass" /\ job' = "sweep" /\ notified' = FALSE /\ known' = 0
       ELSE pc' = "select" /\ job' = "recent" /\ known' = row.validity
            /\ UNCHANGED notified
    /\ UNCHANGED <<serverVars, cursorVars, rowVars, deltaVars, escVars,
                   writeVars, histVars, high, changes, faults>>

(* Variant: a changed UIDVALIDITY is not noticed.                          *)
SelectNoInvalidate ==
    /\ pc = "select"
    /\ sel' = Snapshot
    /\ Goto("setcursor")
    /\ UNCHANGED <<cursorVars, rowVars, cursor, vanished, changed, changedSeen,
                   escVars, histVars, known, high>>
    /\ Calm

(* Variant: an unknown UIDVALIDITY counts as a changed one.                *)
SelectAlwaysCompares ==
    /\ pc = "select"
    /\ sel' = Snapshot
    /\ Goto(IF known # validity THEN "invalidate" ELSE "setcursor")
    /\ UNCHANGED <<cursorVars, rowVars, cursor, vanished, changed, changedSeen,
                   escVars, histVars, known, high>>
    /\ Calm

(* selectMailbox, shared by the recent phase and every backfill walk:      *)
(* SELECT, invalidation when the UIDVALIDITY moved, and the cursor set to  *)
(* what this SELECT reported.                                              *)
Select ==
    /\ pc = "select"
    /\ sel' = Snapshot
    /\ Goto(IF known # 0 /\ known # validity THEN "invalidate" ELSE "setcursor")
    /\ UNCHANGED <<cursorVars, rowVars, cursor, vanished, changed, changedSeen,
                   escVars, histVars, known, high>>
    /\ Calm

DropRows ==
    /\ have' = {} /\ dead' = {} /\ flagged' = {}
    /\ row' = NullRow /\ bstate' = "pending"

InvalidateMailbox ==
    /\ pc = "invalidate"
    /\ DropRows
    /\ Goto("reset")
    /\ UNCHANGED <<cp, phaseDone, deltaVars, escVars, histVars, known, high>>
    /\ Calm

ResetCheckpoint ==
    /\ pc = "reset"
    /\ cp' = Fresh(sel.validity) /\ known' = 0
    /\ Goto("setcursor")
    /\ UNCHANGED <<row, bstate, phaseDone, rowVars, deltaVars, escVars, histVars, high>>
    /\ Calm

loadMailboxCheckpoint(v) == IF cp.validity = v THEN cp ELSE Fresh(v)

(* The UIDs the checkpoint under v claims to be stored.                    *)
Claimed(v) ==
    LET c == loadMailboxCheckpoint(v) IN
    {u \in Uids : c.complete \/ (c.low > 0 /\ u >= c.low)}

(* History: the changes at or below the new cursor that no step applied.   *)
SteppedOver ==
    {<<sel.validity, u>> : u \in
        {u \in Uids : /\ sel.validity = validity
                      /\ Behind(u) /\ at[u] <= sel.modSeq
                      /\ <<validity, u>> \in have \/ u \in Claimed(validity)}}

CursorOf(s) == [validity |-> s.validity, uidNext |-> s.uidNext, modSeq |-> s.modSeq]

(* Variant: the modseq of the request is recorded.                         *)
SetMailboxSyncStateZero ==
    /\ pc = "setcursor"
    /\ row' = [CursorOf(sel) EXCEPT !.modSeq = 0]
    /\ skipped' = skipped \cup SteppedOver
    /\ blind' = (blind \/ (known = 0 /\ row.validity \notin {0, sel.validity}))
    /\ Goto(IF job = "recent" THEN "recent" ELSE "load")
    /\ UNCHANGED <<bstate, cp, phaseDone, rowVars, deltaVars, escVars, known, high>>
    /\ Calm

SetMailboxSyncState ==
    /\ pc = "setcursor"
    /\ row' = CursorOf(sel)
    /\ skipped' = skipped \cup SteppedOver
    /\ blind' = (blind \/ (known = 0 /\ row.validity \notin {0, sel.validity}))
    /\ Goto(IF job = "recent" THEN "recent" ELSE "load")
    /\ UNCHANGED <<bstate, cp, phaseDone, rowVars, deltaVars, escVars, known, high>>
    /\ Calm

-----------------------------------------------------------------------------
(* runRecent, phase A: the UIDs inside the recent window.                  *)

(* Variant: UIDNEXT itself is taken for the highest UID.                    *)
highestUIDNext == sel.uidNext

highestUID == IF sel.uidNext > 1 THEN sel.uidNext - 1 ELSE sel.count

recentUIDs == {u \in live : RecentFrom <= u /\ u <= highestUID}

(* Nothing to fetch, or done by an earlier run.                            *)
RecentSkip ==
    /\ pc = "recent"
    /\ sel.count = 0 \/ loadMailboxCheckpoint(sel.validity).recent
    /\ Goto("phase")
    /\ UNCHANGED <<cursorVars, rowVars, deltaVars, escVars, histVars, known, high>>
    /\ Calm

RecentFetch ==
    /\ pc = "recent" /\ sel.validity = validity
    /\ sel.count > 0 /\ ~loadMailboxCheckpoint(sel.validity).recent
    /\ InsertMessages(recentUIDs)
    /\ high' = IF recentUIDs = {} THEN 0 ELSE Min(recentUIDs)
    /\ Goto("recent_save")
    /\ UNCHANGED <<cursorVars, deltaVars, escVars, histVars, known>>
    /\ Calm

RecentSave ==
    /\ pc = "recent_save"
    /\ LET c == loadMailboxCheckpoint(sel.validity) IN
       cp' = [c EXCEPT !.recent = TRUE, !.low = IF high > 0 THEN high ELSE c.low]
    /\ Goto("recent_mark")
    /\ UNCHANGED <<row, bstate, phaseDone, rowVars, deltaVars, escVars, histVars,
                   known, high>>
    /\ Calm

RecentMark ==
    /\ pc = "recent_mark"
    /\ bstate' = "recent_done"
    /\ Goto("phase")
    /\ UNCHANGED <<row, cp, phaseDone, rowVars, deltaVars, escVars, histVars,
                   known, high>>
    /\ Calm

(* saveAccountPhase of the end of phase A and of the start of phase B.     *)
saveAccountPhase ==
    /\ pc = "phase"
    /\ phaseDone' = FALSE
    /\ pc' = "select" /\ job' = "run"
    /\ UNCHANGED <<row, bstate, cp, rowVars, deltaVars, escVars, histVars,
                   known, high>>
    /\ Calm

-----------------------------------------------------------------------------
(* backfillMailbox after its selectMailbox: the walk from the top, or from *)
(* just under the watermark, down to UID 1.                                *)

BackfillTop(c) == IF c.low > 0 /\ c.low - 1 < highestUID THEN c.low - 1 ELSE highestUID

WindowLow == IF high > FetchWindow THEN high - FetchWindow + 1 ELSE 1

BackfillLoad ==
    /\ pc = "load"
    /\ LET c == loadMailboxCheckpoint(sel.validity) IN
       \/ /\ c.complete
          /\ Finished
          /\ UNCHANGED bstate
       \/ /\ ~c.complete /\ sel.count = 0
          /\ Goto("mark")
          /\ UNCHANGED <<bstate, deltaVars, known, high>>
       \/ /\ ~c.complete /\ sel.count > 0
          /\ bstate' = "in_progress"
          /\ high' = BackfillTop(c)
          /\ Goto(IF BackfillTop(c) >= 1 THEN "window" ELSE "mark")
          /\ UNCHANGED <<deltaVars, known>>
    /\ UNCHANGED <<row, cp, phaseDone, rowVars, escVars, histVars>>
    /\ Calm

(* A window all of whose UIDs are stored issues no command.                *)
Reachable(S) == sel.validity = validity \/ filterStored(S) = {}

BackfillWindow ==
    /\ pc = "window" /\ Reachable(WindowLow..high)
    /\ InsertMessages(WindowLow..high)
    /\ Goto("save")
    /\ UNCHANGED <<cursorVars, deltaVars, escVars, histVars, known, high>>
    /\ Calm

(* Committed, so the watermark may move.                                   *)
BackfillSave ==
    /\ pc = "save"
    /\ cp' = [loadMailboxCheckpoint(sel.validity) EXCEPT !.low = WindowLow]
    /\ high' = WindowLow - 1
    /\ Goto(IF WindowLow = 1 THEN "mark" ELSE "window")
    /\ UNCHANGED <<row, bstate, phaseDone, rowVars, deltaVars, escVars, histVars, known>>
    /\ Calm

markComplete ==
    /\ pc = "mark"
    /\ cp' = [loadMailboxCheckpoint(sel.validity) EXCEPT !.complete = TRUE, !.low = 1]
    /\ Goto("marked")
    /\ UNCHANGED <<row, bstate, phaseDone, rowVars, deltaVars, escVars, histVars,
                   known, high>>
    /\ Calm

(* The second, separate write of markComplete.                             *)
SetBackfillComplete ==
    /\ pc = "marked"
    /\ bstate' = "complete"
    /\ Finished
    /\ UNCHANGED <<row, cp, phaseDone, rowVars, escVars, histVars>>
    /\ Calm

(* The end of Run, and the watcher's first session with its opening sweep. *)
RunComplete ==
    /\ pc = "finish"
    /\ phaseDone' = TRUE
    /\ pc' = "pass" /\ job' = "sweep" /\ notified' = FALSE
    /\ UNCHANGED <<serverVars, row, bstate, cp, rowVars, deltaVars, escVars,
                   writeVars, histVars, known, high, changes, faults>>

-----------------------------------------------------------------------------
(* incrementalMailbox.                                                     *)

(* No cursor: errMailboxNeedsInitialSync, and the caller runs a backfill.  *)
PassNeedsInitial ==
    /\ pc = "pass" /\ (row.validity = 0 \/ row.modSeq = 0)
    /\ known' = row.validity
    /\ pc' = "select" /\ job' = IF job = "repair" THEN "escalate" ELSE job
    /\ UNCHANGED <<cursorVars, rowVars, deltaVars, escVars, histVars, high>>
    /\ Calm

SelectQResync ==
    /\ pc = "pass" /\ row.validity # 0 /\ row.modSeq # 0
    /\ cursor' = row /\ sel' = Snapshot
    /\ IF validity = row.validity
       THEN vanished' = VanishedSince(row.modSeq) /\ Goto("changes")
       ELSE vanished' = {} /\ Goto("resync")
    /\ UNCHANGED <<cursorVars, rowVars, changed, changedSeen, escVars, histVars,
                   known, high>>
    /\ Calm

(* FETCH 1:* (CHANGEDSINCE ... VANISHED).                                  *)
collectChanges ==
    /\ pc = "changes" /\ sel.validity = validity
    /\ changed' = ChangedSince(cursor.modSeq)
    /\ changedSeen' = ChangedSince(cursor.modSeq) \cap seen
    /\ vanished' = vanished \cup VanishedSince(cursor.modSeq)
    /\ Goto("vanish")
    /\ UNCHANGED <<cursorVars, rowVars, cursor, sel, escVars, histVars, known, high>>
    /\ Calm

(* Variant: the two halves of the delta are mixed up.                      *)
applyVanishedAndChanged ==
    /\ pc = "vanish"
    /\ dead' = dead \cup (At(vanished \cup changed) \cap have)
    /\ Goto("flags")
    /\ UNCHANGED <<cursorVars, have, flagged, deltaVars, escVars, histVars, known, high>>
    /\ Calm

applyVanished ==
    /\ pc = "vanish"
    /\ dead' = dead \cup (At(vanished) \cap have)
    /\ Goto("flags")
    /\ UNCHANGED <<cursorVars, have, flagged, deltaVars, escVars, histVars, known, high>>
    /\ Calm

applyFlagChanges ==
    /\ pc = "flags"
    /\ flagged' = (flagged \ At(changed)) \cup (At(changedSeen) \cap have)
    /\ Goto("new")
    /\ UNCHANGED <<cursorVars, have, dead, deltaVars, escVars, histVars, known, high>>
    /\ Calm

newUIDCandidates == ((cursor.uidNext..(sel.uidNext - 1)) \cup changed) \ vanished

fetchNewMessages ==
    /\ pc = "new" /\ Reachable(newUIDCandidates)
    /\ InsertMessages(newUIDCandidates)
    /\ Goto("cursor")
    /\ UNCHANGED <<cursorVars, deltaVars, escVars, histVars, known, high>>
    /\ Calm

(* Variant: the cursor is a fresh STATUS, not the SELECT's.                *)
AdvanceCursorLate ==
    /\ pc = "cursor"
    /\ row' = CursorOf(Snapshot)
    /\ Finished
    /\ UNCHANGED <<bstate, cp, phaseDone, rowVars, escVars, histVars>>
    /\ Calm

(* The cursor moves only now, with everything above committed.             *)
AdvanceCursor ==
    /\ pc = "cursor"
    /\ row' = CursorOf(sel)
    /\ Finished
    /\ UNCHANGED <<bstate, cp, phaseDone, rowVars, escVars, histVars>>
    /\ Calm

(* resyncMailbox: the rows, then the checkpoint, then a backfill on a      *)
(* connection of its own while the caller still holds one.  Only the       *)
(* watcher runs passes, and of its two connections one is pinned to        *)
(* NOTIFY: its pool has one, the caller's.  The wait ends with the         *)
(* session's context, which nothing but the end of the process ends.       *)
ResyncInvalidate ==
    /\ pc = "resync"
    /\ DropRows
    /\ Goto("resync_reset")
    /\ UNCHANGED <<cp, phaseDone, deltaVars, escVars, histVars, known, high>>
    /\ Calm

ResyncReset ==
    /\ pc = "resync_reset"
    /\ cp' = Fresh(0)
    /\ Goto("acquire")
    /\ UNCHANGED <<row, bstate, phaseDone, rowVars, deltaVars, escVars, histVars,
                   known, high>>
    /\ Calm

AcquireBlocks == pc = "acquire"

-----------------------------------------------------------------------------
(* The watcher's dispatch loop and the reconciler.                         *)

passOne ==
    /\ pc = "watch" /\ notified
    /\ notified' = FALSE
    /\ pc' = "pass" /\ job' = "event"
    /\ UNCHANGED <<serverVars, cursorVars, rowVars, deltaVars, escVars, writeVars,
                   histVars, known, high, changes, faults>>

(* Variant: HIGHESTMODSEQ is not compared.                                 *)
compareUidNext ==
    /\ row.validity # 0
    /\ row.validity # validity \/ row.uidNext # uidNext

(* The three counters of STATUS against the row, and the row count once    *)
(* the backfill is recorded as complete.                                   *)
compareMailboxState == row.validity # 0 /\ row # CursorOf(Snapshot)

stillDiverged ==
    \/ compareMailboxState
    \/ bstate = "complete" /\ Cardinality(Shown) # Cardinality(live)

(* A no-op for a mailbox this process has not recorded a failure of.       *)
clearEscalation ==
    /\ esc' = IF escKnown THEN "clear" ELSE esc
    /\ escKnown' = FALSE

EngineStays == UNCHANGED <<cursorVars, rowVars, deltaVars, histVars, known, high>>

ReconcileHealthy ==
    /\ pc = "watch" /\ ~stillDiverged
    /\ clearEscalation
    /\ Goto("watch")
    /\ EngineStays /\ Calm

ReconcileDiverged ==
    /\ pc = "watch" /\ stillDiverged
    /\ pc' = "pass" /\ job' = "repair"
    /\ UNCHANGED escVars
    /\ EngineStays /\ Calm

(* repairMailbox after its pass: verified, then escalated if the bound     *)
(* allows it.                                                              *)
RepairVerify ==
    /\ pc = "verify"
    /\ \/ ~stillDiverged /\ clearEscalation /\ Goto("watch")
       \/ stillDiverged /\ UNCHANGED escVars
          /\ Goto(IF esc = "cooling" THEN "watch" ELSE "rewind")
    /\ EngineStays /\ Calm

backfillFromTop ==
    /\ pc = "rewind"
    /\ cp' = [loadMailboxCheckpoint(row.validity) EXCEPT !.complete = FALSE, !.low = 0]
    /\ known' = row.validity
    /\ pc' = "select" /\ job' = "escalate"
    /\ UNCHANGED <<row, bstate, phaseDone, rowVars, deltaVars, escVars, histVars, high>>
    /\ Calm

EscalationVerify ==
    /\ pc = "reverify"
    /\ \/ ~stillDiverged /\ clearEscalation
       \/ stillDiverged /\ esc' = "cooling" /\ escKnown' = TRUE
    /\ Goto("watch")
    /\ EngineStays /\ Calm

(* The delay of escalationAllowed has elapsed.                             *)
EscalationCools ==
    /\ esc = "cooling" /\ esc' = "cooled"
    /\ UNCHANGED <<serverVars, cursorVars, rowVars, deltaVars, writeVars, histVars,
                   pc, job, known, high, escKnown, notified, changes, faults>>

-----------------------------------------------------------------------------
(* Faults.  A failed Run is retried by the supervisor; a failed watcher    *)
(* session is replaced by a new one, which opens with a sweep.             *)

SessionEnds ==
    /\ IF job \in {"recent", "run"}
       THEN pc' = "boot" /\ job' = job
       ELSE pc' = "pass" /\ job' = "sweep"
    /\ notified' = FALSE
    /\ Forget

Fault == faults > 0 /\ faults' = faults - 1

(* The connection is lost, a database call fails or the session's context  *)
(* is canceled; a caller waiting for a pooled connection notices none.     *)
SessionFails ==
    /\ pc # "boot" /\ ~AcquireBlocks /\ ~(pc = "pass" /\ job = "sweep")
    /\ Fault
    /\ SessionEnds
    /\ UNCHANGED <<serverVars, cursorVars, rowVars, escVars, writeVars, histVars, changes>>

(* The pipeline dies with some of its batches committed.                   *)
Fetching ==
    CASE pc = "recent" -> recentUIDs
      [] pc = "window" -> WindowLow..high
      [] pc = "new"    -> newUIDCandidates
      [] OTHER         -> {}

FetchBreaks ==
    /\ sel.validity = validity
    /\ Fault
    /\ \E S \in SUBSET Wanted(Fetching) \ {{}} : commitBatch(S)
    /\ SessionEnds
    /\ UNCHANGED <<serverVars, cursorVars, escVars, writeVars, histVars, changes>>

(* A session that still holds a mailbox recreated under it is refused.     *)
MailboxStale ==
    /\ sel.validity # validity
    /\ \/ pc = "changes"
       \/ pc = "recent" /\ sel.count > 0 /\ ~loadMailboxCheckpoint(sel.validity).recent
       \/ pc \in {"window", "new"} /\ ~Reachable(Fetching)
    /\ SessionEnds
    /\ UNCHANGED <<serverVars, cursorVars, rowVars, escVars, writeVars, histVars,
                   changes, faults>>

Crash ==
    /\ Fault
    /\ pc' = "boot" /\ job' = "run" /\ notified' = FALSE /\ Forget
    /\ escKnown' = FALSE
    /\ wpc' = "idle" /\ UNCHANGED <<wrow, wval>>
    /\ UNCHANGED <<serverVars, cursorVars, rowVars, esc, histVars, changes>>

-----------------------------------------------------------------------------
(* WriteExecutor.ApplyFlagChange on its own connection: STORE, read-back,  *)
(* and the server's answer reflected into the row.                         *)

WriteStore(r) ==
    /\ MayWrite /\ wpc = "idle"
    /\ r \in Shown /\ r[1] = validity /\ r[2] \in live
    /\ Touch(r[2])
    /\ seen' = Flip(seen, r[2])
    /\ wpc' = "readback" /\ wrow' = r /\ wval' = FALSE
    /\ UNCHANGED <<validity, uidNext, live, engineVars, faults>>

fetchOne ==
    /\ wpc = "readback"
    /\ IF wrow[1] = validity /\ wrow[2] \in live
       THEN wpc' = "reflect" /\ wval' = (wrow[2] \in seen)
       ELSE wpc' = "idle" /\ wval' = FALSE
    /\ UNCHANGED <<serverVars, engineVars, wrow, notified, changes, faults>>

(* Variant: the write moves the cursor past its own change.                *)
reflectFlagsAdvances ==
    /\ wpc = "reflect"
    /\ row' = CursorOf(Snapshot)
    /\ wpc' = "idle" /\ wval' = FALSE
    /\ flagged' = IF wrow \notin have THEN flagged
                  ELSE IF wval THEN flagged \cup {wrow} ELSE flagged \ {wrow}
    /\ skipped' = IF wrow[1] = validity /\ wval # (wrow[2] \in seen)
                  THEN skipped \cup {wrow} ELSE skipped
    /\ UNCHANGED <<serverVars, bstate, cp, phaseDone, have, dead, deltaVars, escVars, wrow, blind,
                   pc, job, known, high, notified, changes, faults>>

reflectFlags ==
    /\ wpc = "reflect"
    /\ wpc' = "idle" /\ wval' = FALSE
    /\ flagged' = IF wrow \notin have THEN flagged
                  ELSE IF wval THEN flagged \cup {wrow} ELSE flagged \ {wrow}
    /\ skipped' = IF wrow[1] = validity /\ wval # (wrow[2] \in seen)
                  THEN skipped \cup {wrow} ELSE skipped
    /\ UNCHANGED <<serverVars, cursorVars, have, dead, deltaVars, escVars, wrow, blind,
                   pc, job, known, high, notified, changes, faults>>

-----------------------------------------------------------------------------
Walk ==
    \/ superviseAccount \/ Select \/ InvalidateMailbox \/ ResetCheckpoint
    \/ SetMailboxSyncState \/ RecentSkip \/ RecentFetch \/ RecentSave \/ RecentMark
    \/ saveAccountPhase \/ BackfillLoad \/ BackfillWindow \/ BackfillSave
    \/ markComplete \/ SetBackfillComplete \/ RunComplete

Incremental ==
    \/ PassNeedsInitial \/ SelectQResync \/ collectChanges \/ applyVanished
    \/ applyFlagChanges \/ fetchNewMessages \/ AdvanceCursor
    \/ ResyncInvalidate \/ ResyncReset \/ passOne

Repair ==
    ReconcileDiverged \/ RepairVerify \/ backfillFromTop \/ EscalationVerify

Engine == Walk \/ Incremental \/ Repair \/ MailboxStale

Write == (\E r \in Rows : WriteStore(r)) \/ fetchOne \/ reflectFlags

Next ==
    \/ OtherClients \/ Engine \/ Write
    \/ ReconcileHealthy \/ EscalationCools
    \/ SessionFails \/ FetchBreaks \/ Crash

Spec == Init /\ [][Next]_vars

(* Every goroutine is scheduled, the heartbeat fires, and a backoff ends.  *)
Fairness ==
    /\ WF_vars(Engine)
    /\ WF_vars(fetchOne \/ reflectFlags) /\ WF_vars(EscalationCools)

FairSpec == Spec /\ Fairness

-----------------------------------------------------------------------------
(* Properties.                                                             *)

(* Every variable holds a value the code can give it.                      *)
TypeOK ==
    /\ validity \in Validities /\ uidNext \in 1..(MaxUid + 1)
    /\ modSeq \in 1..(MaxChanges + 1) /\ live \subseteq 1..(uidNext - 1)
    /\ seen \subseteq live /\ at \in [Uids -> 1..modSeq]
    /\ row \in [validity : 0..MaxValidity, uidNext : 0..(MaxUid + 1),
               modSeq : 0..(MaxChanges + 1)]
    /\ bstate \in {"pending", "recent_done", "in_progress", "complete"}
    /\ cp \in [validity : 0..MaxValidity, low : 0..MaxUid,
              complete : BOOLEAN, recent : BOOLEAN]
    /\ phaseDone \in BOOLEAN
    /\ have \subseteq Rows /\ dead \subseteq have /\ flagged \subseteq have
    /\ esc \in {"clear", "cooling", "cooled"} /\ escKnown \in BOOLEAN
    /\ pc \in Steps /\ job \in Jobs /\ known \in 0..MaxValidity
    /\ high \in 0..MaxUid /\ notified \in BOOLEAN
    /\ vanished \subseteq Uids /\ changedSeen \subseteq changed /\ changed \subseteq Uids
    /\ wpc \in {"idle", "readback", "reflect"} /\ wrow \in Rows /\ wval \in BOOLEAN

(* "Everything at or below it is believed to be applied": a change the     *)
(* stored cursor covers is applied to the rows, wherever the engine was    *)
(* stopped, except what a walk has still to fetch and what one of the two  *)
(* places that step over a change (selectMailbox moving the cursor of a    *)
(* mailbox that has rows; a late write reflection) stepped over.           *)
CursorCovers ==
    row.validity = validity =>
        \A u \in Uids \ Poison :
            Behind(u) /\ at[u] <= row.modSeq =>
                \/ <<validity, u>> \in skipped
                \/ u \in live /\ <<validity, u>> \notin have /\ u \notin Claimed(validity)

(* applyVanished hides only what the server has expunged: a message of the *)
(* current incarnation that still exists is never shown as deleted.        *)
TombstonesTrue == \A u \in live : <<validity, u>> \notin dead

(* The rows of a mailbox belong to the one incarnation its cursor names,   *)
(* or to none: invalidation precedes every store under a new UIDVALIDITY,  *)
(* unless a walk was handed a row that predates its mailbox's first SELECT.*)
OneIncarnation == ~blind => \A r \in have : r[1] = row.validity

(* Rows are thrown away only for a mailbox the server really recreated.    *)
RebuildOnlyIfRecreated ==
    [][~(have \subseteq have') => row.validity # validity]_vars

(* Within one incarnation the cursor never moves back, so no delta is      *)
(* replayed onto newer rows.                                               *)
CursorMonotone ==
    [][row'.validity = row.validity => row'.modSeq >= row.modSeq
                                       /\ row'.uidNext >= row.uidNext]_vars

(* Once the changes and the faults are over the store agrees with the      *)
(* server for good, whatever events were lost, if no change was stepped    *)
(* over, no interrupted walk was left behind and the watcher is not the    *)
(* one that met the recreated mailbox: its pool is the one connection it   *)
(* holds, and it waits for a second one for good (incremental.go:524).     *)
Converges ==
    (/\ <>[](skipped = {} /\ ~blind)
     /\ <>[](pc = "watch" => bstate = "complete" /\ cp.complete)
     /\ []<>(~AcquireBlocks))
        => <>[]InSync

\* One mailbox's mirror, whatever the passes, repairs, writes and escalations
\* do to it: the stored cursor passes over no change outside the known steps,
\* and no message the server still has is hidden (persist in incremental.go,
\* repairMembership in reconciler.go).
SyncSafe == TypeOK /\ CursorCovers /\ TombstonesTrue
====
