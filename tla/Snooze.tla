------------------------------- MODULE Snooze -------------------------------
(***************************************************************************)
(* Snoozing, waking and muting: the write executor's half in               *)
(* internal/sync, the snoozes and mutes tables of internal/store, and the  *)
(* Snooze/set, Snooze/get and Mute/set handlers of internal/jmap/mail.     *)
(*                                                                         *)
(* A snooze is two facts in two systems: a message in the Snoozed folder   *)
(* of the IMAP server and a pending row.  A wake APPENDs the bytes again   *)
(* and expunges the sleeping copy, so one message has several copies over  *)
(* time: a copy is at a place on the server (at) and Moov's store believes *)
(* it is at a place (row).  The waker goroutine and the request handlers   *)
(* take one IMAP exchange or one SQL statement at a time; any may fail,    *)
(* and the process may die between two.                                    *)
(***************************************************************************)
EXTENDS Naturals, FiniteSets, FiniteSetsExt

CONSTANTS
    Msgs,             \* messages, named by their Message-ID; one thread each
    Copies,           \* copies on the server, in the order of their row ids
    Owner,            \* the message each copy is a copy of
    Handlers,         \* concurrent Snooze/set requests
    To, Cc, Own,      \* the addressees of each message, the user's addresses
    MaxWakeAttempts,  \* maxWakeAttempts of waker.go
    MaxOps,           \* how many requests and foreign moves a behaviour has
    MaxFaults         \* how many failures and crashes

ASSUME SnoozeAssumption ==
    /\ Copies \subseteq Nat
    /\ Owner \in [Copies -> Msgs]
    /\ "waker" \notin Handlers
    /\ MaxWakeAttempts \in Nat \ {0}
    /\ MaxOps \in Nat /\ MaxFaults \in Nat

VARIABLES
    at,         \* where each copy is on the server: a folder and a UID in it
    row,        \* where the store's live row says it is
    sn,         \* the newest snoozes row of each message
    work,       \* TRUE while the user's folder Work exists
    snoozedMb,  \* TRUE once the folder Snoozed exists
    muted,      \* the messages whose thread row has a mutes row
    threadRow,  \* the messages whose thread has a durable row
    batch,      \* the claims ClaimDueSnoozes returned, not yet worked
    job,        \* what the waker and every request handler is doing
    why,        \* history: the windows each message has been through
    extra,      \* history: how many of them could leave one more copy of it
    discarded,  \* history: messages the user deleted for good
    ops, faults

mailVars   == <<at, row, work, snoozedMb, discarded>>
muteVars   == <<muted, threadRow>>
history    == <<why, extra>>
vars == <<at, row, sn, work, snoozedMb, muted, threadRow, batch, job,
          why, extra, discarded, ops, faults>>

Folders == {"INBOX", "Work", "Snoozed", "Archive"}
Procs   == Handlers \cup {"waker"}
Unborn  == [f |-> "unborn", u |-> 0]
Gone    == [f |-> "gone", u |-> 0]
NoRow   == [st |-> "none", id |-> 0, due |-> FALSE, tries |-> 0,
            origin |-> ""]
Idle    == [pc |-> "idle"]
Reasons == {"unrecorded", "kept", "unreflected", "twice", "stale", "byhand",
            "gaveup", "lostrow", "shared"}
Doubling == {"kept", "unreflected", "lostrow", "twice", "byhand"}
LeftAsleep == {"unrecorded", "kept", "gaveup", "stale", "shared", "lostrow", "byhand"}

Fault   == faults > 0 /\ faults' = faults - 1
NoFault == faults' = faults
Op      == ops > 0 /\ ops' = ops - 1
Note(m, r) ==
    /\ why' = [why EXCEPT ![m] = @ \cup {r}]
    /\ extra' = [extra EXCEPT ![m] = IF r \in Doubling THEN @ + 1 ELSE @]

Live(place, c) == place[c].f \in Folders
CopiesOf(m)    == {c \in Copies : Owner[c] = m}
Pending(m)     == sn[m].st = "pending"
Claim(m)       == [m |-> m, id |-> sn[m].id, tries |-> sn[m].tries,
                   origin |-> sn[m].origin]

(* The processes that are waking message m, and the claims on its row that *)
(* the waker has not begun to work.                                        *)
Waking(m)  == {p \in Procs : job[p].pc \in {"append", "expunge", "close"} /\ job[p].m = m}
Claimed(m) == \E cl \in batch : cl.m = m

(* The UID a copy gets when it lands in a folder.                          *)
NextUid(c) == IF at[c].u >= row[c].u THEN at[c].u + 1 ELSE row[c].u + 1

(* A copy that is to be born: row ids grow.                                *)
Fresh(m) == {c \in CopiesOf(m) : at[c] = Unborn}

Init ==
    /\ \E place \in [Msgs -> {"INBOX", "Work"}] :
          at = [c \in Copies |->
                  IF c = Min(CopiesOf(Owner[c]))
                  THEN [f |-> place[Owner[c]], u |-> 1] ELSE Unborn]
    /\ row = at
    /\ sn = [m \in Msgs |-> NoRow]
    /\ work = TRUE /\ snoozedMb = FALSE
    /\ muted = {} /\ threadRow = {}
    /\ batch = {} /\ job = [p \in Procs |-> Idle]
    /\ why = [m \in Msgs |-> {}] /\ extra = [m \in Msgs |-> 0] /\ discarded = {}
    /\ ops = MaxOps /\ faults = MaxFaults

-----------------------------------------------------------------------------
(* The snoozes table.                                                      *)

(* PutSnooze: an upsert.  A pending row keeps its id and starts over;      *)
(* otherwise a new row is inserted beside the finished ones.               *)
PutSnooze(m, origin) ==
    sn' = [sn EXCEPT ![m] =
          [st |-> "pending", due |-> FALSE, tries |-> 0, origin |-> origin,
           id |-> IF Pending(m) THEN sn[m].id ELSE sn[m].id + 1]]

(* CancelSnooze: the pending row of the message is deleted, whichever      *)
(* request wrote it.                                                       *)
CancelSnooze(m) ==
    sn' = [sn EXCEPT ![m] = IF Pending(m) THEN [NoRow EXCEPT !.id = sn[m].id] ELSE @]

(* MarkSnoozeWoken: a compare-and-set on the row id and state.             *)
MarkSnoozeWoken(m, id) ==
    sn' = [sn EXCEPT ![m].st = IF Pending(m) /\ sn[m].id = id THEN "woken" ELSE @]

(* fail and FailSnooze: one more attempt on the claimed row, five minutes  *)
(* later, or the end of it.                                                *)
FailSnooze(cl) ==
    LET m == cl.m
        permanent == cl.tries + 1 >= MaxWakeAttempts
    IN  IF Pending(m) /\ sn[m].id = cl.id
        THEN sn' = [sn EXCEPT ![m] =
                [@ EXCEPT !.st = IF permanent THEN "failed" ELSE "pending",
                          !.tries = @ + 1, !.due = FALSE]]
        ELSE UNCHANGED sn

-----------------------------------------------------------------------------
(* Snooze/set.                                                             *)

Untils == {"ahead", "past", "beyond"}

(* parseSnoozeUntil: only an instant in the future and within the horizon. *)
parseSnoozeUntil(until) == until = "ahead"

(* target and ApplySnooze's own check: the row must be live and not be in  *)
(* Snoozed already.                                                        *)
Snoozable(c) == Live(row, c) /\ row[c].f # "Snoozed"

(* ensureSnoozeMailbox finds the folder, or creates it and may fail.       *)
ensureSnoozeMailbox(ok) ==
    \/ ok /\ NoFault /\ snoozedMb' = TRUE
    \/ ~ok /\ ~snoozedMb /\ Fault /\ UNCHANGED snoozedMb

(* ApplySnooze up to its MOVE: it remembers the row it read.               *)
ApplySnooze(h, c) ==
    /\ Snoozable(c)
    /\ \/ /\ ensureSnoozeMailbox(TRUE)
          /\ job' = [job EXCEPT ![h] =
                [pc |-> "move", m |-> Owner[c], c |-> c, st |-> row[c],
                 origin |-> IF row[c].f = "INBOX" THEN "" ELSE row[c].f]]
       \/ ensureSnoozeMailbox(FALSE) /\ UNCHANGED job
    /\ UNCHANGED <<at, row, work, discarded, sn, muteVars, batch, history>>

(* applySnoozeCreate: a wake time that parses, then the snooze.            *)
applySnoozeCreate(h, c, until) ==
    /\ parseSnoozeUntil(until)
    /\ ApplySnooze(h, c)

(* applySnoozeUpdate: the only property that may change is until, and a    *)
(* re-snooze takes the path of a snooze.  For a message that is asleep     *)
(* ApplySnooze refuses it, so an update only ever snoozes one that is not. *)
applySnoozeUpdate(h, c, until) ==
    /\ parseSnoozeUntil(until)
    /\ ApplySnooze(h, c)

(* ApplyMove of ApplySnooze.  A UID that is no longer there moves nothing, *)
(* answers no COPYUID and leaves a tombstone; a failure may come before    *)
(* the MOVE or after it, when the store was not told.                      *)
MoveToSnoozed(h) ==
    LET j == job[h]
        there == [f |-> "Snoozed", u |-> NextUid(j.c)]
    IN  /\ j.pc = "move"
        /\ \/ /\ NoFault /\ job' = [job EXCEPT ![h].pc = "put"]
              /\ IF at[j.c] = j.st
                 THEN at' = [at EXCEPT ![j.c] = there] /\ row' = [row EXCEPT ![j.c] = there]
                 ELSE row' = [row EXCEPT ![j.c] = IF @ = j.st THEN Gone ELSE @] /\ UNCHANGED at
              /\ UNCHANGED history
           \/ /\ Fault /\ job' = [job EXCEPT ![h] = Idle]
              /\ \/ UNCHANGED <<at, history>>
                 \/ /\ at[j.c] = j.st
                    /\ at' = [at EXCEPT ![j.c] = there]
                    /\ Note(j.m, "unrecorded")
              /\ UNCHANGED row
        /\ UNCHANGED <<work, snoozedMb, discarded, sn, muteVars, batch, ops>>

(* The row is written after the MOVE; if that fails the message stays in   *)
(* Snoozed and the caller is told.                                         *)
RecordSnooze(h) ==
    LET j == job[h] IN
    /\ j.pc = "put"
    /\ job' = [job EXCEPT ![h] = Idle]
    /\ \/ /\ NoFault /\ PutSnooze(j.m, j.origin)
          /\ why' = [why EXCEPT ![j.m] = @
                \cup (IF Claimed(j.m) \/ Waking(j.m) # {} THEN {"stale"} ELSE {})
                \cup (IF \E c \in CopiesOf(j.m) \ {j.c} : at[c].f = "Snoozed"
                      THEN {"shared"} ELSE {})]
          /\ UNCHANGED extra
       \/ /\ Fault /\ Note(j.m, "unrecorded")
          /\ UNCHANGED sn
    /\ UNCHANGED <<mailVars, muteVars, batch, ops>>

(* ApplyUnsnooze up to wakeMessage: the origin is the pending row's, or    *)
(* INBOX when there is none.                                               *)
ApplyUnsnooze(h, c) ==
    LET m == Owner[c] IN
    /\ row[c].f = "Snoozed"
    /\ job' = [job EXCEPT ![h] =
          [pc |-> "append", m |-> m, c |-> c, st |-> row[c],
           origin |-> IF Pending(m) THEN sn[m].origin ELSE ""]]
    /\ IF Waking(m) # {} THEN Note(m, "twice") ELSE UNCHANGED history
    /\ UNCHANGED <<mailVars, sn, muteVars, batch, faults>>

(* handleSnoozeSet: one object of one request at a time; a refusal changes *)
(* nothing.                                                                *)
handleSnoozeSet(h, c) ==
    /\ job[h] = Idle /\ Op
    /\ \/ \E until \in Untils : applySnoozeCreate(h, c, until) \/ applySnoozeUpdate(h, c, until)
       \/ ApplyUnsnooze(h, c)

-----------------------------------------------------------------------------
(* The waker.                                                              *)

(* Variant: the claim does not compare wake_at with the clock.             *)
RunOnceAll ==
    /\ job["waker"] = Idle /\ batch = {}
    /\ batch' = {Claim(m) : m \in {x \in Msgs : Pending(x)}}
    /\ batch' # {}
    /\ UNCHANGED <<mailVars, sn, muteVars, job, history, ops, faults>>

(* Variant: a row that failed once is never claimed again.                 *)
RunOnceUntried ==
    /\ job["waker"] = Idle /\ batch = {}
    /\ batch' = {Claim(m) : m \in {x \in Msgs : Pending(x) /\ sn[x].due /\ sn[x].tries = 0}}
    /\ batch' # {}
    /\ UNCHANGED <<mailVars, sn, muteVars, job, history, ops, faults>>

(* RunOnce: the rows that are due are read; nothing marks them as taken.   *)
RunOnce ==
    /\ job["waker"] = Idle /\ batch = {}
    /\ batch' = {Claim(m) : m \in {x \in Msgs : Pending(x) /\ sn[x].due}}
    /\ batch' # {}
    /\ UNCHANGED <<mailVars, sn, muteVars, job, history, ops, faults>>

(* MessageIDInMailbox: the newest live row of the message in Snoozed.      *)
resolveSnoozedMessage(m) ==
    LET S == {c \in CopiesOf(m) : row[c].f = "Snoozed"}
    IN  IF S = {} THEN {} ELSE {Max(S)}

(* Variant: every error of the lookup retires the row.                     *)
wakeOneRetiring(cl) ==
    /\ job["waker"] = Idle /\ cl \in batch
    /\ batch' = batch \ {cl}
    /\ Fault /\ MarkSnoozeWoken(cl.m, cl.id)
    /\ UNCHANGED <<mailVars, muteVars, job, history, ops>>

(* Variant: a message that is not in Snoozed is skipped, its row kept.     *)
wakeOneSkipping(cl) ==
    LET found == resolveSnoozedMessage(cl.m) IN
    /\ job["waker"] = Idle /\ cl \in batch
    /\ batch' = batch \ {cl}
    /\ found = {} /\ NoFault
    /\ UNCHANGED <<mailVars, sn, muteVars, job, history, ops>>

(* wakeOne: a message that is not in Snoozed retires its row; one that is  *)
(* there is woken; a lookup that fails is a wake that failed.              *)
wakeOne(cl) ==
    LET found == resolveSnoozedMessage(cl.m) IN
    /\ job["waker"] = Idle /\ cl \in batch
    /\ batch' = batch \ {cl}
    /\ \/ /\ found = {}
          /\ \/ NoFault /\ MarkSnoozeWoken(cl.m, cl.id)
             \/ Fault /\ UNCHANGED sn
          /\ UNCHANGED <<job, history>>
       \/ /\ found # {} /\ NoFault
          /\ job' = [job EXCEPT !["waker"] =
                [pc |-> "append", m |-> cl.m, c |-> CHOOSE c \in found : TRUE,
                 st |-> row[CHOOSE c \in found : TRUE], origin |-> cl.origin, claim |-> cl]]
          /\ IF Waking(cl.m) # {} THEN Note(cl.m, "twice") ELSE UNCHANGED history
          /\ UNCHANGED sn
       \/ /\ Fault
          /\ job' = [job EXCEPT !["waker"] = [pc |-> "fail", m |-> cl.m, claim |-> cl]]
          /\ UNCHANGED <<sn, history>>
    /\ UNCHANGED <<mailVars, muteVars, ops>>

-----------------------------------------------------------------------------
(* wakeMessage, shared by the waker and Snooze/set destroy.                *)

(* originMailbox: a recorded folder that is gone falls back to INBOX.      *)
originMailbox(origin) ==
    IF origin = "" \/ (origin = "Work" /\ ~work) THEN "INBOX" ELSE origin

WakeFailed(p) ==
    job' = IF p = "waker" THEN [job EXCEPT ![p].pc = "fail"]
                          ELSE [job EXCEPT ![p] = Idle]

(* Variant: the sleeping copy goes first, and the bytes are appended then. *)
AppendWokenLast(p) ==
    LET j == job[p] IN
    /\ j.pc = "append"
    /\ job' = [job EXCEPT ![p].pc = "expunge"] /\ NoFault
    /\ at' = [at EXCEPT ![j.c] = IF @ = j.st THEN Gone ELSE @]
    /\ UNCHANGED <<row, history, work, snoozedMb, discarded, sn,
                   muteVars, batch, ops>>

(* ApplyAppendAt: the bytes land in the origin folder as a new copy.  It   *)
(* may fail before, or after the APPEND with the store not told.           *)
AppendWoken(p) ==
    LET j == job[p]
        there == [f |-> originMailbox(j.origin), u |-> 1]
    IN  /\ j.pc = "append"
        /\ \/ /\ NoFault /\ job' = [job EXCEPT ![p].pc = "expunge"]
              /\ Fresh(j.m) # {}
              /\ at' = [at EXCEPT ![Min(Fresh(j.m))] = there]
              /\ row' = [row EXCEPT ![Min(Fresh(j.m))] = there]
              /\ UNCHANGED history
           \/ Fault /\ WakeFailed(p) /\ UNCHANGED <<at, row, history>>
           \/ /\ Fault /\ WakeFailed(p)
              /\ Fresh(j.m) # {}
              /\ at' = [at EXCEPT ![Min(Fresh(j.m))] = there]
              /\ Note(j.m, "unreflected")
              /\ UNCHANGED row
        /\ UNCHANGED <<work, snoozedMb, discarded, sn, muteVars, batch, ops>>

(* Variant: the sleeping copy is tombstoned in the store only.             *)
expungeRowOnly(p) ==
    LET j == job[p] IN
    /\ j.pc = "expunge"
    /\ job' = [job EXCEPT ![p].pc = "close"] /\ NoFault
    /\ row' = [row EXCEPT ![j.c] = IF @ = j.st THEN Gone ELSE @]
    /\ UNCHANGED <<at, history, work, snoozedMb, discarded, sn, muteVars, batch, ops>>

(* expungeFromSnoozed: the one UID the wake began with.  A failure is only *)
(* logged: the wake goes on as a success.                                  *)
expungeFromSnoozed(p) ==
    LET j == job[p]
        asleep == at[j.c] = j.st
        without(place) == [place EXCEPT ![j.c] = IF @ = j.st THEN Gone ELSE @]
    IN  /\ j.pc = "expunge"
        /\ job' = [job EXCEPT ![p].pc = "close"]
        /\ \/ NoFault /\ at' = without(at) /\ row' = without(row) /\ UNCHANGED history
           \/ /\ Fault /\ UNCHANGED <<at, row>>
              /\ Note(j.m, IF asleep THEN "kept" ELSE "lostrow")
           \/ /\ Fault /\ at' = without(at) /\ UNCHANGED row
              /\ Note(j.m, "lostrow")
        /\ UNCHANGED <<work, snoozedMb, discarded, sn, muteVars, batch, ops>>

(* The end of a wake: the waker closes the row it claimed, un-snoozing     *)
(* deletes the pending row; a failure is logged.                           *)
CloseWake(p) ==
    LET j == job[p] IN
    /\ j.pc = "close"
    /\ job' = [job EXCEPT ![p] = Idle]
    /\ \/ /\ NoFault
          /\ IF p = "waker" THEN MarkSnoozeWoken(j.m, j.claim.id) ELSE CancelSnooze(j.m)
       \/ Fault /\ UNCHANGED sn
    /\ UNCHANGED <<mailVars, muteVars, batch, history, ops>>

(* fail: the outcome of a wake that failed is recorded on the row; after   *)
(* the last attempt the message stays asleep.                              *)
RecordFailure ==
    LET j == job["waker"] IN
    /\ j.pc = "fail"
    /\ job' = [job EXCEPT !["waker"] = Idle]
    /\ \/ /\ NoFault /\ FailSnooze(j.claim)
          /\ IF sn'[j.m].st = "failed" THEN Note(j.m, "gaveup") ELSE UNCHANGED history
       \/ Fault /\ UNCHANGED <<sn, history>>
    /\ UNCHANGED <<mailVars, muteVars, batch, ops>>

-----------------------------------------------------------------------------
(* Mute/set and the archiver.                                              *)

(* Variant: the mute is written without the thread's row.                  *)
SetMutedBare(m, mute) ==
    /\ muted' = IF mute THEN muted \cup {m} ELSE muted \ {m}
    /\ UNCHANGED threadRow

(* SetMuted: muting gives the thread a durable row if it has none;         *)
(* unmuting a thread without a row changes nothing.                        *)
SetMuted(m, mute) ==
    /\ threadRow' = IF mute THEN threadRow \cup {m} ELSE threadRow
    /\ muted' = IF mute THEN muted \cup {m} ELSE muted \ {m}

(* handleMuteSet: create mutes, destroy unmutes, both repeatable; an       *)
(* update is refused.                                                      *)
handleMuteSet(m) ==
    /\ Op
    /\ \E mute \in BOOLEAN : SetMuted(m, mute)
    /\ UNCHANGED <<mailVars, sn, batch, job, history, faults>>

(* evaluateMuteHatches: a message is archived only when none of the        *)
(* user's own addresses is among its To and Cc.                            *)
evaluateMuteHatches(m) == (To[m] \cup Cc[m]) \cap Own = {}

(* mutedAmong: the mutes of a batch, found through the threads' rows.      *)
mutedAmong(M) == M \cap threadRow \cap muted

(* One message of MuteArchiver.Apply, for a UID that is new in INBOX.      *)
MutedAway(c) ==
    /\ at[c].f = "INBOX"
    /\ mutedAmong({Owner[c]}) # {}
    /\ evaluateMuteHatches(Owner[c])

-----------------------------------------------------------------------------
(* The sync engine and the world.                                          *)

(* applyDelta, for one copy: the store learns that it vanished or where it *)
(* is now; a message new to INBOX passes the mute archiver, whose failures *)
(* leave it there.                                                         *)
Sync(c) ==
    LET away == [f |-> "Archive", u |-> at[c].u] IN
    /\ row[c] # at[c]
    /\ \/ /\ NoFault
          /\ row' = [row EXCEPT ![c] = IF MutedAway(c) THEN away ELSE at[c]]
          /\ at' = [at EXCEPT ![c] = IF MutedAway(c) THEN away ELSE @]
       \/ /\ MutedAway(c) /\ Fault
          /\ row' = [row EXCEPT ![c] = at[c]] /\ UNCHANGED at
    /\ UNCHANGED <<work, snoozedMb, discarded, sn, muteVars, batch, job,
                   history, ops>>

(* Another IMAP client of the user moves a copy or deletes it.             *)
Foreign(c) ==
    /\ Op /\ Live(at, c)
    /\ \/ /\ \E f \in {"INBOX", "Snoozed"} \ {at[c].f} :
                /\ f = "Snoozed" => snoozedMb
                /\ at' = [at EXCEPT ![c] = [f |-> f, u |-> NextUid(c)]]
          /\ UNCHANGED discarded
       \/ /\ at' = [at EXCEPT ![c] = Gone]
          /\ discarded' = discarded \cup {Owner[c]}
    /\ Note(Owner[c], "byhand")
    /\ UNCHANGED <<row, work, snoozedMb, sn, muteVars, batch, job, faults>>

(* ApplyMailboxDestroy of the folder a sleeping message came from, empty   *)
(* on the server and in the store by then.                                 *)
DeleteWork ==
    /\ Op /\ work
    /\ \A c \in Copies : at[c].f # "Work" /\ row[c].f # "Work"
    /\ work' = FALSE
    /\ UNCHANGED <<at, row, snoozedMb, discarded, sn, muteVars, batch, job,
                   history, faults>>

(* Time: a pending row's wake_at passes.                                   *)
BecomesDue(m) ==
    /\ Pending(m) /\ ~sn[m].due
    /\ sn' = [sn EXCEPT ![m].due = TRUE]
    /\ UNCHANGED <<mailVars, muteVars, batch, job, history, ops, faults>>

(* The process dies: every handler, the waker and its batch are gone.      *)
Crash ==
    /\ Fault
    /\ \E p \in Procs : job[p] # Idle
    /\ job' = [p \in Procs |-> Idle] /\ batch' = {}
    /\ why' = [m \in Msgs |-> why[m]
          \cup {r \in {"unrecorded", "kept"} : \E p \in Procs :
                  /\ job[p].pc = (IF r = "kept" THEN "expunge" ELSE "put")
                  /\ job[p].m = m}]
    /\ extra' = [m \in Msgs |-> extra[m] + Cardinality({p \in Waking(m) : job[p].pc = "expunge"})]
    /\ UNCHANGED <<mailVars, sn, muteVars, ops>>

-----------------------------------------------------------------------------
HandlerStep(h) ==
    MoveToSnoozed(h) \/ RecordSnooze(h)
WakeStep(p) ==
    AppendWoken(p) \/ expungeFromSnoozed(p) \/ CloseWake(p)
Waker ==
    RunOnce \/ (\E cl \in batch : wakeOne(cl)) \/ WakeStep("waker") \/ RecordFailure

User ==
    \/ \E h \in Handlers, c \in Copies : handleSnoozeSet(h, c)
    \/ \E m \in Msgs : handleMuteSet(m)
    \/ \E c \in Copies : Foreign(c)
    \/ DeleteWork

Next ==
    \/ User
    \/ \E h \in Handlers : HandlerStep(h) \/ WakeStep(h)
    \/ Waker
    \/ \E c \in Copies : Sync(c)
    \/ \E m \in Msgs : BecomesDue(m)
    \/ Crash

Spec == Init /\ [][Next]_vars

(* What the scheduler runs sooner or later: the waker and the handlers go  *)
(* on, sync passes come and time passes.  New requests, other clients and  *)
(* failures are not promised.                                              *)
SnoozeProgress ==
    \/ Waker
    \/ \E h \in Handlers : HandlerStep(h) \/ WakeStep(h)
    \/ \E c \in Copies : Sync(c)
    \/ \E m \in Msgs : BecomesDue(m)

FairSpec == Spec /\ WF_vars(SnoozeProgress)

-----------------------------------------------------------------------------
(* Types of the variables.                                                 *)
TypeOK ==
    /\ \A c \in Copies : /\ at[c].f \in Folders \cup {"unborn", "gone"}
                         /\ row[c].f \in Folders \cup {"unborn", "gone"}
    /\ \A m \in Msgs : /\ sn[m].st \in {"none", "pending", "woken", "failed"}
                       /\ sn[m].tries \in 0 .. MaxWakeAttempts
                       /\ why[m] \subseteq Reasons
    /\ muted \subseteq threadRow /\ discarded \subseteq Msgs

(* "There is no state in which this expunge can be the only copy": a       *)
(* message the user did not delete always has a copy on the server,        *)
(* whatever fails or dies between the APPEND and the expunge, and          *)
(* whichever of the waker and the handlers wake it at once.                *)
NeverLost ==
    \A m \in Msgs : m \notin discarded => \E c \in CopiesOf(m) : Live(at, c)

(* A message asleep has a pending row to wake it, or someone is at work on *)
(* it; the exceptions are the windows the code leaves: the row was never   *)
(* written, the expunge failed and was only logged, the wake was given up, *)
(* the row was closed or deleted by a wake that began before it was put,   *)
(* two copies slept under one row, the row of an expunged copy was woken   *)
(* again, or another client moved the message.                             *)
SleeperHasWake ==
    \A c \in Copies : LET m == Owner[c] IN
        (/\ at[c].f = "Snoozed"
         /\ ~Pending(m)
         /\ \A p \in Procs : job[p] = Idle \/ job[p].m # m)
        => why[m] \cap LeftAsleep # {}

(* A wake leaves one copy: of every message there is at most one copy more *)
(* than the wakes that have appended and not yet expunged it and the       *)
(* windows it has been through account for, one each.  Those windows are a *)
(* sleeping copy whose expunge failed and was only logged (sync/snooze.go  *)
(* 105-107: "repaired by the user or by a retry", but a finished wake is   *)
(* never retried), an APPEND the store was not told of, an expunge the     *)
(* store was not told of, a wake begun while another was under way         *)
(* (store/snooze.go:170-175 has the second find the message gone, which it *)
(* does not before the first has expunged it), and another client's hand.  *)
OneCopy ==
    \A m \in Msgs :
        Cardinality({c \in CopiesOf(m) : Live(at, c)})
            <= 1 + extra[m] + Cardinality({p \in Waking(m) : job[p].pc = "expunge"})

(* The waker brings a message back before its wake time only when the row  *)
(* was put again after the waker had claimed it.                           *)
NotEarly ==
    [][\A m \in Msgs :
          (/\ job["waker"].pc = "append" /\ job["waker"].m = m
           /\ job'["waker"].pc = "expunge"
           /\ Pending(m) /\ ~sn[m].due)
          => "stale" \in why[m]]_vars

(* "A skipped row is not lost - the waker retires it": every pending row   *)
(* is finished in the end, listed by Snooze/get or not.                    *)
EverySnoozeEnds == \A m \in Msgs : Pending(m) ~> ~Pending(m)

(* A sleeping message wakes: no copy of it is left in the folder, or the   *)
(* message has been through one of the windows of SleeperHasWake.          *)
Asleep(m) == \E c \in CopiesOf(m) : at[c].f = "Snoozed"
EverySleeperWakes == \A m \in Msgs : Asleep(m) ~> (~Asleep(m) \/ why[m] \cap LeftAsleep # {})

\* A snoozed message exists somewhere at every moment of every interleaving,
\* something will wake it unless a listed fault took that away, and it exists
\* twice only for a listed reason (snooze.go and waker.go).
SnoozeSafe == TypeOK /\ NeverLost /\ SleeperHasWake /\ OneCopy

\* The waker is on time: no message comes back before it is due, every snooze
\* ends, and every message asleep wakes unless a listed fault kept it.
SnoozesEnd == NotEarly /\ EverySnoozeEnds /\ EverySleeperWakes
=============================================================================
