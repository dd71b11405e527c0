-------------------------------- MODULE Feed --------------------------------
(***************************************************************************)
(* How a JMAP client keeps up: state strings, /get, /changes and the       *)
(* event-source push of internal/jmap/mail, internal/jmaphttp and the      *)
(* broker of internal/sync, over the tables of internal/store.             *)
(*                                                                         *)
(* A behaviour is about one type of object (kind).  Its rows carry the     *)
(* time of their last write, which PostgreSQL takes when the transaction   *)
(* BEGINS while the row appears when it COMMITS; every row one transaction *)
(* writes has the same time.  A state string is the newest such time and a *)
(* count.  A client holds a copy of every object and the state it last was *)
(* given; each SELECT of a request is a step of its own.                   *)
(***************************************************************************)
EXTENDS Naturals, Sequences, FiniteSets, FiniteSetsExt, SequencesExt

CONSTANTS
    Kinds,       \* the types of object a run looks at
    Ids,         \* row ids
    Batched,     \* the types of which one transaction writes several rows
    Writers,     \* concurrent transactions
    Streams,     \* event-source requests of the account
    MaxTx,       \* how many transactions a behaviour has
    MaxChanges,  \* the client's maxChanges
    MaxSSE,      \* maxSSEPerAccount
    MaxFeedFaults  \* per type: failed reads of a state and dropped streams

ASSUME FeedAssumption ==
    /\ Ids \subseteq Nat
    /\ MaxChanges \in Nat \ {0}   \* parseChanges refuses 0
    /\ MaxSSE \in Nat \ {0}
    /\ MaxTx \in Nat /\ MaxFeedFaults \in [Kinds -> Nat]

VARIABLES
    kind,      \* the type of object
    tab,       \* its rows
    msg,       \* newest time and number of message_state rows, where a state
               \* string of another type is built from them
    tx,        \* what every transaction is about to do
    clock,     \* the newest time a transaction began
    cl,        \* the client
    sub,       \* the event-source streams
    blind,     \* history: the rows the client's state wrongly covers, and why
    torn,      \* history: the streams whose last read of a state failed
    feedFaults

feedVars == <<kind, tab, msg, tx, clock, cl, sub, blind, torn,
              feedFaults>>

Absent == [x |-> "absent", c |-> 0, u |-> 0]
NoTok == <<0, 0>>

(* Where each type differs.  Pushed types are the five readStates knows; a *)
(* Torn state string takes two SELECTs; Paged types answer /changes; a     *)
(* RowsFirst type's /get lists before it reads the state.                  *)
Pushed == {"Mailbox", "Email", "Thread", "EmailSubmission", "Identity"}
Torn == {"Thread", "EmailSubmission", "Identity", "SieveScript",
           "ForwardingAddress"}
Paged == {"Email", "Thread", "EmailSubmission", "Identity", "Mailbox"}
RowsFirst == {"Identity", "SieveScript", "ForwardingAddress"}

Ops(k) ==
    CASE k = "Email"           -> {"insert", "touch", "bury", "purge"}
      [] k = "Mailbox"         -> {"insert", "touch", "purge", "message"}
      [] k = "Thread"          -> {"insert", "touch", "bury", "message"}
      [] k = "EmailSubmission" -> {"insert", "touch", "bury"}
      [] k = "Identity"        -> {"insert", "touch"}
      [] k = "Mute"            -> {"insert", "purge"}
      [] OTHER                 -> {"insert", "touch", "purge"}

(* One transaction writes several rows where a batch of messages, a claim  *)
(* of due intents or a merge of threads does.                              *)
Batch(k) == IF k \in Batched THEN SUBSET Ids \ {{}} ELSE {{i} : i \in Ids}

Rows == {i \in Ids : tab[i].x # "absent"}
Watermark == Max({tab[i].u : i \in Rows} \cup {0})
Count == Cardinality(Rows)
Held(i) == IF tab[i].x = "live" THEN tab[i].u ELSE 0

(***************************************************************************)
(* State strings.  stateFor and cursorFromState are the pair and its first *)
(* half: the text between them is "<nanos>-<count>".                       *)
(***************************************************************************)
stateFor(w, n) == <<w, n>>
cursorFromState(tok) == tok[1]
stateForCursorBefore(t) == <<t - 1, 0>>
stateForCursor(t) == <<t, 0>>

dataState == IF kind = "Email" THEN stateFor(Watermark, Count)
             ELSE stateFor(msg.w, msg.n)
(* ThreadState: the later of the message and the thread-row watermark.     *)
ThreadStateOf(messages) ==
    IF Watermark > messages[1] THEN stateFor(Watermark, messages[2])
    ELSE messages
identityStateString(w) == stateFor(w, Count)

(* The first SELECT of a state string, and the string the second ends with.*)
FirstRead ==
    CASE kind \in {"Email", "Mailbox", "Thread"} -> dataState
      [] OTHER -> stateFor(Watermark, Count)
SecondRead(first) ==
    IF kind = "Thread" THEN ThreadStateOf(first) ELSE identityStateString(first[1])
StateNow == IF kind \in Torn THEN SecondRead(FirstRead) ELSE FirstRead

FeedInit ==
    /\ kind \in Kinds
    /\ tab = [i \in Ids |-> Absent]
    /\ msg = [w |-> 0, n |-> 0]
    /\ tx = [w \in Writers |-> [pc |-> "idle"]]
    /\ clock = 0
    /\ cl = [pc |-> "new", tok |-> NoTok, first |-> NoTok, goal |-> "get",
             has |-> [i \in Ids |-> 0], newer |-> FALSE]
    /\ sub = [s \in Streams |-> [pc |-> "off", slot |-> FALSE, first |-> NoTok,
                                 sent |-> NoTok, inbox |-> FALSE]]
    /\ blind = {} /\ torn = {} /\ feedFaults = 0

(***************************************************************************)
(* Writers.                                                                *)
(***************************************************************************)
InTx(w) ==
    /\ tx[w].pc = "idle" /\ clock < MaxTx
    /\ tx' = [tx EXCEPT ![w] = [pc |-> "open", at |-> clock + 1]]
    /\ clock' = clock + 1
    /\ UNCHANGED <<kind, tab, msg, cl, sub, blind, torn, feedFaults>>

(* The rows a statement of the transaction finds to change.                *)
Affected(t) ==
    {i \in t.ids : CASE t.op = "insert"  -> tab[i].x = "absent"
                     [] t.op = "message" -> FALSE
                     [] t.op = "purge"   -> tab[i].x # "absent"
                     [] OTHER            -> tab[i].x = "live"}
(* What the statement makes of each.  A batch of messages has one time; a  *)
(* flag write or a move renews it; a deletion leaves a tombstone; a new    *)
(* UIDVALIDITY deletes the rows of the mailbox (here any rows) outright.   *)
InsertMessages(t) == [x |-> "live", c |-> t.at, u |-> t.at]
UpdateFlags(t, r) == [r EXCEPT !.u = t.at]
MarkDeleted(t, r) == [r EXCEPT !.u = t.at, !.x = "dead"]
InvalidateMailbox == Absent
(* Threads: a row appears or is pointed at another thread; a merge buries  *)
(* the loser.  Submissions: a destroyed one stays as a tombstone.          *)
EnsureThread(t, r) == IF r.x = "absent" THEN InsertMessages(t) ELSE UpdateFlags(t, r)
TombstoneThread(t, r) == MarkDeleted(t, r)
DestroySendIntent(t, r) == MarkDeleted(t, r)

WrittenAhead(t, r) == [x |-> "live", c |-> t.at, u |-> t.at + MaxTx]
Written(t, r) ==
    CASE t.op = "purge" -> InvalidateMailbox
      [] kind = "Thread" -> IF t.op = "bury" THEN TombstoneThread(t, r)
                            ELSE EnsureThread(t, r)
      [] t.op = "bury" /\ kind = "EmailSubmission" -> DestroySendIntent(t, r)
      [] t.op = "insert" -> InsertMessages(t)
      [] t.op = "touch" -> UpdateFlags(t, r)
      [] t.op = "bury" -> MarkDeleted(t, r)

(* Why a row this commit writes escapes a client that holds a copy: its    *)
(* time is at or before a time the client already has (late), the client   *)
(* has read the rows and not yet the state (between), the row is gone      *)
(* without a tombstone (purged), the client listed it after it read the    *)
(* state and the state is that one again (undone), or no message changed   *)
(* and the Mailbox state stays as it is (untold).                          *)
Reading == /\ cl.pc \in {"state", "count"}
           /\ cl.goal = "changes" \/ kind \in RowsFirst
Escapes(t) ==
    {r \in {"late", "between", "purged", "undone", "untold"} :
        CASE r = "late"    -> cl.pc # "new" /\ t.at <= Max({cl.tok[1], cl.first[1]})
          [] r = "between" -> Reading /\ (cl.pc = "state" \/ kind = "Thread"
                                            \/ t.op = "purge")
          [] r = "purged"  -> t.op = "purge" /\ kind \in Paged
          [] r = "undone"  -> t.op = "purge" /\ cl.newer
          [] OTHER         -> kind = "Mailbox"}

Commit(w) ==
    /\ tx[w].pc = "open"
    /\ \E op \in Ops(kind), S \in Batch(kind) :
          LET t == [at |-> tx[w].at, op |-> op, ids |-> S]
              A == Affected(t)
          IN /\ A # {} \/ op = "message"
             /\ tab' = [i \in Ids |-> IF i \in A THEN Written(t, tab[i]) ELSE tab[i]]
             /\ msg' = IF op = "message"
                       THEN [w |-> Max({msg.w, t.at}), n |-> msg.n + 1] ELSE msg
             /\ blind' = blind \cup (A \X Escapes(t))
    /\ tx' = [tx EXCEPT ![w] = [pc |-> IF kind \in Pushed THEN "notify" ELSE "idle"]]
    /\ UNCHANGED <<kind, clock, cl, sub, torn, feedFaults>>

(***************************************************************************)
(* The broker: a subscriber has one slot, and a notification fills it.     *)
(***************************************************************************)
SubscribersLate == {s \in Streams : sub[s].pc = "select"}
Subscribers == {s \in Streams : sub[s].pc \in {"first", "count", "select"}}

deliver(s) == [sub[s] EXCEPT !.slot = TRUE]

Notify(w) ==
    /\ tx[w].pc = "notify"
    /\ tx' = [tx EXCEPT ![w] = [pc |-> "idle"]]
    /\ sub' = [s \in Streams |-> IF s \in Subscribers
                                 THEN deliver(s) ELSE sub[s]]
    /\ UNCHANGED <<kind, tab, msg, clock, cl, blind, torn, feedFaults>>

(***************************************************************************)
(* handleEventSource: the cap is read, then the stream subscribes, then it *)
(* writes the current state before it waits for the first notification.    *)
(***************************************************************************)
handleEventSource(s) ==
    /\ sub[s].pc = "off" /\ kind \in Pushed
    /\ Cardinality(Subscribers) < MaxSSE
    /\ sub' = [sub EXCEPT ![s] = [@ EXCEPT !.pc = "admitted"]]
    /\ UNCHANGED <<kind, tab, msg, tx, clock, cl, blind, torn, feedFaults>>

StateEvents(s) ==
    /\ sub[s].pc = "admitted"
    /\ sub' = [sub EXCEPT ![s] = [@ EXCEPT !.pc = "first",
                                           !.slot = FALSE]]
    /\ UNCHANGED <<kind, tab, msg, tx, clock, cl, blind, torn, feedFaults>>

(* writeStateEvent: readStates, one or two SELECTs, then the event.  A     *)
(* failed read drops the notification and the stream goes on.              *)
readStates(s, e) ==
    IF kind \in Torn /\ e.pc # "count"
    THEN [e EXCEPT !.pc = "count", !.first = FirstRead]
    ELSE [e EXCEPT !.pc = "select", !.inbox = TRUE, !.first = NoTok,
                   !.sent = IF kind \in Torn THEN SecondRead(e.first)
                            ELSE FirstRead]

writeStateEvent(s) ==
    /\ sub[s].pc \in {"first", "count"}
    /\ \/ /\ sub' = [sub EXCEPT ![s] = readStates(s, sub[s])]
          /\ torn' = IF sub'[s].pc = "select" THEN torn \ {s} ELSE torn
          /\ UNCHANGED feedFaults
       \/ /\ feedFaults < MaxFeedFaults[kind] /\ feedFaults' = feedFaults + 1
          /\ sub' = [sub EXCEPT ![s] = [@ EXCEPT !.pc = "select", !.first = NoTok]]
          /\ torn' = torn \cup {s}
    /\ UNCHANGED <<kind, tab, msg, tx, clock, cl, blind>>

streamEvents(s) ==
    /\ sub[s].pc = "select" /\ sub[s].slot
    /\ sub' = [sub EXCEPT ![s] = [@ EXCEPT !.pc = "first", !.slot = FALSE]]
    /\ UNCHANGED <<kind, tab, msg, tx, clock, cl, blind, torn, feedFaults>>

(* The client goes away, or a write to it fails; it will connect again.    *)
dropped(s) ==
    /\ sub[s].pc = "select"
    /\ feedFaults < MaxFeedFaults[kind] /\ feedFaults' = feedFaults + 1
    /\ sub' = [sub EXCEPT ![s] = [@ EXCEPT !.pc = "off", !.slot = FALSE,
                                           !.inbox = FALSE]]
    /\ torn' = torn \ {s}
    /\ UNCHANGED <<kind, tab, msg, tx, clock, cl, blind>>

(***************************************************************************)
(* The client's requests.                                                  *)
(***************************************************************************)
(* The state half of a request, and where the request goes from there.     *)
Settle(c, tok) == [c EXCEPT !.pc = IF c.goal = "statefirst" THEN "rows" ELSE "idle",
                            !.tok = tok, !.first = NoTok, !.newer = FALSE]
ReadState(c) ==
    IF c.pc = "count" THEN Settle(c, SecondRead(c.first))
    ELSE IF kind \in Torn THEN [c EXCEPT !.pc = "count", !.first = FirstRead]
    ELSE Settle(c, FirstRead)

(* The rows half of a /get: the whole list.                                *)
ListRows(c, next) ==
    [c EXCEPT !.pc = next, !.has = [i \in Ids |-> Held(i)],
              !.newer = c.goal = "statefirst" /\ StateNow # c.tok]

(* Email/get, Mailbox/get, Thread/get, EmailSubmission/get, Snooze/get and *)
(* Mute/get read the state and then the rows.                              *)
handleEmailGetRowsFirst(c) == [c EXCEPT !.pc = "rows", !.goal = "rowsfirst"]
handleEmailGet(c) == [c EXCEPT !.pc = "state", !.goal = "statefirst"]
handleMailboxGet(c) == [c EXCEPT !.pc = "state", !.goal = "statefirst"]
handleThreadGet(c) == [c EXCEPT !.pc = "state", !.goal = "statefirst"]
handleSubmissionGet(c) == [c EXCEPT !.pc = "state", !.goal = "statefirst"]
handleSnoozeGet(c) == [c EXCEPT !.pc = "state", !.goal = "statefirst"]
handleMuteGet(c) == [c EXCEPT !.pc = "state", !.goal = "statefirst"]
(* Identity/get, SieveScript/get and ForwardingAddress/get read the rows   *)
(* and then the state.                                                     *)
handleIdentityGet(c) == [c EXCEPT !.pc = "rows", !.goal = "rowsfirst"]
handleSieveScriptGet(c) == [c EXCEPT !.pc = "rows", !.goal = "rowsfirst"]
handleForwardingAddressGet(c) == [c EXCEPT !.pc = "rows", !.goal = "rowsfirst"]

StartGet(c) ==
    CASE kind = "Email"             -> handleEmailGet(c)
      [] kind = "Mailbox"           -> handleMailboxGet(c)
      [] kind = "Thread"            -> handleThreadGet(c)
      [] kind = "EmailSubmission"   -> handleSubmissionGet(c)
      [] kind = "Snooze"            -> handleSnoozeGet(c)
      [] kind = "Mute"              -> handleMuteGet(c)
      [] kind = "Identity"          -> handleIdentityGet(c)
      [] kind = "SieveScript"       -> handleSieveScriptGet(c)
      [] kind = "ForwardingAddress" -> handleForwardingAddressGet(c)

(* A client loads everything once, and again when /changes refuses.        *)
Get ==
    /\ cl.pc = "new"
    /\ cl' = StartGet(cl)
    /\ UNCHANGED <<kind, tab, msg, tx, clock, sub, blind, torn, feedFaults>>

GetRows ==
    /\ cl.pc = "rows"
    /\ cl' = ListRows(cl, IF cl.goal = "statefirst" THEN "idle" ELSE "state")
    /\ blind' = {}
    /\ UNCHANGED <<kind, tab, msg, tx, clock, sub, torn, feedFaults>>

GetState ==
    /\ cl.pc \in {"state", "count"}
    /\ cl' = ReadState(cl)
    /\ UNCHANGED <<kind, tab, msg, tx, clock, sub, blind, torn, feedFaults>>

(* An event arrives on a stream.  The client compares it with what it has. *)
Receive(s) ==
    /\ cl.pc = "idle" /\ sub[s].inbox
    /\ sub' = [sub EXCEPT ![s] = [@ EXCEPT !.inbox = FALSE]]
    /\ cl' = IF sub[s].sent = cl.tok THEN cl ELSE [cl EXCEPT !.pc = "changes"]
    /\ UNCHANGED <<kind, tab, msg, tx, clock, blind, torn, feedFaults>>

(* A type that is not pushed is polled.                                    *)
Poll ==
    /\ cl.pc = "idle" /\ kind \notin Pushed /\ cl.tok # StateNow
    /\ cl' = StartGet(cl)
    /\ UNCHANGED <<kind, tab, msg, tx, clock, sub, blind, torn, feedFaults>>

(***************************************************************************)
(* /changes.                                                               *)
(***************************************************************************)
checkCursorReachable(since) ==
    kind \in {"Email", "Mailbox"} =>
        \/ since = 0 \/ dataState[1] = 0
        \/ since <= dataState[1]

(* updated_at > since ORDER BY updated_at, id.                             *)
changedSinceRows(since) ==
    SetToSortSeq({i \in Rows : tab[i].u > since},
                 LAMBDA a, b : tab[a].u < tab[b].u
                                \/ (tab[a].u = tab[b].u /\ a < b))

classify(i, since) ==
    LET created == since = 0 \/ tab[i].c > since
    IN CASE created /\ tab[i].x = "dead" -> "omitted"
         [] tab[i].x = "dead"            -> "destroyed"
         [] created                      -> "created"
         [] OTHER                        -> "updated"

(* One page of rows: what it says of each, whether more follow, the cursor *)
(* that resumes after it, and the rows it cuts off although they share the *)
(* time of its last row.                                                   *)
Window(since, limit, say) ==
    LET rows == changedSinceRows(since)
        more == Len(rows) > limit
        page == IF more THEN SubSeq(rows, 1, limit) ELSE rows
        last == IF page = <<>> THEN 0 ELSE tab[page[Len(page)]].u
    IN [page  |-> Range(page), more |-> more, next |-> stateForCursor(last),
        say   |-> [i \in Range(page) |-> say[i]],
        split |-> {i \in Range(rows) \ Range(page) : tab[i].u = last}]

Classified(since) == [i \in Ids |-> classify(i, since)]
Refused == [page |-> {}, more |-> TRUE]

loadChangeWindow(since) ==
    IF checkCursorReachable(since)
    THEN Window(since, MaxChanges, Classified(since)) ELSE Refused
(* Mailbox/changes has one page and calls everything updated; a folder     *)
(* whose row is gone is not in it.                                         *)
handleMailboxChanges(since) ==
    IF checkCursorReachable(since)
    THEN Window(since, Cardinality(Ids), [i \in Ids |-> "updated"]) ELSE Refused
handleThreadChanges(since) == Window(since, MaxChanges, Classified(since))
handleSubmissionChanges(since) == Window(since, MaxChanges, Classified(since))
handleIdentityChanges(since) ==
    Window(since, MaxChanges, [i \in Ids |-> "updated"])

ChangesOf(since) ==
    CASE kind = "Email"           -> loadChangeWindow(since)
      [] kind = "Mailbox"         -> handleMailboxChanges(since)
      [] kind = "Thread"          -> handleThreadChanges(since)
      [] kind = "EmailSubmission" -> handleSubmissionChanges(since)
      [] kind = "Identity"        -> handleIdentityChanges(since)

(* The client drops what is destroyed and fetches what is created or       *)
(* updated; it hears nothing of an object that is omitted.                 *)
Applied(has, w) ==
    [i \in Ids |-> IF i \notin w.page \/ w.say[i] = "omitted" THEN has[i]
                   ELSE IF w.say[i] = "destroyed" THEN 0 ELSE Held(i)]

(* The read of the rows: a page that is not the last ends the request with *)
(* a cursor; the last one goes on to read the state.  A refused cursor is  *)
(* answered by a reload.                                                   *)
Changes ==
    /\ cl.pc = "changes"
    /\ LET w == ChangesOf(cursorFromState(cl.tok))
       IN IF w = Refused
          THEN cl' = StartGet(cl) /\ UNCHANGED blind
          ELSE /\ cl' = [cl EXCEPT !.has = Applied(@, w), !.goal = "changes",
                                   !.pc  = IF w.more THEN "changes" ELSE "state",
                                   !.tok = IF w.more THEN w.next ELSE @]
               /\ blind' = {b \in blind : b[1] \notin w.page}
                     \cup (w.split \X {"split"})
                     \cup ({i \in w.page : cl.has[i] # 0 /\ w.say[i] = "omitted"}
                              \X {"omitted"})
    /\ UNCHANGED <<kind, tab, msg, tx, clock, sub, torn, feedFaults>>

(* What the scheduler runs sooner or later: transactions end, and requests *)
(* and streams go on.  New transactions, failures and dropped streams are  *)
(* not promised.                                                           *)
Progress ==
    \/ \E w \in Writers : Commit(w) \/ Notify(w)
    \/ \E s \in Streams : \/ handleEventSource(s) \/ StateEvents(s)
                          \/ writeStateEvent(s) \/ streamEvents(s) \/ Receive(s)
    \/ Get \/ GetRows \/ GetState \/ Poll \/ Changes

FeedNext ==
    \/ \E w \in Writers : InTx(w)
    \/ \E s \in Streams : dropped(s)
    \/ Progress

FeedSpec == FeedInit /\ [][FeedNext]_feedVars /\ WF_feedVars(Progress)

(***************************************************************************)
(* Properties.                                                             *)
(***************************************************************************)
(* Rows, clocks and requests hold values of their kinds.                   *)
FeedTypeOK ==
    /\ kind \in Kinds
    /\ \A i \in Ids : tab[i].x \in {"absent", "live", "dead"}
                       /\ tab[i].c <= clock /\ tab[i].u <= clock
    /\ cl.pc \in {"new", "idle", "state", "count", "rows", "changes"}
    /\ \A s \in Streams : sub[s].pc \in {"off", "admitted", "first", "count",
                                         "select"}

Windows == {"late", "between", "purged", "undone", "untold", "split",
            "omitted"}

(* A client whose state is the server's holds what the server holds, row   *)
(* by row, save for a row that escaped it through a window of the code:    *)
(*   late    a commit whose time, taken at BEGIN, is not after the time    *)
(*           the client has; changes.go:20-21 has the state move "forward  *)
(*           on every change and never backwards";                         *)
(*   split   a page cut between two rows of one time; changes.go:253-256   *)
(*           has the cursor resume with "exactly the rows this page did    *)
(*           not" and queries_changes.go:47-51 calls the paging safe;      *)
(*   between a commit between the read of the rows and that of the state;  *)
(*   purged, undone, untold, omitted   a row deleted without a tombstone,  *)
(*           deleted again after it was listed, in a Mailbox state that no *)
(*           message moved, or created and destroyed since the cursor.     *)
(* A row is excused only until a page or a reload brings it again.         *)
SameStateSameData ==
    (cl.pc = "idle" /\ cl.tok = StateNow)
    => \A i \in Ids : cl.has[i] = Held(i) \/ \E r \in Windows : <<i, r>> \in blind

(* A stream that waits, with nothing in its slot and no write about to     *)
(* notify, has sent the state of now: subscribing before the first read,   *)
(* notifying after the commit and a slot that is filled again while the    *)
(* stream reads lose no change.  A failed read is only repaired by the     *)
(* next notification.                                                      *)
PushIsFresh ==
    \A s \in Streams :
        (/\ sub[s].pc = "select" /\ ~sub[s].slot /\ s \notin torn
         /\ \A w \in Writers : tx[w].pc # "notify")
        => sub[s].sent = StateNow

(* A client that follows the pushes, or polls a type without them, ends up *)
(* with the server's state and no request open: paging always moves on,    *)
(* and a cursor ahead of the data is answered by a reload.                 *)
ClientCatchesUp ==
    <>[](cl.pc = "idle" /\ (cl.tok = StateNow \/ torn # {}))

\* Equal state strings mean equal data outside the listed windows, and an open
\* stream has told its client the latest state once the notifications are out
\* (changes.go, broker.go and eventsource.go).
FeedSafe == FeedTypeOK /\ SameStateSameData /\ PushIsFresh
=============================================================================
