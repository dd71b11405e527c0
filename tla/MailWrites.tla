----------------------------- MODULE MailWrites -----------------------------
(***************************************************************************)
(* The write path of messages: Email/set (create, update, destroy) of the  *)
(* JMAP layer over the write executor, which performs every change on the  *)
(* IMAP server first and reflects the read-back in the store.              *)
(*                                                                         *)
(* A request runs as one handler.  It reads the row it is about, then      *)
(* waits for the account's write connection (the mutex `lock`), and under  *)
(* it issues one IMAP command or one store statement at a time.  Between   *)
(* any two of them another mail client (Other...) may change the mailbox   *)
(* and the sync engine may bring the store up to date with one folder      *)
(* (SyncPass: the pass as one step; its own steps are in MailboxSync).     *)
(* Lost is the connection's socket: the command in flight has landed.      *)
(*                                                                         *)
(* A message is its content, a model value; a copy of it is in one folder  *)
(* under a UID with a set of flags.  A row is the store's message_state:   *)
(* it names the folder, UIDVALIDITY and UID it believes the message has.   *)
(***************************************************************************)
EXTENDS Naturals, FiniteSets

CONSTANTS Msgs,        \* messages (naturals from 1: the UIDs of the first ones)
          Fresh,       \* the ones of them that exist at first in kind "pair" only
          Handlers,    \* requests that run at the same time
          Ids,         \* ids the store may give to rows (naturals from 1)
          Keywords,    \* keywords clients set
          AskedPatches,  \* the changes of keywords that clients ask for
          Hidden,      \* flags JMAP cannot express (\Deleted, \Junk...)
          KeywordCeiling,
          FirstModSeqs,  \* modseq_seen values the first rows may have
          MaxWrites,   \* bound, per kind: Email/set requests
          MaxEvents,   \* bound: lost connections, failures of the store and
                       \* changes by other clients
          MaxHappenings  \* bound: those and sync passes together

(* behind: messages whose change no reflection has followed; over: folders *)
(* that got keywords the ceiling's check could not see; struck: messages   *)
(* whose row a pass tombstoned while a move of theirs was on its way.      *)
VARIABLES kind, mail, box, rows, hs, lock, sel, writes, events, passes,
          behind, over, struck

writeVars == <<kind, mail, box, rows, hs, lock, sel, writes, events,
               passes, behind, over, struck>>

Folders == {"inbox", "archive", "trash"}

Flags == Keywords \cup Hidden

Nowhere == "nowhere"

NoCopy == [f |-> Nowhere, uid |-> 0, fl |-> {}, mod |-> 0]

NoMsg == 0

(* modOf: the folder whose modification sequence mod is.                   *)
NoRow == [m |-> NoMsg, f |-> Nowhere, valid |-> 0, uid |-> 0, fl |-> {},
          mod |-> 0, modOf |-> Nowhere, dead |-> FALSE]

(* The connection: the folder it remembers as selected, whether its socket *)
(* is up, and the folders recreated since it was dialled, which it cannot  *)
(* select any more.                                                        *)
NoSel == [f |-> Nowhere, valid |-> 0, up |-> TRUE, stale |-> {}]

NoPatch == [kind |-> "none", set |-> {}, add |-> {}, rem |-> {}]

Idle == [pc |-> "idle", id |-> 0, m |-> NoMsg, patch |-> NoPatch, to |-> Nowhere,
         act |-> "none", st |-> NoRow, unch |-> 0, retried |-> FALSE,
         cached |-> FALSE, fresh |-> NoCopy, duid |-> 0, dvalid |-> 0]

(* What clients may ask of the keywords: a full replacement, or a patch    *)
(* that adds and removes.                                                  *)
Patches ==
  [kind : {"replace"}, set : SUBSET Keywords, add : {{}}, rem : {{}}]
  \cup {p \in [kind : {"delta"}, set : {{}}, add : SUBSET Keywords,
               rem : SUBSET Keywords] : p.add \cap p.rem = {}}

ASSUME PatchesAssumption == AskedPatches \subseteq Patches

-----------------------------------------------------------------------------
(* The IMAP server, as the code uses it.                                   *)

(* The messages the server has under a UID of a folder (at most one).      *)
At(f, uid) == {m \in Msgs : mail[m].f = f /\ mail[m].uid = uid}

(* A change of flags or place gets the folder's next modification          *)
(* sequence; a copy that arrives gets its next UID.                        *)
Arrive(m, f, fl) ==
  /\ mail' = [mail EXCEPT ![m] = [f |-> f, uid |-> box[f].next, fl |-> fl,
                                  mod |-> box[f].mod + 1]]
  /\ box' = [box EXCEPT ![f] = [@ EXCEPT !.next = @ + 1, !.mod = @ + 1]]

Reflag(m, fl) ==
  IF mail[m].fl = fl
  THEN UNCHANGED <<mail, box>>
  ELSE LET f == mail[m].f IN
       /\ mail' = [mail EXCEPT ![m] = [@ EXCEPT !.fl = fl, !.mod = box[f].mod + 1]]
       /\ box' = [box EXCEPT ![f] = [@ EXCEPT !.mod = @ + 1]]

(* The keywords a folder's Maildir registry has to number.                 *)
UsedIn(f) == UNION {mail[m].fl \cap Keywords : m \in {x \in Msgs : mail[x].f = f}}

-----------------------------------------------------------------------------
(* The store.                                                              *)

Live(id) == rows[id].m # NoMsg /\ ~rows[id].dead

RowsAt(f, valid, uid) ==
  {id \in Ids : rows[id].m # NoMsg /\ rows[id].f = f /\ rows[id].valid = valid
                /\ rows[id].uid = uid}

(* DistinctKeywordsInMailbox: over the live rows of the folder.            *)
DistinctKeywordsInMailbox(f) ==
  UNION {rows[id].fl \cap Keywords : id \in {i \in Ids : Live(i) /\ rows[i].f = f}}

(* UpdateFlags: by message id, whatever the row says by now.               *)
UpdateFlags(id, c) ==
  rows' = IF rows[id].m = NoMsg THEN rows
          ELSE [rows EXCEPT ![id] = [@ EXCEPT !.fl = c.fl, !.mod = c.mod, !.modOf = c.f]]

(* MarkDeleted: the live rows that name the folder, UIDVALIDITY and UID.   *)
MarkDeleted(f, valid, uid) ==
  rows' = [id \in Ids |-> IF id \in RowsAt(f, valid, uid)
                          THEN [rows[id] EXCEPT !.dead = TRUE] ELSE rows[id]]

(* Ids are never given again: a request may still hold a row that is gone. *)
FreeIds == {id \in Ids : rows[id].m = NoMsg /\ \A h \in Handlers : hs[h].id # id}

FreeId == CHOOSE id \in FreeIds : \A j \in FreeIds : id <= j

NewRow(m, f, valid, c) ==
  [m |-> m, f |-> f, valid |-> valid, uid |-> c.uid, fl |-> c.fl,
   mod |-> c.mod, modOf |-> f, dead |-> FALSE]

-----------------------------------------------------------------------------
WritesInit ==
  /\ kind \in {"flags", "moves", "pair"}
  /\ box = [f \in Folders |-> IF f = "inbox" THEN [valid |-> 1, next |-> 3, mod |-> 4]
                              ELSE [valid |-> 1, next |-> 1, mod |-> 1]]
  /\ mail = [m \in Msgs |-> IF m \in Fresh /\ kind # "pair" THEN NoCopy
                            ELSE [f |-> "inbox", uid |-> m, fl |-> {}, mod |-> m + 2]]
  /\ \E seen \in FirstModSeqs :
       rows = [id \in Ids |->
         IF id \in Msgs /\ mail[id] # NoCopy
         THEN [NewRow(id, "inbox", 1, mail[id]) EXCEPT !.mod = seen * @]
         ELSE NoRow]
  /\ hs = [h \in Handlers |-> Idle]
  /\ lock = "free"
  /\ sel = NoSel
  /\ writes = 0 /\ events = 0 /\ passes = 0
  /\ behind = {} /\ over = {} /\ struck = {}

(* The bound on what happens beside the requests.                          *)
Happening == events + passes < MaxHappenings

(* A handler's record after a step: only what its rest still needs.        *)
Goto(h, pc) == hs' = [hs EXCEPT ![h] = [@ EXCEPT !.pc = pc]]

(* The request is answered; the connection's mutex is released.            *)
Answer(h) ==
  /\ hs' = [hs EXCEPT ![h] = Idle]
  /\ lock' = IF lock = h THEN "free" ELSE lock

-----------------------------------------------------------------------------
(* The JMAP layer.                                                         *)

(* checkKeywordCeilingNames: the names that are new to the folder must fit *)
(* in what is left of its budget (Remaining is never negative).            *)
checkKeywordCeilingOffByOne(f, wanted) ==
  LET inUse == DistinctKeywordsInMailbox(f) IN
  \/ wanted \subseteq inUse
  \/ Cardinality(wanted \ inUse) <= KeywordCeiling + 1 - Cardinality(inUse)

checkKeywordCeiling(f, wanted) ==
  LET inUse == DistinctKeywordsInMailbox(f) IN
  \/ wanted \subseteq inUse
  \/ Cardinality(inUse) + Cardinality(wanted \ inUse) <= KeywordCeiling

(* resolveMailbox: after the patch the message is in exactly one mailbox,  *)
(* or the update is refused; Nowhere means that no move was asked for.     *)
resolveMailbox(add, rem, cur) ==
  LET final == ({cur} \cup add) \ rem IN
  IF add = {} /\ rem = {} THEN {Nowhere}
  ELSE IF Cardinality(final) = 1 THEN final ELSE {}

(* Requests that overlap may each pass the check before the other writes.  *)
Overlap(h) ==
  over' = IF \E g \in Handlers \ {h} : hs[g].pc # "idle" THEN Folders ELSE over

(* applyEmailUpdate up to its first write: the row is read, the mailbox    *)
(* resolved, the keyword budget checked, all of it once and before the     *)
(* first IMAP command.  Keywords go first, then the move.                  *)
applyEmailUpdate(h) ==
  /\ hs[h].pc = "idle" /\ writes < MaxWrites[kind]
  /\ writes' = writes + 1
  /\ \E id \in Ids, patch \in AskedPatches \cup {NoPatch}, add, rem \in SUBSET Folders :
       LET r == rows[id]
           wanted == patch.set \cup patch.add IN
       /\ Live(id)
       /\ kind = "flags" => add = {} /\ rem = {}
       /\ kind # "flags" => patch.kind # "delta"
       /\ Cardinality(add) <= 1 /\ rem \in {{}, {r.f}}
       /\ \E to \in resolveMailbox(add, rem, r.f) :
            /\ patch # NoPatch \/ to \notin {Nowhere, r.f}
            /\ patch # NoPatch => checkKeywordCeiling(r.f, wanted)
            /\ hs' = [hs EXCEPT ![h] =
                 [Idle EXCEPT !.pc = IF patch # NoPatch THEN "flags" ELSE "move",
                              !.id = id, !.m = r.m, !.patch = patch,
                              !.to = IF to = r.f THEN Nowhere ELSE to]]
  /\ Overlap(h)
  /\ UNCHANGED <<mail, box, rows, lock, sel, kind, events, passes, behind, struck>>

applyEmailDestroy(h) ==
  /\ hs[h].pc = "idle" /\ writes < MaxWrites[kind] /\ kind # "flags"
  /\ writes' = writes + 1
  /\ \E id \in Ids :
       /\ Live(id)
       /\ hs' = [hs EXCEPT ![h] = [Idle EXCEPT !.pc = "destroy", !.id = id,
                                               !.m = rows[id].m]]
  /\ Overlap(h)
  /\ UNCHANGED <<mail, box, rows, lock, sel, kind, events, passes, behind, struck>>

applyEmailCreate(h) ==
  /\ hs[h].pc = "idle" /\ writes < MaxWrites[kind] /\ kind = "flags"
  /\ writes' = writes + 1
  /\ \E m \in Fresh, f \in {"inbox"}, wanted \in SUBSET Keywords :
       /\ mail[m] = NoCopy /\ \A id \in Ids : rows[id].m # m
       /\ \A g \in Handlers : hs[g].m # m
       /\ checkKeywordCeiling(f, wanted)
       /\ hs' = [hs EXCEPT ![h] =
            [Idle EXCEPT !.pc = "select", !.act = "append", !.m = m, !.to = f,
                         !.patch = [NoPatch EXCEPT !.set = wanted],
                         !.st = [NoRow EXCEPT !.f = f]]]
  /\ Overlap(h)
  /\ UNCHANGED <<mail, box, rows, lock, sel, kind, events, passes, behind, struck>>

-----------------------------------------------------------------------------
(* The write executor: what a write is about.                              *)

(* target and the start of ApplyFlagChange, ApplyMove and ApplyDestroy:    *)
(* the row is read again, before the mutex.  A destroy outside Trash is a  *)
(* move to Trash, which reads the row once more.                           *)
FlagTarget(h) ==
  /\ hs[h].pc = "flags"
  /\ IF ~Live(hs[h].id) THEN Answer(h)
     ELSE /\ hs' = [hs EXCEPT ![h] = [@ EXCEPT !.pc = "select", !.act = "flags",
                                               !.st = rows[hs[h].id]]]
          /\ UNCHANGED lock
  /\ UNCHANGED <<mail, box, rows, sel, kind, writes, events, passes, behind, over, struck>>

MoveTarget(h) ==
  /\ hs[h].pc = "move"
  /\ IF ~Live(hs[h].id) \/ rows[hs[h].id].f = hs[h].to THEN Answer(h)
     ELSE /\ hs' = [hs EXCEPT ![h] = [@ EXCEPT !.pc = "select", !.act = "move",
                                               !.st = rows[hs[h].id]]]
          /\ UNCHANGED lock
  /\ UNCHANGED <<mail, box, rows, sel, kind, writes, events, passes, behind, over, struck>>

ApplyDestroyAtOnce(h) ==
  /\ hs[h].pc = "destroy"
  /\ IF ~Live(hs[h].id) THEN Answer(h)
     ELSE /\ hs' = [hs EXCEPT ![h] = [@ EXCEPT !.pc = "select", !.act = "expunge",
                                               !.st = rows[hs[h].id]]]
          /\ UNCHANGED lock
  /\ UNCHANGED <<mail, box, rows, sel, kind, writes, events, passes, behind, over, struck>>

ApplyDestroy(h) ==
  /\ hs[h].pc = "destroy"
  /\ IF ~Live(hs[h].id) THEN Answer(h)
     ELSE /\ hs' = [hs EXCEPT ![h] =
               IF rows[hs[h].id].f = "trash"
               THEN [@ EXCEPT !.pc = "select", !.act = "expunge",
                              !.st = rows[hs[h].id]]
               ELSE [@ EXCEPT !.pc = "move", !.to = "trash"]]
          /\ UNCHANGED lock
  /\ UNCHANGED <<mail, box, rows, sel, kind, writes, events, passes, behind, over, struck>>

(* checkUIDValidity: the row was learnt under the UIDVALIDITY of the       *)
(* selection.  An append names no row and is not asked.                    *)
checkUIDValidityNever(s, st) == TRUE

checkUIDValidity(s, st) == s.valid = st.valid

FirstCommand == [flags |-> "store", move |-> "mv", expunge |-> "exp", append |-> "app"]

(* withMailbox: the mutex, the connection, and a SELECT unless the         *)
(* connection remembers the folder as selected.  A SELECT that fails, the  *)
(* socket being dead or the session's view stale, is repeated once on a    *)
(* new connection.                                                         *)
Selected(f) ==
  IF sel.up /\ f \notin sel.stale
  THEN [sel EXCEPT !.f = f, !.valid = box[f].valid]
  ELSE [NoSel EXCEPT !.f = f, !.valid = box[f].valid]

withMailboxUnlocked(h) ==
  /\ hs[h].pc = "select"
  /\ LET f == hs[h].st.f IN
     /\ sel' = IF sel.f = f THEN sel ELSE Selected(f)
     /\ lock' = h
     /\ hs' = [hs EXCEPT ![h] =
          [@ EXCEPT !.pc = IF hs[h].act = "flags" /\ hs[h].patch.kind = "delta"
                           THEN "add" ELSE FirstCommand[hs[h].act],
                    !.cached = sel.f = f, !.unch = hs[h].st.mod]]
  /\ UNCHANGED <<mail, box, rows, kind, writes, events, passes, behind, over, struck>>

withMailbox(h) ==
  /\ hs[h].pc = "select" /\ lock \in {"free", h}
  /\ LET f == hs[h].st.f
         cached == sel.f = f
         now == IF cached THEN sel ELSE Selected(f) IN
     /\ sel' = now
     /\ IF hs[h].act = "append" \/ checkUIDValidity(now, hs[h].st)
        THEN /\ lock' = h
             /\ hs' = [hs EXCEPT ![h] =
                  [@ EXCEPT !.pc = IF hs[h].act = "flags" /\ hs[h].patch.kind = "delta"
                                   THEN "add" ELSE FirstCommand[hs[h].act],
                            !.cached = cached, !.unch = hs[h].st.mod]]
        ELSE /\ hs' = [hs EXCEPT ![h] = Idle]
             /\ lock' = "free"
  /\ UNCHANGED <<mail, box, rows, kind, writes, events, passes, behind, over, struck>>

(* A command works in a session that is up and whose folder was not        *)
(* recreated under it.                                                     *)
SessionAlive == sel.up /\ sel.f # Nowhere /\ sel.valid = box[sel.f].valid

CommandPcs == {"store", "conflict", "add", "rem", "read", "mv", "resel",
               "readmoved", "exp", "expunged", "app", "fetchnew"}

(* forgetSelection                                                         *)
Forgotten == [sel EXCEPT !.f = Nowhere, !.valid = 0]

(* The commands that follow one the server has carried out, or that wait   *)
(* for its answer.                                                         *)
AfterEffect == {"rem", "read", "resel", "expunged", "fetchnew"}

(* Any other command fails: its error is the answer.  It is none of those  *)
(* isConnectionDead names, so that nothing is repeated, and neither the    *)
(* connection nor what it remembers as selected is discarded; only         *)
(* reselect forgets the selection.                                         *)
CommandFails(h) ==
  /\ hs[h].pc \in CommandPcs
  /\ IF hs[h].pc = "resel" THEN ~sel.up ELSE ~SessionAlive
  /\ behind' = IF hs[h].pc \in AfterEffect THEN behind \cup {hs[h].m} ELSE behind
  /\ over' = IF hs[h].pc \in AfterEffect THEN over \cup {hs[h].st.f} ELSE over
  /\ sel' = IF hs[h].pc = "resel" THEN Forgotten ELSE sel
  /\ Answer(h)
  /\ UNCHANGED <<mail, box, rows, kind, writes, events, passes, struck>>

Lost ==
  /\ Happening /\ events < MaxEvents /\ events' = events + 1
  /\ sel.f # Nowhere /\ sel.up
  /\ sel' = [sel EXCEPT !.up = FALSE]
  /\ UNCHANGED <<mail, box, rows, hs, lock, kind, writes, passes, behind, over, struck>>

(* A write to the store fails: the server has changed, the row has not.    *)
StoreFails(h) ==
  /\ hs[h].pc \in {"refused", "reflect", "point", "tomb", "insert"}
  /\ Happening /\ events < MaxEvents /\ events' = events + 1
  /\ behind' = behind \cup {hs[h].m}
  /\ over' = over \cup {hs[h].st.f}
  /\ Answer(h)
  /\ UNCHANGED <<mail, box, rows, sel, kind, writes, passes, struck>>

Holds(h, pc) == hs[h].pc = pc /\ SessionAlive

-----------------------------------------------------------------------------
(* ApplyFlagChange under the mutex.                                        *)

invisibleFlags(st) == st.fl \cap Hidden

(* The message the row's UID has on the server now, if any.                *)
Named(h) == At(hs[h].st.f, hs[h].st.uid)

(* storeReplace, no modseq on record: read the current one first.          *)
FetchModSeq(h) ==
  /\ Holds(h, "store") /\ hs[h].patch.kind = "replace" /\ hs[h].unch = 0
  /\ IF Named(h) = {} THEN Answer(h)
     ELSE \E m \in Named(h) :
            /\ hs' = [hs EXCEPT ![h] = [@ EXCEPT !.unch = mail[m].mod]]
            /\ UNCHANGED lock
  /\ UNCHANGED <<mail, box, rows, sel, kind, writes, events, passes, behind, over, struck>>

(* STORE with UNCHANGEDSINCE: refused if the message changed since.  A UID *)
(* that is gone is neither stored nor refused.                             *)
UnchangedSinceNever(m, unch) == TRUE

UnchangedSince(m, unch) == mail[m].mod <= unch

storeReplace(h) ==
  /\ Holds(h, "store") /\ hs[h].patch.kind = "replace" /\ hs[h].unch # 0
  /\ IF Named(h) = {} THEN Goto(h, "read") /\ UNCHANGED <<mail, box>>
     ELSE \E m \in Named(h) :
            IF UnchangedSince(m, hs[h].unch)
            THEN /\ Reflag(m, hs[h].patch.set \cup invisibleFlags(hs[h].st))
                 /\ Goto(h, "read")
            ELSE /\ Goto(h, "conflict")
                 /\ UNCHANGED <<mail, box>>
  /\ UNCHANGED <<rows, lock, sel, kind, writes, events, passes, behind, over, struck>>

(* A refusal whose read-back still matches the row is retried once with    *)
(* the fresh modseq; any other one is reflected and answered as conflict.  *)
storeReplaceConflict(h) ==
  /\ Holds(h, "conflict")
  /\ IF Named(h) = {} THEN Answer(h)
     ELSE \E m \in Named(h) :
            /\ hs' = [hs EXCEPT ![h] =
                 IF ~hs[h].retried /\ mail[m].fl = hs[h].st.fl
                 THEN [@ EXCEPT !.pc = "store", !.unch = mail[m].mod, !.retried = TRUE]
                 ELSE [@ EXCEPT !.pc = "refused", !.fresh = mail[m]]]
            /\ UNCHANGED lock
  /\ UNCHANGED <<mail, box, rows, sel, kind, writes, events, passes, behind, over, struck>>

ReflectRefused(h) ==
  /\ hs[h].pc = "refused"
  /\ UpdateFlags(hs[h].id, hs[h].fresh)
  /\ Answer(h)
  /\ UNCHANGED <<mail, box, sel, kind, writes, events, passes, behind, over, struck>>

(* A patch is two unconditional commands, the additions first.             *)
StoreAdd(h) ==
  /\ Holds(h, "add")
  /\ IF Named(h) = {} THEN UNCHANGED <<mail, box>>
     ELSE \E m \in Named(h) : Reflag(m, mail[m].fl \cup hs[h].patch.add)
  /\ Goto(h, "rem")
  /\ UNCHANGED <<rows, lock, sel, kind, writes, events, passes, behind, over, struck>>

StoreRemove(h) ==
  /\ Holds(h, "rem")
  /\ IF Named(h) = {} THEN UNCHANGED <<mail, box>>
     ELSE \E m \in Named(h) : Reflag(m, mail[m].fl \ hs[h].patch.rem)
  /\ Goto(h, "read")
  /\ UNCHANGED <<rows, lock, sel, kind, writes, events, passes, behind, over, struck>>

(* fetchOne: the read-back; a UID that is gone is "not found".             *)
fetchOne(h) ==
  /\ Holds(h, "read")
  /\ IF Named(h) = {} THEN Answer(h)
     ELSE \E m \in Named(h) :
            /\ hs' = [hs EXCEPT ![h] = [@ EXCEPT !.pc = "reflect", !.fresh = mail[m]]]
            /\ UNCHANGED lock
  /\ UNCHANGED <<mail, box, rows, sel, kind, writes, events, passes, behind, over, struck>>

(* reflectFlags: skipped if the read-back says what the row said.  Then    *)
(* the move of the same update starts, with the mutex released.            *)
reflectFlagsSkipped(h) ==
  /\ hs[h].pc = "reflect"
  /\ UNCHANGED rows
  /\ IF hs[h].act = "flags" /\ hs[h].to # Nowhere
     THEN /\ hs' = [hs EXCEPT ![h] = [Idle EXCEPT !.pc = "move", !.id = hs[h].id,
                                                  !.m = hs[h].m, !.to = hs[h].to]]
          /\ lock' = "free"
     ELSE Answer(h)
  /\ UNCHANGED <<mail, box, sel, kind, writes, events, passes, behind, over, struck>>

reflectFlags(h) ==
  /\ hs[h].pc = "reflect"
  /\ IF hs[h].fresh.fl = hs[h].st.fl /\ hs[h].fresh.mod = hs[h].st.mod
     THEN UNCHANGED rows
     ELSE UpdateFlags(hs[h].id, hs[h].fresh)
  /\ IF hs[h].act = "flags" /\ hs[h].to # Nowhere
     THEN /\ hs' = [hs EXCEPT ![h] = [Idle EXCEPT !.pc = "move", !.id = hs[h].id,
                                                  !.m = hs[h].m, !.to = hs[h].to]]
          /\ lock' = "free"
     ELSE Answer(h)
  /\ UNCHANGED <<mail, box, sel, kind, writes, events, passes, behind, over, struck>>

-----------------------------------------------------------------------------
(* ApplyMove and ApplyDestroy under the mutex.                             *)

(* MOVE: the response maps the old UID to the new one; a UID that is gone  *)
(* has no mapping and the row is tombstoned.                               *)
ApplyMove(h) ==
  /\ Holds(h, "mv")
  /\ IF Named(h) = {}
     THEN /\ Goto(h, "tomb")
          /\ UNCHANGED <<mail, box, over>>
     ELSE \E m \in Named(h) :
            LET to == hs[h].to IN
            /\ Arrive(m, to, mail[m].fl)
            /\ hs' = [hs EXCEPT ![h] = [@ EXCEPT !.pc = "resel", !.duid = box[to].next,
                                                 !.dvalid = box[to].valid]]
            /\ over' = over \cup {to}
  /\ UNCHANGED <<rows, lock, sel, kind, writes, events, passes, behind, struck>>

reselectSwapped(h) ==
  /\ hs[h].pc = "resel" /\ sel.up /\ hs[h].to \notin sel.stale
  /\ sel' = Selected(hs[h].to)
  /\ Goto(h, IF hs[h].dvalid = box[hs[h].to].valid THEN "tomb" ELSE "point")
  /\ UNCHANGED <<mail, box, rows, lock, kind, writes, events, passes, behind, over, struck>>

(* reselect: the destination is selected, and remembered as selected; a    *)
(* UIDVALIDITY other than the mapping's leaves only the tombstone.         *)
reselect(h) ==
  /\ hs[h].pc = "resel" /\ sel.up /\ hs[h].to \notin sel.stale
  /\ sel' = Selected(hs[h].to)
  /\ Goto(h, IF hs[h].dvalid # box[hs[h].to].valid THEN "tomb" ELSE "point")
  /\ UNCHANGED <<mail, box, rows, lock, kind, writes, events, passes, behind, over, struck>>

(* A view of the destination that is stale is an error isConnectionDead    *)
(* names: if the first selection came from the cache the callback runs     *)
(* again, from its MOVE, on a new connection; else the error is the        *)
(* answer.                                                                 *)
ReselectStale(h) ==
  /\ hs[h].pc = "resel" /\ sel.up /\ hs[h].to \in sel.stale
  /\ behind' = behind \cup {hs[h].m}
  /\ IF hs[h].cached
     THEN /\ sel' = NoSel
          /\ hs' = [hs EXCEPT ![h] = [@ EXCEPT !.pc = "select", !.cached = FALSE,
                                               !.duid = 0, !.dvalid = 0]]
          /\ UNCHANGED lock
     ELSE /\ sel' = Forgotten
          /\ Answer(h)
  /\ UNCHANGED <<mail, box, rows, kind, writes, events, passes, over, struck>>

(* MoveMessages: the row is re-pointed whatever it says by now, and stays  *)
(* a tombstone if it has become one; a row that names the new place        *)
(* already makes the statement fail, a row that is gone does not.          *)
MoveMessages(h) ==
  /\ hs[h].pc = "point"
  /\ LET id == hs[h].id
         there == RowsAt(hs[h].to, hs[h].dvalid, hs[h].duid) \ {id} IN
     IF there # {} /\ rows[id].m # NoMsg
     THEN /\ Answer(h)
          /\ behind' = behind \cup {hs[h].m}
          /\ UNCHANGED <<rows>>
     ELSE /\ rows' = IF rows[id].m = NoMsg THEN rows
                     ELSE [rows EXCEPT ![id] = [@ EXCEPT !.f = hs[h].to,
                             !.valid = hs[h].dvalid, !.uid = hs[h].duid]]
          /\ behind' = IF rows[id].m = NoMsg THEN behind \cup {hs[h].m} ELSE behind
          /\ Goto(h, "readmoved")
          /\ UNCHANGED lock
  /\ UNCHANGED <<mail, box, sel, kind, writes, events, passes, over, struck>>

(* The read-back of the moved message, for its new modseq.                 *)
ReadMoved(h) ==
  /\ Holds(h, "readmoved")
  /\ IF At(hs[h].to, hs[h].duid) = {} THEN Answer(h)
     ELSE \E m \in At(hs[h].to, hs[h].duid) :
            /\ hs' = [hs EXCEPT ![h] = [@ EXCEPT !.pc = "reflect", !.fresh = mail[m]]]
            /\ UNCHANGED lock
  /\ UNCHANGED <<mail, box, rows, sel, kind, writes, events, passes, behind, over, struck>>

Expunge(h) ==
  /\ Holds(h, "exp")
  /\ mail' = [m \in Msgs |-> IF m \in Named(h) THEN NoCopy ELSE mail[m]]
  /\ Goto(h, "expunged")
  /\ UNCHANGED <<box, rows, lock, sel, kind, writes, events, passes, behind, over, struck>>

ExpungeAnswered(h) ==
  /\ Holds(h, "expunged")
  /\ Goto(h, "tomb")
  /\ UNCHANGED <<mail, box, rows, lock, sel, kind, writes, events, passes, behind, over, struck>>

Tombstone(h) ==
  /\ hs[h].pc = "tomb"
  /\ MarkDeleted(hs[h].st.f, hs[h].st.valid, hs[h].st.uid)
  /\ Answer(h)
  /\ UNCHANGED <<mail, box, sel, kind, writes, events, passes, behind, over, struck>>

-----------------------------------------------------------------------------
(* ApplyAppendAt under the mutex.                                          *)

ApplyAppendAt(h) ==
  /\ Holds(h, "app")
  /\ Arrive(hs[h].m, hs[h].to, hs[h].patch.set)
  /\ hs' = [hs EXCEPT ![h] = [@ EXCEPT !.pc = "fetchnew", !.duid = box[hs[h].to].next,
                                       !.dvalid = box[hs[h].to].valid]]
  /\ UNCHANGED <<rows, lock, sel, kind, writes, events, passes, behind, over, struck>>

FetchAppended(h) ==
  /\ Holds(h, "fetchnew")
  /\ IF At(hs[h].to, hs[h].duid) = {} THEN Answer(h)
     ELSE \E m \in At(hs[h].to, hs[h].duid) :
            /\ hs' = [hs EXCEPT ![h] = [@ EXCEPT !.pc = "insert", !.fresh = mail[m]]]
            /\ UNCHANGED lock
  /\ UNCHANGED <<mail, box, rows, sel, kind, writes, events, passes, behind, over, struck>>

(* reflectAppend: the row, unless the sync engine has inserted it first.   *)
reflectAppendTwice(h) ==
  /\ hs[h].pc = "insert"
  /\ rows' = [rows EXCEPT ![FreeId] =
                NewRow(hs[h].m, hs[h].to, hs[h].dvalid, hs[h].fresh)]
  /\ Answer(h)
  /\ UNCHANGED <<mail, box, sel, kind, writes, events, passes, behind, over, struck>>

reflectAppend(h) ==
  /\ hs[h].pc = "insert"
  /\ rows' = IF RowsAt(hs[h].to, hs[h].dvalid, hs[h].fresh.uid) # {} THEN rows
             ELSE [rows EXCEPT ![FreeId] =
                     NewRow(hs[h].m, hs[h].to, hs[h].dvalid, hs[h].fresh)]
  /\ Answer(h)
  /\ UNCHANGED <<mail, box, sel, kind, writes, events, passes, behind, over, struck>>

-----------------------------------------------------------------------------
(* The others.                                                             *)

Other(m) ==
  /\ Happening /\ events < MaxEvents /\ events' = events + 1
  /\ mail[m].f # Nowhere /\ (kind = "flags" => mail[m].f = "inbox")
  /\ behind' = behind \cup {m}
  /\ UNCHANGED <<rows, hs, lock, sel, kind, writes, passes, struck>>

OtherFlags(m) ==
  /\ Other(m)
  /\ \E k \in Flags : Reflag(m, (mail[m].fl \cup {k}) \ (mail[m].fl \cap {k}))
  /\ over' = over \cup {mail[m].f}

OtherMove(m) ==
  /\ Other(m)
  /\ \E f \in Folders \ {mail[m].f} :
       /\ Arrive(m, f, mail[m].fl)
       /\ over' = over \cup {f}

OtherExpunge(m) ==
  /\ Other(m)
  /\ mail' = [mail EXCEPT ![m] = NoCopy]
  /\ UNCHANGED <<box, over>>

(* The folder's index is lost or the folder recreated: a new UIDVALIDITY,  *)
(* and the UIDs are given out again in another order.                      *)
Renumber(f) ==
  /\ Happening /\ events < MaxEvents /\ events' = events + 1
  /\ LET here == {m \in Msgs : mail[m].f = f} IN
     /\ here # {}
     /\ \E uids \in [here -> 1..Cardinality(here)] :
          /\ \A m, n \in here : uids[m] = uids[n] => m = n
          /\ mail' = [m \in Msgs |-> IF m \in here
                                     THEN [mail[m] EXCEPT !.uid = uids[m]] ELSE mail[m]]
     /\ box' = [box EXCEPT ![f] = [@ EXCEPT !.valid = @ + 1,
                                            !.next = Cardinality(here) + 1]]
     /\ behind' = behind \cup here
  /\ sel' = [sel EXCEPT !.stale = @ \cup {f}]
  /\ UNCHANGED <<rows, hs, lock, kind, writes, passes, over, struck>>

(* A pass over one folder, in one step (MailboxSync has its steps): rows   *)
(* learnt under another UIDVALIDITY are deleted; else the rows whose UID   *)
(* is gone are tombstoned and the others get the server's flags; a UID no  *)
(* row names, dead or alive, gets a row.  What a pass has seen whole is    *)
(* not behind any more.                                                    *)
SyncedRow(r, f) ==
  IF r.f # f \/ r.m = NoMsg THEN r
  ELSE IF r.valid # box[f].valid THEN NoRow
  ELSE IF At(f, r.uid) = {} THEN [r EXCEPT !.dead = TRUE]
  ELSE LET c == mail[CHOOSE m \in At(f, r.uid) : TRUE] IN
       [r EXCEPT !.fl = c.fl, !.mod = c.mod, !.modOf = f]

Unknown(f) ==
  {m \in Msgs : mail[m].f = f /\ RowsAt(f, box[f].valid, mail[m].uid) = {}}

SyncPass(f) ==
  /\ Happening /\ passes' = passes + 1
  /\ LET synced == [id \in Ids |-> SyncedRow(rows[id], f)]
         fresh == Unknown(f)
         free == {id \in Ids : synced[id].m = NoMsg
                               /\ \A h \in Handlers : hs[h].id # id} IN
     /\ Cardinality(fresh) <= Cardinality(free)
     /\ \E give \in [fresh -> free] :
          /\ \A m, n \in fresh : give[m] = give[n] => m = n
          /\ \A m \in fresh : \A id \in free :
               (\A n \in fresh : give[n] # id) => give[m] < id
          /\ rows' = [id \in Ids |->
               IF \E m \in fresh : give[m] = id
               THEN LET m == CHOOSE m \in fresh : give[m] = id IN
                    NewRow(m, f, box[f].valid, mail[m])
               ELSE synced[id]]
     /\ rows' # rows
     /\ struck' = struck \cup {m \in Msgs : \E h \in Handlers :
                     /\ hs[h].m = m /\ hs[h].pc \in {"resel", "point"}
                     /\ Live(hs[h].id) /\ rows'[hs[h].id].dead}
  /\ behind' = {m \in behind :
                  \/ mail[m].f # f \/ \E h \in Handlers : hs[h].m = m
                  \/ \E id \in Ids : rows'[id].m = m /\ rows'[id].f # f}
  /\ UNCHANGED <<mail, box, hs, lock, sel, kind, writes, events, over>>

-----------------------------------------------------------------------------
Step(h) ==
  \/ FlagTarget(h) \/ MoveTarget(h) \/ ApplyDestroy(h)
  \/ withMailbox(h) \/ CommandFails(h)
  \/ FetchModSeq(h) \/ storeReplace(h) \/ storeReplaceConflict(h)
  \/ ReflectRefused(h) \/ StoreAdd(h) \/ StoreRemove(h)
  \/ fetchOne(h) \/ reflectFlags(h)
  \/ ApplyMove(h) \/ reselect(h) \/ ReselectStale(h) \/ MoveMessages(h) \/ ReadMoved(h)
  \/ Expunge(h) \/ ExpungeAnswered(h) \/ Tombstone(h)
  \/ ApplyAppendAt(h) \/ FetchAppended(h) \/ reflectAppend(h)

WritesNext ==
  \/ \E h \in Handlers : \/ applyEmailUpdate(h) \/ applyEmailDestroy(h)
                         \/ applyEmailCreate(h) \/ Step(h) \/ StoreFails(h)
  \/ \E m \in Msgs : OtherFlags(m) \/ OtherMove(m) \/ OtherExpunge(m)
  \/ \E f \in Folders : Renumber(f) \/ SyncPass(f)
  \/ Lost

WritesSpec == WritesInit /\ [][WritesNext]_writeVars

-----------------------------------------------------------------------------
(* Folders, flags and rows hold values of their kinds.                     *)
WritesTypeOK ==
  /\ \A m \in Msgs : /\ mail[m].f \in Folders \cup {Nowhere}
                     /\ mail[m].fl \subseteq Flags
  /\ \A id \in Ids : rows[id].m \in Msgs \cup {NoMsg} /\ rows[id].fl \subseteq Flags
  /\ lock \in Handlers \cup {"free"}
  /\ behind \subseteq Msgs /\ over \subseteq Folders /\ struck \subseteq Msgs
  /\ \A h \in Handlers : hs[h].pc \in CommandPcs \cup {"refused", "reflect", "point",
                                                     "tomb", "insert"} => lock = h

(* A write never changes another message than the one its row is about,    *)
(* even if the folder is renumbered under it: the UIDVALIDITY of the row   *)
(* is compared with the selection's before the first command.              *)
OnlyNamedMail ==
  [][\A m \in Msgs : mail'[m] # mail[m] =>
       \A h \in Handlers : Step(h) => m = hs[h].m]_writeVars

(* A full replacement of a message's flags replaces what the client knew:  *)
(* what the row said is what the server had, hidden flags included.  Rows  *)
(* without a modseq on record, and rows of a move that was never read      *)
(* back, are the exceptions.                                               *)
ReplacesWhatWasKnown ==
  [][\A h \in Handlers : storeReplace(h) /\ hs[h].st.mod # 0 /\ hs[h].st.modOf = hs[h].st.f =>
       \A m \in Named(h) : mail'[m] # mail[m] => mail[m].fl = hs[h].st.fl]_writeVars

(* Only what is in Trash is expunged: a message leaves the server by a     *)
(* request of this account only from there.                                *)
TrashFirst ==
  [][\A m \in Msgs : mail[m].f \notin {"trash", Nowhere} /\ mail'[m].f = Nowhere =>
       \A h \in Handlers : ~Step(h)]_writeVars

NobodyWrites == \A h \in Handlers : hs[h].pc = "idle"

(* When no request runs, a live row says what the server says of its       *)
(* message: the reflections of all steps have been applied.  A change by   *)
(* another client, a lost answer and a failed reflection wait for the next *)
(* pass.  (The modseq a move leaves may stay the old folder's, if the      *)
(* numbers happen to agree.)                                               *)
RowsFollowWrites ==
  NobodyWrites =>
    \A id \in Ids : Live(id) /\ rows[id].m \notin behind =>
      LET c == mail[rows[id].m] IN
      /\ rows[id].f = c.f /\ rows[id].uid = c.uid /\ rows[id].fl = c.fl
      /\ rows[id].mod \in {0, c.mod} \/ rows[id].modOf # rows[id].f

(* write.go:35-40: whatever passes run into a move, the message stays      *)
(* shown: when no request runs, a message the server has is the message of *)
(* a live row, unless another client's change or a failure still waits for *)
(* a pass.  One order of steps is excepted, against "MarkDeleted's WHERE   *)
(* clause ... matches nothing ... Convergent from both directions": the    *)
(* pass over the source that comes between MOVE and MoveMessages           *)
(* tombstones the row, and MoveMessages re-points it without reviving it.  *)
MovedIsShown ==
  NobodyWrites =>
    \A m \in Msgs \ (behind \cup struck) :
      mail[m].f # Nowhere => \E id \in Ids : Live(id) /\ rows[id].m = m

(* No two live rows show the same message, except while a request works on *)
(* one of them or a change of the message waits for a pass.                *)
ShownOnce ==
  \A i, j \in {id \in Ids : Live(id)} : rows[i].m = rows[j].m /\ i # j =>
    \/ rows[i].m \in behind
    \/ \E h \in Handlers : hs[h].pc # "idle" /\ hs[h].id \in {i, j}

(* A folder gets more keywords than the ceiling only where the check       *)
(* cannot see: by a move, by another client, by overlapping requests or by *)
(* a write whose read-back was lost.                                       *)
CeilingKept ==
  \A f \in Folders : Cardinality(UsedIn(f)) > KeywordCeiling => f \in over

\* What Email/set leaves behind it, with two handlers, sync passes and another
\* client on the same messages: the rows say what the server says, no message
\* is shown twice or not at all outside the named window, and no folder gets a
\* keyword past the ceiling unseen (reflectFlags and ApplyMove in write.go,
\* checkKeywordCeilingNames in email_set.go).
WritesSafe ==
  WritesTypeOK /\ RowsFollowWrites /\ MovedIsShown /\ ShownOnce /\ CeilingKept
=============================================================================
