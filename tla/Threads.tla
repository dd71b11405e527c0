------------------------------ MODULE Threads ------------------------------
(***************************************************************************)
(* Conversations: how internal/store groups messages into threads.         *)
(* threading.go reduces a subject to its key, threads.go assigns a thread  *)
(* to each batch the synchronisation pipeline has inserted and merges      *)
(* threads that turn out to be one conversation, threadrows.go and         *)
(* threadkey.go keep the durable row that names a conversation, and the    *)
(* mutes table of snooze.go hangs on that row.                             *)
(*                                                                         *)
(* The tables are one record db.  InsertMessages commits before the        *)
(* transaction of AssignThreads begins; that transaction reads the threads *)
(* of the first message's relatives and later applies what it read, so two *)
(* workers interleave between the two.  A statement that breaks one of the *)
(* two unique indexes of the threads table rolls the transaction back.     *)
(***************************************************************************)
EXTENDS Integers, Sequences, SequencesExt, FiniteSets, FiniteSetsExt

CONSTANTS
    Contents,               \* the messages that may arrive: mid, refs, subject, date
    Workers,                \* pipelines that insert batches of one account
    MaxMail,                \* bound: messages ever inserted
    MaxBatch,               \* bound: messages of one batch
    MaxIncidents,              \* bound: lost transactions, crashes, purges, reindexings,
                            \* backfills, mutes and silent months
    threadMergeMaxMembers,  \* threadMergeMaxMembers
    MaxSubject              \* bound: tokens of a subject in topic "subject"

ASSUME ThreadsAssumption ==
    /\ MaxMail \in Nat \ {0} /\ MaxBatch \in Nat \ {0} /\ threadMergeMaxMembers \in Nat \ {0}
    /\ \A c \in Contents : DOMAIN c = {"mid", "refs", "subject", "date"}

VARIABLES
    topic,      \* "threads", or "subject" for the subject keys alone
    inbound,       \* the headers of every message ever inserted, by id
    db,         \* msgs: thread and state stamp by id; hints; rows; mutes
    work,       \* what each worker is doing
    stale,      \* messages of threads changed by what was no longer so: a transaction
                \* had read the relatives' threads before another one changed them;
                \* all, once a reindexing has threaded a worker's batch before it
    apart,      \* messages left out of their conversation: lost or refused work
    purged,     \* some message row was deleted
    incidents,
    subj        \* topic "subject": a subject and its key

threadVars == <<topic, inbound, db, work, stale, apart, purged, incidents, subj>>

None == "none"

-----------------------------------------------------------------------------
(* Subject keys.  A subject is a sequence of tokens: reply markers with or *)
(* without a counter, list tags, unclosed or empty brackets, a word with a *)
(* colon that is no marker, and the words w (long enough for a key on its  *)
(* own) and s (too short).                                                 *)

Tokens == {"Re:", "Fwd[2]:", "Re(x):", "[tag]", "[]", "note:", "w", "s"}

(* replyPrefixes after stripCounter: a counter of digits goes with its     *)
(* marker, anything else between brackets makes the token a plain word.    *)
stripCounter(t) == IF t = "Fwd[2]:" THEN "Fwd:" ELSE t
replyPrefixes == {"Re:", "Fwd:"}

(* stripOnePrefix: a closed, non-empty list tag or a reply marker.         *)
stripOnePrefix(s) ==
    IF s = <<>> THEN [rest |-> s, marker |-> FALSE, ok |-> FALSE]
    ELSE IF Head(s) = "[tag]" THEN [rest |-> Tail(s), marker |-> FALSE, ok |-> TRUE]
    ELSE IF stripCounter(Head(s)) \in replyPrefixes
         THEN [rest |-> Tail(s), marker |-> TRUE, ok |-> TRUE]
    ELSE [rest |-> s, marker |-> FALSE, ok |-> FALSE]

(* minSubjectKeyLength and collapseSubject: the key of a stripped subject, *)
(* empty when it is too short to mean anything.                            *)
collapseSubject(s) == IF s \in {<<>>, <<"s">>} THEN <<>> ELSE s

(* One pass of the loop is not enough for "Re: Fwd: x".                    *)
NormalizeSubjectOnce(s) ==
    LET p == stripOnePrefix(s) IN [key |-> collapseSubject(p.rest), isReply |-> p.marker]

(* NormalizeSubject: prefixes are stripped until none is left; the subject *)
(* is a reply when one of them was a marker.                               *)
NormalizeSubject(s) ==
    LET left == [k \in 0..Len(s) |-> SubSeq(s, k + 1, Len(s))]
        strips == Max({k \in 0..Len(s) : \A j \in 0..(k - 1) : stripOnePrefix(left[j]).ok})
    IN  [key |-> collapseSubject(left[strips]),
         isReply |-> \E j \in 0..(strips - 1) : stripOnePrefix(left[j]).marker]

SubjectOf == [c \in Contents |-> NormalizeSubject(c.subject)]

-----------------------------------------------------------------------------
(* Reads of the messages table.                                            *)

(* threadCandidate and referenceSet: the ancestors a message names, never  *)
(* itself.                                                                 *)
referenceSet(c) == Range(c.refs) \ {c.mid}

(* The ids of the ancestors, not the threads they are in.                  *)
ancestorIDs(d, mids) == {m \in DOMAIN d.msgs : inbound[m].mid \in mids}

(* The two indexed lookups of the graph.                                   *)
threadsOfMessageIDs(d, mids) == {d.msgs[m].thread : m \in {n \in DOMAIN d.msgs : inbound[n].mid \in mids}}
threadsReferencing(d, mid) == {d.msgs[m].thread : m \in {n \in DOMAIN d.msgs : mid \in Range(inbound[n].refs)}}
Members(d, t) == {m \in DOMAIN d.msgs : d.msgs[m].thread = t}

(* threadBySubjectKey: the hint of a key, unless it is a month old.        *)
threadBySubjectKey(d, key) ==
    IF key \in DOMAIN d.hints /\ d.hints[key].fresh THEN {d.hints[key].thread} ELSE {}

(* Children stored earlier are not looked for.                             *)
relatedForward(d, m) == threadsOfMessageIDs(d, referenceSet(inbound[m]))

(* The subject joins messages that are no replies.                         *)
relatedBySubject(d, m) ==
    LET c == inbound[m]
        graph == threadsOfMessageIDs(d, referenceSet(c))
                    \cup (IF c.mid = None THEN {} ELSE threadsReferencing(d, c.mid))
    IN  IF graph = {} THEN threadBySubjectKey(d, SubjectOf[c].key) ELSE graph

(* Steps 1 to 3 of assignOne: ancestors, children that arrived first, and  *)
(* only when the graph is silent the subject of a reply.                   *)
related(d, m) ==
    LET c == inbound[m]
        s == SubjectOf[c]
        orSubject(graph) ==
            IF graph = {} /\ s.isReply /\ s.key # <<>> THEN threadBySubjectKey(d, s.key) ELSE graph
    IN  orSubject(threadsOfMessageIDs(d, referenceSet(c))
                    \cup (IF c.mid = None THEN {} ELSE threadsReferencing(d, c.mid)))

(* ThreadMembers: the members, oldest first.                               *)
older(m, n) == inbound[m].date < inbound[n].date \/ (inbound[m].date = inbound[n].date /\ m < n)
ThreadMembers(d, t) == SetToSortSeq(Members(d, t), older)

-----------------------------------------------------------------------------
(* The durable rows.  Unique states the two indexes of migration 0009; a   *)
(* statement result is ok when they still hold after it.                   *)

(* threads_account_root and threads_account_thread_live.                   *)
Unique(rows) ==
    \A i, j \in DOMAIN rows : i # j =>
        /\ rows[i].key # rows[j].key
        /\ (~rows[i].dead /\ ~rows[j].dead) => rows[i].thread # rows[j].thread

(* ThreadKey: the oldest member's Message-ID, else the first ancestor it   *)
(* names, else its subject key.                                            *)
ThreadKey(c) ==
    IF c.mid # None THEN <<"mid", c.mid>>
    ELSE IF c.refs # <<>> THEN <<"ref", c.refs[1]>>
    ELSE <<"sub", SubjectOf[c].key>>

(* The key of the message that arrived first.                              *)
threadRootKeyById(d, t) == ThreadKey(inbound[Min(Members(d, t))])

(* threadRootKey: the key of the oldest member by date, then id.           *)
threadRootKey(d, t) == ThreadKey(inbound[ThreadMembers(d, t)[1]])

LiveRow(d, t) == {i \in DOMAIN d.rows : d.rows[i].thread = t /\ ~d.rows[i].dead}
RowOfKey(d, key) == {i \in DOMAIN d.rows : d.rows[i].key = key}

Stmt(d, rows, id) == [d |-> [d EXCEPT !.rows = rows], ok |-> Unique(rows), row |-> id]

(* EnsureThread: insert, or point the row of the key at this thread.       *)
EnsureThreadRow(d, key, t) ==
    IF RowOfKey(d, key) = {}
    THEN Stmt(d, Append(d.rows, [key |-> key, thread |-> t, into |-> 0, dead |-> FALSE]), Len(d.rows) + 1)
    ELSE LET i == Max(RowOfKey(d, key)) IN Stmt(d, [d.rows EXCEPT ![i].thread = t], i)

(* TombstoneThread.                                                        *)
TombstoneRow(rows, loser, winner) ==
    [rows EXCEPT ![loser] = [@ EXCEPT !.into = winner, !.dead = TRUE]]

(* The row mine owns the thread, the rows other the key; the lower id      *)
(* stays and the other one leads to it.                                    *)
uniteRows(d, key, t, mine, other) ==
    LET keep  == Min({mine} \cup other)
        united(kept) == IF ~Unique(kept) THEN Stmt(d, kept, keep)
                        ELSE Stmt(d, TombstoneRow(kept, Max({mine} \cup other), keep), keep)
    IN  united([d.rows EXCEPT ![keep] = [@ EXCEPT !.thread = t, !.key = key]])

(* ensureThreadForWinner: keep the row that owns the thread, re-key it     *)
(* when the conversation has an older root, or unite it with the row that  *)
(* already has the new key; the update of the survivor comes first.        *)
ensureThreadForWinner(d, key, t) ==
    IF LiveRow(d, t) = {} THEN EnsureThreadRow(d, key, t)
    ELSE LET mine == Max(LiveRow(d, t))
         IN  IF d.rows[mine].key = key THEN Stmt(d, d.rows, mine)
             ELSE IF RowOfKey(d, key) = {} THEN Stmt(d, [d.rows EXCEPT ![mine].key = key], mine)
             ELSE uniteRows(d, key, t, mine, RowOfKey(d, key))

(* The survivor is tombstoned onto the absorbed row, which is left live    *)
(* for a thread that has no members.                                       *)
ensureThreadRowBackwards(d, t, merged) ==
    LET backwards(r, losers) ==
            IF r.ok /\ losers # {}
            THEN Stmt(r.d, TombstoneRow(r.d.rows, r.row, Max(losers)), r.row) ELSE r
        absorbed(r) == backwards(r, UNION {LiveRow(r.d, l) : l \in merged} \ {r.row})
    IN  IF Members(d, t) = {} THEN [d |-> d, ok |-> FALSE, row |-> 0]
        ELSE absorbed(ensureThreadForWinner(d, threadRootKey(d, t), t))

(* ensureThreadRow: the row of the winner, and a tombstone for the row of  *)
(* every thread it absorbed.  A winner without members has no key.         *)
ensureThreadRow(d, t, merged) ==
    LET rows(r, losers) ==
            [i \in DOMAIN r.d.rows |->
                IF i \in losers THEN [r.d.rows[i] EXCEPT !.into = r.row, !.dead = TRUE]
                ELSE r.d.rows[i]]
        absorbed(r) ==
            IF r.ok THEN Stmt(r.d, rows(r, UNION {LiveRow(r.d, l) : l \in merged} \ {r.row}), r.row)
            ELSE r
    IN  IF Members(d, t) = {} THEN [d |-> d, ok |-> FALSE, row |-> 0]
        ELSE absorbed(ensureThreadForWinner(d, threadRootKey(d, t), t))

-----------------------------------------------------------------------------
(* Assignment.                                                             *)

(* The members move and their clients are not told.                        *)
mergeThreadQuiet(d, loser, winner) ==
    IF Cardinality(Members(d, loser)) \in 1..threadMergeMaxMembers
    THEN [d EXCEPT
        !.msgs = [m \in DOMAIN d.msgs |->
            [d.msgs[m] EXCEPT !.thread = IF @ = loser THEN winner ELSE @]],
        !.hints = [k \in DOMAIN d.hints |->
            [d.hints[k] EXCEPT !.thread = IF @ = loser THEN winner ELSE @]]]
    ELSE d

(* mergeThread: a thread within the bound moves whole onto the older one,  *)
(* the state of every member of the result is stamped, and the hints of    *)
(* the absorbed thread follow.                                             *)
mergeThread(d, loser, winner) ==
    IF Cardinality(Members(d, loser)) \in 1..threadMergeMaxMembers
    THEN LET joined == Members(d, loser) \cup Members(d, winner) IN
         [d EXCEPT
            !.msgs = [m \in DOMAIN d.msgs |->
                IF m \in joined THEN [thread |-> winner, stamp |-> d.msgs[m].stamp + 1]
                ELSE d.msgs[m]],
            !.hints = [k \in DOMAIN d.hints |->
                [d.hints[k] EXCEPT !.thread = IF @ = loser THEN winner ELSE @]]]
    ELSE d

(* A subject without a key is recorded too.                                *)
recordSubjectKeyEmpty(d, key, t) ==
    [d EXCEPT !.hints = [k \in DOMAIN @ \cup {key} |->
            IF k # key THEN @[k]
            ELSE [thread |-> IF key \in DOMAIN @ THEN Min({@[key].thread, t}) ELSE t, fresh |-> TRUE]]]

(* recordSubjectKey: the hint of a key only ever moves to an older thread. *)
recordSubjectKey(d, key, t) ==
    IF key = <<>> THEN d
    ELSE [d EXCEPT !.hints = [k \in DOMAIN @ \cup {key} |->
            IF k # key THEN @[k]
            ELSE [thread |-> IF key \in DOMAIN @ THEN Min({@[key].thread, t}) ELSE t, fresh |-> TRUE]]]

(* The youngest thread wins.                                               *)
winnerYoungest(m, threads) == IF threads = {} THEN m ELSE Max(threads)

(* Step 4: the oldest of the threads and of the message itself wins.       *)
winnerOf(m, threads) == Min(threads \cup {m})

(* The losers merge into the winner, then the hint and the durable row.    *)
mergeAll(d, m, winner, losers, refused) ==
    LET result(done) ==
            [d |-> done.d, ok |-> done.ok, refused |-> IF refused = {} THEN {} ELSE {m}]
        merged == FoldSet(LAMBDA l, acc : mergeThread(acc, l, winner), d, losers)
    IN  result(ensureThreadRow(recordSubjectKey(merged, SubjectOf[inbound[m]].key, winner),
                               winner, losers))

(* assignOne for the threads that were read: the message takes the winning *)
(* id, the others merge into it, then the hint and the durable row.        *)
assignOne(d, m, threads) ==
    LET into(winner, own) ==
            LET size(t) == Cardinality(Members(own, t)) IN
            mergeAll(own, m, winner,
                     {t \in threads \ {winner} : size(t) \in 1..threadMergeMaxMembers},
                     {t \in threads \ {winner} : size(t) > threadMergeMaxMembers})
        won(winner) == into(winner, [d EXCEPT !.msgs[m].thread = IF winner # m THEN winner ELSE @])
    IN  won(winnerOf(m, threads))

(* One transaction over a batch: the first failure rolls all of it back.   *)
assignAll(d, ids, first) ==
    LET after(acc, r) == [r EXCEPT !.refused = @ \cup acc.refused]
        step(acc, m) ==
            IF ~acc.ok THEN acc
            ELSE after(acc, assignOne(acc.d, m, IF m = ids[1] THEN first ELSE related(acc.d, m)))
    IN  FoldLeft(step, [d |-> d, ok |-> TRUE, refused |-> {}], ids)

-----------------------------------------------------------------------------
(* The pipeline.                                                           *)

Resting == [pc |-> "idle", ids |-> <<>>, threads |-> {}]
MsgIds == 1..Len(inbound)
Event == incidents < MaxIncidents /\ incidents' = incidents + 1

(* InsertMessages: every new message is its own thread.                    *)
InsertBatch(w) ==
    /\ work[w].pc = "idle"
    /\ \E n \in 1..MaxBatch : \E cs \in [1..n -> Contents] :
        LET new == [i \in 1..n |-> Len(inbound) + i] IN
        /\ Len(inbound) + n <= MaxMail
        /\ inbound' = inbound \o cs
        /\ db' = [db EXCEPT !.msgs = [m \in DOMAIN @ \cup Range(new) |->
                        IF m \in DOMAIN @ THEN @[m] ELSE [thread |-> m, stamp |-> 0]]]
        /\ work' = [work EXCEPT ![w] = [pc |-> "inserted", ids |-> new, threads |-> {}]]
    /\ UNCHANGED <<topic, stale, apart, purged, incidents, subj>>

(* AssignThreads opens its transaction and reads the first message's       *)
(* relatives.                                                              *)
BeginThreads(w) ==
    /\ work[w].pc = "inserted" /\ work[w].ids[1] \in DOMAIN db.msgs
    /\ work' = [work EXCEPT ![w] = [@ EXCEPT !.pc = "reading", !.threads = related(db, work[w].ids[1])]]
    /\ UNCHANGED <<topic, inbound, db, stale, apart, purged, incidents, subj>>

(* The members of the threads that a batch and what it moves come from.    *)
Touched(w, d) ==
    LET moved == {m \in DOMAIN db.msgs : d.msgs[m].thread # db.msgs[m].thread} IN
    UNION {Members(db, db.msgs[m].thread) : m \in moved \cup Range(work[w].ids)}

(* assignThreads: the transaction commits, or is rolled back and the batch *)
(* stays as single-message threads; the error goes no further.             *)
AssignThreads(w) ==
    /\ work[w].pc = "reading" /\ Range(work[w].ids) \subseteq DOMAIN db.msgs
    /\ \E r \in {assignAll(db, work[w].ids, work[w].threads)} :
           /\ db' = IF r.ok THEN r.d ELSE db
           /\ apart' = apart \cup (IF r.ok THEN r.refused ELSE Range(work[w].ids))
           /\ stale' = IF r.ok /\ related(db, work[w].ids[1]) # work[w].threads
                       THEN stale \cup Touched(w, r.d) ELSE stale
    /\ work' = [work EXCEPT ![w] = Resting]
    /\ UNCHANGED <<topic, inbound, purged, incidents, subj>>

(* The transaction is lost to the database, or the process dies between    *)
(* the insert and the threading; a message deleted meanwhile ends it too.  *)
LoseThreads(w) ==
    /\ work[w].pc # "idle"
    /\ \/ Event
       \/ ~(Range(work[w].ids) \subseteq DOMAIN db.msgs) /\ UNCHANGED incidents
    /\ apart' = apart \cup Range(work[w].ids)
    /\ work' = [work EXCEPT ![w] = Resting]
    /\ UNCHANGED <<topic, inbound, db, stale, purged, subj>>

-----------------------------------------------------------------------------
(* Upkeep.                                                                 *)

Present == SetToSortSeq(DOMAIN db.msgs, <)

(* ReindexThreads: one batch after a cursor, in one transaction.           *)
ReindexThreads ==
    /\ Event /\ db.msgs # <<>>
    /\ \E after \in 0..(Len(Present) - 1) :
        \E ids \in {SubSeq(Present, after + 1, Len(Present))} :
        \E r \in {assignAll(db, ids, related(db, ids[1]))} :
            /\ db' = IF r.ok THEN r.d ELSE db
            /\ apart' = IF r.ok THEN (apart \ Range(ids)) \cup r.refused ELSE apart
            /\ stale' = IF r.ok /\ \E w \in Workers : Range(ids) \cap Range(work[w].ids) # {}
                        THEN 1..MaxMail ELSE stale
    /\ UNCHANGED <<topic, inbound, work, purged, subj>>

(* BackfillThreadRows: a row for every thread that has members.            *)
BackfillThreadRows ==
    /\ Event
    /\ LET step(acc, t) == IF acc.ok THEN ensureThreadRow(acc.d, t, {}) ELSE acc
       IN  \E r \in {FoldLeft(step, [d |-> db, ok |-> TRUE, row |-> 0],
                              SetToSortSeq({db.msgs[m].thread : m \in DOMAIN db.msgs}, <))} :
               db' = IF r.ok THEN r.d ELSE db
    /\ UNCHANGED <<topic, inbound, work, stale, apart, purged, subj>>

(* InvalidateMailbox: the rows of a folder are deleted; here a folder with *)
(* one message.                                                            *)
Purge ==
    /\ Event
    /\ \E m \in DOMAIN db.msgs : db' = [db EXCEPT !.msgs = [n \in DOMAIN @ \ {m} |-> @[n]]]
    /\ purged' = TRUE
    /\ UNCHANGED <<topic, inbound, work, stale, apart, subj>>

(* threadSubjectWindow passes in silence.                                  *)
Month ==
    /\ Event /\ \E k \in DOMAIN db.hints : db.hints[k].fresh
    /\ db' = [db EXCEPT !.hints = [k \in DOMAIN @ |-> [@[k] EXCEPT !.fresh = FALSE]]]
    /\ UNCHANGED <<topic, inbound, work, stale, apart, purged, subj>>

(* IsThreadMuted: through the live row of the thread.                      *)
IsThreadMuted(d, t) == LiveRow(d, t) \cap d.mutes # {}

(* SetMute after EnsureThreadRowFor: the conversation of a message the     *)
(* user sees is muted on its durable row.                                  *)
SetMute ==
    /\ Event
    /\ \E r \in {ensureThreadRow(db, db.msgs[m].thread, {}) : m \in DOMAIN db.msgs} :
        r.ok /\ db' = [r.d EXCEPT !.mutes = @ \cup {r.row}]
    /\ UNCHANGED <<topic, inbound, work, stale, apart, purged, subj>>

(* Topic "subject": the key of one subject.                                *)
Normalize ==
    /\ topic = "subject" /\ subj = <<>>
    /\ \E n \in 1..MaxSubject : \E s \in [1..n -> Tokens] :
            subj' = <<s, NormalizeSubject(s)>>
    /\ UNCHANGED <<topic, inbound, db, work, stale, apart, purged, incidents>>

ThreadsInit ==
    /\ topic \in {"threads", "subject"}
    /\ inbound = <<>> /\ subj = <<>>
    /\ db = [msgs |-> <<>>, hints |-> <<>>, rows |-> <<>>, mutes |-> {}]
    /\ work = [w \in Workers |-> Resting]
    /\ stale = {} /\ apart = {} /\ purged = FALSE /\ incidents = 0

ThreadsNext ==
    \/ topic = "threads" /\ \E w \in Workers :
            InsertBatch(w) \/ BeginThreads(w) \/ AssignThreads(w) \/ LoseThreads(w)
    \/ topic = "threads" /\ (ReindexThreads \/ BackfillThreadRows \/ Purge \/ Month \/ SetMute)
    \/ Normalize

ThreadsSpec == ThreadsInit /\ [][ThreadsNext]_threadVars

-----------------------------------------------------------------------------
(* Properties.                                                             *)

(* Types of the tables and of the workers.                                 *)
ThreadsTypeOK ==
    /\ topic \in {"threads", "subject"}
    /\ inbound \in Seq(Contents) /\ Len(inbound) <= MaxMail
    /\ DOMAIN db.msgs \subseteq MsgIds /\ \A m \in DOMAIN db.msgs : db.msgs[m].thread \in MsgIds
    /\ \A k \in DOMAIN db.hints : k # <<>> /\ db.hints[k].thread \in MsgIds
    /\ Unique(db.rows) /\ db.mutes \subseteq DOMAIN db.rows
    /\ \A w \in Workers : work[w].pc \in {"idle", "inserted", "reading"}
    /\ stale \subseteq 1..MaxMail /\ purged \in BOOLEAN /\ apart \subseteq MsgIds

(* The conversations no race has touched.                                  *)
Unraced(m) == Members(db, db.msgs[m].thread) \cap stale = {}

(* Invariant I1 of threads.go: a thread is named by its oldest member, and *)
(* the message with that id is in the thread: no id is in use that was     *)
(* merged away, as long as no message was deleted and no merge refused.    *)
(* Excepted are the threads a transaction touched that had looked the      *)
(* relatives up before another one changed their threads.  mergeThread's   *)
(* comment calls that safe ("blocks until this one commits, then           *)
(* re-reads", threads.go:569-590), but assignOne's reading is not          *)
(* repeated.  Excepted too is what follows a ReindexThreads of messages a  *)
(* worker has inserted and not yet threaded, which "cannot fight with the  *)
(* insert path" (threads.go:986-987).                                      *)
NoDeadThread ==
    (~purged /\ apart = {}) =>
        \A m \in DOMAIN db.msgs : Unraced(m) =>
            LET t == db.msgs[m].thread IN t \in DOMAIN db.msgs /\ db.msgs[t].thread = t

(* The graph rule of assignOne: a stored message and the message it names  *)
(* are in one conversation once both were threaded, in whatever order they *)
(* arrived; only work that was lost, refused or deleted, and the race of   *)
(* NoDeadThread in one of the two conversations, leaves them apart.        *)
RelativesTogether ==
    ~purged =>
        \A m, n \in DOMAIN db.msgs :
            (inbound[n].mid # None /\ inbound[n].mid \in referenceSet(inbound[m])
                /\ \A w \in Workers : {m, n} \cap Range(work[w].ids) = {}
                /\ apart = {} /\ Unraced(m) /\ Unraced(n))
            => db.msgs[m].thread = db.msgs[n].thread

(* Nothing joins that is not related: two members of one thread are linked *)
(* by a chain of messages that name one another's Message-ID, or share a   *)
(* subject key of which one is a reply (NormalizeSubject's second result). *)
Links ==
    {p \in Contents \X Contents :
        LET c == p[1]  e == p[2]  s == SubjectOf[c]  t == SubjectOf[e] IN
        \/ c.mid # None /\ c.mid \in Range(e.refs)
        \/ e.mid # None /\ e.mid \in Range(c.refs)
        \/ s.key = t.key /\ s.key # <<>> /\ (s.isReply \/ t.isReply)}
UnrelatedApart ==
    LET grow(S) == S \cup {n \in MsgIds : \E m \in S : <<inbound[m], inbound[n]>> \in Links}
        reach(m) == FoldLeft(LAMBDA S, i : grow(S), {m}, inbound)
    IN  \A m, n \in DOMAIN db.msgs :
            (m < n /\ db.msgs[m].thread = db.msgs[n].thread) => n \in reach(m)

(* Following merged_into from a tombstone ends at a live row, so that      *)
(* Thread/changes can say where a conversation went.  A deletion that      *)
(* makes an absorbed message the oldest again may unite the live row with  *)
(* its own tombstone, and is excepted.                                     *)
TombstonesLeadHome ==
    LET next(i) == IF db.rows[i].dead THEN db.rows[i].into ELSE i
        end(i) == FoldLeft(LAMBDA x, k : next(x), i, db.rows)
    IN  ~purged => \A i \in DOMAIN db.rows : db.rows[i].dead => ~db.rows[end(i)].dead

(* The durable row of a conversation is keyed by its oldest member, the    *)
(* movement migration 0009 allows: after each assignment the key is        *)
(* re-derived, and only the race of NoDeadThread, deletions or a second    *)
(* copy of a message leave a live row with a key that is not its thread's. *)
Copies == \E m, n \in MsgIds : m # n /\ ThreadKey(inbound[m]) = ThreadKey(inbound[n])
RowsKeyedByRoot ==
    (~purged /\ ~Copies) =>
        \A i \in DOMAIN db.rows :
            (~db.rows[i].dead /\ Members(db, db.rows[i].thread) # {}
                /\ Members(db, db.rows[i].thread) \cap stale = {}) =>
                \E m \in Members(db, db.rows[i].thread) :
                    /\ db.rows[i].key = ThreadKey(inbound[m])
                    /\ \A n \in Members(db, db.rows[i].thread) : ~older(n, m)

(* What normalising adds or removes: a further reply marker changes no     *)
(* key, a key carries no prefix any more, and only markers make a reply.   *)
SubjectKeyStable ==
    subj # <<>> =>
        LET s == subj[1]  r == subj[2] IN
        /\ NormalizeSubject(<<"Re:">> \o s) = [key |-> r.key, isReply |-> TRUE]
        /\ r.key # <<>> => ~stripOnePrefix(r.key).ok
        /\ r.isReply => Range(s) \cap {"Re:", "Fwd[2]:"} # {}

(* Invariants I1 and I2 as a step: no assignment moves a message to a      *)
(* younger thread, so thread ids cannot oscillate, as long as no message   *)
(* was deleted, with the exceptions of NoDeadThread.                       *)
NeverYounger ==
    [][\A m \in DOMAIN db.msgs \cap DOMAIN db'.msgs :
            (~purged /\ m \notin stale') => db'.msgs[m].thread <= db.msgs[m].thread]_threadVars

(* The consistency requirement of mergeThread: a message that an absorbed  *)
(* thread brings along has its state stamped in the same transaction, so   *)
(* Email/changes reports its new threadId.                                 *)
MergesReported ==
    [][\A m \in DOMAIN db.msgs \cap DOMAIN db'.msgs :
            (db'.msgs[m].thread # db.msgs[m].thread
                /\ \A w \in Workers : m \notin Range(work[w].ids))
            => db'.msgs[m].stamp # db.msgs[m].stamp \/ incidents' # incidents]_threadVars

\* What two workers that thread mail at the same time leave in the tables:
\* every thread has its root, replies are with what they answer, strangers
\* stay apart, merged rows lead to a living one that is keyed by the oldest
\* message, and a subject key does not change under another Re: (AssignThreads
\* and mergeThreads in threads.go).
ThreadsSafe ==
    /\ ThreadsTypeOK /\ NoDeadThread /\ RelativesTogether /\ UnrelatedApart
    /\ TombstonesLeadHome /\ RowsKeyedByRoot /\ SubjectKeyStable
=============================================================================
