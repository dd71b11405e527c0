----------------------------- MODULE BlobStore -----------------------------
(***************************************************************************)
(* The content-addressed blob store of internal/blob, the writers that     *)
(* keep bytes alive in it, and its garbage collector.                      *)
(*                                                                         *)
(* A blob lives in two places: its bytes are a file named after their      *)
(* hash, its reference count is a row of `blobs`.  A writer (a sync        *)
(* pipeline, the write executor, an upload) stores the file, then the row, *)
(* then for a message the messages row, then the reference, each in a step *)
(* of its own; the collector deletes the row and then the file.  A step is *)
(* one file operation or one transaction: every transaction on a blob      *)
(* takes its row lock first, so transactions on one blob are serial.       *)
(*                                                                         *)
(* Nothing in the daemon calls GC yet; it is modelled as its own comment   *)
(* promises it, run periodically beside the writers.  RemoveRef has no     *)
(* caller at all and is no step of the system.                             *)
(*                                                                         *)
(* Time is kept as ages: a Tick is longer than the collector's grace       *)
(* period and than the retention of an upload, and no write and no         *)
(* collector pass is as long as a Tick (DefaultGCGracePeriod).             *)
(***************************************************************************)
EXTENDS Naturals, FiniteSets

CONSTANTS
    Blobs,      \* contents, named by their hash
    Accounts,
    Writers,    \* the goroutines that store messages and uploads
    MaxIds,     \* messages rows that are ever inserted
    MaxAge,     \* ages saturate here
    MayFail,    \* TRUE: a writer or the collector may die at any step
    MayDrop     \* TRUE: mailboxes are invalidated and accounts purged

ASSUME BlobAssumption ==
    /\ IsFiniteSet(Blobs) /\ IsFiniteSet(Accounts)
    /\ MaxIds \in Nat /\ MaxAge \in Nat \ {0}
    /\ MayFail \in BOOLEAN /\ MayDrop \in BOOLEAN

VARIABLES
    file,       \* the blobs whose file exists
    blobRow,    \* the blobs that have a row
    count,      \* blobs.refcount
    zero,       \* the rows with zero_ref_since set
    age,        \* how long ago zero_ref_since was stamped
    refs,       \* blob_refs, as pairs <<blob, owner>>
    pinAge,     \* the age of an upload pin's created_at, by blob and account
    msgs,       \* the messages rows
    accounts,   \* the accounts rows
    nextId,     \* the identity sequence of messages
    task,       \* what each writer is doing
    gc,         \* the collector: its step, its candidates, the row it deleted
    upAge,      \* history: the age of the last acknowledged upload
    raced       \* history: blobs recorded anew between their collection and
                \* the removal of a file that Put had found in place

blobRowVars == <<blobRow, count, zero, age>>
blobVars == <<file, blobRowVars, refs, pinAge, msgs, accounts, nextId, task, gc, upAge, raced>>

Ids == 1..MaxIds
Ages == 0..MaxAge

\* OwnerKind and owner_id: a pin is owned by the account, a message's
\* reference by the messages row.
Pin(a) == [kind |-> "pin", acct |-> a, id |-> 0]
MessageRef(a, n) == [kind |-> "message", acct |-> a, id |-> n]
Owners == [kind : {"pin", "message"}, acct : Accounts, id : 0..MaxIds]

Message == [acct : Accounts, blob : Blobs, id : Ids]

\* What a writer holds between two of its steps.  young: the row it found or
\* made in Put was still inside the grace period.
NoJob == [at |-> "idle"]
Job == [at : {"record", "insert", "ref"}, blob : Blobs, owner : Owners,
        young : BOOLEAN]

BlobTypeOK ==
    /\ file \subseteq Blobs /\ blobRow \subseteq Blobs /\ raced \subseteq Blobs
    /\ zero \subseteq {h \in blobRow : count[h] = 0}   \* NULL while referenced
    /\ count \in [Blobs -> Nat] /\ age \in [Blobs -> Ages]
    /\ refs \subseteq Blobs \X Owners
    /\ pinAge \in [Blobs \X Accounts -> Ages]
    /\ upAge \in [Blobs \X Accounts -> Ages]
    /\ msgs \subseteq Message
    /\ accounts \subseteq Accounts
    /\ nextId \in 1..(MaxIds + 1)
    /\ task \in [Writers -> Job \cup {NoJob}]
    /\ gc \in [at : {"idle", "collect", "remove"}, todo : SUBSET Blobs,
               gone : SUBSET Blobs]

Finish(w) == task' = [task EXCEPT ![w] = NoJob]
RefsOf(S, h) == {r \in S : r[1] = h}
Quiet == \A w \in Writers : task[w] = NoJob

BlobInit ==
    /\ file = {} /\ blobRow = {} /\ zero = {} /\ refs = {} /\ msgs = {} /\ raced = {}
    /\ count = [h \in Blobs |-> 0] /\ age = [h \in Blobs |-> 0]
    /\ pinAge = [p \in Blobs \X Accounts |-> 0]
    /\ upAge = [p \in Blobs \X Accounts |-> 0]
    /\ accounts = Accounts /\ nextId = 1
    /\ task = [w \in Writers |-> NoJob]
    /\ gc = [at |-> "idle", todo |-> {}, gone |-> {}]

(***************************************************************************)
(* Writers                                                                 *)
(***************************************************************************)

\* Variants of the definitions below that a slip in the code would give.
\* The count taken before the reference is inserted.
syncRefcountBefore(h, S) ==
    /\ count' = [count EXCEPT ![h] = Cardinality(RefsOf(refs, h))]
    /\ zero' = IF RefsOf(S, h) = {} THEN zero \cup {h} ELSE zero \ {h}
    /\ age' = [age EXCEPT ![h] = 0]
    /\ UNCHANGED blobRow

\* zero_ref_since left standing when the count rises.
syncRefcountStamped(h, S) ==
    /\ count' = [count EXCEPT ![h] = Cardinality(RefsOf(S, h))]
    /\ UNCHANGED <<blobRow, zero, age>>

\* syncRefcount: the count is recomputed from the reference rows as they are
\* now, and zero_ref_since is stamped only on the transition to zero.
syncRefcount(h, S) ==
    /\ count' = [count EXCEPT ![h] = Cardinality(RefsOf(S, h))]
    /\ zero' = IF RefsOf(S, h) = {} THEN zero \cup {h} ELSE zero \ {h}
    /\ age' = IF RefsOf(S, h) = {} /\ h \in zero THEN age
              ELSE [age EXCEPT ![h] = 0]
    /\ UNCHANGED blobRow

\* Put, its file: a file that exists is kept, otherwise the temporary one is
\* renamed into place.  Either way the bytes are there when the step is taken.
Put(w) ==
    \E h \in Blobs, a \in accounts, k \in {"pin", "message"} :
        /\ task[w] = NoJob
        /\ k = "message" => nextId \in Ids
        /\ file' = file \cup {h}
        /\ task' = [task EXCEPT ![w] =
               [at |-> "record", blob |-> h, young |-> TRUE,
                owner |-> IF k = "pin" THEN Pin(a) ELSE MessageRef(a, 0)]]
        /\ UNCHANGED <<blobRowVars, refs, pinAge, msgs, accounts, nextId, gc, upAge, raced>>

\* recordBlob: ON CONFLICT DO NOTHING, so old garbage keeps its stamp.
recordBlob(w) ==
    LET h == task[w].blob
        next == IF task[w].owner.kind = "pin" THEN "ref" ELSE "insert"
    IN  /\ task[w].at = "record"
        /\ \/ /\ h \in blobRow
              /\ task' = [task EXCEPT ![w].at = next,
                                   ![w].young = h \notin zero \/ age[h] = 0]
              /\ UNCHANGED <<blobRowVars, raced>>
           \/ /\ h \notin blobRow
              /\ blobRow' = blobRow \cup {h} /\ zero' = zero \cup {h}
              /\ count' = [count EXCEPT ![h] = 0]
              /\ age' = [age EXCEPT ![h] = 0]
              /\ task' = [task EXCEPT ![w].at = next]
              /\ raced' = IF h \in gc.gone \/ h \notin file
                          THEN raced \cup {h} ELSE raced
        /\ UNCHANGED <<file, refs, pinAge, msgs, accounts, nextId, gc, upAge>>

\* InsertMessages in a transaction of its own.  The row's foreign keys are the
\* blob and the account; a message refused for them is a data error, and
\* insertDegraded, refused again, skips it.  A message that is already stored
\* is skipped by ON CONFLICT and takes no reference, and so is one past MaxIds.
InsertMessage(w) ==
    LET h == task[w].blob
        a == task[w].owner.acct
        stored == \E m \in msgs : m.acct = a /\ m.blob = h
    IN  /\ task[w].at = "insert"
        /\ \/ /\ h \in blobRow /\ a \in accounts /\ ~stored /\ nextId \in Ids
              /\ msgs' = msgs \cup {[acct |-> a, blob |-> h, id |-> nextId]}
              /\ nextId' = nextId + 1
              /\ task' = [task EXCEPT ![w].at = "ref", ![w].owner = MessageRef(a, nextId)]
           \/ /\ h \notin blobRow \/ a \notin accounts \/ stored \/ nextId \notin Ids
              /\ Finish(w)
              /\ UNCHANGED <<msgs, nextId>>
        /\ UNCHANGED <<file, blobRowVars, refs, pinAge, accounts, gc, upAge, raced>>

\* AddRef and AddRefs: fail if the row is gone, otherwise insert the
\* reference unless the owner has it (which leaves its created_at alone) and
\* recompute the count.
AddRef(w) ==
    LET h == task[w].blob
        o == task[w].owner
        S == refs \cup {<<h, o>>}
    IN  /\ task[w].at = "ref"
        /\ Finish(w)
        /\ \/ /\ h \in blobRow /\ o.acct \in accounts
              /\ refs' = S
              /\ syncRefcount(h, S)
              /\ pinAge' = IF o.kind = "pin" /\ <<h, o>> \notin refs
                           THEN [pinAge EXCEPT ![<<h, o.acct>>] = 0] ELSE pinAge
              /\ upAge' = IF o.kind = "pin"
                          THEN [upAge EXCEPT ![<<h, o.acct>>] = 0] ELSE upAge
           \/ /\ h \notin blobRow \/ o.acct \notin accounts
              /\ UNCHANGED <<blobRowVars, refs, pinAge, upAge>>
        /\ UNCHANGED <<file, msgs, accounts, nextId, gc, raced>>

\* The session ends, the context is cancelled or the process dies: whatever
\* the writer had not done yet is not done.
WriterFails(w) ==
    /\ MayFail /\ task[w] # NoJob
    /\ Finish(w)
    /\ UNCHANGED <<file, blobRowVars, refs, pinAge, msgs, accounts, nextId, gc, upAge, raced>>

(***************************************************************************)
(* Those that let go of blobs                                              *)
(***************************************************************************)

\* InvalidateMailbox deletes the account's messages rows and touches neither
\* blobs nor blob_refs.
DropMailbox(a) ==
    /\ MayDrop
    /\ \E m \in msgs : m.acct = a
    /\ msgs' = {m \in msgs : m.acct # a}
    /\ UNCHANGED <<file, blobRowVars, refs, pinAge, accounts, nextId, task, gc, upAge, raced>>

\* DeleteAccount: messages and blob_refs go by cascade, blobs is not updated.
DeleteAccount(a) ==
    /\ MayDrop /\ a \in accounts
    /\ accounts' = accounts \ {a}
    /\ msgs' = {m \in msgs : m.acct # a}
    /\ refs' = {r \in refs : r[2].acct # a}
    /\ UNCHANGED <<file, blobRowVars, pinAge, nextId, task, gc, upAge, raced>>

ExpiredPins(h) ==
    {r \in RefsOf(refs, h) : r[2].kind = "pin" /\ pinAge[h, r[2].acct] > 0}

\* expirePinsOf, the transaction ExpirePins runs for one blob.
expirePinsOf(h) ==
    /\ h \in blobRow /\ ExpiredPins(h) # {}
    /\ refs' = refs \ ExpiredPins(h)
    /\ syncRefcount(h, refs \ ExpiredPins(h))
    /\ UNCHANGED <<file, pinAge, msgs, accounts, nextId, task, gc, upAge, raced>>

(***************************************************************************)
(* The collector                                                           *)
(***************************************************************************)

\* The cutoff left out.
CollectableAnyAge(h) == h \in blobRow /\ count[h] = 0 /\ h \in zero

Collectable(h) == h \in blobRow /\ count[h] = 0 /\ h \in zero /\ age[h] > 0

\* GC: the scan for candidates.
GC ==
    /\ gc.at = "idle"
    /\ \E h \in Blobs : Collectable(h)
    /\ gc' = [at |-> "collect", todo |-> {h \in Blobs : Collectable(h)},
              gone |-> {}]
    /\ UNCHANGED <<file, blobRowVars, refs, pinAge, msgs, accounts, nextId, task, upAge, raced>>

\* The next candidate, ORDER BY zero_ref_since.
Oldest(S) == {h \in S : \A g \in S : age[g] <= age[h]}

\* raw_sha256 without its foreign key.
RestrictedByRefs(h) == RefsOf(refs, h) # {}

\* A row that a message or a reference still names cannot be deleted.
Restricted(h) == (\E m \in msgs : m.blob = h) \/ RefsOf(refs, h) # {}

NextCandidate(S) ==
    IF S = {} THEN [at |-> "idle", todo |-> {}, gone |-> {}]
    ELSE [at |-> "collect", todo |-> S, gone |-> {}]

\* A refused DELETE taken for a deleted row.
collectOneUnread ==
    /\ gc.at = "collect"
    /\ \E h \in Oldest(gc.todo) :
        /\ gc' = [at |-> "remove", todo |-> gc.todo \ {h}, gone |-> {h}]
        /\ blobRow' = IF Restricted(h) THEN blobRow ELSE blobRow \ {h}
        /\ zero' = IF Restricted(h) THEN zero ELSE zero \ {h}
    /\ UNCHANGED <<count, age, file, refs, pinAge, msgs, accounts, nextId, task, upAge, raced>>

\* collectOne under the row's lock: a candidate claimed meanwhile is skipped,
\* a DELETE the foreign keys refuse is an error and ends the pass.
collectOne ==
    /\ gc.at = "collect"
    /\ \E h \in Oldest(gc.todo) :
        \/ /\ ~Collectable(h)
           /\ gc' = NextCandidate(gc.todo \ {h})
           /\ UNCHANGED blobRowVars
        \/ /\ Collectable(h) /\ Restricted(h)
           /\ gc' = NextCandidate({})
           /\ UNCHANGED blobRowVars
        \/ /\ Collectable(h) /\ ~Restricted(h)
           /\ blobRow' = blobRow \ {h} /\ zero' = zero \ {h}
           /\ age' = [age EXCEPT ![h] = 0] /\ UNCHANGED count
           /\ gc' = [at |-> "remove", todo |-> gc.todo \ {h}, gone |-> {h}]
    /\ UNCHANGED <<file, refs, pinAge, msgs, accounts, nextId, task, upAge, raced>>

\* os.Remove, after the row's transaction has committed.
RemoveFile ==
    /\ gc.at = "remove"
    /\ file' = file \ gc.gone
    /\ gc' = NextCandidate(gc.todo)
    /\ UNCHANGED <<blobRowVars, refs, pinAge, msgs, accounts, nextId, task, upAge, raced>>

GCFails ==
    /\ MayFail /\ gc.at # "idle"
    /\ gc' = NextCandidate({})
    /\ UNCHANGED <<file, blobRowVars, refs, pinAge, msgs, accounts, nextId, task, upAge, raced>>

\* A day passes.  The grace period exceeds the longest write and the longest
\* pass of the collector, so neither is under way.
Tick ==
    LET Older(n) == IF n < MaxAge THEN n + 1 ELSE MaxAge
        OlderPin(f) == [p \in Blobs \X Accounts |->
                          IF <<p[1], Pin(p[2])>> \in refs THEN Older(f[p]) ELSE 0]
    IN  /\ Quiet /\ gc.at = "idle"
        /\ age' = [h \in Blobs |-> IF h \in zero THEN Older(age[h]) ELSE 0]
        /\ pinAge' = OlderPin(pinAge) /\ upAge' = OlderPin(upAge)
        /\ UNCHANGED <<file, blobRow, count, zero, refs, msgs, accounts, nextId, task, gc, raced>>

BlobNext ==
    \/ \E w \in Writers :
          Put(w) \/ recordBlob(w) \/ InsertMessage(w) \/ AddRef(w) \/ WriterFails(w)
    \/ \E a \in Accounts : DropMailbox(a) \/ DeleteAccount(a)
    \/ \E h \in Blobs : expirePinsOf(h)
    \/ GC \/ collectOne \/ RemoveFile \/ GCFails
    \/ Tick

BlobSpec == BlobInit /\ [][BlobNext]_blobVars

-----------------------------------------------------------------------------
(* What the store promises                                                 *)

\* The recomputed refcount never falls below the number of reference rows,
\* through re-uploads, expired pins and accounts deleted by cascade: a count
\* of zero, on which GC decides, means that nothing refers to the blob.
CountCovers == \A h \in blobRow : Cardinality(RefsOf(refs, h)) <= count[h]

\* No reference and no messages row outlives the row of its blob, whatever
\* order a collector, an upload and a sync of the same content run in.
NothingDangles ==
    /\ \A r \in refs : r[1] \in blobRow
    /\ \A m \in msgs : m.blob \in blobRow

\* The grace period: a blob whose row was young when a writer's Put recorded
\* it keeps that row until the writer has added its reference, so neither the
\* message's foreign key nor AddRef fails on it.
GraceProtects ==
    \A w \in Writers :
        (task[w].at \in {"insert", "ref"} /\ task[w].young) => task[w].blob \in blobRow

\* GC deletes the row before the file, so that a crash leaves a file without
\* a row and not a row without bytes.  A row lacks its bytes only if the
\* collector removed the file under a Put of the same content.
BytesLostOnlyInWindow == blobRow \ file \subseteq raced

\* A young blob keeps a row that the collector's cutoff excludes until the
\* writer that recorded it is done.
YoungKept ==
    \A w \in Writers :
        (task[w].at \in {"insert", "ref"} /\ task[w].young)
            => /\ task[w].blob \in blobRow
               /\ task[w].blob \in zero => age[task[w].blob] = 0

\* Between collectOne and os.Remove, only a raced blob is recorded again.
Window == blobRow \ file \subseteq raced /\ gc.gone \cap blobRow \subseteq raced

\* Finitely many references, and counts that cover them.
Counted == IsFiniteSet(refs) /\ CountCovers

\* The store's inductive invariant, which gives all of the above: collectOne,
\* syncRefcount, recordBlob and a crash anywhere keep counts above references,
\* rows under references, young blobs out of the collector's reach, and every
\* row's bytes outside the one race.
BlobInv == BlobTypeOK /\ Counted /\ NothingDangles /\ YoungKept /\ Window
=============================================================================
