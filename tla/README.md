# Moov: TLA+ specifications and proofs

Moov is a webmail server. Its daemon, `moovd`, stands before an IMAP server
(Dovecot), which stays the source of truth for mail, and keeps a PostgreSQL
database and a directory of content-addressed files as its own copy. Browsers
speak JMAP to it; an operator creates and removes accounts over an HTTP API that
also drives Mailcow. This directory holds models of those parts, checked by TLC on
small instances, and proofs about the ones that keep promises across crashes.
All paths below are relative to `src/`; short names such as `outbox.go:334` mean
the file in the package named beside them.

To run a configuration: `tlc -config outbox_safety.cfg MCOutbox` (PROJECT.json names
the module of each). To check proofs: `tlapm M.tla` for `OutboxRows`,
`OutboxProofs`, `OutboxPromise`, `BlobStoreProofs`, `SupervisorSteps`, `SupervisorProofs`.

## 1. The system and its parts

- The **supervisor** (`internal/sync/supervisor.go`) gives every account a
  goroutine. It runs the **initial sync** (`initial.go`, `phases.go`) until the
  history is local; then the **watcher** (`watcher.go`) runs an **incremental pass**
  per event, debounced by `debounce.go`, and the **reconciler** compares, repairs
  and escalates.
- The **write executor** (`write.go`, `write_mailbox.go`) changes the server first and
  then reflects the result into rows that the engine also writes. `Email/set`,
  `Mailbox/set`, **snooze** and its **waker** go through it.
- All of them store message bytes through the **blob store** (`internal/blob`), and new
  messages are grouped by **threading** (`internal/store/threads.go`).
- `EmailSubmission/set` inserts intent rows; the **outbox executor**
  (`internal/submit`) transmits them over SMTP, files a copy in Sent and retires the
  scheduled draft.
- The **JMAP server** answers queries and `/changes`, pushes state over an event
  stream, keeps preferences, identities and Sieve settings, and parses and composes
  messages. The **HTTP server** signs people in and limits them.
- The **accounts API**, **provisioning**, **exports** and **branding** serve the
  operator. `cmd/moovd` starts and stops everything.

`PROJECT.json` lists 39 parts with their sources and status, and maps 1014
definitions to the lines they stand for (about a third of the implementation).

| Module | Code | What it is about |
|---|---|---|
| `Outbox`, `Submission` | `internal/submit`, intent rows of `internal/store`, `EmailSubmission/set` | Sending a message at most once and telling the truth about it; the abstract promise |
| `OutboxRows`, `OutboxProofs`, `OutboxPromise`, `BlobStoreProofs`, `SupervisorSteps`, `SupervisorProofs` | | The proofs of section 7 |
| `MailboxSync` | `internal/sync` engine on one mailbox | The local copy follows the server |
| `BlobStore` | `internal/blob` and its callers | Rows, references and files agree beside a collector |
| `Supervisor` | `supervisor.go`, the loop of `watcher.go` | Goroutines, slots, the circuit breaker |
| `Dispatch` | `watcher.go` dispatch, `debounce.go` | Deadlines of the event loop |
| `MailWrites` | `write.go`, `Email/set` | Flags, moves, destroys, appends |
| `Folders` | `write_mailbox.go`, `mailbox_set.go` | The folder tree on the server and in rows |
| `Threads` | `threads.go`, `threading.go`, `threadrows.go` | Conversations with two workers |
| `Snooze` | `snooze.go`, `waker.go`, `Snooze/set`, `Mute/set` | Messages put to sleep and woken |
| `Feed` | `changes.go`, `broker.go`, `eventsource.go` | State strings, /changes, push, a client |
| `EmailQuery`, `ListQueries` | `query.go`, `store/search.go`, the other `/query` methods, quota | Pages against reference definitions |
| `Mime`, `Compose`, `MailFormat` | `internal/parser`, `email_create.go`, `mime.go`, `bodypart.go` | Reading and writing messages |
| `Engine` | `internal/jmap` | The calls of one request |
| `Prefs` | `prefs.go`, `identities.go` | Patches and stored versions |
| `SieveScripts` | `internal/sieve`, `sieve_adapter.go` | The managed script beside foreign ones |
| `Access` | `jmaphttp` auth, cache, lockout, sessions, tokens | Signing in |
| `HttpServer` | `jmaphttp` server, routes, session, upload | Gates, doors, downloads |
| `Branding` | `internal/branding`, its API and command | One host's brand, two writers |
| `Gate` | `jmaphttp/admin_accounts*.go`, validators, key ring | Refusals and validators |
| `Accounts` | `internal/accounts`, `provision`, `mailcow`, exports | Operations over three parties |
| `Daemon` | `cmd/moovd/main.go` | Start-up and shutdown |

The modules named `MC...` compose several of them for one TLC run, give test data
and symmetry sets, and replace no definition. In a composition one component moves
in a behaviour (`part`) and the others rest: they share no variable, and the run then
has the sum of their states, not the product. Components that do share state are
one module (the executor, handlers and user of `Outbox`; engine and write executor of
`MailboxSync`; waker, handlers and sync of `Snooze`).

## 2. State and actions of the central modules

**`Outbox`.** One intent is one row of `intents`: `state`, `attempts`, `accepted_at`
and `appended_at` (the sets `accepted` and `appended`), and the comparison of
`not_before` with `created_at` (`late`, `scheduled`). The draft is in a mailbox;
`copies` and `deliveries` count what reached Sent and the SMTP server. `pc`, `cur`,
`batch` and `recovered` are the executor goroutine. History variables name what the
server did and the row does not show. `Boot` and `Recover` are `Run` and
`RecoverInFlightSendIntents`; `Claim` to `Repersist` are `execute` and `transmit`, one
action per statement, SMTP exchange or IMAP command; `Copy` to `Complete` are
`postSend`; `Requeue` and `Fail` are `FailIntent`; `Submit`, `ImplicitMove` and `Cancel`
are the handlers. `Crash` may happen at every step, and an UPDATE may commit and
report an error. `attempts` saturates at `MaxAttempts`, copies and deliveries at 2;
any queued row may be due.

**`Submission`** is what a user may assume of a submission: it is pending, may be
taken by the server, and gets one final outcome; it is taken a second time only when
the first was in doubt, and given up only if it was not taken or in doubt. `Fate` in
`Outbox` maps a row to that state.

**`MailboxSync`.** The server: UIDVALIDITY, UIDNEXT, HIGHESTMODSEQ, live UIDs, one flag
bit and the modseq of each UID. The store: the cursor, `backfill_state`, the
checkpoint, the rows as pairs of UIDVALIDITY and UID, the escalation bound. The engine:
`pc` and everything it reads in one step and uses in a later one. `Walk` holds the two
phases of `Run` and the backfill shared by `resyncMailbox` and `backfillFromTop`;
`Incremental` the steps of a pass; `Repair` compare, repair, verify and escalate;
`Write` a flag write. Other clients append, flag, expunge and recreate at any time;
events may be lost; a broken fetch may have committed any subset of a window.

**`BlobStore`.** `file` is the directory; `blobRow`, `count`, `zero` and `age` are the
table `blobs`; `refs` is `blob_refs`; `msgs` and `accounts` refer to or cascade into
them; `task` is what a writer holds between steps and `gc` what the collector holds.
No code path calls `GC` yet; it is modelled as its comment promises it. A `Tick` is
longer than the grace period and than a pin's retention, and no write spans one: that
is the assumption `DefaultGCGracePeriod` documents.

**`Supervisor`.** The adopting loop (`loop`, `nudged`, `supervised`), the semaphore
(`slots`), each account's goroutine with its local failure count and breaker (`acct`),
the row that survives a restart (`syncLog`), and the clock that reaches `breaker_until`
(`cooling`). A sync or a session is one step that ends well or badly.

The other modules are described at their heads in the same way: what a step is, what
interleaves, what is abstracted.

## 3. The runs

Every run names its properties in its configuration. Most are conjunctions; the
conjuncts are defined in the component's module, each under a comment that names the
code it is about.

| Run | Asks | Properties |
|---|---|---|
| `outbox_safety` | Two submissions whose drafts may be filed, a user who deletes, a fault | `IndInv` (one owner per row, phase matches row, everything the server took accounted for, honest outcomes, nothing stranded without a fault, a held draft), `KeepsPromise` (refinement of `Submission`), `NoSendAfterRecord` |
| `outbox_live` | Drafts not filed at submission, two faults, fair executor | `IndInv`, `AcceptedMeansDelivered`, `DraftHeldUntilSent`, `Settles` |
| `mirror` | First sync, passes, repairs, escalation of one mailbox with a message the store refuses; two writers and a collector on two blobs | `SyncSafe`, `BlobInv`, `CursorMonotone` |
| `sync_converges` | Recreation, lost events, writes, a fault, fair goroutines | `OneIncarnation`, `RebuildOnlyIfRecreated`, `Converges` |
| `mail` | Writes, folders, threading and debouncing, each with two actors | `WritesSafe`, `FoldersSafe`, `ThreadsSafe`, `DispatchSafe`, `MailSteps` |
| `requests` | What one request is answered, over bounded inputs | `QueriesSafe`, `FormatSafe`, `EngineSafe`, `GateSafe`, `AnsweredInTurn` |
| `server` | Sign-in, sessions, tokens, gates, brand | `AccessSafe`, `HttpSafe`, `BrandSafe`, `ServerSteps` |
| `delivery` | Snooze requests, the waker and another client with two failures or crashes; two transactions, a client and a stream over eight types of object | `SnoozeSafe`, `FeedSafe`, `SnoozesEnd`, `ClientCatchesUp` |
| `settings` | Two preference requests over three schema versions; two handlers and another client on Sieve scripts | `PrefsSafe`, `SieveSafe`, `SettingsSteps` |
| `service` | Two callers of the accounts API with faults; the supervisor through outages and a restart; the process from start to exit | `AccountsSafe`, `SupervisorSafe`, `DaemonSafe`, `ServiceSteps`, `ServiceEnds`, `WatchedInTheEnd` |
| `outbox_lost_send` | violated: section 6 | `AcceptedMeansDelivered` |
| `supervisor_dial_timeout` | violated: section 6 | `EveryAccountWatched` |

Many safety properties have exceptions: a window that the code has and its comments
admit, or one met while modelling. Each is a named history variable or condition in
the property (`lost`, `why`, `late`, `blind`, `skipped` ...), so the property says
exactly which steps can break the promise and that nothing else can. Where a comment of
the code denies an exception, the property's comment quotes it, and section 6 lists it.

Pure algorithms (query windows, back-references and pointers, subject keys, patch
application, the part tree, header folding, validators) are operators, asked one
question per behaviour and compared with a reference definition of what the answer
means, over every input in the bounds.

## 4. Bounds

Two of every actor that can race (intents, writers, handlers, workers, callers,
browsers, processes), with two requests or writes each, is the least in which a value
read by one is stale when used. Two attempts are the least with a retry and a last
attempt; two incarnations give one recreation; three UIDs with windows of one give a
recent phase, two backfill windows and an arrival. Two accounts and one slot make one
wait for the other; a threshold of two with three outages reaches an opened breaker, a
half-open attempt and its failure. A fault budget of one or two allows a failure during
the recovery from another. Limits of the code (depths, parts, caps, windows) are set to
1 to 4 so that inputs on both sides of each are enumerated. Every bound is a constant
(`Max...`) used in a guard. Symmetry is used in safety runs only, over sets of model
values that nothing orders.

Distinct states: `outbox_safety` 1,189,566; `outbox_live` 432,020; `mirror` 512,976;
`sync_converges` 686,072; `mail` 563,812; `requests` 1,417,360; `server` 955,277;
`delivery` 221,876; `settings` 439,792; `service` 202,849. Each takes one to four
minutes with two workers; together they fire every action and every disjunct.

## 5. Fairness and deadlock

- `Outbox`: weak fairness of `Boot` and of the executor as a whole.
  `deploy/docker-compose.yml` restarts the daemon, and the loop ticks for ever.
- `MailboxSync`: weak fairness of the engine as a whole (its goroutine is scheduled, the
  heartbeat fires), of a pending write, and of the cooling of the escalation bound.
- `Snooze` and `Feed`: weak fairness of everything a goroutine that has begun goes on
  with, and of the clock.
- `Supervisor`: weak fairness of the adopting loop and of the accounts' goroutines
  together. With finitely many failures this is enough.
- `Accounts`: weak fairness of the purge loop and the export runner, two tickers.
- `Daemon`: weak fairness of main, of what unwinds, and of each kind of request, which
  end by themselves.

Nothing is assumed of clients, of requests being made, of the server's answers, of
event delivery or of faults. Faults are finite, which is what "eventually" needs.

Deadlock is checked in `mirror`, where no mailbox is recreated and the engine always has a
next step. Elsewhere the system may rest: all rows settled, all requests answered, or, in
`sync_converges`, a watcher that waits for a second connection (section 6).

## 6. Where the code and its own words differ

Two behaviours are kept as runs that TLC must find violated:

- `outbox_lost_send`: with `onSuccessUpdateEmail` the draft itself is in Sent, so the
  probe of a retry takes it for the sent copy and the mail is never transmitted
  (`submit/outbox.go:334`; `submit/doc.go:3` "without ever duplicating or losing a
  message").
- `supervisor_dial_timeout`: a dial timeout answers
  `errors.Is(err, context.DeadlineExceeded)` and ends the account's goroutine for good
  (`sync/watcher.go:370`, `supervisor.go:419`; `watcher.go:319` "It runs until ctx ends").

The others are exceptions that the properties name and that the code's comments deny:

| Code | What it does | What is said |
|---|---|---|
| `submit/outbox.go:526` | A retry overwrites `not_before`, so an ordinary send looks scheduled and its message goes from Sent to Trash | `submit/outbox.go:496-498` "destroying "it" would destroy the sent message" |
| `submit/outbox.go:478` | Retirement repeated after a crash expunges what is already in Trash | `sync/snooze.go:363-367` "MOVED TO TRASH rather than expunged" |
| `submit/client.go:467` | The double-send window also holds the time from DATA to reading the 250 | `submit/doc.go:72-73` "exactly the persist call itself" |
| `submit/outbox.go:420` | A lost 250 re-queues the row, and a cancel takes it | `submit/doc.go:99-100` "A canceled submission transmits nothing" |
| `submit/outbox.go:351`, `432` | Any error of `prepare`, a failed read included, is permanent, or skips the Sent copy | `submit/outbox.go:349-350` "can never succeed"; 433-436 "The draft blob disappeared" |
| `sync/phases.go:257` | A walk resumes under the watermark of an earlier SELECT; what arrived in between is skipped | `sync/phases.go:252-253` "everything from UIDLow upwards is already stored" |
| `sync/phases.go:376` | An escalation's SELECT moves the cursor over changes nothing applied | `sync/incremental.go:36-37` "everything at or below it is believed to be applied" |
| `sync/phases.go:318` | The second write of `markComplete`, once lost, is never repeated | `sync/initial.go:295-297` "consults the checkpoints first and skips what is already done" |
| `sync/phases.go:340` | A walk given a row read before the first SELECT does not notice a recreation | `sync/phases.go:326-333` "Every local row for this mailbox is therefore void" |
| `sync/incremental.go:524` | `resyncMailbox` takes a second connection from the watcher's pool of one while holding the first, and waits for good | `sync/incremental.go:117-118` "the ordinary UIDVALIDITY branch below handles the actual resync" |
| `sync/reconciler.go:670` | No sweep resumes an interrupted escalation; a restart does | `sync/reconciler.go:646-648` "resumable by the next sweep" |
| `sync/reconciler.go:823` | After a restart a success does not clear the persisted bound | `sync/reconciler.go:816-819` "the first success clears it for real" |
| `sync/supervisor.go:394` | The initial sync asks no breaker before it dials, so a process restarted in a cooldown dials in it | `sync/supervisor.go:394-396` "rate-limited by RetryDelay and by the per-account breaker" |
| `sync/write.go:664` | A read-back taken before another client's change is written after it | `sync/write.go:30-33` "converge on the already-reflected state" |
| `sync/write.go:442` | A pass over the source between MOVE and `MoveMessages` tombstones the row, and it is re-pointed without being revived | `sync/write.go:40-45` "matches nothing ... Convergent from both directions" |
| `sync/pipeline.go:465` | The message and its reference are two transactions, and a retry does not add the second | `0002_core_schema.sql:153` "a message insert and its AddRef commit together" |
| `blob/blob.go:606` | The collector removes a file that a `Put` found in place | `blob/blob.go:531` "safe to run concurrently with writers" |
| `blob/blob.go:244` | A re-`Put` of old garbage keeps `zero_ref_since` | `blob/blob.go:537-538` "cannot be collected while its writer is still working" |
| `cmd/moovd/outbox.go:155` | A re-upload keeps the first pin's `created_at` | `cmd/moovd/outbox.go:155-158` "survives a full working day" |
| `store/threads.go:153` | `assignOne` looks relatives up before another transaction merges their threads, and does not look again | `store/threads.go:577-579` "blocks until this one commits, then re-reads" |
| `store/threads.go:986` | `ReindexThreads` of messages inserted and not yet threaded splits them from their relatives | `store/threads.go:986-987` "cannot fight with the insert path" |
| `jmap/mail/mailbox_set.go:846` | Mail that arrives or comes back between emptying and DELETE is deleted: `ApplyMailboxDestroy` checks name and children only | `jmap/mail/mailbox_set.go:845-846` "the executor's own emptiness check below is the authority" |
| `jmap/mail/query.go:660`, `1611` | A list longer than the rows read is sorted after the newest were taken | 660-664 "which is exact"; 1611-1618 "cheap and EXACT" |
| `store/collapse.go:244` | Conversations of a window beyond its limit are never listed, and a window with nothing new ends the walk | 244-245 "skips exactly what was already considered and nothing else"; 253-255 |
| `jmap/mail/submission.go:1042` | Beyond one listing the count of scheduled sends is of the newest rows, sent ones included; and two creates count before either has its row | 1042-1044 "the count is exact for every state the cap can actually refuse" |
| `parser/parse.go:502` | An HTML alternative beside an empty plain part is not indexed | `parser/parse.go:486-488` "the index holds one clean copy of the content" |
| `jmap/backref.go:213` | `arrayIndex` also takes a sign | `jmap/backref.go:213-214` "decimal digits without a leading zero" |
| `sync/snooze.go:105` | A failed expunge leaves a sleeping copy: a finished wake is never retried | `sync/snooze.go:105-107` "repaired by the user or by a retry" |
| `sync/waker.go:174` | A wake begun before another has expunged the source appends a second copy | `store/snooze.go:171-174` "changes nothing"; `sync/waker.go:184-187` "the duplicate-wake path is closed" |
| `jmap/mail/queries_changes.go:61` | A transaction that commits after a later-stamped one is behind a cursor a client has | `jmap/mail/changes.go:20-21` "moves forward on every change and never backwards" |
| `jmap/mail/changes.go:253` | A page cut between two rows of one time leaves the second out | 253-256 "exactly the rows this page did not"; `queries_changes.go:47-51` "That totality is what makes paging safe" |
| `jmap/mail/prefs.go:772` | A write between the two reads of `Prefs/get`, or stamped no later than the state read, is not told | 772-773 "all three are exact rather than approximate" |
| `sieve/manager.go:135` | An edit between the first and the second read is overwritten, and a second safety copy replaces the first | `sieve/manager.go:17-25` "stored under a distinct name", "backed up before the regeneration overwrites them" |
| `jmap/mail/sieve_adapter.go:475` | A push under way redirects to an address destroyed since it was read | `sieve_adapter.go:797-798` "a live redirect whose permission no longer exists"; `sieve/generate.go:46-48` "no future refactor can open a path" |
| `jmap/mail/sieve_adapter.go:226` | Two creates of one name both find it free, and the later replaces the earlier | 224-225 "existence is checked first" |
| `jmaphttp/session.go:497` | A restart that changes a capability or the Sieve probe changes the session and not its state string | `jmaphttp/session.go:492-493` "the string changes exactly when the object would" |
| `jmaphttp/delegated.go:713` | A session or token asked for before a suspension may be issued after the revocation, and works again after a resume | `jmaphttp/delegated.go:569` "ends every delegated session of an account" |
| `jmaphttp/delegated.go:757` | Of two renewals at once the later may move an end that has passed | `jmaphttp/delegated.go:754-755` "a shorter remaining life is left alone" |
| `store/exports.go:88` | Only pending rows are claimed, so an export running when the daemon stops stays running | `cmd/moovd/accounts.go:199-200` "still pending or running, and the next daemon claims it" |

## 7. What is proved

TLAPS proves the following for every value of the constants that the named assumptions
allow. The inductive invariants are themselves INVARIANTs of runs (`IndInv`, `BlobInv`,
`SupervisorSafe`), so TLC has checked them on a small instance. The invariants below
are conjuncts of those, follow from them, or are listed in a cfg of their own, and the
action properties are in a run too, with one exception: no run lists `TerminalStable`,
which rests on its proof.

**The outbox** (`OutboxRows`, `OutboxProofs`, `OutboxPromise`; assumption
`OutboxAssumption`: at least two attempts, a batch of at least one row, any set of
intents and any number of faults). "A message is sent twice only in the window" is not
inductive: it says nothing about a row between two statements of the executor. `IndInv`
adds what is true there; the main parts, each of which uses the earlier ones, are:

1. `Ownership`: the rows in the executor's hands are in flight (the one it is about to
   re-queue after a failed completion may be done), and it holds none while it is down,
   recovering or idle. The converse is false: a fault can strand an in-flight row.
2. `PhaseMatchesRow`: the executor's position tells whether its row is accepted, and
   only accepted rows are done.
3. `Accounted`: of every message the server took, the row is accepted, or the delivery
   is known to be unrecorded, or the executor is about to record it.
4. The outcomes: duplicates only of unrecorded deliveries, a canceled or failed row not
   accepted, copies in Sent only of accepted messages, a row stranded only by a fault.

From it: `SingleExecution`, `DoubleSendWindow`, `RefusalIsHonest`, the action properties
`NeverRetryAfter250` and `TerminalIsStable`, and two theorems under a hypothesis on how
the system is used: `NothingLostUnlessFiled` (drafts are not filed in Sent at
submission time, `MayFile = FALSE`: with them the property is false, section 6) and
`ScheduledDraftHeld` (the user deletes no drafts or sent messages, `MayTouch = FALSE`).
`ImplementsSubmission` is the refinement: `Fate` maps every initial state to an initial state of `Submission` and every step of
the executor, of the handlers, of a crash or of a lost answer to one of its steps or a
stutter.

**The blob store** (`BlobStoreProofs`; `BlobAssumption`: finitely many blobs and
accounts). `BlobInv` relates the recomputed count to the reference rows, the age of a row to the writers that still rely
on it, and the file to the row. From it: `CountNeverTooLow`, `ReferencesResolve`,
`GraceIsEnough` and `BytesOutliveRow`. `GraceIsEnough` rests on an assumption of the
model and not of the proof: `Tick` lets no day pass during a write or a collection. And
`BytesOutliveRow` excepts the one race of a Put with the removal of the same file.

**The supervisor** (`SupervisorSteps`, `SupervisorProofs`; `SupervisorAssumption`: the
accounts are finitely many, and the cap of the counter is not below the threshold).
`StartedOnce`, `HerdBounded` and `BreakerHonoured` (no watcher attempts a session in a
cooldown, and the initial sync dials in one only after a restart) need three more
conjuncts to be inductive: `Adopted` (exactly the marked accounts were started, once), `CooldownKept`
(while the clock runs the row says open, and so does a loop that has read it) and
`CountsAgree` (the count in memory is at most the stored one, that one at most the
failures since a healthy session, and an open breaker has the threshold on record).
What is said of cooldowns and counts holds unless a read or write of the record failed.
The invariant is put as `Good`, a predicate on one account's goroutine, row and
history: `SupervisorSteps` shows action by action that the account that moves reaches
good values and that its slot is accounted for, and `SupervisorProofs` adds the count of
the semaphore (by cardinality), the restart and the initial state. From it:
`SupervisorIsSafe`, and the action properties `BreakerNeedsThreshold` and
`HalfOpenOnce`.

Only model-checked:

- Liveness (`Settles`, `Converges`, `SnoozesEnd`, `ClientCatchesUp`, `ServiceEnds`,
  `WatchedInTheEnd`) and everything about ENABLED: outside the prover's reach.
- `EmailQuery`, `ListQueries`, `Mime`, `Compose`, `MailFormat`, `Engine` and `Gate`: they
  use recursive operators, and what a recursive definition computes for every input
  needs an induction over data that the installed provers cannot instantiate.
- `MailboxSync`, `MailWrites`, `Folders`, `Threads`, `Dispatch`, `Snooze`, `Feed`, `Prefs`,
  `SieveScripts`, `Access`, `HttpServer`, `Branding`, `Accounts` and `Daemon`: their
  safety properties are checked on the instances above, and no inductive invariant has
  been worked out for them.

## 8. What is not modelled

- **Delegated assertions** (JWT verification): a pure function over bytes with its own
  test vectors. **Image proxy and resampling**: no state outlives a request.
- **Bulk copy and migration**: a one-time import that runs alone. **Schema migrations**:
  ordered SQL files under an advisory lock, before anything starts.
- **Configuration, keys, version, metrics, index**: start-up reading and observation.
- **Web client**: a separate TypeScript program; `Feed` models the client a JMAP server
  may assume. **Deployment, patches, tools, spikes**: no running state of the daemon.
- Within modelled parts: the order of several mailboxes in an initial sync, the ticker's
  reconciler as a second goroutine, `RemoveRef` (which nothing calls), lock order over
  several blobs, byte decoding in the parser, the text of generated Sieve, the ciphers,
  and IMAP connection handling. Mailcow, Dovecot, the SMTP server and the two MIME
  libraries are external: they are modelled by how the code uses them.
