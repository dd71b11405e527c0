---------------------------- MODULE Supervisor ----------------------------
(***************************************************************************)
(* internal/sync/supervisor.go and the connection loop of watcher.go: one  *)
(* goroutine adopts accounts and hands out the slots of the initial sync,  *)
(* one goroutine per account syncs, then watches, counting its failures in *)
(* a local variable and in the sync_log row that survives the process.     *)
(*                                                                         *)
(* What a sync or a session does is MailboxSync's; here each is one step   *)
(* that ends well or badly.  Waits (retry delay, backoff, cooldown, the    *)
(* discovery ticker) end at some moment; their lengths are abstracted.     *)
(***************************************************************************)
EXTENDS Naturals, FiniteSets, FiniteSetsExt

CONSTANTS Accts,            \* the accounts of the installation
          Concurrency,      \* SupervisorOptions.Concurrency
          BreakerThreshold, \* WatcherOptions.BreakerThreshold
          MaxOutages,        \* failures of the server, the network or the database
          MaxRestarts,      \* deaths of the process
          MaxErrors         \* where consecutive_errors stops being counted

ASSUME SupervisorAssumption ==
    /\ IsFiniteSet(Accts)
    /\ Concurrency \in Nat \ {0} /\ BreakerThreshold \in Nat \ {0}
    /\ MaxOutages \in Nat /\ MaxRestarts \in Nat
    /\ MaxErrors \in Nat /\ MaxErrors >= BreakerThreshold

VARIABLES eligible,    \* accounts whose row is active with an active credential
          loop,        \* the supervisor's own goroutine: pc, what it still has to start
          nudged,      \* the one-slot notify channel
          supervised,  \* accounts that were given a goroutine
          slots,       \* what the semaphore channel holds
          acct,        \* each account's goroutine and its locals
          syncLog,     \* sync_log, account scope: consecutive_errors and the breaker
          cooling,     \* accounts whose last breaker_until is in the future
          outages, restarts,
          past         \* history: see NoPast

supVars == <<eligible, loop, nudged, supervised, slots, acct, syncLog, cooling,
             outages, restarts, past>>

NoGoroutine == [pc |-> "none", slot |-> FALSE, failures |-> 0, open |-> FALSE]
ClosedLog == [errors |-> 0, breaker |-> "closed"]

\* starts: goroutines this process started; streak: failures since a session
\* last was healthy; half: this attempt is the one after a cooldown; lost: a
\* read or write of the breaker's record failed; timedOut: a dial timeout
\* ended the goroutine.
NoPast == [starts |-> 0, streak |-> 0, half |-> FALSE, lost |-> FALSE,
           timedOut |-> FALSE]

Steps == {"none", "sync", "retry", "watch", "loop", "cool", "try", "session",
          "backoff", "ended"}
BeforeWatcher == {"none", "sync", "retry", "watch"}

\* Every variable has its type, and the semaphore never holds more than its
\* capacity.
SupervisorTypeOK ==
    /\ eligible \subseteq Accts /\ supervised \subseteq Accts /\ cooling \subseteq Accts
    /\ loop \in [pc : {"list", "start", "select"}, todo : SUBSET Accts]
    /\ nudged \in BOOLEAN
    /\ acct \in [Accts -> [pc : Steps, slot : BOOLEAN, failures : 0..(MaxErrors + 1),
                           open : BOOLEAN]]
    /\ syncLog \in [Accts -> [errors : 0..MaxErrors,
                              breaker : {"closed", "open", "half_open"}]]
    /\ slots \in 0..Concurrency
    /\ outages \in 0..MaxOutages /\ restarts \in 0..MaxRestarts
    /\ past \in [Accts -> [starts : Nat, streak : 0..MaxErrors, half : BOOLEAN,
                           lost : BOOLEAN, timedOut : BOOLEAN]]

SupInit ==
    /\ eligible \in SUBSET Accts
    /\ loop = [pc |-> "list", todo |-> {}] /\ nudged = FALSE
    /\ supervised = {} /\ slots = 0
    /\ acct = [a \in Accts |-> NoGoroutine]
    /\ syncLog = [a \in Accts |-> ClosedLog] /\ cooling = {}
    /\ outages = 0 /\ restarts = 0
    /\ past = [a \in Accts |-> NoPast]

-------------------------------------------------------------------------
Fault == outages < MaxOutages /\ outages' = outages + 1
Fine == UNCHANGED outages

goroutineVars == <<acct, syncLog, cooling, past, slots>>
loopVars == <<eligible, loop, nudged, supervised, restarts>>

-------------------------------------------------------------------------
(* The supervisor's loop *)

eligibleAccounts == eligible

\* The first listing, or the sweep after a tick or a nudge.  A sweep that
\* fails is tried again at the next tick.
List ==
    /\ loop.pc = "list"
    /\ loop' = [pc |-> "start", todo |-> eligibleAccounts]
    /\ UNCHANGED <<eligible, nudged, supervised, restarts, goroutineVars, outages>>

Sweep ==
    /\ loop.pc = "select"
    /\ nudged' = FALSE
    /\ \/ Fine /\ loop' = [pc |-> "start", todo |-> eligibleAccounts]
       \/ Fault /\ UNCHANGED loop
    /\ UNCHANGED <<eligible, supervised, restarts, goroutineVars>>

LaunchAtOnce(a) ==
    /\ slots' = slots + 1
    /\ supervised' = supervised \cup {a}
    /\ acct' = [acct EXCEPT ![a] = [NoGoroutine EXCEPT !.pc = "sync", !.slot = TRUE]]
    /\ past' = [past EXCEPT ![a].starts = @ + 1]

Launch(a) ==
    /\ slots < Concurrency /\ slots' = slots + 1
    /\ supervised' = supervised \cup {a}
    /\ acct' = [acct EXCEPT ![a] = [NoGoroutine EXCEPT !.pc = "sync", !.slot = TRUE]]
    /\ past' = [past EXCEPT ![a].starts = @ + 1]

StartAgain(a) ==
    /\ loop.pc = "start" /\ a \in loop.todo
    /\ loop' = [loop EXCEPT !.todo = @ \ {a}]
    /\ Launch(a)
    /\ UNCHANGED <<eligible, nudged, restarts, syncLog, cooling, outages>>

\* start: nothing for an account that has a goroutine, else it waits for a slot.
start(a) ==
    /\ loop.pc = "start" /\ a \in loop.todo
    /\ loop' = [loop EXCEPT !.todo = @ \ {a}]
    /\ \/ a \in supervised /\ UNCHANGED <<slots, supervised, acct, past>>
       \/ a \notin supervised /\ Launch(a)
    /\ UNCHANGED <<eligible, nudged, restarts, syncLog, cooling, outages>>

AllStarted ==
    /\ loop.pc = "start" /\ loop.todo = {}
    /\ loop' = [loop EXCEPT !.pc = "select"]
    /\ UNCHANGED <<eligible, nudged, supervised, restarts, goroutineVars, outages>>

-------------------------------------------------------------------------
(* One account's goroutine *)

\* release runs releaseSlot once, however often it is called.
ReleaseEachTime(a) == slots > 0 /\ slots' = slots - 1

release(a) == slots' = IF acct[a].slot THEN slots - 1 ELSE slots

\* RecordSyncError answers the stored count; recordFailure ignores it.
RecordSyncError(a) ==
    [syncLog EXCEPT ![a].errors = Min({@ + 1, MaxErrors})]

RecordSyncSuccess(a) == [syncLog EXCEPT ![a] = ClosedLog]

OneMore(n) == Min({n + 1, MaxErrors})

WatchHoldsSlot(a) ==
    /\ acct[a].pc = "sync"
    /\ acct' = [acct EXCEPT ![a].pc = "watch"]
    /\ UNCHANGED <<loopVars, syncLog, cooling, past, slots, outages>>

\* syncOnce ends well: the last checkpoint it saved cleared the error history,
\* unless the account was complete and nothing was saved.
SyncDone(a) ==
    /\ acct[a].pc = "sync"
    /\ release(a)
    /\ acct' = [acct EXCEPT ![a].pc = "watch", ![a].slot = slots' = slots /\ @]
    /\ \/ UNCHANGED <<syncLog, cooling, past>>
       \/ /\ syncLog' = RecordSyncSuccess(a) /\ cooling' = cooling \ {a}
          /\ past' = [past EXCEPT ![a].streak = 0]
    /\ UNCHANGED <<loopVars, outages>>

\* It fails: the slot is given back before the retry delay.  The run recorded
\* its error, unless it never connected; a phase it had completed before was
\* saved as a checkpoint, which clears the row and closes its breaker.
SyncFails(a) ==
    /\ acct[a].pc = "sync" /\ Fault
    /\ release(a)
    /\ acct' = [acct EXCEPT ![a].pc = "retry", ![a].slot = slots' = slots /\ @]
    /\ \/ /\ syncLog' \in {syncLog, RecordSyncError(a)} /\ UNCHANGED cooling
          /\ past' = [past EXCEPT ![a].streak = OneMore(@)]
       \/ /\ \E n \in {0, 1} :
                syncLog' = [syncLog EXCEPT ![a] = [ClosedLog EXCEPT !.errors = n]]
          /\ cooling' = cooling \ {a}
          /\ past' = [past EXCEPT ![a].streak = 1]
    /\ UNCHANGED loopVars

\* A dial that times out answers errors.Is(err, context.DeadlineExceeded), as
\* every timeout of package net does, and the goroutine takes it for its own
\* context's end.
DialTimesOut(a) ==
    /\ acct[a].pc \in {"sync", "try"} /\ Fault
    /\ release(a)
    /\ acct' = [acct EXCEPT ![a].pc = "ended", ![a].slot = FALSE]
    /\ past' = [past EXCEPT ![a].timedOut = TRUE]
    /\ UNCHANGED <<loopVars, syncLog, cooling>>

RetryElapses(a) ==
    /\ acct[a].pc = "retry"
    /\ acct' = [acct EXCEPT ![a].pc = "sync"]
    /\ UNCHANGED <<loopVars, syncLog, cooling, past, slots, outages>>

Moves(a, l, p, log) ==
    /\ acct' = [acct EXCEPT ![a] = l]
    /\ past' = [past EXCEPT ![a] = p]
    /\ syncLog' = log
    /\ UNCHANGED <<loopVars, slots>>

ForgetBreaker(a) ==
    /\ acct[a].pc = "watch"
    /\ Moves(a, [acct[a] EXCEPT !.pc = "loop"], past[a], syncLog)
    /\ UNCHANGED cooling /\ Fine

\* Watch begins by reading the breaker; a read that fails assumes it closed.
loadBreaker(a) ==
    /\ acct[a].pc = "watch"
    /\ \/ /\ Fine
          /\ Moves(a, [acct[a] EXCEPT !.pc = "loop", !.failures = syncLog[a].errors,
                                      !.open = syncLog[a].breaker = "open"],
                   past[a], syncLog)
       \/ /\ Fault
          /\ Moves(a, [acct[a] EXCEPT !.pc = "loop"],
                   [past[a] EXCEPT !.lost = TRUE], syncLog)
    /\ UNCHANGED cooling

\* breakerState.remaining: an open breaker is honoured before any socket.
FrozenClock(a) == acct[a].open

remaining(a) == acct[a].open /\ a \in cooling

Watch(a) ==
    /\ acct[a].pc = "loop"
    /\ Moves(a, [acct[a] EXCEPT !.pc = IF remaining(a) THEN "cool" ELSE "try"],
             past[a], syncLog)
    /\ UNCHANGED cooling /\ Fine

HalfOpenClears(a) ==
    /\ acct[a].pc = "cool" /\ ~remaining(a)
    /\ Moves(a, [acct[a] EXCEPT !.pc = "try", !.open = FALSE],
             [past[a] EXCEPT !.half = TRUE], RecordSyncSuccess(a))
    /\ UNCHANGED cooling /\ Fine

\* The wait is over: half-open, one attempt.
HalfOpen(a) ==
    /\ acct[a].pc = "cool" /\ ~remaining(a)
    /\ \/ Fine /\ Moves(a, [acct[a] EXCEPT !.pc = "try", !.open = FALSE],
                        [past[a] EXCEPT !.half = TRUE],
                        [syncLog EXCEPT ![a].breaker = "half_open"])
       \/ Fault /\ Moves(a, [acct[a] EXCEPT !.pc = "try", !.open = FALSE],
                         [past[a] EXCEPT !.half = TRUE], syncLog)
    /\ UNCHANGED cooling

\* What follows a cycle that ended in an error, its local count being n: the
\* error is recorded, and the stored count rules if it is higher; at the
\* threshold the breaker opens and the local count starts again.
Failed(a, n, p) ==
    LET hist == [p EXCEPT !.streak = OneMore(@), !.half = FALSE]
    IN  \E recorded, saved \in BOOLEAN :
            LET log == IF recorded THEN RecordSyncError(a) ELSE syncLog
                count == IF recorded THEN Max({n + 1, log[a].errors}) ELSE n + 1
                opens == count >= BreakerThreshold
                lost == ~recorded \/ (opens /\ ~saved)
            IN  /\ IF lost THEN outages + 2 <= MaxOutages /\ outages' = outages + 2 ELSE Fault
                /\ ~opens => saved
                /\ Moves(a, [acct[a] EXCEPT !.pc = IF opens THEN "loop" ELSE "backoff",
                                            !.failures = IF opens THEN 0 ELSE count,
                                            !.open = opens],
                         [hist EXCEPT !.lost = @ \/ lost],
                         IF opens /\ saved
                         THEN [log EXCEPT ![a].breaker = "open"] ELSE log)
                /\ cooling' = IF opens THEN cooling \cup {a} ELSE cooling

\* runOnce ends before the session was healthy.
AttemptFails(a) == acct[a].pc = "try" /\ Failed(a, acct[a].failures, past[a])

HealthyKeepsCount(a) ==
    /\ acct[a].pc = "try"
    /\ Moves(a, [acct[a] EXCEPT !.pc = "session"],
             [past[a] EXCEPT !.streak = 0, !.half = FALSE], syncLog)
    /\ UNCHANGED cooling /\ Fine

\* Connected, watching and swept: the error history is retired.
Healthy(a) ==
    /\ acct[a].pc = "try"
    /\ \/ Fine /\ Moves(a, [acct[a] EXCEPT !.pc = "session"],
                        [past[a] EXCEPT !.streak = 0, !.half = FALSE, !.lost = FALSE],
                        RecordSyncSuccess(a))
               /\ cooling' = cooling \ {a}
       \/ Fault /\ UNCHANGED cooling /\ Moves(a, [acct[a] EXCEPT !.pc = "session"],
                         [past[a] EXCEPT !.streak = 0, !.half = FALSE, !.lost = TRUE],
                         syncLog)

\* A session that worked and later broke counts from zero.
SessionBreaks(a) == acct[a].pc = "session" /\ Failed(a, 0, past[a])

BackoffEnds(a) ==
    /\ acct[a].pc = "backoff"
    /\ Moves(a, [acct[a] EXCEPT !.pc = "loop"], past[a], syncLog)
    /\ UNCHANGED cooling /\ Fine

AccountStep(a) ==
    \/ SyncDone(a) \/ RetryElapses(a) \/ loadBreaker(a) \/ Watch(a)
    \/ HalfOpen(a) \/ Healthy(a) \/ BackoffEnds(a)

-------------------------------------------------------------------------
(* The world *)

\* The clock reaches breaker_until.
CooldownPasses(a) ==
    /\ a \in cooling /\ cooling' = cooling \ {a}
    /\ UNCHANGED <<loopVars, acct, syncLog, past, slots, outages>>

\* An account is provisioned, by this process (which nudges) or another.
Provisioned(a) ==
    /\ a \notin eligible /\ eligible' = eligible \cup {a}
    /\ nudged' \in {nudged, TRUE}
    /\ UNCHANGED <<loop, supervised, restarts, goroutineVars, outages>>

\* The process dies and comes back: only sync_log and the clock remain.
ProcessRestarts ==
    /\ restarts < MaxRestarts /\ restarts' = restarts + 1
    /\ loop' = [pc |-> "list", todo |-> {}] /\ nudged' = FALSE
    /\ supervised' = {} /\ slots' = 0
    /\ acct' = [a \in Accts |-> NoGoroutine]
    /\ past' = [a \in Accts |-> [past[a] EXCEPT !.starts = 0, !.half = FALSE,
                                                !.timedOut = FALSE]]
    /\ UNCHANGED <<eligible, syncLog, cooling, outages>>

AccountsProgress == \E a \in Accts : AccountStep(a) \/ CooldownPasses(a)

Loop == List \/ Sweep \/ AllStarted \/ \E a \in Accts : start(a)

SupNext ==
    \/ Loop \/ ProcessRestarts
    \/ \E a \in Accts :
           \/ AccountStep(a) \/ SyncFails(a) \/ DialTimesOut(a)
           \/ AttemptFails(a) \/ SessionBreaks(a)
           \/ CooldownPasses(a) \/ Provisioned(a)

\* The scheduler runs the goroutines, timers fire, and an initial sync that
\* can end does; what fails is never required to.  Failures are finitely many,
\* and so then are the accounts' steps: it is enough that some goroutine that
\* can run does.
SupFairness == WF_supVars(Loop) /\ WF_supVars(AccountsProgress)

SupSpec == SupInit /\ [][SupNext]_supVars /\ SupFairness

-------------------------------------------------------------------------
(* Properties *)

\* supervisor.go:254-264: adoption never starts a second goroutine for an
\* account, whatever the order of listings, nudges, ticks and full slots.
StartedOnce == \A a \in Accts : past[a].starts <= 1

\* supervisor.go:383-397: the semaphore holds exactly the slots of the
\* goroutines that have not given theirs back, so no more than Concurrency
\* first attempts at an initial sync run at once and no slot leaks, whatever
\* attempts fail, retry or time out.
HerdBounded == slots = Cardinality({a \in Accts : acct[a].slot})

\* watcher.go:342-343 and 909-910: while a cooldown runs the watcher's loop
\* makes no attempt, not even in a process that was restarted in the middle of
\* it, unless the breaker's own record could not be written or read.  The
\* initial sync asks no breaker before it dials, although supervisor.go:394-396
\* says that it is "rate-limited by RetryDelay and by the per-account breaker":
\* an account that cools before its watcher has begun is one of a process that
\* was restarted in the middle of the cooldown.
BreakerHonoured ==
    \A a \in cooling :
        /\ acct[a].pc = "try" => past[a].lost
        /\ acct[a].pc \in BeforeWatcher => restarts > 0

\* watcher.go:375-387 and 488-497: the breaker opens only after
\* BreakerThreshold failures with no healthy session between them: a session
\* that worked and broke an hour later never opens it.
OpensAtThreshold ==
    [][\A a \in cooling' \ cooling :
           past[a].streak + 1 >= BreakerThreshold \/ past[a].lost]_supVars

\* watcher.go:356-357: the one attempt after a cooldown, when it fails, opens
\* the breaker again at once.
HalfOpenIsOneAttempt ==
    [][\A a \in Accts :
           past[a].half /\ acct'[a].pc \in {"backoff", "loop"} =>
               a \in cooling' \/ past'[a].lost]_supVars

\* A goroutine was started for exactly the accounts marked as supervised.
Adopted ==
    \A a \in Accts : IF a \in supervised THEN past[a].starts = 1
                     ELSE past[a].starts = 0 /\ acct[a] = NoGoroutine

\* What makes a cooldown survive a restart: the row says open while the clock
\* runs, the loop that has read it says so too, and an account on its way to a
\* socket is not cooling; unless a read or write of the record failed.
CooldownKept ==
    \A a \in Accts :
        /\ acct[a].pc = "cool" => acct[a].open
        /\ a \in cooling /\ ~past[a].lost =>
              /\ syncLog[a].breaker = "open"
              /\ acct[a].pc \notin {"try", "session", "backoff"}
              /\ acct[a].pc = "loop" => acct[a].open

\* The local and the stored count of failures, while no record was lost: the
\* stored one never exceeds the failures since a session was healthy, the
\* local one never exceeds the stored one, and an open breaker and the one
\* attempt after it have the threshold on record.
CountsAgree ==
    \A a \in Accts :
        /\ acct[a].pc \in BeforeWatcher =>
              acct[a].failures = 0 /\ ~acct[a].open
        /\ acct[a].pc = "backoff" => ~acct[a].open
        /\ past[a].half => acct[a].pc \in {"try", "ended"}
        /\ ~past[a].lost =>
              /\ syncLog[a].errors <= past[a].streak
              /\ acct[a].pc # "session" => acct[a].failures <= syncLog[a].errors
              /\ \/ syncLog[a].breaker = "open" \/ past[a].half
                 \/ acct[a].open /\ acct[a].pc \in {"loop", "cool"}
                 => syncLog[a].errors >= BreakerThreshold

\* The supervisor gives each account one goroutine, the semaphore counts
\* exactly the slots that are held, no watcher attempts a session in a cooldown
\* and only a restart lets the initial sync dial in one, and the two counts of
\* failures and the two copies of the breaker agree.
SupervisorSafe ==
    /\ SupervisorTypeOK /\ StartedOnce /\ HerdBounded /\ BreakerHonoured
    /\ Adopted /\ CooldownKept /\ CountsAgree

\* supervisor.go:222-236, 290-296 and watcher.go:319: every eligible account is
\* given its goroutine, however many accounts hold or wait for slots and
\* whether or not a nudge arrived, and once failures end it is watched for
\* good: no breaker, backoff or retry keeps it away.  A dial timeout does; see
\* below.
WatchedInTheEnd ==
    <>[](\A a \in eligible : acct[a].pc = "session" \/ past[a].timedOut)

\* watcher.go:319, "It runs until ctx ends", and supervisor.go:424, "initial
\* sync failed; will retry": an account that has its goroutine is watched in
\* the end, whatever the failures before.
EveryAccountWatched ==
    \A a \in Accts :
        (a \in supervised) ~> (acct[a].pc = "session" \/ a \notin supervised)
===========================================================================
