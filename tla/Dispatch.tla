---------------------------- MODULE Dispatch ----------------------------
(***************************************************************************)
(* The clocked half of the watcher's event loop (internal/sync/watcher.go  *)
(* dispatch) with its debouncer (debounce.go) and its idle heartbeat.      *)
(* What a pass, a sweep or a probe does to the cache is MailboxSync's;     *)
(* here each is one instant of the loop's clock.  The clock moves only     *)
(* while the loop has nothing ready: its select is served promptly.        *)
(***************************************************************************)
EXTENDS Integers, FiniteSets, FiniteSetsExt, Functions

CONSTANTS Watched,    \* mailboxes of the account
          QuietTime,  \* WatcherOptions.Debounce
          MaxWait,    \* WatcherOptions.MaxDebounce
          Heartbeat,  \* WatcherOptions.IdleHeartbeat
          MaxClock    \* bound of the clock

ASSUME DispatchAssumption ==
    /\ QuietTime \in Nat \ {0} /\ MaxWait \in Nat /\ MaxWait >= QuietTime
    /\ Heartbeat \in Nat \ {0} /\ MaxClock \in Nat

VARIABLES clock,
          pending,       \* mailbox |-> when its burst began and was last heard of
          timer,         \* when the debouncer's timer fires, or Off
          lastActivity, nextBeat,
          owed,          \* history: mailbox |-> its oldest event not yet served
          passed,        \* history: mailbox |-> its last pass in this session
          heard          \* history: the last sign of life of the session

dispatchVars == <<clock, pending, timer, lastActivity, nextBeat, owed, passed, heard>>

Off == -1
Empty == [b \in {} |-> 0]

DispatchInit ==
    /\ clock = 0 /\ pending = Empty /\ timer = Off
    /\ lastActivity = 0 /\ nextBeat = Heartbeat
    /\ owed = Empty /\ passed = [b \in Watched |-> -QuietTime] /\ heard = 0

-------------------------------------------------------------------------
(* The debouncer *)

QuietOnly(p) == p.last + QuietTime

deadline(p) == Min({p.last + QuietTime, p.first + MaxWait})

\* The timer is set to the earliest deadline, which may be now.
arm(P) ==
    IF DOMAIN P = {} THEN Off
    ELSE Max({clock, Min({deadline(P[b]) : b \in DOMAIN P})})

With(f, b, v) == [x \in DOMAIN f \cup {b} |-> IF x = b THEN v ELSE f[x]]

touch(b) ==
    LET first == IF b \in DOMAIN pending THEN pending[b].first ELSE clock
    IN  /\ pending' = With(pending, b, [first |-> first, last |-> clock])
        /\ timer' = arm(pending')

TakeAll ==
    /\ pending' = Empty /\ timer' = Off

TakeWithoutArming ==
    /\ pending' = Restrict(pending, {b \in DOMAIN pending : deadline(pending[b]) > clock})
    /\ timer' = Off

\* The due mailboxes leave, and the timer is armed for the others.
take ==
    /\ pending' = Restrict(pending, {b \in DOMAIN pending : deadline(pending[b]) > clock})
    /\ timer' = arm(pending')

reset == pending' = Empty /\ timer' = Off

-------------------------------------------------------------------------
(* The loop *)

Active == lastActivity' = clock /\ heard' = clock

\* A change the server attributes to a mailbox.
Changed(b) ==
    /\ touch(b) /\ Active
    /\ owed' = IF b \in DOMAIN owed THEN owed ELSE With(owed, b, clock)
    /\ UNCHANGED <<clock, nextBeat, passed>>

\* An overflow, or a change without a mailbox: everything pending is
\* forgotten, and the whole account is swept.
Overflow ==
    /\ reset /\ Active
    /\ owed' = Empty
    /\ UNCHANGED <<clock, nextBeat, passed>>

Ready == timer # Off /\ timer <= clock

\* d.ready fires: one pass for each mailbox that is due.
Passes ==
    /\ Ready /\ take /\ Active
    /\ LET due == DOMAIN pending \ DOMAIN pending'
       IN  /\ owed' = Restrict(owed, DOMAIN owed \ due)
           /\ passed' = [b \in Watched |-> IF b \in due THEN clock ELSE passed[b]]
    /\ UNCHANGED <<clock, nextBeat>>

Beat == clock >= nextBeat /\ nextBeat' = nextBeat + Heartbeat

ProbeAfterLimit ==
    /\ Beat
    /\ \/ /\ clock - lastActivity <= Heartbeat
          /\ UNCHANGED <<lastActivity, heard>>
       \/ /\ clock - lastActivity > Heartbeat /\ Active
    /\ UNCHANGED <<clock, pending, timer, owed, passed>>

\* The ticker: a session that was heard of lately is left alone, a quiet one
\* is probed with a Reconcile, which also serves what its events did not tell.
heartbeatProbe ==
    /\ Beat
    /\ \/ /\ clock - lastActivity < Heartbeat
          /\ UNCHANGED <<lastActivity, heard>>
       \/ /\ clock - lastActivity >= Heartbeat /\ Active
    /\ UNCHANGED <<clock, pending, timer, owed, passed>>

\* A pass, a sweep or a probe that fails ends the session; the next one
\* sweeps every mailbox before its loop begins.
NewSession ==
    /\ pending' = Empty /\ timer' = Off /\ owed' = Empty
    /\ passed' = [b \in Watched |-> clock - QuietTime]
    /\ lastActivity' = clock /\ heard' = clock /\ nextBeat' = clock + Heartbeat
    /\ UNCHANGED clock

Tick ==
    /\ clock < MaxClock /\ ~Ready /\ clock < nextBeat
    /\ clock' = clock + 1
    /\ UNCHANGED <<pending, timer, lastActivity, nextBeat, owed, passed, heard>>

DispatchNext ==
    \/ \E b \in Watched : Changed(b)
    \/ Overflow \/ Passes \/ heartbeatProbe \/ NewSession \/ Tick

DispatchSpec == DispatchInit /\ [][DispatchNext]_dispatchVars

-------------------------------------------------------------------------
(* Properties *)

\* Every variable has its type, and debounce.go:90-96: the timer is armed
\* exactly while something is pending, and no later than anything pending is
\* due, so that no wake-up loses a mailbox that was not ready.
DispatchTypeOK ==
    /\ clock \in 0..MaxClock
    /\ DOMAIN pending \subseteq Watched
    /\ timer = Off <=> DOMAIN pending = {}
    /\ \A b \in DOMAIN pending : timer <= Max({clock, deadline(pending[b])})
    /\ DOMAIN owed \subseteq Watched

\* debounce.go:15-24: a change the loop has heard of is served by a pass or a
\* sweep within MaxWait of its first event, however the events of this and
\* other mailboxes keep arriving.
ServedInTime == \A b \in DOMAIN owed : clock - owed[b] <= MaxWait

\* debounce.go:8, "one pass per burst": no pass runs into a burst, not even
\* when the timer fires for another mailbox: the mailbox has been quiet for
\* QuietTime, or its burst has lasted MaxWait.
PassesAfterBurst ==
    [][\A b \in DOMAIN pending :
           passed'[b] # passed[b] /\ passed'[b] = clock =>
               \/ clock - pending[b].last >= QuietTime
               \/ clock - pending[b].first >= MaxWait]_dispatchVars

\* watcher.go:590-608: a session that gives no sign of life is probed before
\* two heartbeats have gone by.
QuietIsProbed == clock - heard <= 2 * Heartbeat - 1

\* The watcher's two clocks: no change waits longer than MaxWait for its pass,
\* and no silent session longer than two heartbeats for its probe.
DispatchSafe == DispatchTypeOK /\ ServedInTime /\ QuietIsProbed
=========================================================================
