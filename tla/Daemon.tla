---------------------------- MODULE Daemon ----------------------------
(***************************************************************************)
(* The life of the moovd process: cmd/moovd/main.go builds the sync        *)
(* engine, the JMAP server and the operational server in that order, runs  *)
(* until a signal or a failing component cancels the context, and takes    *)
(* everything down again under one grace deadline.                         *)
(*                                                                         *)
(* A resource (a store's pools, a write executor, a listener, the push     *)
(* broker) is a member of `open` while it may be used.  A goroutine (or    *)
(* the requests in flight, as one) is a member of `busy` while it runs,    *)
(* and of `told` once its own context was cancelled.  `ctx` is the         *)
(* daemon's context with the FIRST cause that ended it.                    *)
(*                                                                         *)
(* Construction that cannot fail with the values the daemon passes (an     *)
(* adapter over a non-nil store) has no failing branch here.               *)
(***************************************************************************)
EXTENDS Naturals, FiniteSets

VARIABLES main,     \* where the main goroutine stands in serve
          setup,    \* what the configuration enables
          open,     \* resources in use
          busy,     \* goroutines and requests running
          told,     \* goroutines whose own context was cancelled
          ctx,      \* "live", or why the daemon's context ended
          grace,    \* the deadline of shutdownCtx: "unset", "running", "over"
          runErr,   \* the supervisor failed for its own reasons
          outcome   \* what run answers: "none", "ok" or "error"

daemonVars == <<main, setup, open, busy, told, ctx, grace, runErr, outcome>>

Stages == {"migrate", "sync", "jmap", "listen", "undo", "ops", "run",
           "running", "broker", "opsDrain", "opsWait", "drain", "drainWait",
           "outbox", "outboxWait", "accounts", "accountsWait", "close",
           "report", "closeSync", "exited"}

Resources == {"syncStore", "syncWriter", "jmapStore", "jmapWriter",
              "listener", "opsListener", "broker"}

\* The goroutines of the API's component, each on a context of its own.
Runners == {"exports", "purge"}
Outboxers == {"outbox", "sweep"}
Goroutines == Runners \cup Outboxers
              \cup {"supervisor", "waker", "request", "stream", "scrape"}

\* Every variable has its type, and nothing runs that the configuration
\* leaves out: no export or purge loop without the accounts API, no send pass
\* without the JMAP server, no waker without the sync engine.
DaemonTypeOK ==
    /\ main \in Stages
    /\ setup \in [sync : BOOLEAN, jmap : BOOLEAN, accounts : BOOLEAN, ops : BOOLEAN]
    /\ open \subseteq Resources
    /\ busy \subseteq Goroutines /\ told \subseteq Goroutines
    /\ ctx \in {"live", "signal", "failed"}
    /\ grace \in {"unset", "running", "over"}
    /\ runErr \in BOOLEAN /\ outcome \in {"none", "ok", "error"}
    /\ busy \cap Runners # {} => setup.jmap /\ setup.accounts
    /\ busy \cap Outboxers # {} => setup.jmap
    /\ busy \cap {"supervisor", "waker"} # {} => setup.sync

\* run: the signal context exists and serve has been entered.
DaemonInit ==
    /\ setup \in [sync : BOOLEAN, jmap : BOOLEAN, accounts : BOOLEAN, ops : BOOLEAN]
    /\ main = "migrate" /\ open = {"broker"} /\ busy = {} /\ told = {}
    /\ ctx = "live" /\ grace = "unset" /\ runErr = FALSE /\ outcome = "none"

-------------------------------------------------------------------------
(* Starting *)

\* A start that ends in an error returns from serve, whose deferred
\* components.close still runs.  An error that wraps a cancellation is what a
\* signal during the start looks like, and run reports it as a clean exit.
GiveUp(own) ==
    /\ main' = "closeSync"
    /\ outcome' = IF own THEN "error" ELSE "ok"
    /\ own \/ ctx = "signal"

migrateOnStart ==
    /\ main = "migrate"
    /\ \/ main' = "sync" /\ UNCHANGED outcome
       \/ \E own \in BOOLEAN : GiveUp(own)
    /\ UNCHANGED <<setup, open, busy, told, ctx, grace, runErr>>

\* The store is opened, and closed again when a later part cannot be built.
\* The engine's write executor is optional: without it there is no waker.
startSync ==
    /\ main = "sync"
    /\ \/ /\ ~setup.sync
          /\ main' = "jmap" /\ UNCHANGED <<open, outcome>>
       \/ /\ setup.sync
          /\ main' = "jmap" /\ UNCHANGED outcome
          /\ \E writer \in {{}, {"syncWriter"}} :
                 open' = open \cup {"syncStore"} \cup writer
       \/ /\ setup.sync
          /\ \E own \in BOOLEAN : GiveUp(own)
          /\ UNCHANGED open
    /\ UNCHANGED <<setup, busy, told, ctx, grace, runErr>>

RunnersAlways == busy \cup Runners

\* The API is off unless configured; its two loops start before the server
\* exists.
buildAccountsAPI ==
    busy \cup (IF setup.accounts THEN Runners ELSE {})

\* A failure before the runners start closes the executor and the store, and
\* leaves nothing.
buildJMAP ==
    /\ main = "jmap"
    /\ \/ /\ ~setup.jmap
          /\ main' = "ops" /\ UNCHANGED <<open, busy, outcome>>
       \/ /\ setup.jmap
          /\ main' = "listen" /\ UNCHANGED outcome
          /\ open' = open \cup {"jmapStore", "jmapWriter"}
          /\ busy' = buildAccountsAPI
       \/ /\ setup.jmap
          /\ \E own \in BOOLEAN : GiveUp(own)
          /\ UNCHANGED <<open, busy>>
    /\ UNCHANGED <<setup, told, ctx, grace, runErr>>

\* A server that cannot be built, or a port that cannot be bound, undoes the construction, the runners first.
UndoListen ==
    /\ main' = "undo" /\ told' = told \cup Runners
    /\ UNCHANGED <<open, busy>>

startOutbox == busy' = busy \cup Outboxers

startJMAP ==
    /\ main = "listen"
    /\ \/ /\ main' = "ops" /\ open' = open \cup {"listener"}
          /\ startOutbox
          /\ UNCHANGED told
       \/ UndoListen
    /\ UNCHANGED <<setup, ctx, grace, runErr, outcome>>

\* accountsComp.shutdown(context.Background()) waits without a deadline.
undoJMAP ==
    /\ main = "undo" /\ busy \cap Runners = {}
    /\ main' = "closeSync" /\ outcome' = "error"
    /\ open' = open \ {"jmapStore", "jmapWriter"}
    /\ UNCHANGED <<setup, busy, told, ctx, grace, runErr>>

\* A failure here returns from serve with the JMAP component still running.
startOps ==
    /\ main = "ops"
    /\ \/ /\ main' = "run" /\ UNCHANGED outcome
          /\ open' = open \cup (IF setup.ops THEN {"opsListener"} ELSE {})
       \/ /\ setup.ops
          /\ GiveUp(TRUE)
          /\ UNCHANGED open
    /\ UNCHANGED <<setup, busy, told, ctx, grace, runErr>>

-------------------------------------------------------------------------
(* Running: the supervisor blocks serve, the waker runs beside it *)

runSync ==
    /\ main = "run"
    /\ main' = "running"
    /\ busy' = busy \cup (IF setup.sync THEN {"supervisor"} ELSE {})
                    \cup (IF "syncWriter" \in open THEN {"waker"} ELSE {})
    /\ UNCHANGED <<setup, open, told, ctx, grace, runErr, outcome>>

\* The account goroutines unwind on the cancelled context; Run waits for them.
\* Before there is any, a first read of the accounts that fails ends Run.
LeaveAtCancel ==
    /\ main = "running" /\ main' = "broker"
    /\ ctx # "live" /\ UNCHANGED <<busy, runErr>>
    /\ UNCHANGED <<setup, open, told, ctx, grace, outcome>>

supervisorReturns ==
    /\ main = "running" /\ main' = "broker"
    /\ \/ /\ ctx # "live" /\ "supervisor" \notin busy
          /\ UNCHANGED <<busy, runErr>>
       \/ /\ ctx = "live" /\ "supervisor" \in busy
          /\ busy' = busy \ {"supervisor"} /\ runErr' = TRUE
    /\ UNCHANGED <<setup, open, told, ctx, grace, outcome>>

-------------------------------------------------------------------------
(* Shutting down *)

DrainFirst ==
    /\ main = "broker" /\ main' = "opsDrain"
    /\ grace' = "running"
    /\ UNCHANGED <<setup, open, busy, told, ctx, runErr, outcome>>

\* shutdownCtx starts here; closing the broker ends every event stream.
closeBroker ==
    /\ main = "broker" /\ main' = "opsDrain"
    /\ grace' = "running"
    /\ open' = open \ {"broker"}
    /\ UNCHANGED <<setup, busy, told, ctx, runErr, outcome>>

\* http.Server.Shutdown: the listener closes first, then the call waits for
\* what is in flight; at the deadline Close takes the connections away and
\* leaves the handlers to find out.
ShutdownServer(from, to, gone) ==
    /\ main = from /\ main' = to /\ open' = open \ gone
    /\ UNCHANGED <<setup, busy, told, ctx, grace, runErr, outcome>>

AwaitAll(from, to, who) ==
    /\ main = from /\ main' = to
    /\ busy \cap who # {} => grace = "over"
    /\ UNCHANGED <<setup, open, busy, told, ctx, grace, runErr, outcome>>

\* The runner loops are cancelled, and waited for within the deadline.
TellToStop(from, to, who) ==
    /\ main = from /\ main' = to /\ told' = told \cup who
    /\ UNCHANGED <<setup, open, busy, ctx, grace, runErr, outcome>>

opsShutdown ==
    \/ ShutdownServer("opsDrain", "opsWait", {"opsListener"})
    \/ AwaitAll("opsWait", "drain", {"scrape"})

OutboxBeforeDrain ==
    \/ TellToStop("drain", "outbox", Outboxers)
    \/ AwaitAll("outbox", "drainWait", {"outbox"})
    \/ ShutdownServer("drainWait", "outboxWait", {"listener"})
    \/ AwaitAll("outboxWait", "accounts", {"request", "stream"})

serverShutdown ==
    \/ ShutdownServer("drain", "drainWait", {"listener"})
    \/ AwaitAll("drainWait", "outbox", {"request", "stream"})

\* Only the executor is waited for; the pin sweep is told and left.
outboxShutdown ==
    \/ TellToStop("outbox", "outboxWait", Outboxers)
    \/ AwaitAll("outboxWait", "accounts", {"outbox"})

accountsShutdown ==
    \/ TellToStop("accounts", "accountsWait", Runners)
    \/ AwaitAll("accountsWait", "close", Runners)

StoreLeftOpen ==
    ShutdownServer("close", "report", {"jmapWriter"})

closeJMAP ==
    ShutdownServer("close", "report", {"jmapWriter", "jmapStore"})

\* The supervisor's own failure first, then the cause that cancelled the
\* context; a plain cancellation is a clean exit.
SignalledIsClean ==
    /\ main = "report" /\ main' = "closeSync"
    /\ outcome' = IF runErr THEN "error" ELSE "ok"
    /\ UNCHANGED <<setup, open, busy, told, ctx, grace, runErr>>

report ==
    /\ main = "report" /\ main' = "closeSync"
    /\ outcome' = IF runErr \/ ctx = "failed" THEN "error" ELSE "ok"
    /\ UNCHANGED <<setup, open, busy, told, ctx, grace, runErr>>

\* The deferred components.close, after which the process ends.
closeSync ==
    /\ main = "closeSync" /\ main' = "exited"
    /\ open' = open \ {"syncWriter", "syncStore"}
    /\ UNCHANGED <<setup, busy, told, ctx, grace, runErr, outcome>>

Main ==
    \/ migrateOnStart \/ startSync \/ buildJMAP \/ startJMAP \/ undoJMAP
    \/ startOps \/ runSync \/ supervisorReturns
    \/ closeBroker \/ opsShutdown \/ serverShutdown \/ outboxShutdown
    \/ accountsShutdown \/ closeJMAP \/ report \/ closeSync

-------------------------------------------------------------------------
(* What happens beside the main goroutine, until the process ends *)

Beside == UNCHANGED <<main, setup, told, grace, runErr, outcome>>
Alive == main # "exited"

\* NotifyContext: the first signal cancels the context.
Signal ==
    /\ Alive /\ ctx = "live" /\ ctx' = "signal"
    /\ UNCHANGED <<open, busy>> /\ Beside

\* Serve fails on its own: the cause-carrying cancel keeps the first cause.
ServeFails(l) ==
    /\ Alive /\ l \in open
    /\ open' = open \ {l}
    /\ ctx' = IF ctx = "live" THEN "failed" ELSE ctx
    /\ UNCHANGED busy /\ Beside

Arrives(who, l) ==
    /\ Alive /\ l \in open
    /\ busy' = busy \cup {who}
    /\ UNCHANGED <<open, ctx>> /\ Beside

Ends(who) ==
    /\ Alive /\ who \in busy
    /\ busy' = busy \ {who}
    /\ UNCHANGED <<open, ctx>> /\ Beside

\* The notifier's channel closes when the broker's does, which ends the
\* stream; a subscription taken after that gets a channel already closed.
StateEvents == Arrives("stream", "listener")
StreamEnds == "broker" \notin open /\ Ends("stream")

SupervisorUnwinds == ctx # "live" /\ Ends("supervisor")
WakerEnds == ctx # "live" /\ Ends("waker")
RunnerEnds(w) == w \in told /\ Ends(w)

\* The watched clients may also leave by themselves; nothing makes them.
ClientLeaves == Ends("stream")

GraceOver ==
    /\ Alive /\ grace = "running" /\ grace' = "over"
    /\ UNCHANGED <<main, setup, open, busy, told, ctx, runErr, outcome>>

\* What ends once and is not started again after the context has ended.
Unwinds ==
    \/ SupervisorUnwinds \/ WakerEnds
    \/ \E w \in Runners \cup Outboxers : RunnerEnds(w)

Surroundings ==
    \/ Signal \/ GraceOver \/ ClientLeaves \/ Unwinds
    \/ \E l \in {"listener", "opsListener"} : ServeFails(l)
    \/ Arrives("request", "listener") \/ Ends("request")
    \/ StateEvents \/ StreamEnds
    \/ Arrives("scrape", "opsListener") \/ Ends("scrape")

DaemonNext == Main \/ Surroundings

\* The Go scheduler runs every goroutine that can run.  Requests, streams and
\* scrapes may keep arriving, so each kind has a fairness of its own; of what
\* unwinds once it is enough that some of it always does.  Nothing is assumed
\* of clients, signals, listeners that fail, or the deadline.
DaemonFairness ==
    /\ WF_daemonVars(Main) /\ WF_daemonVars(Unwinds)
    /\ WF_daemonVars(Ends("request")) /\ WF_daemonVars(Ends("scrape"))
    /\ WF_daemonVars(StreamEnds)

DaemonSpec == DaemonInit /\ [][DaemonNext]_daemonVars /\ DaemonFairness

-------------------------------------------------------------------------
(* Properties *)

\* What each kind of work reads while it runs; a scrape reads the sync
\* engine's checkpoints when there is an engine.
Needs(who) ==
    CASE who = "scrape" -> IF setup.sync THEN {"syncStore"} ELSE {}
      [] who \in {"supervisor", "waker"} -> {"syncStore"}
      [] who = "outbox" -> {"jmapStore", "jmapWriter"}
      [] OTHER -> {"jmapStore"}

\* main.go:201-203 and jmap.go:429-432: whatever the order of requests,
\* scrapes, streams, exports, purges and send passes in flight, none of them
\* loses its store or executor during a shutdown, unless the grace period ran
\* out on it; the account goroutines never do.
WorkKeepsItsStore ==
    \A who \in busy \ {"waker", "sweep"} :
        Needs(who) \subseteq open \/ (grace = "over" /\ who # "supervisor")

\* outbox.go:107-111: while a request may still enqueue a send the executor
\* that claims it has not been told to stop.
EnqueuedFindsExecutor ==
    "request" \in busy /\ told \cap Outboxers # {} => grace = "over"

\* Every exit has closed the sync engine's store and the operational
\* listener, and every exit but the one where the operational port could not
\* be bound has closed the API's: a start that fails half way, whichever the
\* step, leaves nothing of what the steps before it opened.
ReleasedAtExit ==
    main = "exited" =>
        /\ open \cap {"syncStore", "opsListener"} = {}
        /\ open \cap {"jmapStore", "listener"} # {} => grace = "unset" /\ setup.ops

\* main.go:108-110 and 211-221: the process exits cleanly only when a signal
\* was the first thing to end it; a component that failed is reported.
ExitTellsCause ==
    main = "exited" /\ outcome = "ok" => ctx = "signal" /\ ~runErr

\* main.go:194-198: once the context has ended the process exits, and it does
\* not take the deadline to get there: healthy event streams that would never
\* end on their own do not hold the shutdown.
ExitsWithoutDeadline == (ctx # "live") ~> (main = "exited")

\* From start to exit no goroutine loses what it works with before the grace
\* period is over, no send is enqueued behind a stopped executor, nothing that
\* was opened stays open, and the exit status tells the cause.
DaemonSafe ==
    /\ DaemonTypeOK /\ WorkKeepsItsStore /\ EnqueuedFindsExecutor /\ ReleasedAtExit
    /\ ExitTellsCause
=========================================================================
