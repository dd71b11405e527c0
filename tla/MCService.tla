------------------------------ MODULE MCService ------------------------------
(***************************************************************************)
(* The service around the mail, for TLC: the accounts API and its exports, *)
(* the supervisor of the sync goroutines, and the life of the process.  A  *)
(* behaviour is about one of the three; the others rest: no operation is   *)
(* asked for, no account is eligible, or the daemon has not started.       *)
(***************************************************************************)
EXTENDS Accounts, Supervisor, Daemon

VARIABLE part

MCMaxCalls == [s \in DOMAIN Scenes |-> IF s = "archive" THEN 3 ELSE 2]

serviceVars == <<part, accountVars, supVars, daemonVars>>

AccountsRest == scene = "fresh" /\ AccountsInit
SupRest      == eligible = {} /\ SupInit
DaemonRest   == setup = [sync |-> FALSE, jmap |-> FALSE, accounts |-> FALSE, ops |-> FALSE]
                /\ DaemonInit

OfAccounts(A) == part = "accounts" /\ A /\ UNCHANGED <<part, supVars, daemonVars>>
OfSup(A)      == part = "supervisor" /\ A /\ UNCHANGED <<part, accountVars, daemonVars>>
OfDaemon(A)   == part = "daemon" /\ A /\ UNCHANGED <<part, accountVars, supVars>>

MCInit ==
    \/ part = "accounts" /\ AccountsInit /\ SupRest /\ DaemonRest
    \/ part = "supervisor" /\ AccountsRest /\ SupInit /\ DaemonRest
    \/ part = "daemon" /\ AccountsRest /\ SupRest /\ DaemonInit

MCNext == OfAccounts(AccountsNext) \/ OfSup(SupNext) \/ OfDaemon(DaemonNext)

\* The fairness of the three components: at most one disjunct of each line is
\* of the part that moves, so a line says of that part what its own fairness
\* says.
MCFairness ==
    /\ WF_serviceVars(OfAccounts(Purge) \/ OfSup(Loop) \/ OfDaemon(Main))
    /\ WF_serviceVars(OfAccounts(Runner) \/ OfSup(AccountsProgress) \/ OfDaemon(Unwinds))
    /\ WF_serviceVars(OfDaemon(Ends("request"))) /\ WF_serviceVars(OfDaemon(Ends("scrape")))
    /\ WF_serviceVars(OfDaemon(StreamEnds))

MCSpec == MCInit /\ [][MCNext]_serviceVars /\ MCFairness

\* What no step may do: take a deletion back, remove a mailbox nobody asked to
\* remove, open the breaker early, or try twice after a cooldown (service.go,
\* provision.go, watcher.go).
ServiceSteps == NothingRevives /\ OthersMailKept /\ OpensAtThreshold /\ HalfOpenIsOneAttempt

\* What must happen: a started deletion and a queued export end, and a process
\* that was told to stop exits without waiting for its deadline.
ServiceEnds == DeletionsEnd /\ ExportsEnd /\ ExitsWithoutDeadline
=============================================================================
