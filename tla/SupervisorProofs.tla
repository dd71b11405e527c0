------------------------- MODULE SupervisorProofs -------------------------
(***************************************************************************)
(* Proofs about the account supervisor, for any finite set of accounts and *)
(* any limit, threshold and number of failures and restarts: the type, the *)
(* goroutine per account, the semaphore's count, the breaker's cooldown    *)
(* and the two counts of failures form one inductive invariant,            *)
(* SupervisorSafe, and the two rules of the breaker's steps follow.        *)
(***************************************************************************)
EXTENDS SupervisorSteps, FiniteSetTheorems, TLAPS

\* What the invariant says besides the accounts that cool before their watcher
\* begins.
Base == AllGood /\ Rest /\ HerdBounded /\ slots \in 0..Concurrency

\* The accounts that cool before their watcher begins.
Cooled == \A a \in cooling : acct[a].pc \in BeforeWatcher => restarts > 0

\* The invariant, account by account.
LEMMA SafeIs == SupervisorSafe <=> Base /\ Cooled
  <1> USE DEF AllGood, Good, AdoptedOf, CooldownOf, CountsOf, BeforeWatcher, BeforeWatcher
  <1>1. SupervisorTypeOK <=> /\ acct \in [Accts -> Goroutine]
        /\ syncLog \in [Accts -> LogRow]
                             /\ past \in [Accts -> History] /\ Rest
                             /\ slots \in 0..Concurrency
    BY DEF SupervisorTypeOK, Goroutine, LogRow, History, Rest
  <1>2. ASSUME SupervisorSafe PROVE Base /\ Cooled
    <2>1. AllGood /\ Rest /\ HerdBounded /\ slots \in 0..Concurrency
      BY <1>1, <1>2 DEF SupervisorSafe, Adopted, CooldownKept, CountsAgree
    <2>2. Cooled
      BY <1>2 DEF SupervisorSafe, BreakerHonoured, Cooled
    <2> QED
      BY <2>1, <2>2 DEF Base
  <1>3. ASSUME AllGood, Rest, HerdBounded, slots \in 0..Concurrency, Cooled
        PROVE  SupervisorSafe
    <2>1. Adopted /\ CooldownKept /\ CountsAgree
      BY <1>3 DEF Adopted, CooldownKept, CountsAgree
    <2>2. StartedOnce
      BY <2>1 DEF Adopted, StartedOnce
    <2>3. BreakerHonoured
      BY <2>1, <1>3 DEF CooldownKept, BreakerHonoured, Rest, Cooled
    <2> QED
      BY <1>1, <1>3, <2>1, <2>2, <2>3 DEF SupervisorSafe
  <1> QED
    BY <1>2, <1>3 DEF Base

\* The accounts whose goroutine holds a slot.
Holders == {b \in Accts : acct[b].slot}

\* A slot taken and a slot given back, counted.
LEMMA HoldersCount ==
    ASSUME NEW a \in Accts
    PROVE  /\ Cardinality(Holders) \in Nat
           /\ a \notin Holders => Cardinality(Holders \cup {a}) = Cardinality(Holders) + 1
           /\ a \in Holders => /\ Cardinality(Holders) >= 1
                               /\ Cardinality(Holders \ {a}) = Cardinality(Holders) - 1
  <1>1. IsFiniteSet(Holders)
    <2>1. Holders \subseteq Accts
      BY DEF Holders
    <2> QED
      BY <2>1, SupervisorAssumption, FS_Subset
  <1>2. IsFiniteSet(Holders \ {a})
    BY <1>1, FS_Subset
  <1>3. Cardinality(Holders) \in Nat /\ Cardinality(Holders \ {a}) \in Nat
    BY <1>1, <1>2, FS_CardinalityType
  <1>4. a \notin Holders => Cardinality(Holders \cup {a}) = Cardinality(Holders) + 1
    BY <1>1, FS_AddElement
  <1>5. a \in Holders => Cardinality(Holders \ {a}) = Cardinality(Holders) - 1
    BY <1>1, FS_RemoveElement
  <1> QED
    BY <1>3, <1>4, <1>5

\* The semaphore counts the holders after the step too.
LEMMA SlotStep ==
    ASSUME HerdBounded, slots \in 0..Concurrency, NEW a \in Accts, NEW g,
           acct'[a] = g, \A b \in Accts \ {a} : acct'[b] = acct[b], SlotMove(a, g)
    PROVE  HerdBounded' /\ slots' \in 0..Concurrency
  <1> USE SupervisorAssumption
  <1>1. acct'[a] = g /\ \A b \in Accts \ {a} : acct'[b] = acct[b]
    OBVIOUS
  <1>2. /\ slots = Cardinality(Holders)
        /\ (HerdBounded' <=> slots' = Cardinality(Holders'))
        /\ a \in Holders <=> acct[a].slot
    BY DEF HerdBounded, Holders
  <1>3. CASE slots' = slots /\ g.slot = acct[a].slot
    <2>1. Holders' = Holders
      BY <1>1, <1>3 DEF Holders
    <2> QED
      BY <1>2, <1>3, <2>1
  <1>4. CASE release(a) /\ g.slot = FALSE
    <2>1. Holders' = Holders \ {a}
      BY <1>1, <1>4 DEF Holders
    <2>2. CASE a \in Holders
      <3>1. slots' = slots - 1
        BY <1>2, <1>4, <2>2 DEF release
      <3> QED
        BY <1>2, <2>1, <2>2, <3>1, HoldersCount
    <2>3. CASE a \notin Holders
      <3>1. slots' = slots
        BY <1>2, <1>4, <2>3 DEF release
      <3>2. Holders \ {a} = Holders
        BY <2>3
      <3> QED
        BY <1>2, <2>1, <3>1, <3>2
    <2> QED
      BY <2>2, <2>3
  <1>5. CASE slots < Concurrency /\ slots' = slots + 1 /\ ~acct[a].slot /\ g.slot = TRUE
    <2>1. Holders' = Holders \cup {a}
      BY <1>1, <1>5 DEF Holders
    <2> QED
      BY <1>2, <1>5, <2>1, HoldersCount
  <1> QED
    BY <1>3, <1>4, <1>5, Zenon DEF SlotMove

\* A step of one account keeps the invariant.
LEMMA KeptSafe ==
    ASSUME HerdBounded, slots \in 0..Concurrency, Kept
    PROVE  Base'
  <1>1. PICK a \in Accts : SlotMove(a, acct'[a])
        /\ \A b \in Accts \ {a} : acct'[b] = acct[b]
    BY DEF Kept
  <1>2. HerdBounded' /\ slots' \in 0..Concurrency
    BY <1>1, SlotStep
  <1> QED
    BY <1>2 DEF Kept, Base

-----------------------------------------------------------------------------
(* The steps of the supervisor's own loop, of the world, and the whole.    *)

\* A step that moves no account keeps the invariant.
LEMMA QuietSafe ==
    ASSUME Base, Rest', UNCHANGED <<goroutineVars, supervised>>
    PROVE  Base'
  <1>1. AllGood /\ HerdBounded /\ slots \in 0..Concurrency
    BY DEF Base
  <1>2. UNCHANGED <<acct, syncLog, cooling, past, slots, supervised>>
    BY DEF goroutineVars
  <1>3. AllGood'
    BY <1>1, <1>2 DEF AllGood
  <1>4. HerdBounded' /\ (slots \in 0..Concurrency)'
    BY <1>1, <1>2 DEF HerdBounded
  <1> QED
    BY <1>3, <1>4 DEF Base

\* A restart keeps the invariant: what is left is the row, and it agrees with
\* the clock.
LEMMA ProcessRestartsSafe ==
    ASSUME Base, ProcessRestarts
    PROVE  Base'
  <1>0. AllGood /\ Rest /\ HerdBounded /\ slots \in 0..Concurrency
    BY DEF Base
  <1>1. /\ acct' = [a \in Accts |-> NoGoroutine] /\ syncLog' = syncLog
        /\ past' = [a \in Accts |-> [past[a] EXCEPT !.starts = 0, !.half = FALSE,
                                                    !.timedOut = FALSE]]
        /\ supervised' = {} /\ slots' = 0 /\ cooling' = cooling
    BY Zenon DEF ProcessRestarts
  <1>2. Rest'
    <2>1. nudged' \in BOOLEAN
      BY Zenon DEF ProcessRestarts
    <2>2. loop' \in [pc : {"list", "start", "select"}, todo : SUBSET Accts]
      BY Zenon DEF ProcessRestarts
    <2>3. restarts' \in 0..MaxRestarts
      <3>1. restarts < MaxRestarts /\ restarts' = restarts + 1
        BY Zenon DEF ProcessRestarts
      <3>2. restarts \in 0..MaxRestarts
        BY <1>0 DEF Rest
      <3> QED
        BY <3>1, <3>2, SupervisorAssumption
    <2>4. UNCHANGED <<eligible, outages>>
      BY Zenon DEF ProcessRestarts
    <2> QED
      BY <1>0, <1>1, <2>1, <2>2, <2>3, <2>4, Zenon DEF Rest
  <1>3. ASSUME NEW a \in Accts
        PROVE  past'[a] \in History /\ Good(a, NoGoroutine, syncLog[a], past'[a], cooling, {})
    <2>1. Good(a, acct[a], syncLog[a], past[a], cooling, supervised)
      BY <1>0, <1>3 DEF AllGood
    <2>2. past[a] \in History /\ syncLog[a] \in LogRow
      BY <2>1 DEF Good
    <2> DEFINE p == past'[a]
    <2>3. p \in History /\ p.starts = 0 /\ p.streak = past[a].streak /\ ~p.half
          /\ p.lost = past[a].lost
      <3>1. PICK f \in BOOLEAN : f = FALSE
        BY Zenon
      <3>2. p = [past[a] EXCEPT !.starts = 0, !.half = f, !.timedOut = f]
        BY <1>1, <1>3, <3>1, Zenon
      <3> HIDE DEF p
      <3>3. p \in History /\ p.starts = 0 /\ p.streak = past[a].streak /\ p.half = f
            /\ p.lost = past[a].lost
        BY <2>2, <3>2, Zenon DEF History
      <3> QED
        BY <3>1, <3>3
    <2> HIDE DEF p
    <2>4. AdoptedOf(a, NoGoroutine, p, {})
      BY <2>3 DEF AdoptedOf
    <2>5. CooldownOf(a, NoGoroutine, syncLog[a], p, cooling)
      BY <2>1, <2>3, NoneYet DEF Good, CooldownOf
    <2>6. CountsOf(NoGoroutine, syncLog[a], p)
      <3>1. syncLog[a].errors \in 0..MaxErrors
        BY <2>2 DEF LogRow
      <3> QED
        BY <2>1, <2>3, <3>1, NoneYet DEF Good, CountsOf, BeforeWatcher, BeforeWatcher
    <2>7. Good(a, NoGoroutine, syncLog[a], p, cooling, {})
      BY <2>2, <2>3, <2>4, <2>5, <2>6, NoneYet DEF Good
    <2> QED
      BY <2>3, <2>7 DEF p
  <1>4. AllGood'
    <2>1. acct' \in [Accts -> Goroutine] /\ \A a \in Accts : acct'[a] = NoGoroutine
      BY <1>1, NoneYet, Zenon
    <2>2. past' \in [Accts -> History]
      <3>1. DOMAIN past' = Accts /\ past' = [a \in Accts |-> past'[a]]
        BY <1>1, Zenon
      <3> QED
        BY <1>3, <3>1
    <2>3. \A a \in Accts :
             Good(a, acct'[a], syncLog'[a], past'[a], cooling', supervised')
      BY <1>1, <1>3, <2>1, Zenon
    <2> QED
      BY <1>0, <1>1, <2>1, <2>2, <2>3, Zenon DEF AllGood
  <1>5. HerdBounded' /\ (slots \in 0..Concurrency)'
    <2>1. {a \in Accts : acct'[a].slot} = {}
      BY <1>1, NoneYet, Zenon
    <2>2. Cardinality({}) = 0
      BY FS_EmptySet
    <2>3. HerdBounded'
      BY <1>1, <2>1, <2>2, Zenon DEF HerdBounded
    <2>4. 0 \in 0..Concurrency
      BY SupervisorAssumption
    <2> QED
      BY <1>1, <2>3, <2>4, Zenon
  <1> QED
    BY <1>2, <1>4, <1>5 DEF Base

\* SupervisorSafe holds initially.
LEMMA InitSafe == SupInit => SupervisorSafe
  <1> SUFFICES ASSUME SupInit PROVE SupervisorSafe
    OBVIOUS
  <1>1. ClosedLog \in LogRow /\ ClosedLog.errors = 0 /\ ClosedLog.breaker = "closed"
    BY SupervisorAssumption DEF ClosedLog, LogRow
  <1>2. NoPast.starts = 0 /\ NoPast.streak = 0 /\ ~NoPast.half
    BY DEF NoPast
  <1>3. NoPast \in History
    <2>1. 0 \in Nat /\ 0 \in 0..MaxErrors
      BY SupervisorAssumption
    <2> QED
      BY <2>1, Zenon DEF NoPast, History
  <1>4. \A a \in Accts : Good(a, NoGoroutine, ClosedLog, NoPast, {}, {})
    BY <1>1, <1>2, <1>3, NoneYet, SupervisorAssumption
    DEF Good, AdoptedOf, CooldownOf, CountsOf, BeforeWatcher, BeforeWatcher
  <1>5. AllGood
    <2>1. /\ acct \in [Accts -> Goroutine] /\ syncLog \in [Accts -> LogRow]
          /\ past \in [Accts -> History]
      BY <1>1, <1>3, NoneYet DEF SupInit
    <2>2. \A a \in Accts : Good(a, acct[a], syncLog[a], past[a], cooling, supervised)
      BY <1>4 DEF SupInit
    <2> QED
      BY <2>1, <2>2 DEF AllGood
  <1>6. Rest /\ slots \in 0..Concurrency
    <2>1. nudged \in BOOLEAN
      BY Zenon DEF SupInit
    <2>2. loop \in [pc : {"list", "start", "select"}, todo : SUBSET Accts]
      BY DEF SupInit
    <2>3. /\ slots \in 0..Concurrency /\ outages \in 0..MaxOutages
          /\ restarts \in 0..MaxRestarts
      BY SupervisorAssumption DEF SupInit
    <2>4. eligible \subseteq Accts /\ supervised \subseteq Accts
          /\ cooling \subseteq Accts
      BY DEF SupInit
    <2> QED
      BY <2>1, <2>2, <2>3, <2>4 DEF Rest
  <1>7. HerdBounded
    <2>1. {a \in Accts : acct[a].slot} = {}
      BY NoneYet DEF SupInit
    <2> QED
      BY <2>1, FS_EmptySet DEF HerdBounded, SupInit
  <1>8. Cooled
    BY DEF SupInit, Cooled
  <1> QED
    BY <1>5, <1>6, <1>7, <1>8, SafeIs DEF Base

\* Every step keeps Base.
LEMMA BaseStep ==
    ASSUME Base, [SupNext]_supVars
    PROVE  Base'
  <1>1. AllGood /\ Rest /\ HerdBounded /\ slots \in 0..Concurrency
    BY DEF Base
  <1>2. CASE List \/ Sweep \/ AllStarted \/ UNCHANGED supVars
    <2>1. UNCHANGED <<eligible, restarts, goroutineVars, supervised>>
      BY <1>2 DEF List, Sweep, AllStarted, supVars, goroutineVars
    <2>2. nudged' \in BOOLEAN
      BY <1>1, <1>2, Zenon DEF List, Sweep, AllStarted, supVars, Rest
    <2>3. loop' \in [pc : {"list", "start", "select"}, todo : SUBSET Accts]
      <3>1. CASE loop' = [pc |-> "start", todo |-> eligible]
        BY <1>1, <3>1 DEF Rest
      <3>2. CASE loop' = loop \/ loop' = [loop EXCEPT !.pc = "select"]
        BY <1>1, <3>2 DEF Rest
      <3> QED
        BY <1>2, <3>1, <3>2 DEF List, Sweep, AllStarted, supVars, eligibleAccounts
    <2>4. outages' \in 0..MaxOutages
      BY <1>1, <1>2, SupervisorAssumption
      DEF List, Sweep, AllStarted, supVars, Rest, Fine, Fault
    <2>5. Rest'
      BY <1>1, <2>1, <2>2, <2>3, <2>4 DEF Rest, goroutineVars
    <2> QED
      BY <2>1, <2>5, QuietSafe
  <1>3. ASSUME NEW a \in Accts, Provisioned(a) PROVE Base'
    <2>1. Rest' /\ UNCHANGED <<goroutineVars, supervised>>
      BY <1>1, <1>3, Zenon DEF Provisioned, Rest, goroutineVars
    <2> QED
      BY <2>1, QuietSafe
  <1>4. ASSUME NEW a \in Accts, AttemptFails(a) \/ SessionBreaks(a) PROVE Base'
    BY <1>1, <1>4, FailedCycles, FailedSafe, KeptSafe
  <1>5. ASSUME NEW a \in Accts, AccountStep(a) PROVE Base'
    BY <1>1, <1>5, KeptSafe, SyncDoneSafe, RetryElapsesSafe, loadBreakerSafe, WatchSafe,
       HalfOpenSafe,
       HealthySafe, BackoffEndsSafe
    DEF AccountStep
  <1>6. ASSUME NEW a \in Accts, \/ SyncFails(a) \/ DialTimesOut(a) \/ CooldownPasses(a)
                                \/ start(a)
        PROVE  Base'
    BY <1>1, <1>6, KeptSafe, SyncFailsSafe, DialTimesOutSafe, CooldownPassesSafe,
       startSafe
  <1> QED
    BY <1>2, <1>3, <1>4, <1>5, <1>6, ProcessRestartsSafe DEF SupNext, Loop

\* Every step keeps SupervisorSafe.
LEMMA SafeStep ==
    ASSUME SupervisorSafe, [SupNext]_supVars
    PROVE  SupervisorSafe'
  <1>1. Base /\ Cooled /\ AllGood /\ Rest
    BY SafeIs DEF Base
  <1>2. CoolsOn
    <2>1. CASE \E a \in Accts : AttemptFails(a) \/ SessionBreaks(a)
      BY <1>1, <2>1, FailedCycles, FailedCools
    <2> QED
      BY <1>1, <2>1, OthersCool DEF SupNext
  <1>3. Cooled'
    BY <1>1, <1>2 DEF Cooled, CoolsOn
  <1> QED
    BY <1>1, <1>3, BaseStep, SafeIs, PTL

\* supervisor.go:254-264 and 383-397, watcher.go:342-343 and 909-910: each
\* account has one goroutine, the semaphore counts exactly the slots held, no
\* watcher attempts a session while a cooldown runs, across restarts too, the
\* initial sync, which asks no breaker, dials in a cooldown only in a process
\* restarted in the middle of it, and the counts of failures in memory and in
\* sync_log agree.
THEOREM SupervisorIsSafe == SupSpec => []SupervisorSafe
  BY InitSafe, SafeStep, PTL DEF SupSpec

-----------------------------------------------------------------------------
(* The two rules of the breaker's steps.                                   *)

\* What OpensAtThreshold says of a step.
Opens ==
    \A a \in cooling' \ cooling :
        past[a].streak + 1 >= BreakerThreshold \/ past[a].lost

\* What HalfOpenIsOneAttempt says of a step.
OneAttempt ==
    \A a \in Accts :
        past[a].half /\ acct'[a].pc \in {"backoff", "loop"} =>
            a \in cooling' \/ past'[a].lost

\* A step does what the two rules say.
LEMMA BreakerSteps ==
    ASSUME SupervisorSafe, [SupNext]_supVars
    PROVE  Opens /\ OneAttempt
  <1>1. AllGood /\ Rest /\ slots \in 0..Concurrency
    BY SafeIs DEF Base
  <1>2. CASE \E a \in Accts : AttemptFails(a) \/ SessionBreaks(a)
    BY <1>1, <1>2, FailedCycles, FailedSafe DEF Opens, OneAttempt
  <1>3. CASE Leaves
    <2>1. \A b \in Accts : past[b].half => acct[b].pc \in {"try", "ended"}
      BY <1>1 DEF AllGood, Good, CountsOf, BeforeWatcher, BeforeWatcher
    <2> QED
      BY <1>3, <2>1 DEF Leaves, Opens, OneAttempt
  <1> QED
    BY <1>1, <1>2, <1>3, OtherSteps DEF SupNext

\* watcher.go:375-387 and 488-497: the breaker opens only after BreakerThreshold
\* failures with no healthy session between them, unless a record was lost.
THEOREM BreakerNeedsThreshold == SupSpec => OpensAtThreshold
  <1>1. SupervisorSafe /\ [SupNext]_supVars => [Opens]_supVars
    BY BreakerSteps
  <1> QED
    BY <1>1, SupervisorIsSafe, PTL DEF SupSpec, OpensAtThreshold, Opens

\* watcher.go:356-357: the one attempt after a cooldown, when it fails, opens the
\* breaker again at once, unless a record was lost.
THEOREM HalfOpenOnce == SupSpec => HalfOpenIsOneAttempt
  <1>1. SupervisorSafe /\ [SupNext]_supVars => [OneAttempt]_supVars
    BY BreakerSteps
  <1> QED
    BY <1>1, SupervisorIsSafe, PTL DEF SupSpec, HalfOpenIsOneAttempt, OneAttempt
=============================================================================
