------------------------- MODULE SupervisorSteps --------------------------
(***************************************************************************)
(* What each step of the account supervisor does to the account that takes *)
(* it, for any finite set of accounts and any limit, threshold and number  *)
(* of failures and restarts: the account's goroutine, row and history move *)
(* from good values to good values.  SupervisorProofs puts the steps       *)
(* together.                                                               *)
(***************************************************************************)
EXTENDS Supervisor, TLAPS

\* The smaller of two integers, as FiniteSetsExt computes it.
LEMMA MinTwo == \A x, y \in Int : Min({x, y}) = IF x <= y THEN x ELSE y
  <1> SUFFICES ASSUME NEW x \in Int, NEW y \in Int
               PROVE  Min({x, y}) = IF x <= y THEN x ELSE y
    OBVIOUS
  <1> DEFINE m == IF x <= y THEN x ELSE y
  <1>1. m \in {x, y} /\ \A z \in {x, y} : m <= z
    OBVIOUS
  <1>2. \A n \in {x, y} : (\A z \in {x, y} : n <= z) => n = m
    OBVIOUS
  <1> QED
    BY <1>1, <1>2 DEF Min

\* The larger of two integers.
LEMMA MaxTwo == \A x, y \in Int : Max({x, y}) = IF x >= y THEN x ELSE y
  <1> SUFFICES ASSUME NEW x \in Int, NEW y \in Int
               PROVE  Max({x, y}) = IF x >= y THEN x ELSE y
    OBVIOUS
  <1> DEFINE m == IF x >= y THEN x ELSE y
  <1>1. m \in {x, y} /\ \A z \in {x, y} : m >= z
    OBVIOUS
  <1>2. \A n \in {x, y} : (\A z \in {x, y} : n >= z) => n = m
    OBVIOUS
  <1> QED
    BY <1>1, <1>2 DEF Max

\* The saturating count: one more, or the cap.
LEMMA OneMoreIs ==
    \A n \in 0..MaxErrors :
        /\ OneMore(n) \in 0..MaxErrors /\ OneMore(n) >= n /\ OneMore(n) >= 1
        /\ OneMore(n) <= n + 1
        /\ OneMore(n) = n + 1 \/ OneMore(n) = MaxErrors
        /\ \A k \in 0..MaxErrors : k <= n => OneMore(k) <= OneMore(n)
  <1>1. \A n \in 0..MaxErrors : OneMore(n) = IF n + 1 <= MaxErrors THEN n + 1 ELSE MaxErrors
    BY SupervisorAssumption, MinTwo DEF OneMore
  <1> QED
    BY <1>1, SupervisorAssumption

-----------------------------------------------------------------------------
(* One account's values: its goroutine g, its row l and its history p.     *)

Goroutine == [pc : Steps, slot : BOOLEAN, failures : 0..(MaxErrors + 1), open : BOOLEAN]
LogRow == [errors : 0..MaxErrors, breaker : {"closed", "open", "half_open"}]
History == [starts : Nat, streak : 0..MaxErrors, half : BOOLEAN, lost : BOOLEAN,
            timedOut : BOOLEAN]

AdoptedOf(a, g, p, S) ==
    IF a \in S THEN p.starts = 1 ELSE p.starts = 0 /\ g = NoGoroutine

CooldownOf(a, g, l, p, C) ==
    /\ g.pc = "cool" => g.open
    /\ a \in C /\ ~p.lost =>
          /\ l.breaker = "open"
          /\ g.pc \notin {"try", "session", "backoff"}
          /\ g.pc = "loop" => g.open

CountsOf(g, l, p) ==
    /\ g.pc \in BeforeWatcher => g.failures = 0 /\ ~g.open
    /\ g.pc = "backoff" => ~g.open
    /\ p.half => g.pc \in {"try", "ended"}
    /\ ~p.lost =>
          /\ l.errors <= p.streak
          /\ g.pc # "session" => g.failures <= l.errors
          /\ \/ l.breaker = "open" \/ p.half
             \/ g.open /\ g.pc \in {"loop", "cool"}
             => l.errors >= BreakerThreshold

\* What the inductive invariant says of one account, C being the accounts that
\* cool and S the supervised ones.
Good(a, g, l, p, C, S) ==
    /\ g \in Goroutine /\ l \in LogRow /\ p \in History
    /\ AdoptedOf(a, g, p, S) /\ CooldownOf(a, g, l, p, C) /\ CountsOf(g, l, p)

AllGood ==
    /\ acct \in [Accts -> Goroutine] /\ syncLog \in [Accts -> LogRow]
    /\ past \in [Accts -> History]
    /\ \A a \in Accts : Good(a, acct[a], syncLog[a], past[a], cooling, supervised)

\* The variables that belong to no account.
Rest ==
    /\ eligible \subseteq Accts /\ supervised \subseteq Accts /\ cooling \subseteq Accts
    /\ loop \in [pc : {"list", "start", "select"}, todo : SUBSET Accts]
    /\ nudged \in BOOLEAN
    /\ outages \in 0..MaxOutages /\ restarts \in 0..MaxRestarts

-----------------------------------------------------------------------------
(* A step of one account.                                                  *)

\* f2 is f with the value of a replaced by v.
Put(f, f2, a, v) == f2 = [f EXCEPT ![a] = v] \/ (f2 = f /\ v = f[a])

\* How the semaphore moves with account a, whose goroutine becomes g.
SlotMove(a, g) ==
    \/ slots' = slots /\ g.slot = acct[a].slot
    \/ release(a) /\ g.slot = FALSE
    \/ slots < Concurrency /\ slots' = slots + 1 /\ ~acct[a].slot /\ g.slot = TRUE

\* Account a moves to the values g, l and p, and nobody else moves.
Becomes(a, g, l, p) ==
    /\ Put(acct, acct', a, g) /\ Put(syncLog, syncLog', a, l) /\ Put(past, past', a, p)
    /\ cooling' \cup {a} = cooling \cup {a} /\ supervised' \cup {a} = supervised \cup {a}
    /\ SlotMove(a, g)

\* What a step of one account leaves: good values, and its slot accounted for.
Kept ==
    /\ AllGood' /\ Rest'
    /\ \E a \in Accts : /\ SlotMove(a, acct'[a])
                        /\ \A b \in Accts \ {a} : acct'[b] = acct[b]

\* An account that moves to good values leaves all of them good.
LEMMA GoodStep ==
    ASSUME AllGood, Rest',
           NEW a \in Accts, NEW g, NEW l, NEW p,
           Becomes(a, g, l, p), Good(a, g, l, p, cooling', supervised')
    PROVE  Kept
  <1>1. g \in Goroutine /\ l \in LogRow /\ p \in History
    BY DEF Good
  <1>2. /\ acct' \in [Accts -> Goroutine] /\ acct'[a] = g
        /\ \A b \in Accts \ {a} : acct'[b] = acct[b]
    <2>1. acct \in [Accts -> Goroutine] /\ Put(acct, acct', a, g)
      BY DEF Becomes, AllGood
    <2> QED
      BY <1>1, <2>1 DEF Put
  <1>3. /\ syncLog' \in [Accts -> LogRow] /\ syncLog'[a] = l
        /\ \A b \in Accts \ {a} : syncLog'[b] = syncLog[b]
    <2>1. syncLog \in [Accts -> LogRow] /\ Put(syncLog, syncLog', a, l)
      BY DEF Becomes, AllGood
    <2> QED
      BY <1>1, <2>1 DEF Put
  <1>4. /\ past' \in [Accts -> History] /\ past'[a] = p
        /\ \A b \in Accts \ {a} : past'[b] = past[b]
    <2>1. past \in [Accts -> History] /\ Put(past, past', a, p)
      BY DEF Becomes, AllGood
    <2> QED
      BY <1>1, <2>1 DEF Put
  <1>5. ASSUME NEW b \in Accts \ {a}
        PROVE  Good(b, acct'[b], syncLog'[b], past'[b], cooling', supervised')
    <2>1. (b \in cooling' <=> b \in cooling) /\ (b \in supervised' <=> b \in supervised)
      BY <1>5 DEF Becomes
    <2>2. Good(b, acct[b], syncLog[b], past[b], cooling, supervised)
      BY <1>5 DEF AllGood
    <2>3. Good(b, acct[b], syncLog[b], past[b], cooling', supervised')
      BY <2>1, <2>2 DEF Good, AdoptedOf, CooldownOf
    <2> QED
      BY <1>2, <1>3, <1>4, <1>5, <2>3
  <1>6. AllGood'
    BY <1>2, <1>3, <1>4, <1>5 DEF AllGood
  <1> QED
    BY <1>2, <1>6 DEF Becomes, Kept

\* release answers, so the flag that says the slot is gone is set.
LEMMA ReleaseIs ==
    ASSUME acct \in [Accts -> Goroutine], slots \in 0..Concurrency, NEW a \in Accts, release(a)
    PROVE  (slots' = slots /\ acct[a].slot) = FALSE
  <1>1. acct[a].slot \in BOOLEAN
    BY DEF Goroutine
  <1> QED
    BY <1>1, SupervisorAssumption DEF release

\* An account without a goroutine.
LEMMA NoneYet ==
    /\ NoGoroutine \in Goroutine /\ NoGoroutine.pc = "none" /\ NoGoroutine.slot = FALSE
    /\ NoGoroutine.failures = 0 /\ NoGoroutine.open = FALSE
  <1>1. NoGoroutine.pc = "none" /\ NoGoroutine.failures = 0
    BY DEF NoGoroutine
  <1>2. NoGoroutine.slot = FALSE /\ NoGoroutine.open = FALSE
    BY DEF NoGoroutine
  <1>3. "none" \in Steps /\ 0 \in 0..(MaxErrors + 1)
    BY SupervisorAssumption DEF Steps
  <1>4. NoGoroutine \in Goroutine
    BY <1>3, Zenon DEF NoGoroutine, Goroutine
  <1> QED
    BY <1>1, <1>2, <1>4

\* The goroutine after its step and its slot changed.
LEMMA SlotTaken ==
    \A g \in Goroutine, pc \in Steps, s \in BOOLEAN :
        LET h == [g EXCEPT !.pc = pc, !.slot = s]
        IN  /\ h \in Goroutine /\ h.pc = pc /\ h.slot = s
            /\ h.failures = g.failures /\ h.open = g.open
  BY Zenon DEF Goroutine

\* RecordSyncError adds one, up to the cap.
LEMMA RecordIs ==
    ASSUME NEW a \in Accts
    PROVE  RecordSyncError(a) = [syncLog EXCEPT ![a] = [syncLog[a] EXCEPT !.errors = OneMore(@)]]
  BY DEF RecordSyncError, OneMore

\* start leaves all accounts good.
LEMMA startSafe ==
    ASSUME AllGood, Rest, slots \in 0..Concurrency, NEW a \in Accts, start(a)
    PROVE  Kept
  <1>0. AllGood /\ Rest /\ slots \in 0..Concurrency
    OBVIOUS
  <1>1. CASE a \in supervised
    <2> DEFINE g == acct[a]
               l == syncLog[a]
               p == past[a]
    <2>1. Good(a, acct[a], syncLog[a], past[a], cooling, supervised)
      BY <1>0 DEF AllGood
    <2>2. cooling' = cooling /\ supervised' = supervised
      BY <1>1, <1>0 DEF start, Moves, loopVars
    <2>3. Rest'
      BY <1>1, <1>0, SupervisorAssumption DEF Rest, start, loopVars, Fine, Fault, Moves
    <2>4. Put(acct, acct', a, g) /\ Put(syncLog, syncLog', a, l) /\ Put(past, past', a, p)
      BY <1>1, <1>0 DEF start, Put, Moves, AllGood
    <2>5. acct[a] \in Goroutine /\ syncLog[a] \in LogRow /\ past[a] \in History
      BY <2>1 DEF Good
    <2>6. SlotMove(a, g)
      BY <1>1, <2>1, <2>2, <2>5 DEF start, SlotMove, Moves, loopVars, Good, AdoptedOf
    <2>7. AdoptedOf(a, g, p, supervised') /\ g \in Goroutine /\ l \in LogRow
          /\ p \in History
      BY <1>1, <2>1, <2>2, SupervisorAssumption DEF Good, AdoptedOf, NoGoroutine, History
    <2>8. CooldownOf(a, g, l, p, cooling')
      BY <1>1, <2>1, <2>2, SupervisorAssumption DEF Good, CooldownOf
    <2>9. CountsOf(g, l, p)
      BY <1>1, <2>1, <2>2, SupervisorAssumption
      DEF Good, CountsOf, BeforeWatcher, BeforeWatcher, Goroutine, LogRow, History, AdoptedOf, NoGoroutine
    <2> QED
      BY <1>0, <2>2, <2>3, <2>4, <2>6, <2>7, <2>8, <2>9, GoodStep DEF Good, Becomes
  <1>2. CASE a \notin supervised /\ Launch(a)
    <2> DEFINE g == [NoGoroutine EXCEPT !.pc = "sync", !.slot = TRUE]
               l == syncLog[a]
               p == [past[a] EXCEPT !.starts = @ + 1]
    <2>1. Good(a, acct[a], syncLog[a], past[a], cooling, supervised)
      BY <1>0 DEF AllGood
    <2>2. cooling' = cooling /\ supervised' = supervised \cup {a}
      BY <1>2, <1>0 DEF start, Launch, NoGoroutine, Moves, loopVars
    <2>3. Rest'
      BY <1>2, <1>0, SupervisorAssumption
      DEF Rest, start, Launch, NoGoroutine, loopVars, Fine, Fault, Moves
    <2>4. Put(acct, acct', a, g) /\ Put(syncLog, syncLog', a, l) /\ Put(past, past', a, p)
      BY <1>2, <1>0 DEF start, Launch, NoGoroutine, Put, Moves, AllGood
    <2>5. acct[a] \in Goroutine /\ syncLog[a] \in LogRow /\ past[a] \in History
      BY <2>1 DEF Good
    <2>6a. g \in Goroutine /\ g.pc = "sync" /\ g.slot = TRUE /\ g.failures = 0
           /\ g.open = FALSE
      <3>1. "sync" \in Steps
        BY DEF Steps
      <3>2. g \in Goroutine /\ g.pc = "sync" /\ g.slot = TRUE
            /\ g.failures = NoGoroutine.failures /\ g.open = NoGoroutine.open
        BY <3>1, NoneYet, SlotTaken, Zenon
      <3> QED
        BY <3>2, NoneYet
    <2>6b. p \in History /\ p.starts = past[a].starts + 1 /\ p.streak = past[a].streak
           /\ p.half = past[a].half /\ p.lost = past[a].lost
      BY <2>5, SupervisorAssumption DEF History
    <2> HIDE DEF g, p
    <2>6. SlotMove(a, g)
      BY <1>2, <2>1, <2>2, <2>6a, <2>6b, <2>5
      DEF start, Launch, NoGoroutine, SlotMove, Moves, loopVars, Good, AdoptedOf,
          NoGoroutine
    <2>7. AdoptedOf(a, g, p, supervised') /\ g \in Goroutine /\ l \in LogRow
          /\ p \in History
      BY <1>2, <2>1, <2>2, <2>6a, <2>6b, SupervisorAssumption
      DEF Good, AdoptedOf, NoGoroutine, History
    <2>8. CooldownOf(a, g, l, p, cooling')
      BY <1>2, <2>1, <2>2, <2>6a, <2>6b, SupervisorAssumption DEF Good, CooldownOf
    <2>9. CountsOf(g, l, p)
      BY <1>2, <2>1, <2>2, <2>6a, <2>6b, SupervisorAssumption
      DEF Good, CountsOf, BeforeWatcher, BeforeWatcher, Goroutine, LogRow, History, AdoptedOf, NoGoroutine
    <2> QED
      BY <1>0, <2>2, <2>3, <2>4, <2>6, <2>7, <2>8, <2>9, GoodStep DEF Good, Becomes
  <1> QED
    BY <1>1, <1>2 DEF start

\* RetryElapses leaves all accounts good.
LEMMA RetryElapsesSafe ==
    ASSUME AllGood, Rest, slots \in 0..Concurrency, NEW a \in Accts, RetryElapses(a)
    PROVE  Kept
  <1>0. AllGood /\ Rest /\ slots \in 0..Concurrency
    OBVIOUS
  <1> DEFINE g == [acct[a] EXCEPT !.pc = "sync"]
             l == syncLog[a]
             p == past[a]
  <1>1. Good(a, acct[a], syncLog[a], past[a], cooling, supervised)
    BY <1>0 DEF AllGood
  <1>2. acct[a].pc = "retry" /\ cooling' = cooling /\ supervised' = supervised
    BY <1>0 DEF RetryElapses, Moves, loopVars
  <1>3. Rest'
    BY <1>0, SupervisorAssumption DEF Rest, RetryElapses, loopVars, Fine, Fault, Moves
  <1>4. Put(acct, acct', a, g) /\ Put(syncLog, syncLog', a, l) /\ Put(past, past', a, p)
    BY <1>0 DEF RetryElapses, Put, Moves, AllGood
  <1>5. acct[a] \in Goroutine /\ syncLog[a] \in LogRow /\ past[a] \in History
    BY <1>1 DEF Good
  <1>6a. g \in Goroutine /\ g.pc = "sync" /\ g.slot = acct[a].slot
         /\ g.failures = acct[a].failures /\ g.open = acct[a].open
    BY <1>5, SupervisorAssumption DEF Goroutine, Steps
  <1> HIDE DEF g
  <1>6. SlotMove(a, g)
    BY <1>1, <1>2, <1>6a, <1>5
    DEF RetryElapses, SlotMove, Moves, loopVars, Good, AdoptedOf
  <1>7. AdoptedOf(a, g, p, supervised') /\ g \in Goroutine /\ l \in LogRow
        /\ p \in History
    BY <1>1, <1>2, <1>6a, SupervisorAssumption DEF Good, AdoptedOf, NoGoroutine, History
  <1>8. CooldownOf(a, g, l, p, cooling')
    BY <1>1, <1>2, <1>6a, SupervisorAssumption DEF Good, CooldownOf
  <1>9. CountsOf(g, l, p)
    BY <1>1, <1>2, <1>6a, SupervisorAssumption
    DEF Good, CountsOf, BeforeWatcher, BeforeWatcher, Goroutine, LogRow, History
  <1> QED
    BY <1>0, <1>2, <1>3, <1>4, <1>6, <1>7, <1>8, <1>9, GoodStep DEF Good, Becomes

\* BackoffEnds leaves all accounts good.
LEMMA BackoffEndsSafe ==
    ASSUME AllGood, Rest, slots \in 0..Concurrency, NEW a \in Accts, BackoffEnds(a)
    PROVE  Kept
  <1>0. AllGood /\ Rest /\ slots \in 0..Concurrency
    OBVIOUS
  <1> DEFINE g == [acct[a] EXCEPT !.pc = "loop"]
             l == syncLog[a]
             p == past[a]
  <1>1. Good(a, acct[a], syncLog[a], past[a], cooling, supervised)
    BY <1>0 DEF AllGood
  <1>2. acct[a].pc = "backoff" /\ cooling' = cooling /\ supervised' = supervised
    BY <1>0 DEF BackoffEnds, Moves, loopVars
  <1>3. Rest'
    BY <1>0, SupervisorAssumption DEF Rest, BackoffEnds, loopVars, Fine, Fault, Moves
  <1>4. Put(acct, acct', a, g) /\ Put(syncLog, syncLog', a, l) /\ Put(past, past', a, p)
    BY <1>0 DEF BackoffEnds, Put, Moves, AllGood
  <1>5. acct[a] \in Goroutine /\ syncLog[a] \in LogRow /\ past[a] \in History
    BY <1>1 DEF Good
  <1>6a. g \in Goroutine /\ g.pc = "loop" /\ g.slot = acct[a].slot
         /\ g.failures = acct[a].failures /\ g.open = acct[a].open
    BY <1>5, SupervisorAssumption DEF Goroutine, Steps
  <1> HIDE DEF g
  <1>6. SlotMove(a, g)
    BY <1>1, <1>2, <1>6a, <1>5 DEF BackoffEnds, SlotMove, Moves, loopVars, Good, AdoptedOf
  <1>7. AdoptedOf(a, g, p, supervised') /\ g \in Goroutine /\ l \in LogRow
        /\ p \in History
    BY <1>1, <1>2, <1>6a, SupervisorAssumption DEF Good, AdoptedOf, NoGoroutine, History
  <1>8. CooldownOf(a, g, l, p, cooling')
    BY <1>1, <1>2, <1>6a, SupervisorAssumption DEF Good, CooldownOf
  <1>9. CountsOf(g, l, p)
    BY <1>1, <1>2, <1>6a, SupervisorAssumption
    DEF Good, CountsOf, BeforeWatcher, BeforeWatcher, Goroutine, LogRow, History
  <1> QED
    BY <1>0, <1>2, <1>3, <1>4, <1>6, <1>7, <1>8, <1>9, GoodStep DEF Good, Becomes

\* Watch leaves all accounts good.
LEMMA WatchSafe ==
    ASSUME AllGood, Rest, slots \in 0..Concurrency, NEW a \in Accts, Watch(a)
    PROVE  Kept
  <1>0. AllGood /\ Rest /\ slots \in 0..Concurrency
    OBVIOUS
  <1> DEFINE g == [acct[a] EXCEPT !.pc = IF remaining(a) THEN "cool" ELSE "try"]
             l == syncLog[a]
             p == past[a]
  <1>1. Good(a, acct[a], syncLog[a], past[a], cooling, supervised)
    BY <1>0 DEF AllGood
  <1>2. acct[a].pc = "loop" /\ cooling' = cooling /\ supervised' = supervised
    BY <1>0 DEF Watch, remaining, Moves, loopVars
  <1>3. Rest'
    BY <1>0, SupervisorAssumption DEF Rest, Watch, remaining, loopVars, Fine, Fault, Moves
  <1>4. Put(acct, acct', a, g) /\ Put(syncLog, syncLog', a, l) /\ Put(past, past', a, p)
    BY <1>0 DEF Watch, remaining, Put, Moves, AllGood
  <1>5. acct[a] \in Goroutine /\ syncLog[a] \in LogRow /\ past[a] \in History
    BY <1>1 DEF Good
  <1>6a. g \in Goroutine /\ g.pc = (IF remaining(a) THEN "cool" ELSE "try")
         /\ g.slot = acct[a].slot /\ g.failures = acct[a].failures /\ g.open = acct[a].open
    BY <1>5, SupervisorAssumption DEF Goroutine, Steps, remaining
  <1> HIDE DEF g
  <1>6. SlotMove(a, g)
    BY <1>1, <1>2, <1>6a, <1>5
    DEF Watch, remaining, SlotMove, Moves, loopVars, Good, AdoptedOf
  <1>7. AdoptedOf(a, g, p, supervised') /\ g \in Goroutine /\ l \in LogRow
        /\ p \in History
    BY <1>1, <1>2, <1>6a, SupervisorAssumption DEF Good, AdoptedOf, NoGoroutine, History
  <1>8. CooldownOf(a, g, l, p, cooling')
    BY <1>1, <1>2, <1>6a, SupervisorAssumption DEF Good, CooldownOf, remaining
  <1>9. CountsOf(g, l, p)
    BY <1>1, <1>2, <1>6a, SupervisorAssumption
    DEF Good, CountsOf, BeforeWatcher, BeforeWatcher, Goroutine, LogRow, History, remaining
  <1> QED
    BY <1>0, <1>2, <1>3, <1>4, <1>6, <1>7, <1>8, <1>9, GoodStep DEF Good, Becomes

\* CooldownPasses leaves all accounts good.
LEMMA CooldownPassesSafe ==
    ASSUME AllGood, Rest, slots \in 0..Concurrency, NEW a \in Accts, CooldownPasses(a)
    PROVE  Kept
  <1>0. AllGood /\ Rest /\ slots \in 0..Concurrency
    OBVIOUS
  <1> DEFINE g == acct[a]
             l == syncLog[a]
             p == past[a]
  <1>1. Good(a, acct[a], syncLog[a], past[a], cooling, supervised)
    BY <1>0 DEF AllGood
  <1>2. cooling' = cooling \ {a} /\ supervised' = supervised
    BY <1>0 DEF CooldownPasses, Moves, loopVars
  <1>3. Rest'
    BY <1>0, SupervisorAssumption DEF Rest, CooldownPasses, loopVars, Fine, Fault, Moves
  <1>4. Put(acct, acct', a, g) /\ Put(syncLog, syncLog', a, l) /\ Put(past, past', a, p)
    BY <1>0 DEF CooldownPasses, Put, Moves, AllGood
  <1>5. acct[a] \in Goroutine /\ syncLog[a] \in LogRow /\ past[a] \in History
    BY <1>1 DEF Good
  <1>6. SlotMove(a, g)
    BY <1>1, <1>2, <1>5 DEF CooldownPasses, SlotMove, Moves, loopVars, Good, AdoptedOf
  <1>7. AdoptedOf(a, g, p, supervised') /\ g \in Goroutine /\ l \in LogRow
        /\ p \in History
    BY <1>1, <1>2, SupervisorAssumption DEF Good, AdoptedOf, NoGoroutine, History
  <1>8. CooldownOf(a, g, l, p, cooling')
    BY <1>1, <1>2, SupervisorAssumption DEF Good, CooldownOf
  <1>9. CountsOf(g, l, p)
    BY <1>1, <1>2, SupervisorAssumption DEF Good, CountsOf, BeforeWatcher, BeforeWatcher, Goroutine, LogRow, History
  <1> QED
    BY <1>0, <1>2, <1>3, <1>4, <1>6, <1>7, <1>8, <1>9, GoodStep DEF Good, Becomes

\* loadBreaker leaves all accounts good.
LEMMA loadBreakerSafe ==
    ASSUME AllGood, Rest, slots \in 0..Concurrency, NEW a \in Accts, loadBreaker(a)
    PROVE  Kept
  <1>0. AllGood /\ Rest /\ slots \in 0..Concurrency
    OBVIOUS
  <1>1. CASE Fine
        /\ Moves(a, [acct[a] EXCEPT !.pc = "loop", !.failures = syncLog[a].errors, !.open = syncLog[a].breaker = "open"], past[a], syncLog)
    <2> DEFINE g == [acct[a] EXCEPT !.pc = "loop", !.failures = syncLog[a].errors, !.open = syncLog[a].breaker = "open"]
               l == syncLog[a]
               p == past[a]
    <2>1. Good(a, acct[a], syncLog[a], past[a], cooling, supervised)
      BY <1>0 DEF AllGood
    <2>2. acct[a].pc = "watch" /\ cooling' = cooling /\ supervised' = supervised
      BY <1>1, <1>0 DEF loadBreaker, Moves, loopVars
    <2>3. Rest'
      BY <1>1, <1>0, SupervisorAssumption
      DEF Rest, loadBreaker, loopVars, Fine, Fault, Moves
    <2>4. Put(acct, acct', a, g) /\ Put(syncLog, syncLog', a, l) /\ Put(past, past', a, p)
      BY <1>1, <1>0 DEF loadBreaker, Put, Moves, AllGood
    <2>5. acct[a] \in Goroutine /\ syncLog[a] \in LogRow /\ past[a] \in History
      BY <2>1 DEF Good
    <2>6a. g \in Goroutine /\ g.pc = "loop" /\ g.slot = acct[a].slot
           /\ g.failures = syncLog[a].errors /\ g.open = (syncLog[a].breaker = "open")
      <3> DEFINE o == syncLog[a].breaker = "open"
      <3>1. o \in BOOLEAN /\ "loop" \in Steps /\ syncLog[a].errors \in 0..(MaxErrors + 1)
        BY <2>5, SupervisorAssumption DEF LogRow, Steps
      <3> HIDE DEF o
      <3>2. LET h == [acct[a] EXCEPT !.pc = "loop", !.failures = syncLog[a].errors, !.open = o]
           IN  h \in Goroutine /\ h.pc = "loop" /\ h.slot = acct[a].slot /\ h.failures = syncLog[a].errors /\ h.open = o
        BY <2>5, <3>1, Zenon DEF Goroutine
      <3> QED
        BY <3>2 DEF o
    <2> HIDE DEF g
    <2>6. SlotMove(a, g)
      BY <1>1, <2>1, <2>2, <2>6a, <2>5
      DEF loadBreaker, SlotMove, Moves, loopVars, Good, AdoptedOf
    <2>7. AdoptedOf(a, g, p, supervised') /\ g \in Goroutine /\ l \in LogRow
          /\ p \in History
      BY <1>1, <2>1, <2>2, <2>6a, SupervisorAssumption
      DEF Good, AdoptedOf, NoGoroutine, History
    <2>8. CooldownOf(a, g, l, p, cooling')
      BY <1>1, <2>1, <2>2, <2>6a, SupervisorAssumption, Zenon DEF Good, CooldownOf
    <2>9. CountsOf(g, l, p)
      BY <1>1, <2>1, <2>2, <2>6a, SupervisorAssumption
      DEF Good, CountsOf, BeforeWatcher, BeforeWatcher, Goroutine, LogRow, History
    <2> QED
      BY <1>0, <2>2, <2>3, <2>4, <2>6, <2>7, <2>8, <2>9, GoodStep DEF Good, Becomes
  <1>2. CASE Fault
        /\ Moves(a, [acct[a] EXCEPT !.pc = "loop"], [past[a] EXCEPT !.lost = TRUE], syncLog)
    <2> DEFINE g == [acct[a] EXCEPT !.pc = "loop"]
               l == syncLog[a]
               p == [past[a] EXCEPT !.lost = TRUE]
    <2>1. Good(a, acct[a], syncLog[a], past[a], cooling, supervised)
      BY <1>0 DEF AllGood
    <2>2. acct[a].pc = "watch" /\ cooling' = cooling /\ supervised' = supervised
      BY <1>2, <1>0 DEF loadBreaker, Moves, loopVars
    <2>3. Rest'
      BY <1>2, <1>0, SupervisorAssumption
      DEF Rest, loadBreaker, loopVars, Fine, Fault, Moves
    <2>4. Put(acct, acct', a, g) /\ Put(syncLog, syncLog', a, l) /\ Put(past, past', a, p)
      BY <1>2, <1>0 DEF loadBreaker, Put, Moves, AllGood
    <2>5. acct[a] \in Goroutine /\ syncLog[a] \in LogRow /\ past[a] \in History
      BY <2>1 DEF Good
    <2>6a. g \in Goroutine /\ g.pc = "loop" /\ g.slot = acct[a].slot
           /\ g.failures = acct[a].failures /\ g.open = acct[a].open
      BY <2>5, SupervisorAssumption DEF Goroutine, Steps
    <2>6b. p \in History /\ p.starts = past[a].starts /\ p.streak = past[a].streak
           /\ p.half = past[a].half /\ p.lost = TRUE
      BY <2>5, SupervisorAssumption, Zenon DEF History
    <2> HIDE DEF g, p
    <2>6. SlotMove(a, g)
      BY <1>2, <2>1, <2>2, <2>6a, <2>6b, <2>5
      DEF loadBreaker, SlotMove, Moves, loopVars, Good, AdoptedOf
    <2>7. AdoptedOf(a, g, p, supervised') /\ g \in Goroutine /\ l \in LogRow
          /\ p \in History
      BY <1>2, <2>1, <2>2, <2>6a, <2>6b, SupervisorAssumption
      DEF Good, AdoptedOf, NoGoroutine, History
    <2>8. CooldownOf(a, g, l, p, cooling')
      BY <1>2, <2>1, <2>2, <2>6a, <2>6b, SupervisorAssumption DEF Good, CooldownOf
    <2>9. CountsOf(g, l, p)
      BY <1>2, <2>1, <2>2, <2>6a, <2>6b, SupervisorAssumption
      DEF Good, CountsOf, BeforeWatcher, BeforeWatcher, Goroutine, LogRow, History
    <2> QED
      BY <1>0, <2>2, <2>3, <2>4, <2>6, <2>7, <2>8, <2>9, GoodStep DEF Good, Becomes
  <1> QED
    BY <1>1, <1>2 DEF loadBreaker

\* HalfOpen leaves all accounts good.
LEMMA HalfOpenSafe ==
    ASSUME AllGood, Rest, slots \in 0..Concurrency, NEW a \in Accts, HalfOpen(a)
    PROVE  Kept
  <1>0. AllGood /\ Rest /\ slots \in 0..Concurrency
    OBVIOUS
  <1>1. CASE Fine
        /\ Moves(a, [acct[a] EXCEPT !.pc = "try", !.open = FALSE], [past[a] EXCEPT !.half = TRUE], [syncLog EXCEPT ![a].breaker = "half_open"])
    <2> DEFINE g == [acct[a] EXCEPT !.pc = "try", !.open = FALSE]
               l == [syncLog[a] EXCEPT !.breaker = "half_open"]
               p == [past[a] EXCEPT !.half = TRUE]
    <2>1. Good(a, acct[a], syncLog[a], past[a], cooling, supervised)
      BY <1>0 DEF AllGood
    <2>2. acct[a].pc = "cool" /\ ~remaining(a) /\ cooling' = cooling
          /\ supervised' = supervised
      BY <1>1, <1>0 DEF HalfOpen, remaining, Moves, loopVars
    <2>3. Rest'
      BY <1>1, <1>0, SupervisorAssumption
      DEF Rest, HalfOpen, remaining, loopVars, Fine, Fault, Moves
    <2>4. Put(acct, acct', a, g) /\ Put(syncLog, syncLog', a, l) /\ Put(past, past', a, p)
      BY <1>1, <1>0 DEF HalfOpen, remaining, Put, Moves, AllGood
    <2>5. acct[a] \in Goroutine /\ syncLog[a] \in LogRow /\ past[a] \in History
      BY <2>1 DEF Good
    <2>6a. g \in Goroutine /\ g.pc = "try" /\ g.slot = acct[a].slot
           /\ g.failures = acct[a].failures /\ g.open = FALSE
      BY <2>5, SupervisorAssumption, Zenon DEF Goroutine, Steps, remaining
    <2>6b. l \in LogRow /\ l.errors = syncLog[a].errors /\ l.breaker = "half_open"
      BY <2>5, SupervisorAssumption DEF LogRow, remaining
    <2>6c. p \in History /\ p.starts = past[a].starts /\ p.streak = past[a].streak
           /\ p.half = TRUE /\ p.lost = past[a].lost
      BY <2>5, SupervisorAssumption, Zenon DEF History
    <2> HIDE DEF g, l, p
    <2>6. SlotMove(a, g)
      BY <1>1, <2>1, <2>2, <2>6a, <2>6b, <2>6c, <2>5
      DEF HalfOpen, remaining, SlotMove, Moves, loopVars, Good, AdoptedOf
    <2>7. AdoptedOf(a, g, p, supervised') /\ g \in Goroutine /\ l \in LogRow
          /\ p \in History
      BY <1>1, <2>1, <2>2, <2>6a, <2>6b, <2>6c, SupervisorAssumption
      DEF Good, AdoptedOf, NoGoroutine, History
    <2>8. CooldownOf(a, g, l, p, cooling')
      BY <1>1, <2>1, <2>2, <2>6a, <2>6b, <2>6c, SupervisorAssumption
      DEF Good, CooldownOf, remaining
    <2>9. CountsOf(g, l, p)
      BY <1>1, <2>1, <2>2, <2>6a, <2>6b, <2>6c, SupervisorAssumption
      DEF Good, CountsOf, BeforeWatcher, BeforeWatcher, Goroutine, LogRow, History, remaining, CooldownOf
    <2> QED
      BY <1>0, <2>2, <2>3, <2>4, <2>6, <2>7, <2>8, <2>9, GoodStep DEF Good, Becomes
  <1>2. CASE Fault
        /\ Moves(a, [acct[a] EXCEPT !.pc = "try", !.open = FALSE], [past[a] EXCEPT !.half = TRUE], syncLog)
    <2> DEFINE g == [acct[a] EXCEPT !.pc = "try", !.open = FALSE]
               l == syncLog[a]
               p == [past[a] EXCEPT !.half = TRUE]
    <2>1. Good(a, acct[a], syncLog[a], past[a], cooling, supervised)
      BY <1>0 DEF AllGood
    <2>2. acct[a].pc = "cool" /\ ~remaining(a) /\ cooling' = cooling
          /\ supervised' = supervised
      BY <1>2, <1>0 DEF HalfOpen, remaining, Moves, loopVars
    <2>3. Rest'
      BY <1>2, <1>0, SupervisorAssumption
      DEF Rest, HalfOpen, remaining, loopVars, Fine, Fault, Moves
    <2>4. Put(acct, acct', a, g) /\ Put(syncLog, syncLog', a, l) /\ Put(past, past', a, p)
      BY <1>2, <1>0 DEF HalfOpen, remaining, Put, Moves, AllGood
    <2>5. acct[a] \in Goroutine /\ syncLog[a] \in LogRow /\ past[a] \in History
      BY <2>1 DEF Good
    <2>6a. g \in Goroutine /\ g.pc = "try" /\ g.slot = acct[a].slot
           /\ g.failures = acct[a].failures /\ g.open = FALSE
      BY <2>5, SupervisorAssumption, Zenon DEF Goroutine, Steps, remaining
    <2>6b. p \in History /\ p.starts = past[a].starts /\ p.streak = past[a].streak
           /\ p.half = TRUE /\ p.lost = past[a].lost
      BY <2>5, SupervisorAssumption, Zenon DEF History
    <2> HIDE DEF g, p
    <2>6. SlotMove(a, g)
      BY <1>2, <2>1, <2>2, <2>6a, <2>6b, <2>5
      DEF HalfOpen, remaining, SlotMove, Moves, loopVars, Good, AdoptedOf
    <2>7. AdoptedOf(a, g, p, supervised') /\ g \in Goroutine /\ l \in LogRow
          /\ p \in History
      BY <1>2, <2>1, <2>2, <2>6a, <2>6b, SupervisorAssumption
      DEF Good, AdoptedOf, NoGoroutine, History
    <2>8. CooldownOf(a, g, l, p, cooling')
      BY <1>2, <2>1, <2>2, <2>6a, <2>6b, SupervisorAssumption
      DEF Good, CooldownOf, remaining
    <2>9. CountsOf(g, l, p)
      BY <1>2, <2>1, <2>2, <2>6a, <2>6b, SupervisorAssumption
      DEF Good, CountsOf, BeforeWatcher, BeforeWatcher, Goroutine, LogRow, History, remaining, CooldownOf
    <2> QED
      BY <1>0, <2>2, <2>3, <2>4, <2>6, <2>7, <2>8, <2>9, GoodStep DEF Good, Becomes
  <1> QED
    BY <1>1, <1>2 DEF HalfOpen

\* Healthy leaves all accounts good.
LEMMA HealthySafe ==
    ASSUME AllGood, Rest, slots \in 0..Concurrency, NEW a \in Accts, Healthy(a)
    PROVE  Kept
  <1>0. AllGood /\ Rest /\ slots \in 0..Concurrency
    OBVIOUS
  <1>1. CASE Fine
        /\ Moves(a, [acct[a] EXCEPT !.pc = "session"], [past[a] EXCEPT !.streak = 0, !.half = FALSE, !.lost = FALSE], RecordSyncSuccess(a)) /\ cooling' = cooling \ {a}
    <2> DEFINE g == [acct[a] EXCEPT !.pc = "session"]
               l == ClosedLog
               p == [past[a] EXCEPT !.streak = 0, !.half = FALSE, !.lost = FALSE]
    <2>1. Good(a, acct[a], syncLog[a], past[a], cooling, supervised)
      BY <1>0 DEF AllGood
    <2>2. acct[a].pc = "try" /\ cooling' = cooling \ {a} /\ supervised' = supervised
      BY <1>1, <1>0 DEF Healthy, RecordSyncSuccess, ClosedLog, Moves, loopVars
    <2>3. Rest'
      BY <1>1, <1>0, SupervisorAssumption
      DEF Rest, Healthy, RecordSyncSuccess, ClosedLog, loopVars, Fine, Fault, Moves
    <2>4. Put(acct, acct', a, g) /\ Put(syncLog, syncLog', a, l) /\ Put(past, past', a, p)
      BY <1>1, <1>0 DEF Healthy, RecordSyncSuccess, ClosedLog, Put, Moves, AllGood
    <2>5. acct[a] \in Goroutine /\ syncLog[a] \in LogRow /\ past[a] \in History
      BY <2>1 DEF Good
    <2>6a. g \in Goroutine /\ g.pc = "session" /\ g.slot = acct[a].slot
           /\ g.failures = acct[a].failures /\ g.open = acct[a].open
      BY <2>5, SupervisorAssumption DEF Goroutine, Steps, ClosedLog
    <2>6b. l \in LogRow /\ l.errors = 0 /\ l.breaker = "closed"
      BY <2>5, SupervisorAssumption DEF LogRow, ClosedLog
    <2>6c. p \in History /\ p.starts = past[a].starts /\ p.streak = 0
           /\ p.half = FALSE /\ p.lost = FALSE
      <3>1. 0 \in 0..MaxErrors
        BY SupervisorAssumption
      <3>2. PICK f \in BOOLEAN : f = FALSE
        BY Zenon
      <3>3. PICK t \in BOOLEAN : t = TRUE
        BY Zenon
      <3>4. p = [past[a] EXCEPT !.streak = 0, !.half = f, !.lost = f]
        BY <3>2, <3>3, Zenon
      <3> HIDE DEF p
      <3>5. p \in History /\ p.starts = past[a].starts /\ p.streak = 0 /\ p.half = f
            /\ p.lost = f
        BY <3>1, <3>4, <2>5, Zenon DEF History
      <3> QED
        BY <3>2, <3>3, <3>5
    <2> HIDE DEF g, l, p
    <2>6. SlotMove(a, g)
      BY <1>1, <2>1, <2>2, <2>6a, <2>6b, <2>6c, <2>5
      DEF Healthy, RecordSyncSuccess, ClosedLog, SlotMove, Moves, loopVars, Good,
          AdoptedOf
    <2>7. AdoptedOf(a, g, p, supervised') /\ g \in Goroutine /\ l \in LogRow
          /\ p \in History
      BY <1>1, <2>1, <2>2, <2>6a, <2>6b, <2>6c, SupervisorAssumption
      DEF Good, AdoptedOf, NoGoroutine, History
    <2>8. CooldownOf(a, g, l, p, cooling')
      BY <1>1, <2>1, <2>2, <2>6a, <2>6b, <2>6c, SupervisorAssumption DEF Good, CooldownOf
    <2>9. CountsOf(g, l, p)
      BY <1>1, <2>1, <2>2, <2>6a, <2>6b, <2>6c, SupervisorAssumption
      DEF Good, CountsOf, BeforeWatcher, BeforeWatcher, Goroutine, LogRow, History
    <2> QED
      BY <1>0, <2>2, <2>3, <2>4, <2>6, <2>7, <2>8, <2>9, GoodStep DEF Good, Becomes
  <1>2. CASE Fault /\ UNCHANGED cooling
        /\ Moves(a, [acct[a] EXCEPT !.pc = "session"], [past[a] EXCEPT !.streak = 0, !.half = FALSE, !.lost = TRUE], syncLog)
    <2> DEFINE g == [acct[a] EXCEPT !.pc = "session"]
               l == syncLog[a]
               p == [past[a] EXCEPT !.streak = 0, !.half = FALSE, !.lost = TRUE]
    <2>1. Good(a, acct[a], syncLog[a], past[a], cooling, supervised)
      BY <1>0 DEF AllGood
    <2>2. acct[a].pc = "try" /\ cooling' = cooling /\ supervised' = supervised
      BY <1>2, <1>0 DEF Healthy, Moves, loopVars
    <2>3. Rest'
      BY <1>2, <1>0, SupervisorAssumption DEF Rest, Healthy, loopVars, Fine, Fault, Moves
    <2>4. Put(acct, acct', a, g) /\ Put(syncLog, syncLog', a, l) /\ Put(past, past', a, p)
      BY <1>2, <1>0 DEF Healthy, Put, Moves, AllGood
    <2>5. acct[a] \in Goroutine /\ syncLog[a] \in LogRow /\ past[a] \in History
      BY <2>1 DEF Good
    <2>6a. g \in Goroutine /\ g.pc = "session" /\ g.slot = acct[a].slot
           /\ g.failures = acct[a].failures /\ g.open = acct[a].open
      BY <2>5, SupervisorAssumption DEF Goroutine, Steps
    <2>6b. p \in History /\ p.starts = past[a].starts /\ p.streak = 0
           /\ p.half = FALSE /\ p.lost = TRUE
      <3>1. 0 \in 0..MaxErrors
        BY SupervisorAssumption
      <3>2. PICK f \in BOOLEAN : f = FALSE
        BY Zenon
      <3>3. PICK t \in BOOLEAN : t = TRUE
        BY Zenon
      <3>4. p = [past[a] EXCEPT !.streak = 0, !.half = f, !.lost = t]
        BY <3>2, <3>3, Zenon
      <3> HIDE DEF p
      <3>5. p \in History /\ p.starts = past[a].starts /\ p.streak = 0 /\ p.half = f
            /\ p.lost = t
        BY <3>1, <3>4, <2>5, Zenon DEF History
      <3> QED
        BY <3>2, <3>3, <3>5
    <2> HIDE DEF g, p
    <2>6. SlotMove(a, g)
      BY <1>2, <2>1, <2>2, <2>6a, <2>6b, <2>5
      DEF Healthy, SlotMove, Moves, loopVars, Good, AdoptedOf
    <2>7. AdoptedOf(a, g, p, supervised') /\ g \in Goroutine /\ l \in LogRow
          /\ p \in History
      BY <1>2, <2>1, <2>2, <2>6a, <2>6b, SupervisorAssumption
      DEF Good, AdoptedOf, NoGoroutine, History
    <2>8. CooldownOf(a, g, l, p, cooling')
      BY <1>2, <2>1, <2>2, <2>6a, <2>6b, SupervisorAssumption DEF Good, CooldownOf
    <2>9. CountsOf(g, l, p)
      BY <1>2, <2>1, <2>2, <2>6a, <2>6b, SupervisorAssumption
      DEF Good, CountsOf, BeforeWatcher, BeforeWatcher, Goroutine, LogRow, History
    <2> QED
      BY <1>0, <2>2, <2>3, <2>4, <2>6, <2>7, <2>8, <2>9, GoodStep DEF Good, Becomes
  <1> QED
    BY <1>1, <1>2 DEF Healthy

\* SyncDone leaves all accounts good.
LEMMA SyncDoneSafe ==
    ASSUME AllGood, Rest, slots \in 0..Concurrency, NEW a \in Accts, SyncDone(a)
    PROVE  Kept
  <1>0. AllGood /\ Rest /\ slots \in 0..Concurrency
    OBVIOUS
  <1>1. CASE UNCHANGED <<syncLog, cooling, past>>
    <2> DEFINE g == [acct[a] EXCEPT !.pc = "watch", !.slot = FALSE]
               l == syncLog[a]
               p == past[a]
    <2>1. Good(a, acct[a], syncLog[a], past[a], cooling, supervised)
      BY <1>0 DEF AllGood
    <2>2. acct[a].pc = "sync" /\ cooling' = cooling /\ supervised' = supervised
      BY <1>1, <1>0 DEF SyncDone, Moves, loopVars
    <2>3. Rest'
      BY <1>1, <1>0, SupervisorAssumption DEF Rest, SyncDone, loopVars, Fine, Fault, Moves
    <2>4. Put(acct, acct', a, g) /\ Put(syncLog, syncLog', a, l) /\ Put(past, past', a, p)
      <3>1. (slots' = slots /\ acct[a].slot) = FALSE
        BY <1>0, ReleaseIs, Zenon DEF SyncDone, AllGood
      <3>2. acct' = [acct EXCEPT ![a] = [acct[a] EXCEPT !.pc = "watch", !.slot = slots' = slots /\ acct[a].slot]]
        BY Zenon DEF SyncDone
      <3>3. Put(acct, acct', a, g)
        BY <3>1, <3>2, Zenon DEF Put
      <3>4. Put(syncLog, syncLog', a, l)
        BY <1>1, <1>0 DEF SyncDone, Put, AllGood
      <3>5. Put(past, past', a, p)
        BY <1>1, <1>0 DEF SyncDone, Put, AllGood
      <3> QED
        BY <3>3, <3>4, <3>5
    <2>5. acct[a] \in Goroutine /\ syncLog[a] \in LogRow /\ past[a] \in History
      BY <2>1 DEF Good
    <2>6a. g \in Goroutine /\ g.pc = "watch" /\ g.slot = FALSE
           /\ g.failures = acct[a].failures /\ g.open = acct[a].open
      BY <2>5, SupervisorAssumption, Zenon DEF Goroutine, Steps
    <2> HIDE DEF g
    <2>6. SlotMove(a, g)
      BY <1>1, <2>1, <2>2, <2>6a, <2>5
      DEF SyncDone, SlotMove, Moves, loopVars, Good, AdoptedOf
    <2>7. AdoptedOf(a, g, p, supervised') /\ g \in Goroutine /\ l \in LogRow
          /\ p \in History
      BY <1>1, <2>1, <2>2, <2>6a, SupervisorAssumption
      DEF Good, AdoptedOf, NoGoroutine, History
    <2>8. CooldownOf(a, g, l, p, cooling')
      BY <1>1, <2>1, <2>2, <2>6a, SupervisorAssumption DEF Good, CooldownOf
    <2>9. CountsOf(g, l, p)
      BY <1>1, <2>1, <2>2, <2>6a, SupervisorAssumption
      DEF Good, CountsOf, BeforeWatcher, BeforeWatcher, Goroutine, LogRow, History
    <2> QED
      BY <1>0, <2>2, <2>3, <2>4, <2>6, <2>7, <2>8, <2>9, GoodStep DEF Good, Becomes
  <1>2. CASE syncLog' = RecordSyncSuccess(a) /\ cooling' = cooling \ {a}
        /\ past' = [past EXCEPT ![a].streak = 0]
    <2> DEFINE g == [acct[a] EXCEPT !.pc = "watch", !.slot = FALSE]
               l == ClosedLog
               p == [past[a] EXCEPT !.streak = 0]
    <2>1. Good(a, acct[a], syncLog[a], past[a], cooling, supervised)
      BY <1>0 DEF AllGood
    <2>2. acct[a].pc = "sync" /\ cooling' = cooling \ {a} /\ supervised' = supervised
      BY <1>2, <1>0 DEF SyncDone, RecordSyncSuccess, ClosedLog, Moves, loopVars
    <2>3. Rest'
      BY <1>2, <1>0, SupervisorAssumption
      DEF Rest, SyncDone, RecordSyncSuccess, ClosedLog, loopVars, Fine, Fault, Moves
    <2>4. Put(acct, acct', a, g) /\ Put(syncLog, syncLog', a, l) /\ Put(past, past', a, p)
      <3>1. (slots' = slots /\ acct[a].slot) = FALSE
        BY <1>0, ReleaseIs, Zenon DEF SyncDone, AllGood
      <3>2. acct' = [acct EXCEPT ![a] = [acct[a] EXCEPT !.pc = "watch", !.slot = slots' = slots /\ acct[a].slot]]
        BY Zenon DEF SyncDone
      <3>3. Put(acct, acct', a, g)
        BY <3>1, <3>2, Zenon DEF Put
      <3>4. Put(syncLog, syncLog', a, l)
        BY <1>2, <1>0 DEF SyncDone, RecordSyncSuccess, ClosedLog, Put, AllGood
      <3>5. Put(past, past', a, p)
        BY <1>2, <1>0 DEF SyncDone, RecordSyncSuccess, ClosedLog, Put, AllGood
      <3> QED
        BY <3>3, <3>4, <3>5
    <2>5. acct[a] \in Goroutine /\ syncLog[a] \in LogRow /\ past[a] \in History
      BY <2>1 DEF Good
    <2>6a. g \in Goroutine /\ g.pc = "watch" /\ g.slot = FALSE
           /\ g.failures = acct[a].failures /\ g.open = acct[a].open
      BY <2>5, SupervisorAssumption, Zenon DEF Goroutine, Steps, ClosedLog
    <2>6b. l \in LogRow /\ l.errors = 0 /\ l.breaker = "closed"
      BY <2>5, SupervisorAssumption DEF LogRow, ClosedLog
    <2>6c. p \in History /\ p.starts = past[a].starts /\ p.streak = 0
           /\ p.half = past[a].half /\ p.lost = past[a].lost
      BY <2>5, SupervisorAssumption DEF History
    <2> HIDE DEF g, l, p
    <2>6. SlotMove(a, g)
      BY <1>2, <2>1, <2>2, <2>6a, <2>6b, <2>6c, <2>5
      DEF SyncDone, RecordSyncSuccess, ClosedLog, SlotMove, Moves, loopVars, Good,
          AdoptedOf
    <2>7. AdoptedOf(a, g, p, supervised') /\ g \in Goroutine /\ l \in LogRow
          /\ p \in History
      BY <1>2, <2>1, <2>2, <2>6a, <2>6b, <2>6c, SupervisorAssumption
      DEF Good, AdoptedOf, NoGoroutine, History
    <2>8. CooldownOf(a, g, l, p, cooling')
      BY <1>2, <2>1, <2>2, <2>6a, <2>6b, <2>6c, SupervisorAssumption DEF Good, CooldownOf
    <2>9. CountsOf(g, l, p)
      BY <1>2, <2>1, <2>2, <2>6a, <2>6b, <2>6c, SupervisorAssumption
      DEF Good, CountsOf, BeforeWatcher, BeforeWatcher, Goroutine, LogRow, History
    <2> QED
      BY <1>0, <2>2, <2>3, <2>4, <2>6, <2>7, <2>8, <2>9, GoodStep DEF Good, Becomes
  <1> QED
    BY <1>1, <1>2 DEF SyncDone

\* SyncFails leaves all accounts good.
LEMMA SyncFailsSafe ==
    ASSUME AllGood, Rest, slots \in 0..Concurrency, NEW a \in Accts, SyncFails(a)
    PROVE  Kept
  <1>0. AllGood /\ Rest /\ slots \in 0..Concurrency
    OBVIOUS
  <1>1. CASE /\ syncLog' = syncLog /\ cooling' = cooling
            /\ past' = [past EXCEPT ![a].streak = OneMore(@)]
    <2> DEFINE g == [acct[a] EXCEPT !.pc = "retry", !.slot = FALSE]
               l == syncLog[a]
               p == [past[a] EXCEPT !.streak = OneMore(@)]
    <2>1. Good(a, acct[a], syncLog[a], past[a], cooling, supervised)
      BY <1>0 DEF AllGood
    <2>2. acct[a].pc = "sync" /\ cooling' = cooling /\ supervised' = supervised
      BY <1>1, <1>0 DEF SyncFails, Moves, loopVars
    <2>3. Rest'
      BY <1>1, <1>0, SupervisorAssumption
      DEF Rest, SyncFails, loopVars, Fine, Fault, Moves
    <2>4. Put(acct, acct', a, g) /\ Put(syncLog, syncLog', a, l) /\ Put(past, past', a, p)
      <3>1. (slots' = slots /\ acct[a].slot) = FALSE
        BY <1>0, ReleaseIs, Zenon DEF SyncFails, AllGood
      <3>2. acct' = [acct EXCEPT ![a] = [acct[a] EXCEPT !.pc = "retry", !.slot = slots' = slots /\ acct[a].slot]]
        BY Zenon DEF SyncFails
      <3>3. Put(acct, acct', a, g)
        BY <3>1, <3>2, Zenon DEF Put
      <3>4. Put(syncLog, syncLog', a, l)
        BY <1>1, <1>0, OneMoreIs DEF SyncFails, Put, AllGood
      <3>5. Put(past, past', a, p)
        BY <1>1, <1>0 DEF SyncFails, Put, AllGood
      <3> QED
        BY <3>3, <3>4, <3>5
    <2>5. acct[a] \in Goroutine /\ syncLog[a] \in LogRow /\ past[a] \in History
      BY <2>1 DEF Good
    <2>6a. g \in Goroutine /\ g.pc = "retry" /\ g.slot = FALSE
           /\ g.failures = acct[a].failures /\ g.open = acct[a].open
      BY <2>5, SupervisorAssumption, OneMoreIs, Zenon DEF Goroutine, Steps
    <2>6b. p \in History /\ p.starts = past[a].starts
           /\ p.streak = OneMore(past[a].streak) /\ p.half = past[a].half /\ p.lost = past[a].lost
      BY <2>5, SupervisorAssumption, OneMoreIs DEF History
    <2> HIDE DEF g, p
    <2>6. SlotMove(a, g)
      BY <1>1, <2>1, <2>2, <2>6a, <2>6b, <2>5
      DEF SyncFails, SlotMove, Moves, loopVars, Good, AdoptedOf
    <2>7. AdoptedOf(a, g, p, supervised') /\ g \in Goroutine /\ l \in LogRow
          /\ p \in History
      BY <1>1, <2>1, <2>2, <2>6a, <2>6b, SupervisorAssumption
      DEF Good, AdoptedOf, NoGoroutine, History
    <2>8. CooldownOf(a, g, l, p, cooling')
      BY <1>1, <2>1, <2>2, <2>6a, <2>6b, SupervisorAssumption DEF Good, CooldownOf
    <2>9. CountsOf(g, l, p)
      BY <1>1, <2>1, <2>2, <2>6a, <2>6b, SupervisorAssumption, OneMoreIs
      DEF Good, CountsOf, BeforeWatcher, BeforeWatcher, Goroutine, LogRow, History
    <2> QED
      BY <1>0, <2>2, <2>3, <2>4, <2>6, <2>7, <2>8, <2>9, GoodStep DEF Good, Becomes
  <1>2. CASE /\ syncLog' = RecordSyncError(a) /\ cooling' = cooling
            /\ past' = [past EXCEPT ![a].streak = OneMore(@)]
    <2> DEFINE g == [acct[a] EXCEPT !.pc = "retry", !.slot = FALSE]
               l == [syncLog[a] EXCEPT !.errors = OneMore(@)]
               p == [past[a] EXCEPT !.streak = OneMore(@)]
    <2>1. Good(a, acct[a], syncLog[a], past[a], cooling, supervised)
      BY <1>0 DEF AllGood
    <2>2. acct[a].pc = "sync" /\ cooling' = cooling /\ supervised' = supervised
      BY <1>2, <1>0 DEF SyncFails, Moves, loopVars
    <2>3. Rest'
      BY <1>2, <1>0, SupervisorAssumption
      DEF Rest, SyncFails, loopVars, Fine, Fault, Moves
    <2>4. Put(acct, acct', a, g) /\ Put(syncLog, syncLog', a, l) /\ Put(past, past', a, p)
      <3>1. (slots' = slots /\ acct[a].slot) = FALSE
        BY <1>0, ReleaseIs, Zenon DEF SyncFails, AllGood
      <3>2. acct' = [acct EXCEPT ![a] = [acct[a] EXCEPT !.pc = "retry", !.slot = slots' = slots /\ acct[a].slot]]
        BY Zenon DEF SyncFails
      <3>3. Put(acct, acct', a, g)
        BY <3>1, <3>2, Zenon DEF Put
      <3>4. Put(syncLog, syncLog', a, l)
        BY <1>2, <1>0, OneMoreIs, RecordIs DEF SyncFails, Put, AllGood
      <3>5. Put(past, past', a, p)
        BY <1>2, <1>0 DEF SyncFails, Put, AllGood
      <3> QED
        BY <3>3, <3>4, <3>5
    <2>5. acct[a] \in Goroutine /\ syncLog[a] \in LogRow /\ past[a] \in History
      BY <2>1 DEF Good
    <2>6a. g \in Goroutine /\ g.pc = "retry" /\ g.slot = FALSE
           /\ g.failures = acct[a].failures /\ g.open = acct[a].open
      BY <2>5, SupervisorAssumption, OneMoreIs, RecordIs, Zenon DEF Goroutine, Steps
    <2>6b. l \in LogRow /\ l.errors = OneMore(syncLog[a].errors)
           /\ l.breaker = syncLog[a].breaker
      BY <2>5, SupervisorAssumption, OneMoreIs, RecordIs DEF LogRow
    <2>6c. p \in History /\ p.starts = past[a].starts
           /\ p.streak = OneMore(past[a].streak) /\ p.half = past[a].half /\ p.lost = past[a].lost
      BY <2>5, SupervisorAssumption, OneMoreIs, RecordIs DEF History
    <2> HIDE DEF g, l, p
    <2>6. SlotMove(a, g)
      BY <1>2, <2>1, <2>2, <2>6a, <2>6b, <2>6c, <2>5
      DEF SyncFails, SlotMove, Moves, loopVars, Good, AdoptedOf
    <2>7. AdoptedOf(a, g, p, supervised') /\ g \in Goroutine /\ l \in LogRow
          /\ p \in History
      BY <1>2, <2>1, <2>2, <2>6a, <2>6b, <2>6c, SupervisorAssumption
      DEF Good, AdoptedOf, NoGoroutine, History
    <2>8. CooldownOf(a, g, l, p, cooling')
      BY <1>2, <2>1, <2>2, <2>6a, <2>6b, <2>6c, SupervisorAssumption DEF Good, CooldownOf
    <2>9. CountsOf(g, l, p)
      BY <1>2, <2>1, <2>2, <2>6a, <2>6b, <2>6c, SupervisorAssumption, OneMoreIs, RecordIs
      DEF Good, CountsOf, BeforeWatcher, BeforeWatcher, Goroutine, LogRow, History
    <2> QED
      BY <1>0, <2>2, <2>3, <2>4, <2>6, <2>7, <2>8, <2>9, GoodStep DEF Good, Becomes
  <1>3. ASSUME NEW n \in {0, 1},
               syncLog' = [syncLog EXCEPT ![a] = [ClosedLog EXCEPT !.errors = n]],
               cooling' = cooling \ {a}, past' = [past EXCEPT ![a].streak = 1]
        PROVE  Kept
    <2> DEFINE g == [acct[a] EXCEPT !.pc = "retry", !.slot = FALSE]
               l == [ClosedLog EXCEPT !.errors = n]
               p == [past[a] EXCEPT !.streak = 1]
    <2>1. Good(a, acct[a], syncLog[a], past[a], cooling, supervised)
      BY <1>0 DEF AllGood
    <2>2. acct[a].pc = "sync" /\ cooling' = cooling \ {a} /\ supervised' = supervised
      BY <1>3, <1>0 DEF SyncFails, Moves, loopVars
    <2>3. Rest'
      BY <1>3, <1>0, SupervisorAssumption
      DEF Rest, SyncFails, loopVars, Fine, Fault, Moves
    <2>4. Put(acct, acct', a, g) /\ Put(syncLog, syncLog', a, l) /\ Put(past, past', a, p)
      <3>1. (slots' = slots /\ acct[a].slot) = FALSE
        BY <1>0, ReleaseIs, Zenon DEF SyncFails, AllGood
      <3>2. acct' = [acct EXCEPT ![a] = [acct[a] EXCEPT !.pc = "retry", !.slot = slots' = slots /\ acct[a].slot]]
        BY Zenon DEF SyncFails
      <3>3. Put(acct, acct', a, g)
        BY <3>1, <3>2, Zenon DEF Put
      <3>4. Put(syncLog, syncLog', a, l)
        BY <1>3, <1>0 DEF SyncFails, Put, AllGood
      <3>5. Put(past, past', a, p)
        BY <1>3, <1>0 DEF SyncFails, Put, AllGood
      <3> QED
        BY <3>3, <3>4, <3>5
    <2>5. acct[a] \in Goroutine /\ syncLog[a] \in LogRow /\ past[a] \in History
      BY <2>1 DEF Good
    <2>6a. g \in Goroutine /\ g.pc = "retry" /\ g.slot = FALSE
           /\ g.failures = acct[a].failures /\ g.open = acct[a].open
      BY <2>5, SupervisorAssumption, Zenon DEF Goroutine, Steps
    <2>6b. l \in LogRow /\ l.errors = n /\ l.breaker = "closed"
      BY <1>3, SupervisorAssumption DEF LogRow, ClosedLog
    <2>6c. p \in History /\ p.starts = past[a].starts
           /\ p.streak = 1 /\ p.half = past[a].half /\ p.lost = past[a].lost
      BY <2>5, SupervisorAssumption DEF History
    <2> HIDE DEF g, l, p
    <2>6. SlotMove(a, g)
      BY <1>3, <2>1, <2>2, <2>6a, <2>6b, <2>6c, <2>5
      DEF SyncFails, SlotMove, Moves, loopVars, Good, AdoptedOf
    <2>7. AdoptedOf(a, g, p, supervised') /\ g \in Goroutine /\ l \in LogRow
          /\ p \in History
      BY <1>3, <2>1, <2>2, <2>6a, <2>6b, <2>6c, SupervisorAssumption
      DEF Good, AdoptedOf, NoGoroutine, History
    <2>8. CooldownOf(a, g, l, p, cooling')
      BY <1>3, <2>1, <2>2, <2>6a, <2>6b, <2>6c, SupervisorAssumption DEF Good, CooldownOf
    <2>9. CountsOf(g, l, p)
      BY <1>3, <2>1, <2>2, <2>6a, <2>6b, <2>6c, SupervisorAssumption
      DEF Good, CountsOf, BeforeWatcher, BeforeWatcher, Goroutine, LogRow, History
    <2> QED
      BY <1>0, <2>2, <2>3, <2>4, <2>6, <2>7, <2>8, <2>9, GoodStep DEF Good, Becomes
  <1> QED
    BY <1>1, <1>2, <1>3 DEF SyncFails

\* DialTimesOut leaves all accounts good.
LEMMA DialTimesOutSafe ==
    ASSUME AllGood, Rest, slots \in 0..Concurrency, NEW a \in Accts, DialTimesOut(a)
    PROVE  Kept
  <1>0. AllGood /\ Rest /\ slots \in 0..Concurrency
    OBVIOUS
  <1> DEFINE g == [acct[a] EXCEPT !.pc = "ended", !.slot = FALSE]
             l == syncLog[a]
             p == [past[a] EXCEPT !.timedOut = TRUE]
  <1>1. Good(a, acct[a], syncLog[a], past[a], cooling, supervised)
    BY <1>0 DEF AllGood
  <1>2. acct[a].pc \in {"sync", "try"} /\ cooling' = cooling /\ supervised' = supervised
    BY <1>0 DEF DialTimesOut, Moves, loopVars
  <1>3. Rest'
    BY <1>0, SupervisorAssumption DEF Rest, DialTimesOut, loopVars, Fine, Fault, Moves
  <1>4. Put(acct, acct', a, g) /\ Put(syncLog, syncLog', a, l) /\ Put(past, past', a, p)
    BY <1>0, Zenon DEF DialTimesOut, Put, Moves, AllGood
  <1>5. acct[a] \in Goroutine /\ syncLog[a] \in LogRow /\ past[a] \in History
    BY <1>1 DEF Good
  <1>6a. g \in Goroutine /\ g.pc = "ended" /\ g.slot = FALSE
         /\ g.failures = acct[a].failures /\ g.open = acct[a].open
    BY <1>5, SupervisorAssumption, Zenon DEF Goroutine, Steps
  <1>6b. p \in History /\ p.starts = past[a].starts /\ p.streak = past[a].streak
         /\ p.half = past[a].half /\ p.lost = past[a].lost
    BY <1>5, SupervisorAssumption, Zenon DEF History
  <1> HIDE DEF g, p
  <1>6. SlotMove(a, g)
    BY <1>1, <1>2, <1>6a, <1>6b, <1>5
    DEF DialTimesOut, SlotMove, Moves, loopVars, Good, AdoptedOf
  <1>7. AdoptedOf(a, g, p, supervised') /\ g \in Goroutine /\ l \in LogRow
        /\ p \in History
    BY <1>1, <1>2, <1>6a, <1>6b, SupervisorAssumption
    DEF Good, AdoptedOf, NoGoroutine, History
  <1>8. CooldownOf(a, g, l, p, cooling')
    BY <1>1, <1>2, <1>6a, <1>6b, SupervisorAssumption DEF Good, CooldownOf
  <1>9. CountsOf(g, l, p)
    BY <1>1, <1>2, <1>6a, <1>6b, SupervisorAssumption
    DEF Good, CountsOf, BeforeWatcher, BeforeWatcher, Goroutine, LogRow, History
  <1> QED
    BY <1>0, <1>2, <1>3, <1>4, <1>6, <1>7, <1>8, <1>9, GoodStep DEF Good, Becomes

-----------------------------------------------------------------------------
(* A cycle that ends in an error.                                          *)

\* What a failed cycle leaves of account a, whose count was n: count is what
\* the threshold is compared with, lost whether a record was lost.
FailedTo(a, n, g, l, p, count, opens, lost) ==
    /\ opens <=> count >= BreakerThreshold
    /\ count >= n + 1
    /\ count <= n + 1 \/ count <= OneMore(syncLog[a].errors)
    /\ l.errors = syncLog[a].errors \/ l.errors = OneMore(syncLog[a].errors)
    /\ lost \/ (l.errors = OneMore(syncLog[a].errors) /\ count >= l.errors)
    /\ opens => lost \/ l.breaker = "open"
    /\ ~opens => l.breaker = syncLog[a].breaker
    /\ g.pc = (IF opens THEN "loop" ELSE "backoff") /\ g.slot = acct[a].slot
    /\ g.failures = (IF opens THEN 0 ELSE count) /\ g.open = opens
    /\ p.starts = past[a].starts /\ p.streak = OneMore(past[a].streak)
    /\ ~p.half /\ (p.lost <=> past[a].lost \/ lost)

\* The variables a failed cycle moves to those values.
FailedMoves(a, g, l, p, opens) ==
    /\ Put(acct, acct', a, g) /\ Put(syncLog, syncLog', a, l) /\ Put(past, past', a, p)
    /\ cooling' = IF opens THEN cooling \cup {a} ELSE cooling
    /\ outages' \in 0..MaxOutages
    /\ UNCHANGED <<eligible, loop, nudged, supervised, restarts, slots>>

\* The row after RecordSyncError, or left as it was when the write failed.
LEMMA RecordOutcome ==
    ASSUME AllGood, NEW a \in Accts, NEW r \in BOOLEAN
    PROVE  LET log == IF r THEN RecordSyncError(a) ELSE syncLog
           IN  /\ log \in [Accts -> LogRow] /\ log[a].breaker = syncLog[a].breaker
               /\ log[a].errors = (IF r THEN OneMore(syncLog[a].errors)
                                   ELSE syncLog[a].errors)
               /\ log = [syncLog EXCEPT ![a] = log[a]]
  <1>1. syncLog \in [Accts -> LogRow] /\ syncLog[a] \in LogRow
    BY DEF AllGood
  <1> DEFINE row == [syncLog[a] EXCEPT !.errors = OneMore(@)]
  <1>2. /\ row \in LogRow /\ row.errors = OneMore(syncLog[a].errors)
        /\ row.breaker = syncLog[a].breaker
    BY <1>1, OneMoreIs DEF LogRow
  <1>3. RecordSyncError(a) = [syncLog EXCEPT ![a] = row]
    BY RecordIs
  <1> HIDE DEF row
  <1>4. CASE r
    BY <1>1, <1>2, <1>3, <1>4
  <1>5. CASE ~r
    BY <1>1, <1>5
  <1> QED
    BY <1>4, <1>5

\* Failed does just that.
LEMMA FailedOutcome ==
    ASSUME AllGood, outages \in 0..MaxOutages, NEW a \in Accts,
           NEW n \in 0..(MaxErrors + 1), Failed(a, n, past[a])
    PROVE  \E g \in Goroutine, l \in LogRow, p \in History, count \in Nat,
              opens \in BOOLEAN, lost \in BOOLEAN :
               FailedTo(a, n, g, l, p, count, opens, lost) /\ FailedMoves(a, g, l, p, opens)
  <1> DEFINE log(r) == IF r THEN RecordSyncError(a) ELSE syncLog
             cnt(r) == IF r THEN Max({n + 1, log(r)[a].errors}) ELSE n + 1
             opn(r) == cnt(r) >= BreakerThreshold
             los(r, s) == ~r \/ (opn(r) /\ ~s)
  <1>1. PICK r \in BOOLEAN, s \in BOOLEAN :
            /\ IF los(r, s) THEN outages + 2 <= MaxOutages /\ outages' = outages + 2
               ELSE Fault
            /\ ~opn(r) => s
            /\ Moves(a, [acct[a] EXCEPT !.pc = IF opn(r) THEN "loop" ELSE "backoff",
                                        !.failures = IF opn(r) THEN 0 ELSE cnt(r),
                                        !.open = opn(r)],
                     [[past[a] EXCEPT !.streak = OneMore(@), !.half = FALSE]
                        EXCEPT !.lost = @ \/ los(r, s)],
                     IF opn(r) /\ s
                     THEN [log(r) EXCEPT ![a].breaker = "open"] ELSE log(r))
            /\ cooling' = IF opn(r) THEN cooling \cup {a} ELSE cooling
    BY Zenon DEF Failed
  <1> DEFINE row == log(r)[a]
             count == cnt(r)
             opens == opn(r)
             lost == los(r, s)
             g == [acct[a] EXCEPT !.pc = IF opens THEN "loop" ELSE "backoff",
                                  !.failures = IF opens THEN 0 ELSE count,
                                  !.open = opens]
             l == IF opens /\ s THEN [row EXCEPT !.breaker = "open"] ELSE row
             p == [[past[a] EXCEPT !.streak = OneMore(@), !.half = FALSE]
                     EXCEPT !.lost = @ \/ lost]
  <1>2. /\ acct[a] \in Goroutine /\ syncLog[a] \in LogRow /\ past[a] \in History
        /\ syncLog[a].errors \in 0..MaxErrors /\ past[a].streak \in 0..MaxErrors
        /\ past[a].lost \in BOOLEAN
    BY DEF AllGood, LogRow, History
  <1>3. /\ log(r) \in [Accts -> LogRow] /\ row \in LogRow
        /\ row.errors = (IF r THEN OneMore(syncLog[a].errors) ELSE syncLog[a].errors)
        /\ row.breaker = syncLog[a].breaker /\ log(r) = [syncLog EXCEPT ![a] = row]
    BY RecordOutcome
  <1>4. OneMore(syncLog[a].errors) \in 0..MaxErrors
        /\ OneMore(past[a].streak) \in 0..MaxErrors
    BY <1>2, OneMoreIs
  <1>5. /\ count \in Nat /\ count >= n + 1
        /\ count <= n + 1 \/ count <= OneMore(syncLog[a].errors)
        /\ r => row.errors = OneMore(syncLog[a].errors) /\ count >= row.errors
        /\ row.errors = syncLog[a].errors \/ row.errors = OneMore(syncLog[a].errors)
    <2>1. row.errors \in 0..MaxErrors
      BY <1>3 DEF LogRow
    <2> HIDE DEF row
    <2>2. CASE r
      <3>1. count = IF n + 1 >= row.errors THEN n + 1 ELSE row.errors
        BY <2>1, <2>2, MaxTwo, SupervisorAssumption DEF row
      <3> QED
        BY <1>3, <1>4, <2>1, <2>2, <3>1, SupervisorAssumption
    <2>3. CASE ~r
      BY <1>3, <2>3, SupervisorAssumption
    <2> QED
      BY <2>2, <2>3
  <1>6. /\ opens \in BOOLEAN /\ lost \in BOOLEAN /\ (opens <=> count >= BreakerThreshold)
        /\ lost \/ (r /\ (opens => s))
        /\ ~opens => s
    BY <1>1
  <1>7. /\ outages' \in 0..MaxOutages
        /\ cooling' = IF opens THEN cooling \cup {a} ELSE cooling
        /\ UNCHANGED <<eligible, loop, nudged, supervised, restarts, slots>>
    <2> HIDE DEF opn, los
    <2> QED
      BY <1>1, SupervisorAssumption DEF Moves, loopVars, Fault
  <1>8. /\ acct' = [acct EXCEPT ![a] = g] /\ past' = [past EXCEPT ![a] = p]
        /\ syncLog' = IF opens /\ s THEN [log(r) EXCEPT ![a].breaker = "open"] ELSE log(r)
    BY <1>1 DEF Moves
  <1> HIDE DEF opn, los, cnt, log, row, count, opens, lost
  <1>9. Put(syncLog, syncLog', a, l)
    <2>1. syncLog \in [Accts -> LogRow]
      BY DEF AllGood
    <2>2. CASE opens /\ s
      <3>1. syncLog' = [log(r) EXCEPT ![a] = [row EXCEPT !.breaker = "open"]]
        BY <1>8, <2>2 DEF row
      <3>2. syncLog' = [syncLog EXCEPT ![a] = [row EXCEPT !.breaker = "open"]]
        BY <3>1, <1>3, <2>1, Zenon
      <3> QED
        BY <3>2, <2>2 DEF Put
    <2>3. CASE ~(opens /\ s)
      BY <1>3, <1>8, <2>3, Zenon DEF Put
    <2> QED
      BY <2>2, <2>3
  <1>10. l \in LogRow /\ l.errors = row.errors /\ (opens /\ s => l.breaker = "open")
         /\ (~(opens /\ s) => l.breaker = syncLog[a].breaker)
    BY <1>3 DEF LogRow
  <1>11. /\ g \in Goroutine /\ g.pc = (IF opens THEN "loop" ELSE "backoff")
         /\ g.slot = acct[a].slot /\ g.failures = (IF opens THEN 0 ELSE count)
         /\ g.open = opens
    <2> DEFINE pc == IF opens THEN "loop" ELSE "backoff"
               f == IF opens THEN 0 ELSE count
    <2>1. pc \in Steps
      BY DEF Steps
    <2>2. f \in 0..(MaxErrors + 1)
      BY <1>5, <1>6, SupervisorAssumption
    <2> HIDE DEF pc, f
    <2>3. LET h == [acct[a] EXCEPT !.pc = pc, !.failures = f, !.open = opens]
          IN  /\ h \in Goroutine /\ h.pc = pc /\ h.slot = acct[a].slot
              /\ h.failures = f /\ h.open = opens
      BY <1>2, <1>6, <2>1, <2>2, Zenon DEF Goroutine
    <2> QED
      BY <2>3 DEF pc, f
  <1>12. /\ p \in History /\ p.starts = past[a].starts
         /\ p.streak = OneMore(past[a].streak) /\ ~p.half
         /\ (p.lost <=> past[a].lost \/ lost)
    <2> DEFINE lo == past[a].lost \/ lost
               m == OneMore(past[a].streak)
    <2>1. lo \in BOOLEAN /\ m \in 0..MaxErrors
      BY <1>4
    <2>2. PICK f \in BOOLEAN : f = FALSE
      BY Zenon
    <2>3. p = [past[a] EXCEPT !.streak = m, !.half = f, !.lost = lo]
      <3>1. p = [past[a] EXCEPT !.streak = m, !.half = FALSE, !.lost = lo]
        BY <1>2 DEF History
      <3> QED
        BY <2>2, <3>1, Zenon
    <2> HIDE DEF p, lo, m
    <2>4. p \in History /\ p.starts = past[a].starts /\ p.streak = m /\ p.half = f
          /\ p.lost = lo
      BY <1>2, <2>1, <2>3, Zenon DEF History
    <2> QED
      BY <2>2, <2>4, Zenon DEF lo, m
  <1> HIDE DEF g, l, p
  <1>13. FailedMoves(a, g, l, p, opens)
    BY <1>7, <1>8, <1>9 DEF FailedMoves, Put
  <1>14. FailedTo(a, n, g, l, p, count, opens, lost)
    BY <1>5, <1>6, <1>10, <1>11, <1>12 DEF FailedTo
  <1> QED
    BY <1>5, <1>6, <1>10, <1>11, <1>12, <1>13, <1>14


\* A failed cycle of account a, whose count was n, out of try or out of session.
FailedCycle(a, n) ==
    /\ Failed(a, n, past[a])
    /\ \/ acct[a].pc = "try" /\ n = acct[a].failures
       \/ acct[a].pc = "session" /\ n = 0

\* Both kinds of failed cycle are such steps, n being a count.
LEMMA FailedCycles ==
    ASSUME AllGood, NEW a \in Accts, AttemptFails(a) \/ SessionBreaks(a)
    PROVE  \E n \in 0..(MaxErrors + 1) : FailedCycle(a, n)
  <1>1. acct[a].failures \in 0..(MaxErrors + 1) /\ 0 \in 0..(MaxErrors + 1)
    BY SupervisorAssumption DEF AllGood, Goroutine
  <1> QED
    BY <1>1 DEF AttemptFails, SessionBreaks, FailedCycle

\* A failed cycle leaves all accounts good; it starts a cooldown only at the
\* threshold, and the attempt after a cooldown does start one.
LEMMA FailedSafe ==
    ASSUME AllGood, Rest, slots \in 0..Concurrency, NEW a \in Accts, NEW n \in 0..(MaxErrors + 1), FailedCycle(a, n)
    PROVE  /\ Kept
           /\ \A b \in cooling' \ cooling :
                 past[b].streak + 1 >= BreakerThreshold \/ past[b].lost
           /\ \A b \in Accts : past[b].half /\ acct'[b].pc \in {"backoff", "loop"} =>
                 b \in cooling' \/ past'[b].lost
  <1>0. AllGood /\ Rest /\ slots \in 0..Concurrency
    OBVIOUS
  <1>1. PICK g \in Goroutine, l \in LogRow, p \in History, count \in Nat,
             opens \in BOOLEAN, lost \in BOOLEAN :
            FailedTo(a, n, g, l, p, count, opens, lost) /\ FailedMoves(a, g, l, p, opens)
    BY <1>0, FailedOutcome DEF FailedCycle, Rest
  <1>2. Good(a, acct[a], syncLog[a], past[a], cooling, supervised)
    BY <1>0 DEF AllGood
  <1>3. acct[a] \in Goroutine /\ syncLog[a] \in LogRow /\ past[a] \in History
    BY <1>2 DEF Good
  <1>4. syncLog[a].errors \in 0..MaxErrors /\ past[a].streak \in 0..MaxErrors
    BY <1>3 DEF LogRow, History
  <1>5. /\ OneMore(syncLog[a].errors) \in 0..MaxErrors
        /\ OneMore(syncLog[a].errors) >= syncLog[a].errors
        /\ OneMore(syncLog[a].errors) <= syncLog[a].errors + 1
        /\ \/ OneMore(syncLog[a].errors) = syncLog[a].errors + 1
           \/ OneMore(syncLog[a].errors) = MaxErrors
        /\ OneMore(past[a].streak) \in 0..MaxErrors /\ OneMore(past[a].streak) >= past[a].streak
        /\ syncLog[a].errors <= past[a].streak =>
              OneMore(syncLog[a].errors) <= OneMore(past[a].streak)
    BY <1>4, OneMoreIs
  <1>6. /\ supervised' = supervised /\ (opens => cooling' = cooling \cup {a})
        /\ (~opens => cooling' = cooling)
    BY <1>1 DEF FailedMoves
  <1>7. acct[a].pc \in {"try", "session"}
    BY DEF FailedCycle
  <1>8. ~past[a].lost => n <= syncLog[a].errors /\ syncLog[a].errors <= past[a].streak
    BY <1>2, <1>4 DEF FailedCycle, Good, CountsOf, BeforeWatcher, BeforeWatcher
  <1>9. past[a].half /\ ~past[a].lost => syncLog[a].errors >= BreakerThreshold
    BY <1>2 DEF Good, CountsOf, BeforeWatcher, BeforeWatcher
  <1>10. AdoptedOf(a, g, p, supervised')
    BY <1>1, <1>2, <1>6, <1>7, NoneYet DEF Good, AdoptedOf, FailedTo
  <1>11. a \in cooling /\ ~past[a].lost => FALSE
    BY <1>2, <1>7 DEF Good, CooldownOf
  <1>12. CooldownOf(a, g, l, p, cooling')
    BY <1>1, <1>6, <1>11 DEF CooldownOf, FailedTo
  <1>13. CountsOf(g, l, p)
    <2>1. ~p.lost => ~past[a].lost /\ ~lost
      BY <1>1 DEF FailedTo
    <2>2. ~p.lost => /\ l.errors = OneMore(syncLog[a].errors) /\ count >= l.errors
                     /\ p.streak = OneMore(past[a].streak)
      BY <1>1, <2>1 DEF FailedTo
    <2>3. ~p.lost => l.errors <= p.streak
      BY <1>5, <1>8, <2>1, <2>2
    <2>4. /\ g.failures = (IF opens THEN 0 ELSE count) /\ g.open = opens
          /\ opens <=> count >= BreakerThreshold
          /\ count <= n + 1 \/ count <= OneMore(syncLog[a].errors)
          /\ ~opens => l.breaker = syncLog[a].breaker
      BY <1>1 DEF FailedTo
    <2>5. ~p.lost => g.failures <= l.errors
      BY <1>4, <1>5, <1>8, <2>1, <2>2, <2>4, SupervisorAssumption
    <2>6. ~p.lost => (l.breaker = "open" \/ g.open => l.errors >= BreakerThreshold)
      <3>1. ~past[a].lost
            /\ syncLog[a].breaker = "open" => syncLog[a].errors >= BreakerThreshold
        BY <1>2 DEF Good, CountsOf, BeforeWatcher, BeforeWatcher
      <3>2. CASE opens
        BY <1>4, <1>5, <1>8, <2>1, <2>2, <2>4, <3>2, SupervisorAssumption
      <3>3. CASE ~opens
        BY <1>4, <1>5, <2>1, <2>2, <2>4, <3>1, <3>3, SupervisorAssumption
      <3> QED
        BY <3>2, <3>3
    <2>7. g.pc \in {"loop", "backoff"} /\ ~p.half /\ (g.pc = "backoff" => ~g.open)
      BY <1>1 DEF FailedTo
    <2> QED
      BY <2>3, <2>5, <2>6, <2>7 DEF CountsOf, BeforeWatcher, BeforeWatcher
  <1>14. Good(a, g, l, p, cooling', supervised')
    BY <1>1, <1>10, <1>12, <1>13 DEF Good
  <1>15. Becomes(a, g, l, p)
    BY <1>1, <1>6 DEF Becomes, SlotMove, FailedMoves, FailedTo
  <1>16. Rest'
    BY <1>0, <1>1, <1>6 DEF Rest, FailedMoves
  <1>17. Kept
    BY <1>0, <1>14, <1>15, <1>16, GoodStep
  <1>18. \A b \in cooling' \ cooling : past[b].streak + 1 >= BreakerThreshold \/ past[b].lost
    <2>1. ASSUME opens, ~past[a].lost PROVE past[a].streak + 1 >= BreakerThreshold
      BY <1>1, <1>4, <1>5, <1>8, <2>1, SupervisorAssumption DEF FailedTo
    <2> QED
      BY <1>6, <2>1
  <1>19. \A b \in Accts : past[b].half /\ acct'[b].pc \in {"backoff", "loop"} =>
             b \in cooling' \/ past'[b].lost
    <2>1. past'[a] = p /\ \A b \in Accts \ {a} : acct'[b] = acct[b]
      BY <1>0, <1>1 DEF FailedMoves, Put, AllGood
    <2>2. ASSUME past[a].half, ~p.lost PROVE opens
      BY <1>1, <1>4, <1>5, <1>9, <2>2, SupervisorAssumption DEF FailedTo
    <2>3. ASSUME NEW b \in Accts \ {a}, past[b].half
          PROVE  acct'[b].pc \notin {"backoff", "loop"}
      <3>1. CountsOf(acct[b], syncLog[b], past[b])
        BY <1>0, <2>3 DEF AllGood, Good
      <3> QED
        BY <2>1, <2>3, <3>1 DEF CountsOf, BeforeWatcher, BeforeWatcher
    <2> QED
      BY <1>6, <2>1, <2>2, <2>3
  <1> QED
    BY <1>17, <1>18, <1>19

\* Every step but a failed cycle starts no cooldown and takes no account from
\* an attempt back into the loop.
Leaves ==
    /\ cooling' \subseteq cooling
    /\ \A b \in Accts : acct[b].pc \in {"try", "ended"} =>
                            acct'[b].pc \notin {"backoff", "loop"}

LEMMA OtherSteps ==
    ASSUME AllGood,
           \/ Loop \/ ProcessRestarts \/ UNCHANGED supVars
           \/ \E a \in Accts : \/ AccountStep(a) \/ SyncFails(a) \/ DialTimesOut(a)
                               \/ CooldownPasses(a) \/ Provisioned(a)
    PROVE  Leaves
  <1>2. acct \in [Accts -> Goroutine]
    BY DEF AllGood
  <1>3. CASE \/ List \/ Sweep \/ AllStarted \/ UNCHANGED supVars
             \/ \E a \in Accts : CooldownPasses(a) \/ Provisioned(a)
    BY <1>3, Zenon
    DEF List, Sweep, AllStarted, supVars, CooldownPasses, Provisioned, goroutineVars,
                Leaves
  <1>4. CASE ProcessRestarts
    BY <1>4, NoneYet, Zenon DEF ProcessRestarts, Leaves
  <1>5. ASSUME NEW a \in Accts, start(a) PROVE Leaves
    <2>1. CASE a \in supervised
      BY <1>5, <2>1 DEF start, Leaves
    <2>2. CASE Launch(a) /\ cooling' = cooling
      <3>1. acct'[a].pc = "sync" /\ \A b \in Accts \ {a} : acct'[b] = acct[b]
        BY <1>2, <2>2 DEF Launch, NoGoroutine
      <3> QED
        BY <2>2, <3>1 DEF Leaves
    <2> QED
      BY <1>5, <2>1, <2>2 DEF start
  <1>6. ASSUME NEW a \in Accts, SyncDone(a) PROVE Leaves
    BY <1>2, <1>6 DEF SyncDone, Leaves, Goroutine
  <1>7. ASSUME NEW a \in Accts, RetryElapses(a) PROVE Leaves
    BY <1>2, <1>7 DEF RetryElapses, Leaves, Goroutine
  <1>8. ASSUME NEW a \in Accts, loadBreaker(a) PROVE Leaves
    BY <1>2, <1>8 DEF loadBreaker, Moves, Leaves, Goroutine
  <1>9. ASSUME NEW a \in Accts, Watch(a) PROVE Leaves
    BY <1>2, <1>9 DEF Watch, Moves, Leaves, Goroutine
  <1>10. ASSUME NEW a \in Accts, HalfOpen(a) PROVE Leaves
    BY <1>2, <1>10 DEF HalfOpen, Moves, Leaves, Goroutine
  <1>11. ASSUME NEW a \in Accts, Healthy(a) PROVE Leaves
    BY <1>2, <1>11 DEF Healthy, Moves, Leaves, Goroutine
  <1>12. ASSUME NEW a \in Accts, BackoffEnds(a) PROVE Leaves
    BY <1>2, <1>12 DEF BackoffEnds, Moves, Leaves, Goroutine
  <1>13. ASSUME NEW a \in Accts, SyncFails(a) PROVE Leaves
    BY <1>2, <1>13 DEF SyncFails, Leaves, Goroutine
  <1>14. ASSUME NEW a \in Accts, DialTimesOut(a) PROVE Leaves
    BY <1>2, <1>14 DEF DialTimesOut, Leaves, Goroutine
  <1> QED
    BY <1>3, <1>4, <1>5, <1>6, <1>7, <1>8, <1>9, <1>10, <1>11, <1>12, <1>13, <1>14
    DEF Loop, AccountStep

-----------------------------------------------------------------------------
(* Cooldowns of accounts whose watcher has not begun.                      *)

\* An account that cools and whose watcher has not begun was so before, in the
\* same process, or the process has been restarted.
CoolsOn ==
    \A b \in cooling' : acct'[b].pc \in BeforeWatcher =>
        \/ b \in cooling /\ acct[b].pc \in BeforeWatcher /\ restarts' = restarts
        \/ restarts' > 0

\* A failed cycle leaves its account in the watcher's loop.
LEMMA FailedCools ==
    ASSUME AllGood, Rest, NEW a \in Accts, NEW n \in 0..(MaxErrors + 1), FailedCycle(a, n)
    PROVE  CoolsOn
  <1>1. PICK g \in Goroutine, l \in LogRow, p \in History, count \in Nat,
             opens \in BOOLEAN, lost \in BOOLEAN :
            FailedTo(a, n, g, l, p, count, opens, lost) /\ FailedMoves(a, g, l, p, opens)
    BY FailedOutcome DEF FailedCycle, Rest
  <1>2. /\ acct'[a].pc \in {"loop", "backoff"} /\ \A b \in Accts \ {a} : acct'[b] = acct[b]
        /\ cooling' \subseteq cooling \cup {a} /\ restarts' = restarts
    BY <1>1 DEF FailedTo, FailedMoves, Put, AllGood
  <1>3. cooling \subseteq Accts
    BY DEF Rest
  <1> QED
    BY <1>2, <1>3 DEF CoolsOn, BeforeWatcher

\* Every other step too.
LEMMA OthersCool ==
    ASSUME AllGood, Rest,
           \/ Loop \/ ProcessRestarts \/ UNCHANGED supVars
           \/ \E a \in Accts : \/ AccountStep(a) \/ SyncFails(a) \/ DialTimesOut(a)
                               \/ CooldownPasses(a) \/ Provisioned(a)
    PROVE  CoolsOn
  <1>1. cooling' \subseteq cooling
    BY OtherSteps DEF Leaves
  <1>2. acct \in [Accts -> Goroutine] /\ cooling \subseteq Accts
    BY DEF AllGood, Rest
  <1>3. CASE ProcessRestarts
    <2>1. restarts' = restarts + 1 /\ restarts \in 0..MaxRestarts
      BY <1>3, Zenon DEF ProcessRestarts, Rest
    <2> QED
      BY <2>1, SupervisorAssumption DEF CoolsOn
  <1>4. CASE \/ List \/ Sweep \/ AllStarted \/ UNCHANGED supVars
             \/ \E a \in Accts : CooldownPasses(a) \/ Provisioned(a)
    <2>1. acct' = acct /\ restarts' = restarts
      BY <1>4, Zenon
      DEF List, Sweep, AllStarted, supVars, CooldownPasses, Provisioned, goroutineVars,
          loopVars
    <2> QED
      BY <1>1, <2>1 DEF CoolsOn
  <1>5. ASSUME NEW a \in Accts,
               \/ start(a) \/ AccountStep(a) \/ SyncFails(a) \/ DialTimesOut(a)
        PROVE  CoolsOn
    <2>1. restarts' = restarts
      BY <1>5, Zenon
      DEF start, AccountStep, SyncDone, RetryElapses, loadBreaker, Watch, HalfOpen,
          Healthy, BackoffEnds, SyncFails, DialTimesOut, Moves, loopVars
    <2>2. \A b \in Accts \ {a} : acct'[b] = acct[b]
      <3>1. \E g : acct' = acct \/ acct' = [acct EXCEPT ![a] = g]
        BY <1>5, Zenon
        DEF start, Launch, AccountStep, SyncDone, RetryElapses, loadBreaker, Watch,
            HalfOpen, Healthy, BackoffEnds, SyncFails, DialTimesOut, Moves
      <3> QED
        BY <1>2, <3>1
    <2>3. acct'[a].pc \in BeforeWatcher => acct[a].pc \in BeforeWatcher
      <3>1. CASE start(a)
        <4>1. CASE a \in supervised
          BY <3>1, <4>1 DEF start
        <4>2. CASE a \notin supervised
          <5>1. AdoptedOf(a, acct[a], past[a], supervised)
            BY DEF AllGood, Good
          <5> QED
            BY <4>2, <5>1, NoneYet DEF AdoptedOf, BeforeWatcher
        <4> QED
          BY <4>1, <4>2
      <3>2. CASE SyncDone(a) \/ RetryElapses(a) \/ loadBreaker(a)
        BY <3>2 DEF SyncDone, RetryElapses, loadBreaker, BeforeWatcher
      <3>3. CASE SyncFails(a)
        BY <3>3 DEF SyncFails, BeforeWatcher
      <3>4. CASE DialTimesOut(a)
        <4>1. acct' = [acct EXCEPT ![a] = [acct[a] EXCEPT !.pc = "ended", !.slot = FALSE]]
          BY <3>4, Zenon DEF DialTimesOut
        <4>2. "ended" \in Steps /\ acct[a] \in Goroutine
          BY <1>2 DEF Steps
        <4> DEFINE g == [acct[a] EXCEPT !.pc = "ended", !.slot = FALSE]
        <4>3. g.pc = "ended"
          BY <4>2, SlotTaken, Zenon
        <4>4. acct' = [acct EXCEPT ![a] = g]
          BY <4>1
        <4> HIDE DEF g
        <4>5. acct'[a].pc = "ended"
          BY <1>2, <4>3, <4>4
        <4> QED
          BY <4>5 DEF BeforeWatcher
      <3>5. CASE Watch(a) \/ HalfOpen(a) \/ Healthy(a) \/ BackoffEnds(a)
        <4>1. CASE HalfOpen(a)
          <5>1. PICK f \in BOOLEAN : f = FALSE
            BY Zenon
          <5>2. acct' = [acct EXCEPT ![a] = [acct[a] EXCEPT !.pc = "try", !.open = f]]
            BY <4>1, <5>1, Zenon DEF HalfOpen, Moves
          <5>3. acct'[a].pc = "try"
            BY <1>2, <5>2 DEF Goroutine
          <5> QED
            BY <5>3 DEF BeforeWatcher
        <4>2. CASE Watch(a) \/ Healthy(a) \/ BackoffEnds(a)
          <5>1. \E pc \in {"cool", "try", "session", "loop"} :
                   acct' = [acct EXCEPT ![a] = [acct[a] EXCEPT !.pc = pc]]
            BY <4>2, Zenon DEF Watch, Healthy, BackoffEnds, Moves
          <5> QED
            BY <1>2, <5>1 DEF BeforeWatcher, Goroutine
        <4> QED
          BY <3>5, <4>1, <4>2
      <3> QED
        BY <1>5, <3>1, <3>2, <3>3, <3>4, <3>5 DEF AccountStep
    <2> QED
      BY <1>1, <1>2, <2>1, <2>2, <2>3 DEF CoolsOn
  <1> QED
    BY <1>3, <1>4, <1>5 DEF Loop
=============================================================================
