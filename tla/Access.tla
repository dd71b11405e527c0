------------------------------- MODULE Access -------------------------------
(***************************************************************************)
(* Who may speak to the daemon (internal/jmaphttp auth, authcache, lockout, *)
(* delegated, token; internal/accounts keys and validators).  A behaviour   *)
(* is about one topic: a person's password checked against Dovecot through  *)
(* the cache, the lockout and the failure budget; sessions and push tokens  *)
(* of one account; a token bucket; or one request at the gate of the        *)
(* accounts API.  A tick of the clock is a second.                          *)
(***************************************************************************)
EXTENDS Integers, Sequences, SequencesExt, FiniteSets, FiniteSetsExt

CONSTANTS Browsers, Passwords,
          CacheTTL, MaxCached,                 \* authcache.go
          LockoutBase, LockoutMax,             \* lockout.go
          Budget, Window,                      \* the global failure budget
          SessionTTL, SessionMax, RenewGrace,  \* delegated.go
          TokenTTL, MaxTokens,                 \* token.go
          Burst, PerWindow, RateWindow,        \* the token buckets
          Requests,    \* requests in a behaviour
          LastSecond   \* the clock stops here

ASSUME AccessAssumption ==
  /\ IsFiniteSet(Browsers) /\ IsFiniteSet(Passwords)
  /\ {CacheTTL, MaxCached, LockoutBase, LockoutMax, Budget, Window, SessionTTL, SessionMax, RenewGrace,
      TokenTTL, MaxTokens, Burst, PerWindow, RateWindow} \subseteq Nat \ {0}
  /\ SessionTTL <= SessionMax

VARIABLES topic, now,
          req,        \* requests in progress
          asked,      \* requests so far
          dovecot,    \* the password Dovecot accepts
          cache,      \* credentialCache: validated passwords with their expiry
          lock,       \* lockoutTable: this client's and account's entry
          budget,     \* lockoutTable: tokens, in 1/Window
          refilled,   \* lockoutTable: lastRefill
          logins,     \* ghost: what Dovecot answered so far
          accepted,   \* ghost: the passwords Dovecot ever accepted
          suspended,  \* the account row
          sessions,   \* delegated_sessions
          tokens,     \* tokenAuthority: grants of the account
          bucket,     \* one key's entry of a rate limiter, tokens in 1/RateWindow
          taken       \* ghost: when the limiter let a request through

accessVars == <<topic, now, req, asked, dovecot, cache, lock, budget, refilled, logins, accepted,
                suspended, sessions, tokens, bucket, taken>>

loginVars == <<dovecot, cache, lock, budget, refilled, logins, accepted>>
sessionVars == <<suspended, sessions, tokens>>
bucketVars == <<bucket, taken>>

Free == [pc |-> "free"]

Smaller(a, b) == IF a < b THEN a ELSE b

AccessInit ==
  /\ topic \in {"login", "session", "bucket"} /\ now = 0
  /\ req = [c \in Browsers |-> Free] /\ asked = 0
  /\ dovecot \in Passwords /\ cache = {} /\ lock = [failures |-> 0, until |-> 0, touched |-> 0]
  /\ budget = Budget * Window /\ refilled = 0
  /\ logins = [ok |-> 0, bad |-> 0] /\ accepted = {}
  /\ suspended = FALSE /\ sessions = <<>> /\ tokens = {}
  /\ bucket = [seen |-> FALSE, tokens |-> 0, last |-> 0] /\ taken = <<>>

Tick ==
  /\ now < LastSecond /\ now' = now + 1
  /\ UNCHANGED <<topic, req, asked, loginVars, sessionVars, bucketVars>>

In(c, s) == req[c].pc = s
To(c, r) == req' = [req EXCEPT ![c] = r]
\* The answer ends the request; the status is named for the reader.
Answer(c, status) == To(c, Free)

(***************************************************************************)
(* The credential cache.                                                   *)
(***************************************************************************)

\* check drops what has expired on the way and says whether the password is among the rest.
Kept(es) == {e \in es : now <= e.expires}
Check(es, p) == \E e \in Kept(es) : e.pass = p

\* put renews an entry, or takes the oldest entry's place in a full bucket.
PutUnbounded(es, p) == {e \in es : e.pass # p} \cup {[pass |-> p, expires |-> now + CacheTTL]}

Put(es, p) ==
  LET others == {e \in es : e.pass # p}
      oldest == CHOOSE e \in others : \A f \in others : e.expires <= f.expires
      room == IF others = es /\ Cardinality(es) >= MaxCached THEN others \ {oldest} ELSE others
  IN  room \cup {[pass |-> p, expires |-> now + CacheTTL]}

(***************************************************************************)
(* Lockout and budget.                                                     *)
(***************************************************************************)

LockedFor(l) == IF l.until > now THEN l.until - now ELSE 0

\* recordFailure doubles from the base and stops at the maximum.
Doubled[n \in Nat] == IF n <= 1 THEN LockoutBase ELSE Smaller(LockoutMax, 2 * Doubled[n - 1])
LockFor(n) == Smaller(LockoutMax, Doubled[n])
RecordFailure(l) == [failures |-> l.failures + 1, touched |-> now, until |-> now + LockFor(l.failures + 1)]
RecordSuccess(l) == [failures |-> 0, until |-> 0, touched |-> 0]

Refill(b) == Smaller(Budget * Window, b + (now - refilled) * Budget)
BudgetAvailableAlways(b) == Refill(b) >= 0
BudgetAvailable(b) == Refill(b) >= Window
ConsumeBudget(b) == IF Refill(b) >= Window THEN Refill(b) - Window ELSE 0

(***************************************************************************)
(* Authenticator.Authenticate: one Basic-auth request, step by step.       *)
(***************************************************************************)

NotLogin == <<topic, now, sessionVars, bucketVars>>

\* The cache answers, or the request goes on to the lockout.
Authenticate(c) ==
  /\ topic = "login" /\ In(c, "free") /\ asked < Requests
  /\ \E p \in Passwords :
       To(c, [pc |-> IF Check(cache, p) THEN "account" ELSE "lock", pass |-> p,
              leader |-> c, valid |-> FALSE, cached |-> Check(cache, p)])
  /\ cache' = Kept(cache) /\ asked' = asked + 1
  /\ UNCHANGED <<NotLogin, dovecot, lock, budget, refilled, logins, accepted>>

CheckLockout(c) ==
  /\ In(c, "lock")
  /\ IF LockedFor(lock) > 0 THEN Answer(c, "429") ELSE To(c, [req[c] EXCEPT !.pc = "join"])
  /\ UNCHANGED <<NotLogin, loginVars, asked>>

\* validateCoalesced: a flight for the same pair is joined, otherwise this request leads one;
\* validateUpstream asks the budget first.
Flying(p) == {d \in Browsers : req[d].pc = "upstream" /\ req[d].pass = p}

JoinNever(c) ==
  /\ In(c, "join")
  /\ IF BudgetAvailable(budget) THEN To(c, [req[c] EXCEPT !.pc = "upstream"]) ELSE Answer(c, "429")
  /\ budget' = Refill(budget) /\ refilled' = now
  /\ UNCHANGED <<NotLogin, dovecot, cache, lock, logins, accepted, asked>>

ValidateCoalesced(c) ==
  /\ In(c, "join")
  /\ IF Flying(req[c].pass) # {}
     THEN /\ To(c, [req[c] EXCEPT !.pc = "wait", !.leader = CHOOSE d \in Flying(req[c].pass) : TRUE])
          /\ UNCHANGED <<budget, refilled>>
     ELSE /\ IF BudgetAvailable(budget) THEN To(c, [req[c] EXCEPT !.pc = "upstream"])
                                        ELSE Answer(c, "429")
          /\ budget' = Refill(budget) /\ refilled' = now
  /\ UNCHANGED <<NotLogin, dovecot, cache, lock, logins, accepted, asked>>

Waiting(c) == {d \in Browsers : req[d].pc = "wait" /\ req[d].leader = c}

\* The flight ends: everybody who waits for it gets its result.
Landed(c, r, who) == [d \in Browsers |-> IF d \in who \cup {c} THEN [req[d] EXCEPT !.pc = r] ELSE req[d]]

\* IMAPValidator.Validate said yes or no; only a no costs budget.
ValidateUpstream(c) ==
  /\ In(c, "upstream")
  /\ IF req[c].pass = dovecot
     THEN /\ req' = Landed(c, "success", Waiting(c))
          /\ logins' = [logins EXCEPT !.ok = @ + 1] /\ accepted' = accepted \cup {req[c].pass}
          /\ UNCHANGED <<budget, refilled>>
     ELSE /\ req' = Landed(c, "failure", Waiting(c))
          /\ logins' = [logins EXCEPT !.bad = @ + 1]
          /\ budget' = ConsumeBudget(budget) /\ refilled' = now
          /\ UNCHANGED accepted
  /\ UNCHANGED <<NotLogin, dovecot, cache, lock, asked>>

\* The leader's client hangs up, or Dovecot cannot be reached: an error for all who wait.
LeaveWaiters(c) ==
  /\ In(c, "upstream")
  /\ req' = Landed(c, "broken", {})
  /\ UNCHANGED <<NotLogin, loginVars, asked>>

FlightBreaks(c) ==
  /\ In(c, "upstream")
  /\ req' = Landed(c, "broken", Waiting(c))
  /\ UNCHANGED <<NotLogin, loginVars, asked>>

AnswerBroken(c) ==
  /\ In(c, "broken") /\ Answer(c, "503")
  /\ UNCHANGED <<NotLogin, loginVars, asked>>

\* A request that waits gives up with its own client.
WaiterLeaves(c) ==
  /\ In(c, "wait") /\ Answer(c, "503")
  /\ UNCHANGED <<NotLogin, loginVars, asked>>

AnswerFailure(c) ==
  /\ In(c, "failure")
  /\ lock' = RecordFailure(lock)
  /\ Answer(c, "401")
  /\ UNCHANGED <<NotLogin, dovecot, cache, budget, refilled, logins, accepted, asked>>

CacheAnyAnswer(c) ==
  /\ req[c].pc \in {"success", "failure"}
  /\ lock' = RecordSuccess(lock) /\ cache' = Put(cache, req[c].pass)
  /\ To(c, [req[c] EXCEPT !.pc = "account"])
  /\ UNCHANGED <<NotLogin, dovecot, budget, refilled, logins, accepted, asked>>

AnswerSuccess(c) ==
  /\ In(c, "success")
  /\ lock' = RecordSuccess(lock) /\ cache' = Put(cache, req[c].pass)
  /\ To(c, [req[c] EXCEPT !.pc = "account"])
  /\ UNCHANGED <<NotLogin, dovecot, budget, refilled, logins, accepted, asked>>

\* requireProvisioned: the row is read on every request.
RequireProvisioned(c) ==
  /\ In(c, "account")
  /\ Answer(c, IF suspended THEN "403" ELSE "200")
  /\ UNCHANGED <<NotLogin, loginVars, asked>>

\* The account is suspended or its credential revoked: the row first, then InvalidateUser.
InvalidateUser ==
  /\ topic = "login" /\ cache # {}
  /\ cache' = {}
  /\ UNCHANGED <<topic, now, req, asked, dovecot, lock, budget, refilled, logins, accepted, sessionVars,
                 bucketVars>>

\* The mailbox's owner changes the password in Mailcow.
ChangePassword ==
  /\ topic = "login" /\ logins.ok = 1 /\ asked < Requests
  /\ \E p \in Passwords \ {dovecot} : dovecot' = p
  /\ UNCHANGED <<topic, now, req, asked, cache, lock, budget, refilled, logins, accepted, sessionVars,
                 bucketVars>>

LoginStep(c) ==
  \/ Authenticate(c) \/ CheckLockout(c) \/ ValidateCoalesced(c) \/ ValidateUpstream(c)
  \/ FlightBreaks(c) \/ WaiterLeaves(c) \/ AnswerBroken(c) \/ AnswerFailure(c) \/ AnswerSuccess(c)
  \/ RequireProvisioned(c)

(***************************************************************************)
(* Delegated sessions: exchange, renew, logout, revoke; and push tokens.   *)
(***************************************************************************)

NotSession == <<topic, now, loginVars, bucketVars>>

\* resolveSession: neither revoked nor past its own or its absolute end.
Resolves(s) == /\ ~sessions[s].revoked /\ sessions[s].expires > now /\ sessions[s].absolute > now

\* issueSession: the absolute end caps the session's own.  A session is late when the account was
\* suspended between its admission and its insert.
IssueSession(ss, absolute, from) ==
  Append(ss, [expires |-> Smaller(now + SessionTTL, absolute), absolute |-> absolute,
              revoked |-> FALSE, from |-> from, faded |-> 0, late |-> suspended])

\* pruneLocked and evictOldestLocked, then the new grant.
Prune(ts) == {t \in ts : now <= t.expires}
EvictNewest(ts) == IF Cardinality(ts) < MaxTokens THEN ts
                   ELSE ts \ {CHOOSE t \in ts : \A u \in ts : t.expires >= u.expires}
Evict(ts) == IF Cardinality(ts) < MaxTokens THEN ts
             ELSE ts \ {CHOOSE t \in ts : \A u \in ts : t.expires <= u.expires}
Mint(ts, n, scope) == Evict(Prune(ts)) \cup 
    {[nonce |-> n, scope |-> scope, expires |-> now + TokenTTL, late |-> suspended]}

\* A token opens what it was minted for, until it expires, while its grant is registered.
Scopes == {"blob", "push"}
Verify(t, want) == t \in tokens /\ t.scope = want /\ now <= t.expires

SessionOps == {"exchange", "renew", "logout", "mint", "drop", "issuer", "suspend"}

\* The request is authenticated (or, for an exchange, the issuer's token was accepted) and the
\* account is admitted: not disabled, not suspended.
StartSession(c) ==
  /\ topic = "session" /\ In(c, "free") /\ asked < Requests
  /\ \E op \in SessionOps, s \in {0} \cup DOMAIN sessions :
       /\ (op \in {"renew", "logout", "mint", "drop"}) = (s # 0)
       /\ s # 0 => Resolves(s)
       /\ op \in {"exchange", "renew", "mint", "drop"} => ~suspended
       /\ To(c, [pc |-> op, s |-> s, n |-> asked,
                 old |-> IF s = 0 THEN 0 ELSE sessions[s].expires,
                 absolute |-> IF s = 0 THEN now + SessionMax ELSE sessions[s].absolute])
  /\ asked' = asked + 1
  /\ UNCHANGED <<NotSession, suspended, sessions, tokens>>

HandleDelegatedExchange(c) ==
  /\ In(c, "exchange")
  /\ sessions' = IssueSession(sessions, now + SessionMax, 0)
  /\ Answer(c, "200")
  /\ UNCHANGED <<NotSession, suspended, tokens, asked>>

\* The renewal keeps the absolute end, and the old session lives on for a grace.
HandleDelegatedRenewAnew(c) ==
  /\ In(c, "renew")
  /\ sessions' = IssueSession(sessions, now + SessionMax, req[c].s)
  /\ To(c, [req[c] EXCEPT !.pc = "shorten"])
  /\ UNCHANGED <<NotSession, suspended, tokens, asked>>

HandleDelegatedRenew(c) ==
  /\ In(c, "renew")
  /\ sessions' = IssueSession(sessions, req[c].absolute, req[c].s)
  /\ To(c, [req[c] EXCEPT !.pc = "shorten"])
  /\ UNCHANGED <<NotSession, suspended, tokens, asked>>

\* SetDelegatedSessionExpiry leaves a revoked session alone; faded remembers the moment.
ShortenNever(c) ==
  /\ In(c, "shorten")
  /\ sessions' = [sessions EXCEPT ![req[c].s] = [@ EXCEPT !.faded = now + 1]]
  /\ Answer(c, "200")
  /\ UNCHANGED <<NotSession, suspended, tokens, asked>>

ShortenAlways(c) ==
  LET s == req[c].s IN
  /\ In(c, "shorten")
  /\ sessions' = [sessions EXCEPT ![s] = [@ EXCEPT !.faded = now + 1, !.expires = now + RenewGrace]]
  /\ Answer(c, "200")
  /\ UNCHANGED <<NotSession, suspended, tokens, asked>>

SetDelegatedSessionExpiry(c) ==
  LET s == req[c].s
      grace == now + RenewGrace IN
  /\ In(c, "shorten")
  /\ \/ sessions' = [sessions EXCEPT ![s] =
                       [@ EXCEPT !.faded = now + 1,
                                 !.expires = IF grace < req[c].old /\ ~sessions[s].revoked THEN grace ELSE @]]
     \/ sessions' = sessions      \* the update fails and is logged
  /\ Answer(c, "200")
  /\ UNCHANGED <<NotSession, suspended, tokens, asked>>

\* The session is revoked (a failure is logged) and the account's push tokens with it.
HandleDelegatedLogout(c) ==
  /\ In(c, "logout")
  /\ \/ sessions' = [sessions EXCEPT ![req[c].s] = [@ EXCEPT !.revoked = TRUE]]
     \/ sessions' = sessions
  /\ tokens' = {} /\ Answer(c, "204")
  /\ UNCHANGED <<NotSession, suspended, asked>>

\* RevokeDelegatedSessionsByIssuer; the tokens go only if a session did.
Live(ss) == {s \in DOMAIN ss : ~ss[s].revoked /\ ss[s].expires > now}
RevokeNewest(ss) == [s \in DOMAIN ss |-> IF s = Len(ss) THEN [ss[s] EXCEPT !.revoked = TRUE] ELSE ss[s]]
RevokeAll(ss) == [s \in DOMAIN ss |-> IF s \in Live(ss) THEN [ss[s] EXCEPT !.revoked = TRUE] ELSE ss[s]]

HandleDelegatedRevoke(c) ==
  /\ In(c, "issuer")
  /\ sessions' = RevokeAll(sessions)
  /\ tokens' = IF Live(sessions) # {} THEN {} ELSE tokens
  /\ Answer(c, "200")
  /\ UNCHANGED <<NotSession, suspended, asked>>

HandleTokenMint(c) ==
  /\ In(c, "mint")
  /\ \/ \E scope \in Scopes : tokens' = Mint(tokens, req[c].n, scope)
     \/ tokens' = Mint(Mint(tokens, req[c].n, "blob"), req[c].n, "push")
  /\ Answer(c, "200")
  /\ UNCHANGED <<NotSession, suspended, sessions, asked>>

\* The caller's own tokens, named one by one, are dropped.
HandleTokenRevoke(c) ==
  /\ In(c, "drop")
  /\ \E ts \in SUBSET tokens : tokens' = tokens \ ts
  /\ Answer(c, "204")
  /\ UNCHANGED <<NotSession, suspended, sessions, asked>>

\* The accounts API suspends: the row, then RevokeDelegatedSessions (tokens and sessions).
SuspendRow(c) ==
  /\ In(c, "suspend")
  /\ suspended' = TRUE /\ To(c, [req[c] EXCEPT !.pc = "revoke"])
  /\ UNCHANGED <<NotSession, sessions, tokens, asked>>

RevokeDelegatedSessions(c) ==
  /\ In(c, "revoke")
  /\ tokens' = {} /\ sessions' = RevokeAll(sessions) /\ Answer(c, "200")
  /\ UNCHANGED <<NotSession, suspended, asked>>

Resume ==
  /\ topic = "session" /\ suspended /\ \A c \in Browsers : In(c, "free")
  /\ suspended' = FALSE
  /\ UNCHANGED <<NotSession, req, asked, sessions, tokens>>

SessionStep(c) ==
  \/ StartSession(c) \/ HandleDelegatedExchange(c) \/ HandleDelegatedRenew(c)
  \/ SetDelegatedSessionExpiry(c) \/ HandleDelegatedLogout(c) \/ HandleDelegatedRevoke(c)
  \/ HandleTokenMint(c) \/ HandleTokenRevoke(c) \/ SuspendRow(c) \/ RevokeDelegatedSessions(c)

(***************************************************************************)
(* Token buckets: ipRateLimiter.take/peek and rateLimiter.allow.           *)
(***************************************************************************)

\* A key not seen before starts full.
RefillBucketFull(b) == [seen |-> TRUE, last |-> now, tokens |-> Burst * RateWindow]

RefillBucket(b) ==
  IF ~b.seen THEN [seen |-> TRUE, last |-> now, tokens |-> Burst * RateWindow]
  ELSE [b EXCEPT !.last = now,
                 !.tokens = Smaller(Burst * RateWindow, @ + (now - b.last) * PerWindow)]

\* The hint given with a refusal: seconds until one token is there, rounded up.
WaitDown(b) == (RateWindow - b.tokens) \div PerWindow
Wait(b) == (RateWindow - b.tokens + PerWindow - 1) \div PerWindow

Take ==
  /\ topic = "bucket" /\ asked < Requests
  /\ LET b == RefillBucket(bucket) IN
     IF b.tokens >= RateWindow
     THEN /\ bucket' = [b EXCEPT !.tokens = @ - RateWindow] /\ taken' = Append(taken, now)
     ELSE /\ bucket' = b /\ UNCHANGED taken
  /\ asked' = asked + 1
  /\ UNCHANGED <<topic, now, req, loginVars, sessionVars>>

AccessNext == \/ Tick \/ InvalidateUser \/ ChangePassword \/ Resume \/ Take
              \/ \E c \in Browsers : LoginStep(c) \/ SessionStep(c)

AccessSpec == AccessInit /\ [][AccessNext]_accessVars

(***************************************************************************)
(* Properties.                                                             *)
(***************************************************************************)

\* Types, and the bounds of the registries: MaxCached passwords, MaxTokens grants.
AccessTypeOK ==
  /\ topic \in {"login", "session", "bucket"} /\ now \in 0..LastSecond
  /\ Cardinality(cache) <= MaxCached /\ Cardinality(tokens) <= MaxTokens
  /\ budget \in 0..(Budget * Window) /\ bucket.tokens \in 0..(Burst * RateWindow)

\* Only passwords Dovecot itself accepted are answered from memory, each entry names another
\* password, and none lives longer than the TTL.
CachedWasAccepted ==
  \A e \in cache : /\ e.pass \in accepted /\ e.expires <= now + CacheTTL
                   /\ \A f \in cache : f.pass = e.pass => f = e

\* The failures forwarded to Dovecot stay within the budget and its refill, up to the requests
\* that passed the check together.
BudgetHolds ==
  logins.bad * Window <= Budget * Window + now * Budget + (Cardinality(Browsers) - 1) * Window

\* One pair is never validated twice at the same time.
OneFlight ==
  \A c, d \in Browsers : req[c].pc = "upstream" /\ req[d].pc = "upstream" /\ c # d
                          => req[c].pass # req[d].pass

\* Whoever waits, waits for a flight of the same password that is still in the air.
NobodyForgotten ==
  \A c \in Browsers : req[c].pc = "wait" =>
    LET l == req[req[c].leader] IN l.pc = "upstream" /\ l.pass = req[c].pass

\* No session outlives the absolute end of the sign-in it descends from.
SignInIsBounded ==
  \A s \in DOMAIN sessions : /\ sessions[s].expires <= sessions[s].absolute
                             /\ sessions[s].from # 0 => sessions[s].absolute = sessions[sessions[s].from].absolute

\* A renewed session is over one grace after its renewal was answered.
RenewedFades ==
  \A s \in DOMAIN sessions : sessions[s].faded > 0 /\ ~sessions[s].revoked =>
    sessions[s].expires <= sessions[s].faded - 1 + RenewGrace

\* Once a suspension has run to its end, the account has neither a session nor a token that would
\* work again after a resume, whatever crossed it, but for the late ones: a request admitted before
\* the row was marked and carried out after the revocation leaves one that is refused only while
\* the suspension lasts ("ends every delegated session of an account", delegated.go:569).
SuspensionEndsAll ==
  suspended /\ (\A c \in Browsers : req[c].pc = "free") =>
    /\ \A s \in DOMAIN sessions : Resolves(s) => sessions[s].late
    /\ \A t \in tokens, want \in Scopes : Verify(t, want) => t.late

\* In every stretch of time the limiter lets through at most the burst and what the rate adds.
RateHolds ==
  \A i \in DOMAIN taken : \A j \in i..Len(taken) :
    (j - i + 1) * RateWindow <= Burst * RateWindow + (taken[j] - taken[i]) * PerWindow

\* A client that waits as long as the refusal told it to is let through next.
RetryAfterSuffices ==
  LET b == RefillBucket(bucket) IN
  bucket.seen /\ b.tokens < RateWindow => b.tokens + Wait(b) * PerWindow >= RateWindow

\* Only a full registry costs a token its life: outside a revocation, a token that disappears had
\* expired, or was among those that would expire first and the registry stays full.
TokensKept ==
  [][ ~(\E c \in Browsers :
          req[c].pc \in {"drop", "logout", "issuer", "revoke"} /\ req'[c].pc = "free") =>
        \A t \in tokens \ tokens' :
           \/ now > t.expires
           \/ Cardinality(tokens') = MaxTokens /\ \A u \in tokens' : u.expires >= t.expires ]_accessVars

\* A session that stopped resolving never resolves again, but for one renewed twice at once: the
\* second renewal compares its grace with the end it read before the first one moved it, and may
\* set a later end than the one that has passed ("a shorter remaining life is left alone",
\* delegated.go:754).  A revoked session never comes back.
EndedStaysEnded ==
  [][ \A s \in DOMAIN sessions : ~Resolves(s) /\ Resolves(s)' =>
        /\ ~sessions[s].revoked /\ sessions[s].faded > 0
        /\ \E c \in Browsers : req[c].pc = "shorten" /\ req[c].s = s ]_accessVars

\* Signing in: only passwords Dovecot accepted are remembered, failures stay
\* within the budget, one pair is checked once and whoever waits for it is
\* told, sessions end when their sign-in does, a suspension leaves nothing
\* that works, and the limiter keeps its rate and its promise of when to
\* return (authcache.go, lockout.go, delegated.go, token.go, admin_accounts.go).
AccessSafe ==
  /\ AccessTypeOK /\ CachedWasAccepted /\ BudgetHolds /\ OneFlight /\ NobodyForgotten
  /\ SignInIsBounded /\ RenewedFades /\ SuspensionEndsAll /\ RateHolds /\ RetryAfterSuffices
=============================================================================
