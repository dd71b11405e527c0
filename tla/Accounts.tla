------------------------------ MODULE Accounts ------------------------------
(***************************************************************************)
(* The per-domain accounts API (internal/accounts, internal/provision,     *)
(* internal/mailcow, jmaphttp/admin_accounts*.go, cmd/moovctl): one address *)
(* as three parties see it.  Mailcow holds the mailbox and its app          *)
(* passwords, Moov's store holds the account row and the sealed credential, *)
(* and the exports directory holds the archives.  Every operation is a      *)
(* sequence of calls on those parties with no transaction around them; any  *)
(* call may be refused, fail, succeed with its answer lost, or find that    *)
(* the client hung up, and two operations may interleave call by call.      *)
(***************************************************************************)
EXTENDS Integers, Sequences, SequencesExt, FiniteSets, FiniteSetsExt

CONSTANTS Callers,      \* concurrent API requests and command lines
          MaxCalls,     \* operations and faults in a behaviour, by scene
          MaxFaults,    \* failing calls, hang-ups and crashes in a behaviour
          MaxExports    \* export rows in a behaviour

VARIABLES scene,     \* which operations this behaviour asks for
          cow,       \* Mailcow: the mailbox, or NoBox
          apps,      \* Mailcow: the mailbox's app passwords
          row,       \* the account row, or NoRow
          guest,     \* a sign-in under way: the row it was admitted to, or 0
          live,      \* the account's delegated session: "none", "held", or "late" (issued to a
                     \* sign-in that was admitted before a suspension)
          deletedOk, \* the audit table holds an "ok" delete of the address
          call,      \* the operations in progress
          exports,   \* account_exports, in request order
          runner,    \* the export runner's goroutine
          minted, numbered, calls, faults,  \* counters
          accepted,  \* ghost: rows whose deletion was answered 202
          unclean    \* ghost: what went wrong on the way

accountVars == <<scene, cow, apps, row, guest, live, deletedOk, call, exports, runner,
                 minted, numbered, calls, faults, accepted, unclean>>

NoBox == [box |-> FALSE]
NoRow == [id |-> 0]

(***************************************************************************)
(* The operations: the calls each makes, in order.                         *)
(***************************************************************************)

\* provision.Provision: a real LOGIN, the mailbox's access, a scoped app password, the row, the seal.
Provision == <<"login", "getbox", "mint", "findrow", "addrow", "store">>

\* provision.Reissue: mint, prove by LOGIN, replace the stored credential.
Reissue == <<"findrow", "mint", "login", "store">>

\* Service.Create up to the mailbox; then finishCreate.
CreatePath == <<"lookup", "mkbox">>
FinishCreate == Provision \o <<"setid", "rate", "facts", "reread">>

UpdatePath == <<"lookup", "edit", "rate", "facts", "reread">>
SuspendPathRowOnly == <<"lookup", "mark", "revoke", "reread">>
SuspendPath == <<"lookup", "edit", "mark", "revoke", "reread">>
ResumePath == <<"lookup", "edit", "mark", "reread">>

\* The credential is re-issued and recorded before the old one is dropped, and the flag comes last.
ReissueKeepsOld == Reissue \o <<"setid">>
ReissueWithoutSMTP == Reissue \o <<"dropold", "setid">>
ReadOnlyPath == <<"lookup">> \o ReissueWithoutSMTP \o <<"edit", "mark", "revoke", "reread">>

DeletePath == <<"lookup", "revoke", "rmbox", "mark", "reread">>
StartExportPath == <<"lookup", "latest", "queue">>

PathOf == [create |-> CreatePath \o FinishCreate, update |-> UpdatePath,
           suspend |-> SuspendPath, resume |-> ResumePath,
           readonly |-> ReadOnlyPath, delete |-> DeletePath,
           export |-> StartExportPath,
           add |-> Provision, disable |-> <<"lookup", "mark">>,
           rotate |-> <<"list", "reseal">>]

Ops == DOMAIN PathOf

\* moovctl runs outside the daemon: no audit line, no HTTP answer.
CommandLine == {"add", "disable", "rotate"}

\* Where a failure is only logged and the operation goes on.
Tolerated == {<<"suspend", "revoke">>, <<"readonly", "revoke">>, <<"delete", "revoke">>,
              <<"readonly", "dropold">>, <<"readonly", "edit">>}

NextStage == [op \in Ops |->
  [s \in Range(PathOf[op]) |->
     LET i == CHOOSE j \in DOMAIN PathOf[op] : PathOf[op][j] = s
     IN  IF i = Len(PathOf[op]) THEN "finish" ELSE PathOf[op][i + 1]]]

Idle == [pc |-> "idle", op |-> "none", ans |-> "none"]

(***************************************************************************)
(* Where a scene starts and what it may ask for.                           *)
(***************************************************************************)

Scenes == [fresh    |-> {"create", "readonly", "delete", "suspend"},
           hand     |-> {"create", "add", "delete", "readonly"},
           standing |-> {"update", "suspend", "resume", "readonly", "delete", "create"},
           keys     |-> {"rotate", "readonly", "delete", "disable", "resume"},
           archive  |-> {"export", "delete"}]

ASSUME AccountsAssumption == /\ IsFiniteSet(Callers) /\ Callers # {}
                             /\ MaxCalls \in [DOMAIN Scenes -> Nat] /\ MaxFaults \in Nat
                             /\ MaxExports \in Nat

Box(pw) == [box |-> TRUE, pw |-> pw, active |-> TRUE, smtp |-> TRUE, quota |-> 1, rl |-> 0]

\* accounts: one row; key is the master key the credential is sealed under.
NewRow(id) == [id |-> id, cred |-> "pending", app |-> 0, key |-> 1, appId |-> 0,
               state |-> "active", ro |-> FALSE, susp |-> FALSE, deleting |-> FALSE,
               quota |-> 0, send |-> 0]

StandingRow == [NewRow(1) EXCEPT !.cred = "active", !.app = 1, !.appId = 1,
                                 !.quota = 1, !.send = 1]

AccountsInit ==
  /\ scene \in DOMAIN Scenes
  /\ LET up == scene \in {"standing", "keys", "archive"} IN
     /\ cow = IF up THEN [Box(0) EXCEPT !.rl = 1] ELSE IF scene = "hand" THEN Box(0) ELSE NoBox
     /\ apps = IF up THEN {[id |-> 1, smtp |-> TRUE]} ELSE {}
     /\ row = IF up THEN StandingRow ELSE NoRow
     /\ minted = IF up THEN 1 ELSE 0
     /\ numbered = IF up THEN 1 ELSE 0
  /\ guest = 0 /\ live = "none" /\ deletedOk = FALSE
  /\ call = [c \in Callers |-> Idle]
  /\ exports = <<>> /\ runner = [pc |-> "idle", job |-> 0]
  /\ calls = 0 /\ faults = 0 /\ accepted = {} /\ unclean = {}

(***************************************************************************)
(* How a call on another party may turn out.                               *)
(***************************************************************************)

\* Calls and faults share one budget: a behaviour with a fault has one operation less.
Spare == faults < MaxFaults /\ calls + faults < MaxCalls[scene]

\* mailcow.Client.do and checkAPIResult: applied and answered, refused, applied with the
\* answer lost, never sent, or cut short because the client of the request went away.
MailcowMay(c) == IF call[c].gone THEN {"gone"}
                 ELSE {"ok"} \cup IF Spare THEN {"refused", "lost", "down", "gone"} ELSE {}

StoreMay(c) == IF call[c].gone THEN {"gone"}
               ELSE {"ok"} \cup IF Spare THEN {"down"} ELSE {}

Applied(o) == o \in {"ok", "lost"}

Spend(c, o) == /\ faults' = IF o \in {"ok", "denied"} \/ call[c].gone THEN faults ELSE faults + 1
               /\ unclean' = IF o = "ok" THEN unclean ELSE unclean \cup {"fault"}

\* classifyMailcow: what Mailcow answered and refused is 502, anything else 503.
ClassifyMailcow(o) == IF o \in {"refused", "denied"} THEN "502" ELSE "503"

\* A failure inside provisioning first takes the minted app password back; a create whose
\* call made the mailbox then removes the mailbox; the answer comes last.
Abort(k, e) == [k EXCEPT !.ans = e,
                         !.pc = IF k.app # 0 /\ ~k.stored THEN "unmint"
                                ELSE IF k.ours THEN "unbox" ELSE "finish"]

Advance(k) == [k EXCEPT !.pc = NextStage[k.op][k.pc]]

Outcome(k, o, e) ==
  LET g == [k EXCEPT !.gone = @ \/ o = "gone"]
  IN  IF o = "ok" \/ <<k.op, k.pc>> \in Tolerated THEN Advance(g) ELSE Abort(g, e)

Put(c, k) == call' = [call EXCEPT ![c] = k]

At(c, s) == call[c].pc = s

Rest == <<scene, guest, minted, numbered, calls, accepted, exports, runner, deletedOk>>

(***************************************************************************)
(* Reading the row: resolve, the idempotent create, 409 while deleting.    *)
(***************************************************************************)

\* DomainOf and inDomain held before any of this: the address is the actor's.
Begin(c) ==
  /\ At(c, "idle") /\ calls + faults < MaxCalls[scene]
  /\ \E op \in Scenes[scene] :
       \E arg \in IF op = "update" THEN {"quota", "send", "both"} ELSE {"none"} :
         Put(c, [pc |-> Head(PathOf[op]), op |-> op, ans |-> "none", a |-> NoRow, arg |-> arg,
                 pw |-> IF op = "create" THEN calls + 1 ELSE 0, ours |-> FALSE,
                 app |-> 0, stored |-> FALSE, gone |-> FALSE, wrote |-> FALSE, lines |-> 0])
  /\ calls' = calls + 1
  /\ unclean' = unclean \cup {u \in {"overlap", "adopted"} :
                                IF u = "adopted" THEN call'[c].op = "add"
                                ELSE \E d \in Callers : call[d].pc # "idle"}
  /\ UNCHANGED <<scene, guest, cow, apps, row, live, deletedOk, exports, runner, minted, numbered,
                 faults, accepted>>

\* Early answers carry their own audit line; the others leave it to the deferred finish.
Audited(k, ans) == [k EXCEPT !.ans = ans, !.pc = "idle", !.lines = @ + 1]
Answered(k, ans) == [k EXCEPT !.ans = ans, !.pc = "idle"]

Lookup(c) ==
  LET k == call[c] IN
  /\ At(c, "lookup")
  /\ Put(c, CASE k.op = "create" /\ row = NoRow -> Advance(k)
              [] row = NoRow -> Answered(k, "404")
              [] k.op = "disable" -> IF row.state = "disabled" THEN Answered(k, "200")
                                     ELSE Advance([k EXCEPT !.a = row])
              [] row.deleting -> Audited(k, "409")
              [] k.op = "create" -> Audited(k, "200")
              [] k.op = "readonly" /\ row.ro -> Audited(k, "200")
              [] OTHER -> Advance([k EXCEPT !.a = row]))
  /\ UNCHANGED <<cow, apps, row, live, faults, unclean, Rest>>

\* The read itself fails: an error is returned before finish is deferred, so no line is written.
LookupFails(c) ==
  /\ At(c, "lookup") /\ Spare
  /\ Put(c, Answered(call[c], "500"))
  /\ faults' = faults + 1
  /\ UNCHANGED <<cow, apps, row, live, unclean, Rest>>

(***************************************************************************)
(* Calls on Mailcow and on Dovecot.                                        *)
(***************************************************************************)

\* An existing mailbox answers object_exists, and the create goes on without owning it.
CreateMailboxOwned(c) ==
  LET k == call[c] IN
  /\ At(c, "mkbox")
  /\ \E o \in MailcowMay(c) :
       /\ cow' = IF Applied(o) /\ ~cow.box THEN Box(k.pw) ELSE cow
       /\ Put(c, Outcome([k EXCEPT !.ours = (o = "ok"), !.wrote = @ \/ cow' # cow], o,
                         ClassifyMailcow(o)))
       /\ Spend(c, o)
  /\ UNCHANGED <<apps, row, live, Rest>>

CreateMailbox(c) ==
  LET k == call[c] IN
  /\ At(c, "mkbox")
  /\ \E o \in MailcowMay(c) :
       IF o = "ok" /\ cow.box
       THEN /\ Put(c, Advance(k)) /\ Spend(c, o) /\ UNCHANGED cow
       ELSE /\ cow' = IF Applied(o) /\ ~cow.box THEN Box(k.pw) ELSE cow
            /\ Put(c, Outcome([k EXCEPT !.ours = (o = "ok"), !.wrote = @ \/ cow' # cow], o,
                              ClassifyMailcow(o)))
            /\ Spend(c, o)
  /\ UNCHANGED <<apps, row, live, Rest>>

\* imapValidator.Validate: Dovecot accepts the mailbox's password, or a live app password of it.
DovecotAccepts(k) == /\ cow.box /\ cow.active
                     /\ IF k.op = "readonly" THEN k.app \in {p.id : p \in apps} ELSE k.pw = cow.pw

Validate(c) ==
  LET k == call[c] IN
  /\ At(c, "login")
  /\ \E o \in IF call[c].gone THEN {"gone"}
              ELSE {IF DovecotAccepts(k) THEN "ok" ELSE "denied"}
                   \cup (IF Spare THEN {"down"} ELSE {}) :
       /\ Put(c, Outcome(k, o, IF k.op = "readonly" THEN "503" ELSE ClassifyMailcow(o)))
       /\ Spend(c, o)
  /\ UNCHANGED <<cow, apps, row, live, Rest>>

\* GetMailbox, IsActive and AllowsMoovScopes.
GetMailbox(c) ==
  /\ At(c, "getbox")
  /\ \E o \in MailcowMay(c) \ {"lost"} :
       /\ Put(c, IF o = "ok" /\ ~(cow.box /\ cow.active /\ cow.smtp)
                 THEN Abort(call[c], IF cow.box THEN "503" ELSE "502")
                 ELSE Outcome(call[c], o, ClassifyMailcow(o)))
       /\ Spend(c, o)
  /\ UNCHANGED <<cow, apps, row, live, Rest>>

\* CreateAppPassword: the POST and the listing that finds its id.  An error after the POST
\* leaves an app password nobody can name.
CreateAppPassword(c) ==
  LET k == call[c] IN
  /\ At(c, "mint")
  /\ \E o \in MailcowMay(c) :
       LET made == Applied(o) /\ cow.box
           res == IF o = "ok" /\ ~cow.box THEN "denied" ELSE o IN
       /\ minted' = IF made THEN minted + 1 ELSE minted
       /\ apps' = IF made THEN apps \cup {[id |-> minted', smtp |-> k.op # "readonly"]} ELSE apps
       /\ Put(c, Outcome([k EXCEPT !.app = IF made /\ o = "ok" THEN minted' ELSE 0, !.wrote = @ \/ made],
                         res, ClassifyMailcow(res)))
       /\ Spend(c, o)
  /\ UNCHANGED <<cow, row, live, scene, guest, numbered, calls, accepted, exports, runner, deletedOk>>

\* EditMailbox with the fields the operation sets; a missing mailbox is access_denied.
EditMailbox(c) ==
  LET k == call[c] IN
  /\ At(c, "edit")
  /\ \E o \in MailcowMay(c) :
       LET res == IF o = "ok" /\ ~cow.box THEN "denied" ELSE o IN
       /\ cow' = IF ~(Applied(o) /\ cow.box) THEN cow
                 ELSE CASE k.op = "suspend" -> [cow EXCEPT !.active = FALSE]
                        [] k.op = "resume" -> [cow EXCEPT !.active = TRUE]
                        [] k.op = "readonly" -> [cow EXCEPT !.smtp = FALSE]
                        [] OTHER -> IF k.arg = "send" THEN cow ELSE [cow EXCEPT !.quota = 2]
       /\ Put(c, Outcome([k EXCEPT !.wrote = @ \/ cow' # cow], res, ClassifyMailcow(res)))
       /\ Spend(c, o)
  /\ UNCHANGED <<apps, row, live, Rest>>

\* applyRateLimit: read the mailbox, write the limit only where it differs.
ApplyRateLimit(c) ==
  LET k == call[c]
      want == IF k.op = "update" THEN 2 ELSE 1 IN
  /\ At(c, "rate")
  /\ IF k.op = "update" /\ k.arg = "quota"
     THEN Put(c, Advance(k)) /\ UNCHANGED <<cow, faults, unclean>>
     ELSE \E o \in MailcowMay(c) :
            LET res == IF o = "ok" /\ ~cow.box THEN "denied" ELSE o IN
            /\ cow' = IF Applied(o) /\ cow.box THEN [cow EXCEPT !.rl = want] ELSE cow
            /\ Put(c, Outcome([k EXCEPT !.wrote = @ \/ cow' # cow], res, ClassifyMailcow(res)))
            /\ Spend(c, o)
  /\ UNCHANGED <<apps, row, live, Rest>>

\* DeleteMailbox; Mailcow's cascade takes the app passwords.  access_denied is also "no such
\* entity": a delete goes on, and a rollback only logs.
DeleteMailbox(c) ==
  LET k == call[c] IN
  /\ k.pc \in {"rmbox", "unbox"}
  /\ \E o \in MailcowMay(c) :
       /\ cow' = IF Applied(o) THEN NoBox ELSE cow
       /\ apps' = IF Applied(o) THEN {} ELSE apps
       /\ Put(c, IF k.pc = "rmbox"
                 THEN Outcome([k EXCEPT !.wrote = @ \/ cow' # cow], o, ClassifyMailcow(o))
                 ELSE [k EXCEPT !.pc = "finish", !.gone = @ \/ o = "gone"])
       /\ Spend(c, o)
  /\ UNCHANGED <<row, live, Rest>>

\* The cleanup of a failed provisioning runs on a context of its own (WithoutCancel).
Unmint(c) ==
  LET k == call[c] IN
  /\ At(c, "unmint")
  /\ \E o \in {"ok"} \cup IF Spare THEN {"down"} ELSE {} :
       /\ apps' = IF o = "ok" THEN {p \in apps : p.id # k.app} ELSE apps
       /\ faults' = IF o = "ok" THEN faults ELSE faults + 1
       /\ unclean' = unclean \cup {"fault"}
       /\ Put(c, [k EXCEPT !.app = 0, !.pc = IF k.ours THEN "unbox" ELSE "finish"])
  /\ UNCHANGED <<cow, row, live, Rest>>

\* DeleteAppPassword of the credential the row named when the operation began.
DeleteAppPassword(c) ==
  LET k == call[c] IN
  /\ At(c, "dropold")
  /\ IF k.a.appId \in {0, k.app}
     THEN Put(c, Advance(k)) /\ UNCHANGED <<apps, faults, unclean>>
     ELSE \E o \in MailcowMay(c) :
            /\ apps' = IF Applied(o) THEN {p \in apps : p.id # k.a.appId} ELSE apps
            /\ Put(c, Outcome(k, o, "none"))
            /\ Spend(c, o)
  /\ UNCHANGED <<cow, row, live, Rest>>

(***************************************************************************)
(* Statements on the accounts table.  Each names the row by id.            *)
(***************************************************************************)

Mine(k) == row # NoRow /\ row.id = k.a.id

\* An UPDATE that matches no row is ErrNotFound, which the API layer does not know: 500.
Update(c, new, matches, e) ==
  LET k == call[c] IN
  \E o \in StoreMay(c) :
    LET res == IF o = "ok" /\ ~matches THEN "denied" ELSE o IN
    /\ row' = IF o = "ok" /\ matches THEN new ELSE row
    /\ Put(c, Outcome([k EXCEPT !.wrote = @ \/ row' # row,
                                !.stored = @ \/ (k.pc = "store" /\ res = "ok")], res, e))
    /\ Spend(c, o)

\* upsertAccount, its read: an existing row is reused.
FindAccount(c) ==
  LET k == call[c] IN
  /\ At(c, "findrow")
  /\ \E o \in StoreMay(c) :
       /\ Put(c, IF o # "ok" THEN Outcome(k, o, "503")
                 ELSE IF row # NoRow
                      THEN [k EXCEPT !.a = IF k.op = "readonly" THEN [@ EXCEPT !.id = row.id] ELSE row,
                                     !.pc = IF k.op = "readonly" THEN "mint" ELSE "store"]
                 ELSE IF k.op = "readonly" THEN Abort(k, "503") ELSE Advance(k))
       /\ Spend(c, o)
  /\ UNCHANGED <<cow, apps, row, live, Rest>>

\* upsertAccount, its insert: pending, a state the engine does not act on.
CreateAccount(c) ==
  LET k == call[c] IN
  /\ At(c, "addrow")
  /\ \E o \in StoreMay(c) :
       LET res == IF o = "ok" /\ row # NoRow THEN "denied" ELSE o IN
       /\ row' = IF res = "ok" THEN NewRow(numbered + 1) ELSE row
       /\ numbered' = IF res = "ok" THEN numbered + 1 ELSE numbered
       /\ Put(c, Outcome([k EXCEPT !.a = row', !.wrote = TRUE], res, "503"))
       /\ Spend(c, o)
  /\ UNCHANGED <<cow, apps, live, scene, guest, minted, calls, accepted, exports, runner, deletedOk>>

\* Seal under the primary key of the running daemon, then SetAccountCredentials.
SetAccountCredentials(c) ==
  LET k == call[c] IN
  /\ At(c, "store")
  /\ Update(c, [row EXCEPT !.cred = "active", !.app = k.app, !.key = 1], Mine(k), "503")
  /\ UNCHANGED <<cow, apps, live, Rest>>

SetAccountAppPasswordID(c) ==
  LET k == call[c] IN
  /\ At(c, "setid")
  /\ Update(c, [row EXCEPT !.appId = k.app], Mine(k), "500")
  /\ UNCHANGED <<cow, apps, live, Rest>>

\* The mirror is built from the row read at the start, so it also rewrites what was absent.
SetAccountFactsQuotaOnly(c) ==
  LET k == call[c] IN
  /\ At(c, "facts")
  /\ Update(c, [row EXCEPT !.quota = IF k.op = "create" THEN 1
                                     ELSE IF k.arg = "send" THEN k.a.quota ELSE 2,
                           !.send = IF k.op = "create" THEN 1 ELSE k.a.send], Mine(k), "500")
  /\ UNCHANGED <<cow, apps, live, Rest>>

SetAccountFacts(c) ==
  LET k == call[c] IN
  /\ At(c, "facts")
  /\ Update(c, [row EXCEPT
                  !.quota = IF k.op = "create" THEN 1
                            ELSE IF k.arg = "send" THEN k.a.quota ELSE 2,
                  !.send = IF k.op = "create" THEN 1
                           ELSE IF k.arg = "quota" THEN k.a.send ELSE 2], Mine(k), "500")
  /\ UNCHANGED <<cow, apps, live, Rest>>

\* SetAccountSuspended, SetAccountReadOnly and MarkAccountDeleting refuse a row being deleted.
SetAccountSuspendedWord(r, on) == [r EXCEPT !.susp = on, !.state = IF on THEN "suspended" ELSE "active"]
SetAccountSuspended(r, on) == [r EXCEPT !.susp = on, !.state = IF on THEN "disabled" ELSE "active"]
SetAccountReadOnly(r) == [r EXCEPT !.ro = TRUE]
MarkAccountDeleting(r) == [r EXCEPT !.deleting = TRUE, !.state = "disabled", !.cred = "revoked"]
SetAccountState(r) == [r EXCEPT !.state = "disabled"]

MarkMatchesAny(k) == Mine(k)

MarkMatches(k) == Mine(k) /\ (k.op # "disable" => ~row.deleting)
Mark(c) ==
  LET k == call[c] IN
  /\ At(c, "mark")
  /\ Update(c, CASE k.op = "suspend" -> SetAccountSuspended(row, TRUE)
                 [] k.op = "resume" -> SetAccountSuspended(row, FALSE)
                 [] k.op = "readonly" -> SetAccountReadOnly(row)
                 [] k.op = "delete" -> MarkAccountDeleting(row)
                 [] OTHER -> SetAccountState(row),
            MarkMatches(k), "500")
  /\ UNCHANGED <<cow, apps, live, Rest>>

\* serverRevoker.RevokeAccount: scoped tokens, delegated sessions, cached credentials.
RevokeNothing(c) ==
  /\ At(c, "revoke")
  /\ Put(c, Advance(call[c]))
  /\ UNCHANGED <<cow, apps, row, live, faults, unclean, Rest>>

RevokeAccount(c) ==
  /\ At(c, "revoke")
  /\ \E o \in StoreMay(c) :
       /\ live' = IF o = "ok" THEN "none" ELSE live
       /\ Put(c, Outcome(call[c], o, "none"))
       /\ Spend(c, o)
  /\ UNCHANGED <<cow, apps, row, Rest>>

\* reread and resourceOf: the row as it stands after the transition.
Reread(c) ==
  LET k == call[c] IN
  /\ At(c, "reread")
  /\ \E o \in StoreMay(c) :
       /\ Put(c, IF o = "ok" /\ row # NoRow
                 THEN [k EXCEPT !.pc = "finish",
                                !.ans = CASE k.op = "create" -> "201" [] k.op = "delete" -> "202"
                                          [] OTHER -> "200"]
                 ELSE [k EXCEPT !.pc = "finish", !.ans = "500", !.gone = @ \/ o = "gone"])
       /\ Spend(c, o)
  /\ UNCHANGED <<cow, apps, row, live, Rest>>

\* finish and audit: one line whatever the outcome, lost only when it cannot be stored.
FinishTwice(c) ==
  LET k == call[c] IN
  /\ At(c, "finish")
  /\ Put(c, [Answered(k, IF k.ans = "none" THEN "200" ELSE k.ans) EXCEPT !.lines = @ + 2])
  /\ UNCHANGED <<scene, guest, cow, apps, row, live, exports, runner, minted, numbered, calls, unclean,
                 deletedOk, faults, accepted>>

Finish(c) ==
  LET k == call[c]
      ans == IF k.ans = "none" THEN "200" ELSE k.ans
      good == ans \in {"200", "201", "202"} IN
  /\ At(c, "finish")
  /\ \E o \in IF k.op \in CommandLine THEN {"ok"} ELSE StoreMay(c) :
       /\ Put(c, [Answered(k, ans) EXCEPT !.lines = IF o = "ok" /\ k.op \notin CommandLine
                                                    THEN @ + 1 ELSE @,
                                          !.gone = @ \/ o # "ok"])
       /\ deletedOk' = (deletedOk \/ (o = "ok" /\ k.op = "delete" /\ good))
       /\ faults' = IF o = "ok" \/ k.gone THEN faults ELSE faults + 1
  /\ accepted' = IF k.op = "delete" /\ ans = "202" THEN accepted \cup {<<c, k.a.id>>} ELSE accepted
  /\ UNCHANGED <<scene, guest, cow, apps, row, live, exports, runner, minted, numbered, calls, unclean>>

(***************************************************************************)
(* The purge, the session, the operator's key rotation.                    *)
(***************************************************************************)

\* Service.Purge, every minute: DeleteAccount of each row being deleted.  The cascade takes the
\* sessions and the mail; an export's account_id becomes NULL.
PurgeDisabled ==
  /\ row # NoRow /\ row.state = "disabled"
  /\ row' = NoRow /\ live' = "none"
  /\ exports' = [e \in DOMAIN exports |-> [exports[e] EXCEPT !.acct = 0]]
  /\ UNCHANGED <<scene, guest, cow, apps, deletedOk, call, runner, minted, numbered, calls, faults,
                 accepted, unclean>>

PurgeOnceExported ==
  /\ row # NoRow /\ row.deleting
  /\ \A e \in DOMAIN exports : exports[e].purged
  /\ row' = NoRow /\ live' = "none"
  /\ UNCHANGED <<scene, guest, cow, apps, deletedOk, call, runner, minted, numbered, calls, faults,
                 accepted, unclean, exports>>

Purge ==
  /\ row # NoRow /\ row.deleting
  /\ row' = NoRow /\ live' = "none"
  /\ exports' = [e \in DOMAIN exports |-> [exports[e] EXCEPT !.acct = 0]]
  /\ UNCHANGED <<scene, guest, cow, apps, deletedOk, call, runner, minted, numbered, calls, faults,
                 accepted, unclean>>

\* handleDelegatedExchange: the account is read and admitted; then its session is inserted, with
\* nothing between the two that would notice a suspension (the row's cascade does a deletion).
admitAccount(a) == a.state = "active" /\ ~a.susp

ExchangeAdmits ==
  /\ scene = "standing" /\ live = "none" /\ guest = 0 /\ row # NoRow /\ admitAccount(row)
  /\ guest' = row.id
  /\ UNCHANGED <<scene, cow, apps, row, live, deletedOk, call, exports, runner, minted, numbered,
                 calls, faults, accepted, unclean>>

issueSession ==
  /\ guest # 0 /\ guest' = 0
  /\ live' = IF row.id # guest THEN live ELSE IF row.susp THEN "late" ELSE "held"
  /\ UNCHANGED <<scene, cow, apps, row, deletedOk, call, exports, runner, minted, numbered, calls,
                 faults, accepted, unclean>>

\* keyRotate: ListAccounts, then per row Rotate and SetAccountCredentials with what was read.
ListForRotation(c) ==
  LET k == call[c] IN
  /\ At(c, "list")
  /\ Put(c, IF row = NoRow \/ row.app = 0 \/ row.key = 2 THEN Answered(k, "200")
            ELSE Advance([k EXCEPT !.a = row]))
  /\ UNCHANGED <<cow, apps, row, live, faults, unclean, Rest>>

RotateLosing(env) == [env EXCEPT !.key = 2, !.app = 0]

Rotate(env) == [env EXCEPT !.key = 2]
Reseal(c) ==
  LET k == call[c]
      env == Rotate([app |-> k.a.app, key |-> k.a.key]) IN
  /\ At(c, "reseal")
  /\ Update(c, [row EXCEPT !.cred = "active", !.app = env.app, !.key = env.key], Mine(k), "500")
  /\ UNCHANGED <<cow, apps, live, Rest>>

\* The daemon restarts: every request in flight is cut, the sessions in the store survive.
Restart ==
  /\ Spare /\ \E c \in Callers : call[c].pc # "idle" /\ call[c].op \notin CommandLine
  /\ call' = [c \in Callers |-> IF call[c].pc = "idle" \/ call[c].op \in CommandLine THEN call[c]
                                ELSE [Answered(call[c], "cut") EXCEPT !.gone = TRUE]]
  /\ runner' = [pc |-> "idle", job |-> 0] /\ guest' = 0
  /\ faults' = faults + 1 /\ unclean' = unclean \cup {"fault"}
  /\ UNCHANGED <<scene, cow, apps, row, live, deletedOk, exports, minted, numbered, calls, accepted>>

(***************************************************************************)
(* Exports.                                                                *)
(***************************************************************************)

Active(e) == e.status \in {"pending", "running"}

\* StartExport: the latest job, if it is still in flight, is the answer.
LatestExportIgnored(c) ==
  /\ At(c, "latest")
  /\ Put(c, Advance(call[c]))
  /\ UNCHANGED <<cow, apps, row, live, faults, unclean, Rest>>

LatestExport(c) ==
  LET k == call[c] IN
  /\ At(c, "latest")
  /\ Put(c, IF exports # <<>> /\ Active(Last(exports)) THEN Audited(k, "202") ELSE Advance(k))
  /\ UNCHANGED <<cow, apps, row, live, faults, unclean, Rest>>

CreateExport(c) ==
  LET k == call[c] IN
  /\ At(c, "queue") /\ Len(exports) < MaxExports
  /\ exports' = IF Mine(k) THEN Append(exports, [status |-> "pending", acct |-> row.id, file |-> "none",
                                                 old |-> FALSE, purged |-> FALSE])
                ELSE exports
  /\ Put(c, [k EXCEPT !.pc = "finish", !.ans = IF Mine(k) THEN "202" ELSE "500"])
  /\ UNCHANGED <<scene, guest, cow, apps, row, live, deletedOk, runner, minted, numbered, calls, faults,
                 accepted, unclean>>

Others == <<scene, cow, apps, row, guest, live, deletedOk, call, minted, numbered, calls, accepted, unclean>>

SetExport(i, e) == exports' = [exports EXCEPT ![i] = e]

\* ClaimPendingExport: the oldest pending row becomes running, atomically.
ClaimLiveExport ==
  /\ runner.pc = "idle"
  /\ \E i \in DOMAIN exports :
       /\ exports[i].status = "pending" /\ exports[i].acct # 0
       /\ SetExport(i, [exports[i] EXCEPT !.status = "running"])
       /\ runner' = [pc |-> "write", job |-> i]
  /\ UNCHANGED <<Others, faults>>

ClaimPendingExport ==
  /\ runner.pc = "idle"
  /\ \E i \in DOMAIN exports :
       /\ exports[i].status = "pending"
       /\ \A j \in 1..(i - 1) : exports[j].status # "pending"
       /\ SetExport(i, [exports[i] EXCEPT !.status = "running"])
       /\ runner' = [pc |-> IF exports[i].acct = 0 THEN "fail" ELSE "write", job |-> i]
  /\ UNCHANGED <<Others, faults>>

\* produce up to the rename: the archive is written under a temporary name.
WriteMessages ==
  LET i == runner.job IN
  /\ runner.pc = "write"
  /\ \/ /\ SetExport(i, [exports[i] EXCEPT !.file = "partial"])
        /\ runner' = [runner EXCEPT !.pc = "rename"] /\ UNCHANGED faults
     \/ /\ Spare /\ faults' = faults + 1
        /\ runner' = [runner EXCEPT !.pc = "fail"] /\ UNCHANGED exports
  /\ UNCHANGED Others

PublishNothing ==
  /\ runner.pc = "rename"
  /\ runner' = [runner EXCEPT !.pc = "complete"]
  /\ UNCHANGED <<Others, faults, exports>>

Publish ==
  LET i == runner.job IN
  /\ runner.pc = "rename"
  /\ SetExport(i, [exports[i] EXCEPT !.file = "whole"])
  /\ runner' = [runner EXCEPT !.pc = "complete"]
  /\ UNCHANGED <<Others, faults>>

\* A completion that cannot be recorded fails the job; the published file stays.
CompleteExport ==
  LET i == runner.job IN
  /\ runner.pc = "complete"
  /\ \/ /\ SetExport(i, [exports[i] EXCEPT !.status = "ready"])
        /\ runner' = [pc |-> "idle", job |-> 0] /\ UNCHANGED faults
     \/ /\ Spare /\ faults' = faults + 1
        /\ runner' = [runner EXCEPT !.pc = "fail"] /\ UNCHANGED exports
  /\ UNCHANGED Others

\* FailExport; the deferred clean-up has removed the partial file.
FailExport ==
  LET i == runner.job IN
  /\ runner.pc = "fail"
  /\ \/ /\ SetExport(i, [exports[i] EXCEPT !.status = "failed",
                                           !.file = IF @ = "partial" THEN "none" ELSE @])
        /\ UNCHANGED faults
     \/ /\ Spare /\ faults' = faults + 1 /\ UNCHANGED exports
  /\ runner' = [pc |-> "idle", job |-> 0]
  /\ UNCHANGED Others

\* Seven days pass over a finished export.
Age ==
  /\ \E i \in DOMAIN exports :
       /\ exports[i].status = "ready" /\ ~exports[i].old
       /\ SetExport(i, [exports[i] EXCEPT !.old = TRUE])
  /\ UNCHANGED <<Others, runner, faults>>

\* sweep: the file first, then the row.
SweepFile ==
  /\ runner.pc = "idle"
  /\ \E i \in DOMAIN exports :
       /\ exports[i].status = "ready" /\ exports[i].old /\ ~exports[i].purged
       /\ SetExport(i, [exports[i] EXCEPT !.file = "none"])
       /\ runner' = [pc |-> "sweep", job |-> i]
  /\ UNCHANGED <<Others, faults>>

PurgeExport ==
  LET i == runner.job IN
  /\ runner.pc = "sweep"
  /\ SetExport(i, [exports[i] EXCEPT !.status = "expired", !.purged = TRUE])
  /\ runner' = [pc |-> "idle", job |-> 0]
  /\ UNCHANGED <<Others, faults>>

\* The daemon stops under a running export: nothing puts the row back.
RunnerRestart ==
  /\ Spare /\ runner.pc # "idle"
  /\ runner' = [pc |-> "idle", job |-> 0]
  /\ faults' = faults + 1
  /\ UNCHANGED <<Others, exports>>

\* OpenDownload of a signed URL: what the browser gets.
OpenDownload(e) ==
  IF e.purged THEN "410"
  ELSE IF e.status # "ready" THEN "404"
  ELSE IF e.file = "none" THEN "410" ELSE e.file

(***************************************************************************)
(* The specification.                                                      *)
(***************************************************************************)

Step(c) == \/ Lookup(c) \/ CreateMailbox(c) \/ Validate(c) \/ GetMailbox(c)
           \/ CreateAppPassword(c) \/ EditMailbox(c) \/ ApplyRateLimit(c) \/ DeleteMailbox(c)
           \/ Unmint(c) \/ DeleteAppPassword(c) \/ FindAccount(c) \/ CreateAccount(c)
           \/ SetAccountCredentials(c) \/ SetAccountAppPasswordID(c) \/ SetAccountFacts(c)
           \/ Mark(c) \/ RevokeAccount(c) \/ Reread(c) \/ Finish(c)
           \/ ListForRotation(c) \/ Reseal(c) \/ LatestExport(c) \/ CreateExport(c)

Runner == ClaimPendingExport \/ WriteMessages \/ Publish \/ CompleteExport \/ FailExport
          \/ SweepFile \/ PurgeExport

AccountsNext == \/ \E c \in Callers : Begin(c) \/ Step(c) \/ LookupFails(c)
                \/ Purge \/ ExchangeAdmits \/ issueSession \/ Restart
                \/ Runner \/ Age \/ RunnerRestart

\* The purge loop and the export runner are tickers of the daemon; requests need no fairness.
AccountsFairness == WF_accountVars(Purge) /\ WF_accountVars(Runner)

AccountsSpec == AccountsInit /\ [][AccountsNext]_accountVars /\ AccountsFairness

(***************************************************************************)
(* Properties.                                                             *)
(***************************************************************************)

Quiet == \A c \in Callers : call[c].pc = "idle"

\* Types of the three parties' state.
AccountsTypeOK ==
  /\ scene \in DOMAIN Scenes
  /\ cow.box \in BOOLEAN /\ apps \subseteq [id : 1..minted, smtp : BOOLEAN]
  /\ row.id \in 0..numbered
  /\ row # NoRow => /\ row.cred \in {"pending", "active", "revoked"}
                    /\ row.state \in {"active", "disabled"}
                    /\ row.app \in 0..minted /\ row.appId \in 0..minted
  /\ faults \in 0..MaxFaults /\ calls \in 0..MaxCalls[scene]
  /\ \A e \in Range(exports) : /\ e.status \in {"pending", "running", "ready", "failed", "expired"}
                               /\ e.file \in {"none", "partial", "whole"}

\* Without a failed call, an account at rest that is not being deleted can be synced: its mailbox
\* exists and the credential in its row is one Mailcow still honours, whatever was asked of it.
AccountWorks ==
  Quiet /\ row # NoRow /\ ~row.deleting /\ "fault" \notin unclean /\ "overlap" \notin unclean =>
    cow.box /\ row.cred = "active" /\ row.app \in {p.id : p \in apps}

\* The read-only flag never claims a lock the credential does not enforce: the credential in the
\* row is one without SMTP, and an operation that ran alone and unfailing left no other behind.
\* (A moovctl account add after an unwritten smtp_access seals a full credential again.)
ReadOnlyHolds ==
  row # NoRow /\ row.ro /\ "overlap" \notin unclean /\ ~({"adopted", "fault"} \subseteq unclean) =>
    /\ \A p \in apps : p.id = row.app => ~p.smtp
    /\ unclean = {} => \A p \in apps : ~p.smtp

\* Deletion is accepted once per account row, however many requests ask for it at the same time.
AcceptedOnce == \A x, y \in accepted : x[2] = y[2] => x = y

\* A suspended account at rest has no session left, unless revoking failed or was cut short, or a
\* sign-in was admitted before the suspension was recorded and issued after its revocation.  That
\* late session is refused on every request while the suspension lasts and works again after a
\* resume, where delegated.go:569 says that suspending "ends every delegated session of an account".
SuspendedIsOut ==
  Quiet /\ row # NoRow /\ row.susp /\ "fault" \notin unclean => live \in {"none", "late"}

\* One operation at a time keeps Mailcow's activity and Moov's suspension opposite.
SuspendedIsInactive ==
  Quiet /\ row # NoRow /\ ~row.deleting /\ cow.box
        /\ "fault" \notin unclean /\ "overlap" \notin unclean => row.susp = ~cow.active

\* The mirror of quota and send limit follows Mailcow when updates neither fail nor overlap.
MirrorAgrees ==
  Quiet /\ row # NoRow /\ ~row.deleting /\ "fault" \notin unclean /\ "overlap" \notin unclean
    /\ scene = "standing" => row.quota = cow.quota /\ row.send = cow.rl

\* Every finished API write that changed Mailcow or the store left exactly one audit line, and no
\* operation left two; a line is missing only where the request was cut off.
AuditedOnce ==
  \A c \in Callers : LET k == call[c] IN
    k.pc = "idle" /\ k.op \notin CommandLine \cup {"none"} =>
      /\ k.lines <= 1
      /\ k.wrote /\ ~k.gone => k.lines = 1

\* A browser following a download link never gets a partly written archive.
DownloadsAreWhole == \A e \in Range(exports) : OpenDownload(e) \in {"404", "410", "whole"}

\* One job at a time per account, unless two requests were started together.
OneJobAtATime ==
  "overlap" \notin unclean => Cardinality({i \in DOMAIN exports : Active(exports[i])}) <= 1

\* A deletion is never taken back: a row being deleted stays so until it is gone, a row goes only
\* that way, and no other row ever takes its number.
NothingRevives ==
  [][ /\ row # NoRow /\ row.deleting => (row' = NoRow \/ (row'.id = row.id /\ row'.deleting))
      /\ row # NoRow /\ row' # NoRow => row'.id = row.id
      /\ row # NoRow /\ row' = NoRow => row.deleting
      /\ row = NoRow /\ row' # NoRow => row'.id > numbered ]_accountVars

\* A mailbox an operator made by hand, which a create finds already there, goes only by a deletion
\* somebody asked for: no failing create takes it down in its rollback.
OthersMailKept ==
  [][ cow.box /\ ~cow'.box /\ cow.pw = 0 => \E c \in Callers : call[c].pc = "rmbox" ]_accountVars

\* A started deletion ends with the row gone.
DeletionsEnd == (row # NoRow /\ row.deleting) ~> (row = NoRow \/ ~row.deleting)

\* A running export that no runner works on: the daemon stopped under it, or its failure could not
\* be recorded.  ClaimPendingExport takes pending rows only, so it stays running, where
\* cmd/moovd/accounts.go:199-200 says that "the job row is still pending or running, and the next
\* daemon claims it".
Stranded(i) == exports[i].status = "running" /\ runner.job # i

InHand(i) == i \in DOMAIN exports /\ Active(exports[i]) /\ ~Stranded(i)

\* Every queued export ends, whatever stops or fails: only the one that was running at that moment
\* may be left stranded, and those queued behind it are still produced.
ExportsEnd == \A i \in 1..MaxExports : InHand(i) ~> ~InHand(i)

\* What the accounts API leaves behind it across Mailcow, the rows and the
\* sessions: an account that works, a read-only lock that is enforced, one
\* deletion, no session of a suspended account, mirrors that agree, one audit
\* line per write and archives that are whole (service.go, operations.go,
\* export.go); each with the faults and overlaps that excuse it.
AccountsSafe ==
  /\ AccountsTypeOK /\ AccountWorks /\ ReadOnlyHolds /\ AcceptedOnce /\ SuspendedIsOut
  /\ SuspendedIsInactive /\ MirrorAgrees /\ AuditedOnce /\ DownloadsAreWhole /\ OneJobAtATime
=============================================================================
