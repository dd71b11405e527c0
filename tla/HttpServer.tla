----------------------------- MODULE HttpServer -----------------------------
(***************************************************************************)
(* The HTTP server around the JMAP engine (jmaphttp server, session,       *)
(* routes, middleware, cors, upload; jmap/mail download and part ids): the *)
(* per-user gates, the Session object and its state string, the doors in   *)
(* front of the routes, what a handler's writes become, downloads.         *)
(* Init picks a topic; requests of other topics do not interact with it.   *)
(***************************************************************************)
EXTENDS Integers, Sequences, SequencesExt, FiniteSets, TLC

CONSTANTS Clients,                 \* connections
          MaxConcurrentRequests,   \* per user; MaxConcurrentUpload for uploads
          Optional,                \* capabilities the configuration may turn on
          MaxBoots, MaxRowWrites,  \* starts of the daemon, writes of an account row
          MaxWrites,               \* writes of one handler
          maxFilenameLength,
          MaxName                  \* characters of a requested file name

ASSUME HttpAssumption == {MaxConcurrentRequests, MaxBoots, MaxRowWrites, MaxWrites, maxFilenameLength, MaxName} \subseteq Nat

VARIABLE srv

(***************************************************************************)
(* Concurrency gates: requests in process per user.                        *)
(***************************************************************************)

\* Two spellings of one address are one user.
Spellings == {"ana", "ANA", "eva"}
ToLowerName(email) == IF email = "ANA" THEN "ana" ELSE email

gateKeyAsTyped(email) == email

gateKey(email) == ToLowerName(email)

InFlight(g, user) == IF user \in DOMAIN g THEN g[user] ELSE 0

tryAcquire(g, user) == InFlight(g, user) < MaxConcurrentRequests

releaseToZero(g, user) == [g EXCEPT ![user] = @ - 1]

\* The entry of a user with nothing left in process is deleted.
release(g, user) == IF InFlight(g, user) <= 1 THEN [u \in DOMAIN g \ {user} |-> g[u]]
                    ELSE [g EXCEPT ![user] = @ - 1]

Idle == [pc |-> "idle", email |-> "", status |-> 0]

\* Up to the gate: handleAPI wants application/json, handleUpload a blob store and
\* the caller's own account.
Refused(kind, json, wired, own) ==
  CASE kind = "api" /\ ~json -> 415
    [] kind = "upload" /\ ~wired -> 501
    [] kind = "upload" /\ wired /\ ~own -> 404
    [] OTHER -> 0

Enter(c) ==
  /\ srv.topic = "gate" /\ srv.conn[c].pc = "idle"
  /\ \E email \in Spellings, json, wired, own \in BOOLEAN :
       LET early == Refused(srv.kind, json, wired, own)
           user == gateKey(email)
           in == early = 0 /\ tryAcquire(srv.inFlight, user)
       IN  srv' = [srv EXCEPT
             !.conn[c] = [pc |-> IF in THEN "inside" ELSE "answered", email |-> email,
                          status |-> IF early # 0 THEN early ELSE IF in THEN 0 ELSE 429],
             !.inFlight = IF in THEN (user :> InFlight(@, user) + 1) @@ @ ELSE @]

\* The body is too large, cannot be read or is stored or processed.  A request the
\* engine refuses is a 400 as well, and a panic becomes a 500.
apiOutcomes == {200, 400, 413, 500}
uploadOutcomes == {201, 413, 500}

\* However it ends, the deferred release runs before the answer is complete.
Leave(c) ==
  /\ srv.topic = "gate" /\ srv.conn[c].pc = "inside"
  /\ \E status \in IF srv.kind = "api" THEN apiOutcomes ELSE uploadOutcomes :
       srv' = [srv EXCEPT !.conn[c].pc = "answered", !.conn[c].status = status,
                          !.inFlight = release(@, gateKey(srv.conn[c].email))]

NextRequest(c) ==
  /\ srv.topic = "gate" /\ srv.conn[c].pc = "answered"
  /\ srv' = [srv EXCEPT !.conn[c] = Idle]

(***************************************************************************)
(* The Session object and its state string.                                *)
(***************************************************************************)

\* New: zero and negative limits mean the default (here 8).
fillLimitDefaults(limit) == IF limit <= 0 THEN 8 ELSE limit

\* sieveAccountCapability reports what the ManageSieve server said at start-up.
sieveAccountCapability(cfg) == IF "sieve" \in cfg.on THEN <<cfg.probed>> ELSE <<>>

\* prefsAccountCapability repeats the account's read-only mark.
prefsAccountCapability(cfg, row) == IF "prefs" \in cfg.on THEN <<row.readOnly>> ELSE <<>>

baseURL(cfg, req) ==
  IF cfg.baseURL # "" THEN cfg.baseURL
  ELSE CASE req.forwarded \in {"http", "https"} -> req.forwarded
         [] req.forwarded \notin {"http", "https"} /\ req.tls -> "https"
         [] OTHER -> "http"

sessionState0NoStamp(base, cfg, row) == <<base, row.state, cfg.limit, cfg.version>>

sessionState0(base, cfg, row) == <<base, row.state, row.updatedAt, cfg.limit, cfg.version>>

sessionObject(base, cfg, row) ==
  [capabilities |-> {"core", "mail"} \cup cfg.on,
   accountCapabilities |-> {"mail"} \cup cfg.on,
   primaryAccounts |-> {"mail"} \cup cfg.on,
   core |-> cfg.limit, readOnly |-> row.readOnly,
   sieve |-> sieveAccountCapability(cfg), prefs |-> prefsAccountCapability(cfg, row), urls |-> base]

Configs == [on : SUBSET Optional, probed : {"three", "five"}, limit : {8}, version : {1, 2}, baseURL : {""}]
             \cup [on : {Optional}, probed : {"three"}, limit : {fillLimitDefaults(l) : l \in {-1, 0, 4}},
                   version : {1}, baseURL : {"", "https"}]

NewRow == [state |-> "active", updatedAt |-> 0, readOnly |-> FALSE]

\* A client reads its session; the last reading is kept to compare with the first.
handleSession ==
  /\ srv.topic = "session"
  /\ \E forwarded \in {"none", "http", "https", "junk"}, tls \in BOOLEAN :
       LET base == baseURL(srv.cfg, [forwarded |-> forwarded, tls |-> tls])
           read == [boot |-> srv.boot, state |-> sessionState0(base, srv.cfg, srv.row),
                    object |-> sessionObject(base, srv.cfg, srv.row)]
       IN  srv' = [srv EXCEPT !.seen = IF @ = <<>> THEN <<read>> ELSE <<@[1], read>>]

\* Every statement of the store that changes the row stamps it: the credential, the
\* state, the read-only mark.
WriteAccount ==
  /\ srv.topic = "session" /\ srv.row.updatedAt < MaxRowWrites
  /\ \E row \in {srv.row, [srv.row EXCEPT !.readOnly = TRUE]} :
       srv' = [srv EXCEPT !.row = [row EXCEPT !.updatedAt = @ + 1]]

\* The daemon starts again, with another build or another configuration.
RestartServer ==
  /\ srv.topic = "session" /\ srv.boot < MaxBoots
  /\ \E cfg \in Configs : srv' = [srv EXCEPT !.boot = @ + 1, !.cfg = cfg]

(***************************************************************************)
(* Routes and their doors.                                                 *)
(***************************************************************************)

Door(method, path, door, scope) == [method |-> method, path |-> path, door |-> door, scope |-> scope]
Own(method, path) == Door(method, path, "account", "")
Public(method, path) == Door(method, path, "public", "")
Token(method, path, scope) == Door(method, path, "token", scope)
Service(method, path, scope) == Door(method, path, "service", scope)

routes ==
  {Own("GET", "well-known"), Own("POST", "api"), Token("GET", "download", "blob"), Own("POST", "upload"),
   Token("GET", "eventsource", "push"), Own("POST", "token"), Own("POST", "token/revoke"),
   Own("GET", "forwarding/verify"),
   Public("GET", "branding"), Public("GET", "branding/asset"), Public("GET", "branding/manifest"),
   Public("GET", "branding/icon"), Own("GET", "branding/admin"), Own("GET", "branding/admin/host"),
   Own("PUT", "branding/admin/host"), Own("PUT", "branding/admin/asset"),
   Own("DELETE", "branding/admin/asset"), Own("POST", "branding/admin/reset"),
   Own("POST", "imgproxy/sign"), Public("GET", "imgproxy"),
   Service("POST", "accounts", "write"), Service("GET", "accounts/one", "read"),
   Service("PATCH", "accounts/one", "write"), Service("DELETE", "accounts/one", "write"),
   Service("POST", "accounts/suspend", "write"), Service("POST", "accounts/resume", "write"),
   Service("POST", "accounts/read-only", "write"), Service("POST", "accounts/export", "write"),
   Service("GET", "accounts/export", "read"), Public("GET", "exports/download"),
   Public("POST", "delegated/exchange"), Public("POST", "delegated/renew"),
   Public("POST", "delegated/logout"), Public("POST", "delegated/revoke")}

\* What a request carries: an Authorization header and a token in its query.
Headers == {"none", "basic", "wrong", "session", "ended", "readKey", "writeKey"}
Tokens  == {"none", "push", "blob", "stale"}

Through(as) == [status |-> 200, challenge |-> "", as |-> as]
Denied(status, challenge) == [status |-> status, challenge |-> challenge, as |-> "nobody"]

\* A bearer header goes to the delegated sessions, any other to Basic; a service key is
\* a bearer header that names no session.
requireAuth(req) ==
  CASE req.header \in {"basic", "session"} -> IF req.enabled THEN Through("account") ELSE Denied(403, "")
    [] req.header \in {"none", "wrong"} -> Denied(401, "Basic")
    [] req.header \in {"ended", "readKey", "writeKey"} -> Denied(401, "Bearer")

requireAuthOrTokenFirst(scope, req) ==
  IF req.token = "none" THEN requireAuth(req)
  ELSE IF req.token # scope \/ ~req.enabled THEN Denied(403, "") ELSE Through("token")

requireAuthOrToken(scope, req) ==
  IF req.header # "none" \/ req.token = "none" THEN requireAuth(req)
  ELSE IF req.token # scope \/ ~req.enabled THEN Denied(403, "") ELSE Through("token")

\* serviceRoute: nothing about the API is told to who may not use it.
serviceRoute(scope, req) ==
  IF req.header = "writeKey" \/ (req.header = "readKey" /\ scope = "read") THEN Through("service")
  ELSE Denied(404, "")

Guarded(rt, req) ==
  CASE rt.door = "public" -> Through("anyone")
    [] rt.door = "service" -> serviceRoute(rt.scope, req)
    [] rt.door = "token" -> requireAuthOrToken(rt.scope, req)
    [] rt.door = "account" -> requireAuth(req)

\* The mux: another method of a known path is refused as such.
Matched(method, path) == {rt \in routes : rt.method = method /\ rt.path = path}
MethodsOf(path) == {rt.method : rt \in {r \in routes : r.path = path}}

newCORSPolicy(allowed) == [allowAll |-> "*" \in allowed, origins |-> allowed \ {"*"}]

allows(policy, origin) ==
  CASE origin = "" -> ""
    [] origin # "" /\ origin \in policy.origins -> origin
    [] origin # "" /\ origin \notin policy.origins /\ policy.allowAll -> "*"
    [] OTHER -> ""

\* The headers corsMiddleware puts on every answer.
corsHeadersAlways(policy, origin) ==
  [allowOrigin |-> allows(policy, origin), credentials |-> allows(policy, origin) # "",
   vary |-> policy.allowAll \/ policy.origins # {}]

corsHeaders(policy, origin) ==
  [allowOrigin |-> allows(policy, origin), credentials |-> allows(policy, origin) \notin {"", "*"},
   vary |-> policy.allowAll \/ policy.origins # {}]

preflightHandler(policy, req) ==
  [status |-> 204, allow |-> MethodsOf(req.path) \cup {"OPTIONS"},
   grants |-> IF allows(policy, req.origin) # "" THEN MethodsOf(req.path) \cup {"OPTIONS"} ELSE {}]

Serve ==
  /\ srv.topic = "route" /\ srv.pc = "asked"
  /\ LET req == srv.request
         policy == newCORSPolicy(srv.allowed)
         found == Matched(req.method, req.path)
     IN  srv' = [srv EXCEPT !.pc = "told",
           !.cors = corsHeaders(policy, req.origin),
           !.preflight = preflightHandler(policy, req),
           !.answer = IF found = {} THEN Denied(405, "")
                      ELSE Guarded(CHOOSE rt \in found : TRUE, req)]

(***************************************************************************)
(* What a handler writes, what the client gets and what is recorded.       *)
(***************************************************************************)

\* rec: the statusRecorder; wire: the status line already sent, 0 while none is.
NoRecord == [status |-> 0, wrote |-> FALSE, wire |-> 0]

WriteHeaderLast(rec, status) ==
  [status |-> status, wrote |-> TRUE, wire |-> IF rec.wire = 0 THEN status ELSE rec.wire]

WriteHeader(rec, status) ==
  [status |-> IF rec.wrote THEN rec.status ELSE status, wrote |-> TRUE,
   wire |-> IF rec.wire = 0 THEN status ELSE rec.wire]

Write(rec) == WriteHeader(rec, 200)

\* Flush sends the header but is not recorded; the one streaming handler writes its
\* header before it flushes.
Flush(rec) == [rec EXCEPT !.wire = IF @ = 0 THEN 200 ELSE @]

effectiveStatus(rec) == IF rec.wrote THEN rec.status ELSE 200

recoverMiddleware(rec) == IF rec.wrote THEN rec ELSE WriteHeader(rec, 500)

HandlerStep ==
  /\ srv.topic = "write" /\ srv.pc = "running"
  /\ \/ /\ srv.did < MaxWrites
        /\ \E rec \in {WriteHeader(srv.rec, s) : s \in {201, 404}} \cup {Write(srv.rec)}
                        \cup (IF srv.rec.wrote THEN {Flush(srv.rec)} ELSE {}) :
             srv' = [srv EXCEPT !.rec = rec, !.did = @ + 1]
     \/ srv' = [srv EXCEPT !.pc = "returned"]
     \/ srv' = [srv EXCEPT !.pc = "panicked", !.rec = recoverMiddleware(@), !.had = srv.rec]

\* logMiddleware, and net/http ending a response nobody started.
Logged ==
  /\ srv.topic = "write" /\ srv.pc \in {"returned", "panicked"}
  /\ srv' = [srv EXCEPT !.pc = "logged", !.rec.wire = IF @ = 0 THEN 200 ELSE @,
                        !.metric = effectiveStatus(srv.rec)]

(***************************************************************************)
(* Downloads.                                                              *)
(***************************************************************************)

Hashes == {"h1", "h2"}

\* A blob id is a hash, a hash with an index, or neither; the canonical decimals are
\* the indexes, up to maxPartIndex.
BlobIds == [form : {"whole"}, hash : Hashes, digits : {""}]
             \cup [form : {"part"}, hash : Hashes, digits : {"0", "1", "01", "-1", "x", "100001"}]
             \cup [form : {"junk"}, hash : {"h1"}, digits : {""}]

parsePartBlobIDLoose(id) ==
  CASE id.form = "part" /\ id.digits = "0" -> <<0>>
    [] id.form = "part" /\ id.digits \in {"1", "01"} -> <<1>>
    [] OTHER -> <<>>

parsePartBlobID(id) ==
  CASE id.form = "part" /\ id.digits = "0" -> <<0>>
    [] id.form = "part" /\ id.digits = "1" -> <<1>>
    [] OTHER -> <<>>

\* leaves: the servable parts of a message; 0 is a container in h1.
LeavesOf(hash) == IF hash = "h1" THEN {1} ELSE {0, 1}

openPartBlobOfAny(world, hash, index) ==
  IF ~world.storeFails /\ hash \in world.present /\ index \in LeavesOf(hash) THEN <<hash, index>> ELSE <<>>

openPartBlob(world, hash, index) ==
  IF ~world.storeFails /\ hash \in world.owned \cap world.present /\ index \in LeavesOf(hash) THEN <<hash, index>> ELSE <<>>

OpenBlob(world, id) ==
  CASE parsePartBlobID(id) # <<>> -> openPartBlob(world, id.hash, parsePartBlobID(id)[1])
    [] id.form = "whole" /\ ~world.storeFails /\ id.hash \in world.owned \cap world.present -> <<id.hash, -1>>
    [] OTHER -> <<>>

inlineTypes == {"text/plain", "image/png", "image/jpeg", "image/gif", "application/pdf"}

\* The type without its parameters; what does not parse is no type.
normalizeMediaType(type) == type.base

(***************************************************************************)
(* File names: a letter, a dot, a space, / and \, and what may not reach a *)
(* header: a quote, a control character, a bidirectional override.         *)
(***************************************************************************)

NameChars == {"a", ".", " ", "/", "\\", "quote", "control", "bidi"}
Unprintable == {"quote", "control", "bidi", "/", "\\"}

Strip(s, c) ==
  LET kept == {i \in DOMAIN s : s[i] # c}
  IN  IF kept = {} THEN <<>>
      ELSE SubSeq(s, CHOOSE i \in kept : \A j \in kept : i <= j, CHOOSE i \in kept : \A j \in kept : j <= i)

lastSegment(s) ==
  LET kept == {i \in DOMAIN s : s[i] # "/"} IN
  IF kept = {} THEN s
  ELSE LET end == CHOOSE i \in kept : \A j \in kept : j <= i
           seps == {i \in 1..end : s[i] = "/"}
           start == IF seps = {} THEN 1 ELSE 1 + CHOOSE i \in seps : \A j \in seps : j <= i
       IN  SubSeq(s, start, end)

Without(s, chars) == SelectSeq(s, LAMBDA c : c \notin chars)

SanitizeFilenameTrimmedFirst(name) ==
  LET base == lastSegment(Without(name, {"\\"}))
      out == Without(Strip(base, " "), Unprintable)
  IN  IF Strip(base, ".") = <<>> \/ Strip(out, ".") = <<>> THEN <<>>
      ELSE IF Len(out) > maxFilenameLength THEN Strip(SubSeq(out, 1, maxFilenameLength), " ") ELSE out

SanitizeFilename(name) ==
  LET base == lastSegment(Without(name, {"\\"}))
      out == Strip(Without(base, Unprintable), " ")
  IN  IF Strip(base, ".") = <<>> \/ Strip(out, ".") = <<>> THEN <<>>
      ELSE IF Len(out) > maxFilenameLength THEN Strip(SubSeq(out, 1, maxFilenameLength), " ") ELSE out

DownloadHeaders(type, name) ==
  [type |-> IF normalizeMediaType(type) \in inlineTypes THEN normalizeMediaType(type)
            ELSE "application/octet-stream",
   inline |-> normalizeMediaType(type) \in inlineTypes, name |-> SanitizeFilename(name)]

\* Every failure is the same 404, whoever asks for whatever.
handleDownload(world, own, id) ==
  LET found == IF own THEN OpenBlob(world, id) ELSE <<>>
  IN  [status |-> IF found = <<>> THEN 404 ELSE 200, body |-> found]

Download ==
  /\ srv.topic = "download" /\ srv.pc = "asked"
  /\ srv' = [srv EXCEPT !.pc = "told", !.answer = handleDownload(srv.world, srv.own, srv.id)]

NameIt ==
  /\ srv.topic = "name" /\ srv.pc = "asked"
  /\ srv' = [srv EXCEPT !.pc = "told", !.answer = DownloadHeaders(srv.type, srv.name)]

(***************************************************************************)

HttpInit ==
  \/ \E kind \in {"api", "upload"} :
       srv = [topic |-> "gate", kind |-> kind, conn |-> [c \in Clients |-> Idle], inFlight |-> <<>>]
  \/ \E cfg \in Configs : srv = [topic |-> "session", boot |-> 1, cfg |-> cfg, row |-> NewRow, seen |-> <<>>]
  \/ \E rt \in routes, method \in {"GET", "PUT"}, header \in Headers, token \in Tokens, enabled \in BOOLEAN :
       \E origin \in {"", "listed", "other"}, allowed \in SUBSET {"*", "listed"} :
       /\ IF origin = "" THEN allowed = {} ELSE header \in {"none", "basic"} /\ token = "none"
       /\ srv = [topic |-> "route", pc |-> "asked", allowed |-> allowed,
                 request |-> [path |-> rt.path, method |-> IF method = "GET" THEN rt.method ELSE method,
                              header |-> header, token |-> token, enabled |-> enabled, origin |-> origin],
                 answer |-> Denied(0, ""), cors |-> <<>>, preflight |-> <<>>]
  \/ srv = [topic |-> "write", pc |-> "running", did |-> 0, rec |-> NoRecord, had |-> NoRecord, metric |-> 0]
  \/ \E owned, present \in SUBSET Hashes, storeFails, own \in BOOLEAN, id \in BlobIds :
       srv = [topic |-> "download", pc |-> "asked", own |-> own, id |-> id, answer |-> <<>>,
              world |-> [owned |-> owned, present |-> present, storeFails |-> storeFails]]
  \/ \E name \in UNION {[1..n -> NameChars] : n \in 0..MaxName}, base \in {"", "text/plain", "text/html"} :
       srv = [topic |-> "name", pc |-> "asked", name |-> name, type |-> [base |-> base], answer |-> <<>>]

HttpNext ==
  \/ \E c \in Clients : Enter(c) \/ Leave(c) \/ NextRequest(c)
  \/ handleSession \/ WriteAccount \/ RestartServer
  \/ Serve \/ HandlerStep \/ Logged \/ Download \/ NameIt

HttpSpec == HttpInit /\ [][HttpNext]_srv

(***************************************************************************)
(* Properties                                                              *)
(***************************************************************************)

\* Type invariant of the server state.
HttpTypeOK ==
  /\ srv.topic \in {"gate", "session", "route", "write", "download", "name"}
  /\ srv.topic = "gate" => \A u \in DOMAIN srv.inFlight : srv.inFlight[u] \in Nat \ {0}
  /\ srv.topic = "session" => srv.cfg.limit > 0

InsideOf(user) == {c \in Clients : srv.conn[c].pc = "inside" /\ ToLowerName(srv.conn[c].email) = user}

\* The gate counts exactly the requests of a user that are being processed, however
\* the address was typed and however each of them ended, and lets at most
\* MaxConcurrentRequests in; a user with none has no entry, so a slot is never leaked.
GateHolds ==
  srv.topic = "gate" =>
    \A user \in {ToLowerName(e) : e \in Spellings} :
      /\ Cardinality(InsideOf(user)) = InFlight(srv.inFlight, user)
      /\ Cardinality(InsideOf(user)) <= MaxConcurrentRequests

\* sessionState0: two readings with the same state string agree on the limits, the URLs and the
\* read-only mark, whatever was written to the account row and across restarts with another build
\* or configuration; while one server runs they have the same Session object altogether.  A restart
\* that turns a capability on or off, or whose Sieve probe answers differently, changes the object
\* and not the string, where session.go:492-493 says "the string changes exactly when the object
\* would".
SameStateSameSession ==
  srv.topic = "session" /\ Len(srv.seen) = 2 /\ srv.seen[1].state = srv.seen[2].state =>
    LET first == srv.seen[1].object
        last == srv.seen[2].object
    IN  /\ <<first.core, first.urls, first.readOnly>> = <<last.core, last.urls, last.readOnly>>
        /\ srv.seen[1].boot = srv.seen[2].boot => first = last

\* requireAuthOrToken: a token opens only the route of its own scope and only without
\* an Authorization header, which always wins: the answer to a request with a header is
\* the answer it would get without the token.
HeaderWins ==
  srv.topic = "route" /\ srv.pc = "told" =>
    LET req == srv.request
        found == Matched(req.method, req.path)
    IN  /\ srv.answer.as = "token" => req.header = "none" /\ \E rt \in found : rt.scope = req.token
        /\ req.header # "none" /\ found # {} =>
             srv.answer = Guarded(CHOOSE rt \in found : TRUE, [req EXCEPT !.token = "none"])

\* CORS: credentials are allowed only to an origin of the list, never along with *, even
\* when the list holds both; a preflight grants methods exactly to the origins whose
\* real request would be readable, and exactly the methods the path serves.
CorsAgrees ==
  srv.topic = "route" /\ srv.pc = "told" =>
    /\ srv.cors.credentials <=> srv.request.origin # "" /\ srv.request.origin \in srv.allowed
    /\ srv.cors.allowOrigin = "*" => srv.request.origin \notin srv.allowed
    /\ srv.preflight.grants # {} <=> srv.cors.allowOrigin # ""
    /\ \A m \in srv.preflight.allow \ {"OPTIONS"} : Matched(m, srv.request.path) # {}

\* The recorded status is the one on the wire, for every order in which a handler
\* writes, returns or panics; and a panic before anything was sent becomes a 500, while
\* one after it changes nothing.
RecordedIsSent ==
  /\ srv.topic = "write" /\ srv.pc = "logged" => srv.metric = srv.rec.wire
  /\ srv.topic = "write" /\ srv.pc = "panicked" =>
       srv.rec = IF srv.had.wrote THEN srv.had ELSE [status |-> 500, wrote |-> TRUE, wire |-> 500]

\* What an account does not reference cannot be told from what does not exist: the answer
\* is the one of a server that holds only the blobs the account references.
HiddenIsAbsent ==
  srv.topic = "download" /\ srv.pc = "told" =>
    srv.answer = handleDownload([srv.world EXCEPT !.present = @ \cap srv.world.owned], srv.own, srv.id)

\* partBlobIDFor and parsePartBlobID: the bytes of one part have one id.
OneIdPerPart ==
  srv.topic = "download" /\ srv.pc = "told" /\ srv.answer.status = 200 =>
    \A id \in BlobIds \ {srv.id} : handleDownload(srv.world, srv.own, id).body # srv.answer.body

\* SanitizeFilename: nothing that could end the header or the quoted name, no path, no
\* space at either end and at most maxFilenameLength characters come out; and a short
\* name that holds none of that comes out as it was.
NamesAreSafe ==
  srv.topic = "name" /\ srv.pc = "told" =>
    LET out == srv.answer.name IN
    /\ \A i \in DOMAIN out : out[i] \notin Unprintable
    /\ Len(out) <= maxFilenameLength /\ Strip(out, " ") = out
    /\ Len(srv.name) <= maxFilenameLength =>
         (out # <<>> => Strip(out, ".") # <<>>)
    /\ (\A i \in DOMAIN srv.name : srv.name[i] \in {"a", "."}) /\ Len(srv.name) <= maxFilenameLength
         /\ (\E i \in DOMAIN srv.name : srv.name[i] = "a") => out = srv.name

\* The server in front of the engine: slots of the per-user gate are neither
\* leaked nor shared, the Session's state string tells its changes, a header
\* wins over a token, CORS and the routes agree, the recorded status is the sent
\* one, and a download tells an account only of its own blobs (middleware.go,
\* session.go, routes.go, cors.go, upload.go).
HttpSafe ==
  /\ HttpTypeOK /\ GateHolds /\ SameStateSameSession /\ HeaderWins /\ CorsAgrees
  /\ RecordedIsSent /\ HiddenIsAbsent /\ OneIdPerPart /\ NamesAreSafe
=============================================================================
