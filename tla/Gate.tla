-------------------------------- MODULE Gate --------------------------------
(***************************************************************************)
(* The gate of the accounts API and the algorithms around it               *)
(* (jmaphttp/admin_accounts*.go, accounts validate, keys, export;          *)
(* mailcow/errors.go; crypto).  Init poses one question; one step answers  *)
(* it the way the code does.  Characters are strings of length one, A is   *)
(* any capital, ! any character no address may hold.                       *)
(***************************************************************************)
EXTENDS Integers, Sequences, SequencesExt, FiniteSets

CONSTANTS MaxRaw,        \* characters of an address as it arrives
          MaxPath,       \* characters of a mailbox name
          MaxEntries     \* keys of a keyring, results of a Mailcow answer

ASSUME GateAssumption == {MaxRaw, MaxPath, MaxEntries} \subseteq Nat

VARIABLES matter, question, verdict

gateVars == <<matter, question, verdict>>

None == "none"

(***************************************************************************)
(* Addresses: accounts.NormalizeAddress, mailcow.validateMailbox.          *)
(***************************************************************************)

Chars == {"a", "A", "-", "_", ".", "@", " ", "!"}

RECURSIVE TrimLeft(_)
TrimLeft(s) == IF s # <<>> /\ s[1] = " " THEN TrimLeft(Tail(s)) ELSE s
TrimSpace(s) == Reverse(TrimLeft(Reverse(TrimLeft(s))))
ToLower(s) == [i \in DOMAIN s |-> IF s[i] = "A" THEN "a" ELSE s[i]]

isLowerAlnum(c) == c = "a"

LastIndex(s, c) == IF \E i \in DOMAIN s : s[i] = c
                   THEN CHOOSE i \in DOMAIN s : s[i] = c /\ \A j \in i + 1..Len(s) : s[j] # c ELSE 0

validLocalPartNoDots(s) ==
  /\ s # <<>> /\ isLowerAlnum(s[1]) /\ isLowerAlnum(Last(s))
  /\ \A i \in DOMAIN s : isLowerAlnum(s[i]) \/ s[i] \in {".", "_", "-"}

validLocalPart(s) ==
  /\ s # <<>> /\ isLowerAlnum(s[1]) /\ isLowerAlnum(Last(s))
  /\ \A i \in DOMAIN s : /\ isLowerAlnum(s[i]) \/ s[i] \in {".", "_", "-"}
                         /\ s[i] = "." /\ i > 1 => s[i - 1] # "."

\* strings.Split: the pieces between separators, empty ones included.
RECURSIVE Split(_, _)
Split(s, c) ==
  IF c \notin Range(s) THEN <<s>>
  ELSE LET i == CHOOSE k \in DOMAIN s : s[k] = c /\ \A j \in 1..k - 1 : s[j] # c
       IN  <<SubSeq(s, 1, i - 1)>> \o Split(SubSeq(s, i + 1, Len(s)), c)

validDomain(s) ==
  LET labels == Split(s, ".") IN
  /\ s # <<>> /\ Len(labels) >= 2
  /\ \A k \in DOMAIN labels :
       LET l == labels[k] IN
       /\ l # <<>> /\ isLowerAlnum(l[1]) /\ isLowerAlnum(Last(l))
       /\ \A i \in DOMAIN l : isLowerAlnum(l[i]) \/ l[i] = "-"

NotAnAddress == [ok |-> FALSE, addr |-> <<>>]

NormalizeAddress(raw) ==
  LET addr == ToLower(TrimSpace(raw))
      at == LastIndex(addr, "@") IN
  IF addr = <<>> \/ at <= 1 \/ at = Len(addr) THEN NotAnAddress
  ELSE IF ~validLocalPart(SubSeq(addr, 1, at - 1)) THEN NotAnAddress
  ELSE IF ~validDomain(SubSeq(addr, at + 1, Len(addr))) THEN NotAnAddress
  ELSE [ok |-> TRUE, addr |-> addr]

DomainOf(a) == LET at == LastIndex(a, "@") IN IF at = 0 THEN <<>> ELSE SubSeq(a, at + 1, Len(a))

\* mailcow.validateMailbox: the first @ decides, and nothing that would change a URL path.
validateMailbox(m) ==
  LET at == IF "@" \in Range(m) THEN CHOOSE i \in DOMAIN m : m[i] = "@" /\ \A j \in 1..i - 1 : m[j] # "@"
            ELSE 0 IN
  TrimSpace(m) = m /\ " " \notin Range(m) /\ at > 1 /\ at # Len(m)

\* The file name an export is offered under.
exportFilenameNarrow(a) == [i \in DOMAIN a |-> IF a[i] \in {"a", "A", "@", "."} THEN a[i] ELSE "_"]
exportFilename(a) == [i \in DOMAIN a |-> IF a[i] \in {"a", "A", "@", ".", "-", "_"} THEN a[i] ELSE "_"]

(***************************************************************************)
(* Mailbox names inside the archive: accounts.sanitizeMailboxPath.         *)
(***************************************************************************)

PathChars == {"a", "/", ".", " ", "\\", "^"}     \* ^ is a control character

Clean(p) == [i \in DOMAIN p |-> IF p[i] \in {"\\", "^"} THEN "_" ELSE p[i]]

sanitizeKeepDots(name) == FlattenSeq([k \in DOMAIN Split(name, "/") |-> Clean(Split(name, "/")[k]) \o <<"/">>])

sanitizeMailboxPath(name) ==
  LET parts == [k \in DOMAIN Split(name, "/") |-> Clean(TrimSpace(Split(name, "/")[k]))]
      clean == SelectSeq(parts, LAMBDA p : p \notin {<<>>, <<".">>, <<".", ".">>}) IN
  IF clean = <<>> THEN <<"_">>
  ELSE FlattenSeq([k \in DOMAIN clean |-> IF k = 1 THEN clean[k] ELSE <<"/">> \o clean[k]])

(***************************************************************************)
(* One request: serviceRoute and the handlers.                             *)
(***************************************************************************)

ReadOps == {"get", "exportGet"}
WriteOps == {"create", "update", "delete", "transition", "exportStart"}
Faults == {"name", "quota", "limits", "reason", "confirm", "empty"}

GateRequests == [enabled : BOOLEAN, key : {"absent", "malformed", "unknown", "revoked", "storeDown", "reader", "writer"},
          tokens : {0, 1}, op : ReadOps \cup WriteOps, path : {"ok", "bad"},
          type : {"none", "json", "other"}, body : {"absent", "ok", "tooBig", "wrongType", "unknownField"},
          wrong : {{}} \cup {{f} : f \in Faults} \cup {{"name", "quota"}, {"reason", "confirm"}}]

Say(status, field) == [status |-> status, field |-> field, served |-> FALSE]
NotFound == Say(404, "")

\* Authenticate and HasScope: whatever is wrong with a key is the same not-found.
HasScope(q) == q.key = "writer" \/ (q.key = "reader" /\ q.op \in ReadOps)

\* decodeAccountsBody: an optional body may be missing altogether.
BodyOptional(op) == op \in {"transition", "exportStart"}
decodeAccountsBody(q) ==
  IF q.type = "none" /\ BodyOptional(q.op) /\ q.body = "absent" THEN Say(200, "")
  ELSE IF q.type # "json" THEN Say(415, "")
  ELSE CASE q.body = "tooBig" -> Say(413, "")
         [] q.body = "absent" -> IF BodyOptional(q.op) THEN Say(200, "") ELSE Say(400, "")
         [] q.body \in {"wrongType", "unknownField"} -> Say(400, "body")
         [] OTHER -> Say(200, "")

\* The fields a handler validates, in its order.
FieldOrder(op) ==
  CASE op = "create" -> <<"name", "quota", "limits">>
    [] op = "update" -> <<"name", "quota", "limits", "empty">>
    [] op = "delete" -> <<"confirm">>
    [] op \in {"transition", "exportStart"} -> <<"reason">>
    [] OTHER -> <<>>

FirstWrong(q) ==
  LET bad == {i \in DOMAIN FieldOrder(q.op) : FieldOrder(q.op)[i] \in q.wrong} IN
  IF q.body = "absent" /\ BodyOptional(q.op) THEN ""     \* nothing was said, so nothing is wrong
  ELSE IF bad = {} THEN "" ELSE FieldOrder(q.op)[CHOOSE i \in bad : \A j \in bad : i <= j]

\* The address of a create is in its body, of everything else in the path.
Handle(q) ==
  IF q.op # "create" /\ q.path = "bad" THEN NotFound
  ELSE IF q.op \in WriteOps /\ decodeAccountsBody(q).status # 200 THEN decodeAccountsBody(q)
  ELSE IF q.op = "create" /\ q.path = "bad" THEN Say(400, "address")
  ELSE IF FirstWrong(q) # "" THEN Say(400, FirstWrong(q))
  ELSE [Say(200, "") EXCEPT !.served = TRUE]

serviceRouteLimitFirst(q) ==
  IF q.tokens = 0 THEN Say(429, "")
  ELSE IF ~q.enabled \/ ~HasScope(q) THEN NotFound ELSE Handle(q)

serviceRoute(q) ==
  IF ~q.enabled THEN NotFound
  ELSE IF ~HasScope(q) THEN NotFound
  ELSE IF q.tokens = 0 THEN Say(429, "")
  ELSE Handle(q)

(***************************************************************************)
(* Mailcow's answers: checkAPIResult.                                      *)
(***************************************************************************)

Results == {"success", "danger", "error"}

checkFirstOnly(rs) == IF rs = <<>> THEN "unexpected" ELSE IF rs[1] = "success" THEN "ok" ELSE "refused"

checkAPIResult(rs) ==
  IF rs = <<>> THEN "unexpected"
  ELSE LET bad == SelectSeq(rs, LAMBDA r : r # "success") IN
       IF bad = <<>> THEN "ok" ELSE IF bad[1] = "error" THEN "unauthorized" ELSE "refused"

(***************************************************************************)
(* The keyring: ParseKeyring, NewKeyring, Seal, Open.                      *)
(***************************************************************************)

NoID == -1
Entries == [id : {NoID, 0, 1, 2}, material : {"k1", "k2", "zero", "short", "junk"}]
NoRing == [ok |-> FALSE, primary |-> 0, keys |-> <<>>]

\* NewKeyring: the first key is the one that seals; ids are distinct.
NewKeyring(keys) ==
  IF keys = <<>> \/ (\E i, j \in DOMAIN keys : i # j /\ keys[i].id = keys[j].id) THEN NoRing
  ELSE [ok |-> TRUE, primary |-> keys[1].id,
        keys |-> [i \in {k.id : k \in Range(keys)} |-> (CHOOSE k \in Range(keys) : k.id = i).material]]

\* ParseKeyring: bare or with ids, never mixed; a bare key stands alone; NewKey refuses the rest.
ParseKeyring(es) ==
  LET explicit == es[1].id # NoID
      bad(e) == \/ (e.id # NoID) # explicit
                \/ e.id = 0
                \/ (e.id = NoID /\ Len(es) > 1)
                \/ e.material \in {"junk", "short", "zero"} IN
  IF es = <<>> THEN NoRing
  ELSE IF \E i \in DOMAIN es : bad(es[i]) THEN NoRing
  ELSE NewKeyring([i \in DOMAIN es |-> [es[i] EXCEPT !.id = IF @ = NoID THEN 1 ELSE @]])

\* An envelope names its key; the cipher binds the header and the row it belongs to.
Seal(kr, text, aad) == [key |-> kr.primary, box |-> [material |-> kr.keys[kr.primary], key |-> kr.primary,
                                                     aad |-> aad, text |-> text]]

OpenPrimary(kr, env, aad) ==
  IF env.box.material = kr.keys[kr.primary] /\ env.box.aad = aad THEN env.box.text ELSE "undecryptable"

Open(kr, env, aad) ==
  IF env.key = 0 THEN "badEnvelope"
  ELSE IF env.key \notin DOMAIN kr.keys THEN "unknownKey"
  ELSE IF env.box = [env.box EXCEPT !.material = kr.keys[env.key], !.key = env.key, !.aad = aad]
       THEN env.box.text ELSE "undecryptable"

(***************************************************************************)
(* One question, one answer.                                               *)
(***************************************************************************)

SeqsUpTo(S, n) == UNION {[1..k -> S] : k \in 0..n}

GateInit ==
  /\ verdict = <<>>
  /\ \/ matter = "address" /\ question \in SeqsUpTo(Chars, MaxRaw)
     \/ matter = "address" /\ question \in {l \o <<"@", "a", ".", "a">> : l \in SeqsUpTo(Chars \ {"A"}, MaxRaw - 1)}
     \/ matter = "address" /\ question \in {<<"a", "@">> \o d : d \in SeqsUpTo({"a", "-", ".", "@"}, MaxRaw)}
     \/ matter = "path" /\ question \in SeqsUpTo(PathChars, MaxPath)
     \/ matter = "request" /\ question \in GateRequests
     \/ matter = "result" /\ question \in SeqsUpTo(Results, MaxEntries)
     \/ matter = "keyring" /\ \E es \in SeqsUpTo(Entries, MaxEntries) :
          /\ \A i \in DOMAIN es : i > 1 => es[i].material \in {"k1", "k2"}
          /\ question = es
     \/ matter = "rotation" /\ question \in [from : SeqsUpTo([id : {1, 2}, material : {"k1", "k2"}], 2) \ {<<>>},
                                              to : SeqsUpTo([id : {1, 2}, material : {"k1", "k2"}], 2) \ {<<>>},
                                              aad : {"row1", "row2"}]

Judge ==
  /\ verdict = <<>>
  /\ verdict' = << 
       CASE matter = "address" -> NormalizeAddress(question)
         [] matter = "path" -> sanitizeMailboxPath(question)
         [] matter = "request" -> serviceRoute(question)
         [] matter = "result" -> checkAPIResult(question)
         [] matter = "keyring" -> ParseKeyring(question)
         [] OTHER -> LET old == ParseKeyring(question.from)
                         new == ParseKeyring(question.to) IN
                     IF old.ok /\ new.ok THEN Open(new, Seal(old, "secret", "row1"), question.aad)
                     ELSE None >>
  /\ UNCHANGED <<matter, question>>

GateNext == Judge

GateSpec == GateInit /\ [][GateNext]_gateVars

About(s) == matter = s /\ verdict # <<>>

(***************************************************************************)
(* Properties.                                                             *)
(***************************************************************************)

\* The pattern the refusal quotes: [a-z0-9]([a-z0-9._-]*[a-z0-9])? without consecutive dots, and
\* a domain of at least two labels.
Atoms == {"a", "-", "_"}
LocalPattern(s) == /\ \A p \in Range(Split(s, ".")) : p # <<>> /\ Range(p) \subseteq Atoms
                   /\ {Head(s), Last(s)} = {"a"}
DomainPattern(s) == /\ "." \in Range(s)
                    /\ \A p \in Range(Split(s, ".")) : p # <<>> /\ Range(p) \subseteq {"a", "-"}
                                                       /\ {Head(p), Last(p)} = {"a"}

\* An address is accepted exactly when, spaces around it and capitals aside, it is one local
\* part of the documented pattern, one @ and one domain; and accepting it again changes nothing.
AddressesByPattern ==
  About("address") =>
    LET s == ToLower(TrimSpace(question))
        pieces == Split(s, "@") IN
    /\ verdict[1].ok = (Len(pieces) = 2 /\ pieces[1] # <<>> /\ LocalPattern(pieces[1]) /\ DomainPattern(pieces[2]))
    /\ verdict[1].ok => NormalizeAddress(verdict[1].addr) = verdict[1]

\* What the API accepts, the Mailcow client accepts too, its domain is what follows the @, and
\* an export of it is named by the address unchanged.
AcceptedEverywhere ==
  About("address") /\ verdict[1].ok =>
    /\ validateMailbox(verdict[1].addr)
    /\ DomainOf(verdict[1].addr) = Split(verdict[1].addr, "@")[2]
    /\ exportFilename(verdict[1].addr) = verdict[1].addr

\* A mailbox name becomes a relative path inside the archive: no empty, dot or dot-dot element,
\* no backslash and no control character, and cleaning it again changes nothing.
PathsStayInside ==
  About("path") =>
    /\ \A p \in Range(Split(verdict[1], "/")) : p \notin {<<>>, <<".">>, <<".", ".">>}
    /\ Range(verdict[1]) \cap {"\\", "^"} = {}
    /\ sanitizeMailboxPath(verdict[1]) = verdict[1]

\* Without a key that may do this, every request gets the one not-found, whatever else it says
\* and however often it asks; and only a well-formed request of such a key reaches the service.
OneNotFound ==
  About("request") =>
    /\ (~question.enabled \/ question.key \notin {"reader", "writer"}
          \/ (question.key = "reader" /\ question.op \in WriteOps)) => verdict[1] = NotFound
    /\ verdict[1].served => question.tokens > 0 /\ question.path = "ok"

\* A Mailcow call succeeded only if every result in its answer says so.
AllResultsCount ==
  About("result") => (verdict[1] = "ok") = (question # <<>> /\ Range(question) = {"success"})

\* After a rotation a credential opens exactly when the new ring still holds the key that sealed
\* it under the same id, and only in the row it was sealed for.
RotationOpens ==
  About("rotation") =>
    LET old == ParseKeyring(question.from)
        new == ParseKeyring(question.to) IN
    old.ok /\ new.ok =>
      (verdict[1] = "secret") = (/\ question.aad = "row1"
                              /\ old.primary \in DOMAIN new.keys
                              /\ new.keys[old.primary] = old.keys[old.primary])

\* The validators of the accounts API agree with their patterns and with each
\* other, refusals cannot be told apart, and a rotated key ring opens exactly
\* what it still holds (validate.go, export.go, admin_accounts.go, crypto.go).
GateSafe ==
  /\ AddressesByPattern /\ AcceptedEverywhere /\ PathsStayInside
  /\ OneNotFound /\ AllResultsCount /\ RotationOpens
=============================================================================
