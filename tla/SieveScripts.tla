---------------------------- MODULE SieveScripts ----------------------------
(***************************************************************************)
(* The Sieve settings of one account: the managed script "moov" that holds *)
(* the vacation response, the filter rules and the forward-all setting,    *)
(* the verified forwarding addresses, and the account's other scripts.     *)
(*                                                                         *)
(* Dovecot's ManageSieve server keeps the scripts and is the source of     *)
(* truth; the store keeps a ledger that gives each script name a stable    *)
(* id, and the table of forwarding addresses.  Every setting is written by *)
(* reading the managed script, changing one part of the model in its       *)
(* metadata header, and pushing a regenerated script, which takes several  *)
(* ManageSieve commands.  Handlers of several requests and another mail    *)
(* client (Foreign...) run their commands in any order.                    *)
(*                                                                         *)
(* topic chooses what meets the requests in a behaviour: "edits" (vacation *)
(* and filter requests and another client), "addresses" (the settings,     *)
(* forwarding among them, and the forwarding addresses) or "scripts"       *)
(* (SieveScript/set, the ledger and another client).                       *)
(*                                                                         *)
(* A text is abstracted to what made it: a managed text is a model, the    *)
(* imported bodies of its external section and the hand edit it carries,   *)
(* if any.  A foreign body is a number, new for every foreign edit.  The   *)
(* names of the Junk, Trash and Archive folders are constant here.         *)
(***************************************************************************)
EXTENDS Naturals, FiniteSets

CONSTANTS Addr,        \* addresses mail may be forwarded to
          Handlers,    \* requests that run at the same time
          Users,       \* base names of the scripts that are not Moov's
          MaxSets,     \* bound, per topic: requests and foreign edits together
          MaxEdits,    \* bound: texts that are not Moov's
          maxForwardingAddresses,
          NoAddr

VARIABLES topic, scripts, active, fa, tok, ledger, nextId, hs, edits, sets,
          replaced, raced

sieveVars == <<topic, scripts, active, fa, tok, ledger, nextId, hs, edits,
               sets, replaced, raced>>


-----------------------------------------------------------------------------
(* Names, models and texts.                                                *)

Names == [base : Users \cup {"moov"}, bk : BOOLEAN]

ManagedScriptName == [base |-> "moov", bk |-> FALSE]

NoName == [base |-> "", bk |-> FALSE]

(* The name a safety copy is stored under: one that already has the prefix *)
(* keeps it.                                                               *)
backupName(n) == [n EXCEPT !.bk = TRUE]

NoRule == [on |-> FALSE, to |-> NoAddr]
NoForward == [on |-> FALSE, to |-> NoAddr]

(* Script: the rules (one slot here), the forward-all setting and the      *)
(* vacation response, as the metadata header carries them.                 *)
EmptyModel == [vac |-> FALSE, rule |-> NoRule, fwd |-> NoForward]

Rules == {NoRule} \cup [on : BOOLEAN, to : Addr]
ForwardAll == {NoForward} \cup [on : BOOLEAN, to : Addr]
Models == [vac : BOOLEAN, rule : Rules, fwd : ForwardAll]

Bodies == 1..MaxEdits

NoScript == [kind |-> "none"]
ManagedText(m, ext, edit) == [kind |-> "managed", m |-> m, ext |-> ext, edit |-> edit]
ForeignText(kind, b) == [kind |-> kind, body |-> b]
Texts == {NoScript}
         \cup [kind : {"managed"}, m : Models, ext : SUBSET Bodies, edit : {0} \cup Bodies]
         \cup [kind : {"foreign", "broken"}, body : Bodies]

(* What Validate asks of the addresses: a rule's target must be verified   *)
(* whether or not the rule is enabled, the forward-all target only while   *)
(* forwarding is on.                                                       *)
Validate(m, verified) ==
  /\ m.rule.to \in verified \cup {NoAddr}
  /\ m.fwd.on => m.fwd.to \in verified

(* Generate: the text of a valid model.  The two redirect checks that      *)
(* follow Validate refuse nothing it accepts.                              *)
Generate(m, ext) == ManagedText(m, ext, 0)

(* ParseManaged: a text without the markers is not managed and yields the  *)
(* empty model; one whose header does not parse is an error; a model that  *)
(* no longer regenerates the same bytes is drifted.                        *)
ParseManaged(text, verified) ==
  [ok |-> text.kind # "broken", managed |-> text.kind = "managed",
   m |-> IF text.kind = "managed" THEN text.m ELSE EmptyModel,
   ext |-> IF text.kind = "managed" THEN text.ext ELSE {},
   drifted |-> CASE text.kind = "managed" -> text.edit # 0 \/ ~Validate(text.m, verified)
                 [] text.kind = "none" -> FALSE
                 [] OTHER -> TRUE]

(* The bodies a text holds: what would be lost with it.                    *)
BodiesOf(text) == CASE text.kind = "none" -> {}
                    [] text.kind = "managed" -> text.ext \cup ({text.edit} \ {0})
                    [] OTHER -> {text.body}

(* ImportForeign: the body joins the external section unless it is already *)
(* there.  A foreign script that is itself a managed text is imported like *)
(* any other.                                                              *)
ImportForeign(ext, text) == ext \cup BodiesOf(text)

(* Where the scripts keep a body, over all the names.                      *)
Kept == UNION {BodiesOf(scripts[n]) : n \in Names}

AcceptedForwardingAddresses == {a \in Addr : fa[a] = "accepted"}

(* The addresses a model redirects to when it runs.                        *)
LiveRedirects(m) == {a \in Addr : \/ m.rule.on /\ m.rule.to = a
                                  \/ m.fwd.on /\ m.fwd.to = a}

-----------------------------------------------------------------------------
(* Handlers.                                                               *)

Idle == [pc |-> "idle", op |-> "none", val |-> EmptyModel, acc |-> {}, m |-> EmptyModel,
         ext |-> {}, raw |-> NoScript, act |-> NoName, arg |-> NoAddr, name |-> NoName,
         to |-> NoName, names |-> {}, id |-> 0, before |-> NoScript, seen |-> NoScript, overlap |-> FALSE]

SettingOps == {"vacation", "filters", "forwarding"}
ScriptOps == {"create", "rename", "update", "destroyed", "use"}
PCs == {"idle", "env", "read", "push", "drift", "takeover", "put", "activate",
        "ledger", "acked", "mail", "delete", "sync", "taken", "store", "upsert",
        "rename", "renamed", "content", "remove", "deleted", "use"}

(* Scripts, ledger and requests hold values of their kinds.                *)
SieveTypeOK ==
  /\ topic \in {"edits", "addresses", "scripts"}
  /\ scripts \in [Names -> Texts]
  /\ active \in {NoName} \cup {n \in Names : scripts[n] # NoScript}
  /\ fa \in [Addr -> {"none", "pending", "accepted"}]
  /\ tok \subseteq Addr
  /\ ledger \in [Names -> 0..nextId - 1]
  /\ \A n, o \in Names : ledger[n] = ledger[o] /\ n # o => ledger[n] = 0
  /\ \A h \in Handlers : hs[h].pc \in PCs /\ hs[h].m \in Models /\ hs[h].raw \in Texts
  /\ edits \in 0..MaxEdits /\ sets \in 0..MaxSets[topic]
  /\ replaced \subseteq Bodies /\ raced \subseteq Addr

SieveInit ==
  /\ topic \in {"edits", "addresses", "scripts"}
  /\ scripts \in IF topic = "scripts"
                 THEN {[n \in Names |-> NoScript],
                       [n \in Names |-> IF n = ManagedScriptName THEN Generate(EmptyModel, {})
                                        ELSE NoScript]}
                 ELSE {[n \in Names |-> NoScript]}
  /\ active = IF scripts[ManagedScriptName] = NoScript THEN NoName ELSE ManagedScriptName
  /\ fa \in [Addr -> IF topic = "addresses" THEN {"none", "accepted"} ELSE {"accepted"}]
  /\ tok = {}
  /\ ledger = [n \in Names |-> 0]
  /\ nextId = 1
  /\ hs = [h \in Handlers |-> Idle]
  /\ edits = 0 /\ sets = 0
  /\ replaced = {} /\ raced = {}

Goto(h, r) == hs' = [hs EXCEPT ![h] = r]

(* A change to the managed script or to the active script while another    *)
(* request is between its first read and its answer overlaps that request. *)
GotoOverlapping(h, r) ==
  hs' = [g \in Handlers |-> IF g = h THEN r ELSE [hs[g] EXCEPT !.overlap = hs[g].pc # "idle"]]

(* A request that removes or renames script n, or the row id, overlaps the *)
(* one whose answer is about it.                                           *)
GotoTouching(h, n, id, r) ==
  hs' = [g \in Handlers |-> IF g = h THEN r
            ELSE [hs[g] EXCEPT !.overlap = \/ @ \/ (id # 0 /\ hs[g].id = id)
                                           \/ (n # NoName /\ hs[g].name = n)]]

(* A script stored over another one: a body whose last copy it was is      *)
(* remembered in replaced, with the reason left to the caller.             *)
PutScript(n, text) == scripts' = [scripts EXCEPT ![n] = text]

(* The bodies that the store of text under n removes from every script.    *)
Displaced(n, text) ==
  BodiesOf(scripts[n]) \ (BodiesOf(text) \cup UNION {BodiesOf(scripts[o]) : o \in Names \ {n}})

(* The values a patch may give: each replaces the part it is about in the  *)
(* value that was read.  Forwarding needs an address to be turned on.      *)
applyVacationPatch(m) == {[m EXCEPT !.vac = v] : v \in BOOLEAN}
decodeFilterRule(m) == {[m EXCEPT !.rule = r] : r \in Rules}
applyForwardingPatch(m) == {[m EXCEPT !.fwd = f] : f \in ForwardAll}

(* readManaged: the managed script is read for the state that ifInState is *)
(* compared with and again for the current value, which the request        *)
(* patches.                                                                *)
Managed == ParseManaged(scripts[ManagedScriptName], AcceptedForwardingAddresses)

readManaged(h, op, patched) ==
  /\ topic \in {"edits", "addresses"} /\ sets < MaxSets[topic] /\ hs[h].pc = "idle"
  /\ sets' = sets + 1
  /\ Managed.ok
  /\ \E v \in patched :
       Goto(h, [Idle EXCEPT !.pc = "env", !.op = op, !.val = v,
                            !.before = scripts[ManagedScriptName]])
  /\ UNCHANGED <<topic, scripts, active, fa, tok, ledger, nextId, edits, replaced, raced>>

handleVacationSet(h) == readManaged(h, "vacation", applyVacationPatch(EmptyModel))
handleFilterRuleSet(h) == readManaged(h, "filters", decodeFilterRule(Managed.m))
handleForwardingSet(h) ==
  topic = "addresses" /\ readManaged(h, "forwarding", applyForwardingPatch(Managed.m))

(* generateEnv: the verified addresses are read from the store, before the *)
(* connection to the script server is made.                                *)
generateEnv(h) ==
  /\ hs[h].pc = "env"
  /\ Goto(h, [hs[h] EXCEPT !.pc = "read", !.acc = AcceptedForwardingAddresses])
  /\ UNCHANGED <<topic, scripts, active, fa, tok, ledger, nextId, edits, sets, replaced, raced>>

(* SetVacation replaces the vacation response; PutFilters replaces the     *)
(* rules and the forward-all setting together.                             *)
SetVacationFresh(m, v) == [EmptyModel EXCEPT !.vac = v.vac]
SetVacation(m, v) == [m EXCEPT !.vac = v.vac]
PutFilters(m, v) == [m EXCEPT !.rule = v.rule, !.fwd = v.fwd]

(* pushManaged reads the managed script again and changes the model it     *)
(* finds.                                                                  *)
pushManaged(h) ==
  /\ hs[h].pc = "read"
  /\ LET p == ParseManaged(scripts[ManagedScriptName], hs[h].acc)
     IN /\ p.ok
        /\ Goto(h, [hs[h] EXCEPT !.pc = "push", !.m = IF hs[h].op = "vacation" THEN SetVacation(p.m, hs[h].val)
                                       ELSE PutFilters(p.m, hs[h].val),
                                 !.ext = p.ext, !.val = EmptyModel,
                                 !.seen = scripts[ManagedScriptName]])
  /\ UNCHANGED <<topic, scripts, active, fa, tok, ledger, nextId, edits, sets, replaced, raced>>

(* Push reads once more, and this reading decides what must be preserved.  *)
PushRead(h) ==
  /\ hs[h].pc = "push"
  /\ LET raw == scripts[ManagedScriptName]
         p == ParseManaged(raw, hs[h].acc)
     IN /\ p.ok
        /\ Goto(h, [hs[h] EXCEPT !.pc = IF p.drifted THEN "drift" ELSE "takeover",
                                 !.raw = raw, !.act = active])
  /\ UNCHANGED <<topic, scripts, active, fa, tok, ledger, nextId, edits, sets, replaced, raced>>

(* A drifted managed script is copied to "moov-backup-moov"; one without   *)
(* metadata is imported as well.                                           *)
backupSkipped(h) ==
  /\ scripts' = scripts
  /\ replaced' = replaced
backup(h) ==
  /\ PutScript(backupName(ManagedScriptName), hs[h].raw)
  /\ replaced' = replaced \cup Displaced(backupName(ManagedScriptName), hs[h].raw)

PushDrift(h) ==
  /\ hs[h].pc = "drift"
  /\ backup(h)
  /\ Goto(h, [hs[h] EXCEPT !.pc = "takeover",
                !.ext = IF hs[h].raw.kind = "managed" THEN @ ELSE ImportForeign(@, hs[h].raw)])
  /\ UNCHANGED <<topic, active, fa, tok, ledger, nextId, edits, sets, raced>>

(* Another script that is active is read, copied and imported.  One that   *)
(* was deleted since makes the push fail.                                  *)
takeoverCopyOnly(h, text) == Goto(h, [hs[h] EXCEPT !.pc = "put"])
takeover(h, text) ==
  Goto(h, [hs[h] EXCEPT !.pc = "put", !.ext = ImportForeign(@, text)])

PushTakeover(h) ==
  /\ hs[h].pc = "takeover"
  /\ \/ /\ hs[h].act \in {NoName, ManagedScriptName}
        /\ Goto(h, [hs[h] EXCEPT !.pc = "put"])
        /\ UNCHANGED <<scripts, replaced>>
     \/ /\ hs[h].act \notin {NoName, ManagedScriptName}
        /\ scripts[hs[h].act] # NoScript
        /\ PutScript(backupName(hs[h].act), scripts[hs[h].act])
        /\ replaced' = replaced \cup Displaced(backupName(hs[h].act), scripts[hs[h].act])
        /\ takeover(h, scripts[hs[h].act])
  /\ UNCHANGED <<topic, active, fa, tok, ledger, nextId, edits, sets, raced>>

(* Generate and CheckScript, then PUTSCRIPT.  What was stored under the    *)
(* managed name between the reading of the model and this command is       *)
(* overwritten unseen.                                                     *)
PushPut(h) ==
  /\ hs[h].pc = "put"
  /\ Validate(hs[h].m, hs[h].acc)
  /\ PutScript(ManagedScriptName, Generate(hs[h].m, hs[h].ext))
  /\ replaced' = IF hs[h].seen = hs[h].raw /\ scripts[ManagedScriptName] = hs[h].raw
                 THEN replaced
                 ELSE replaced \cup Displaced(ManagedScriptName, Generate(hs[h].m, hs[h].ext))
  /\ GotoOverlapping(h, [hs[h] EXCEPT !.pc = "activate", !.acc = {}, !.ext = {},
                                      !.raw = NoScript, !.seen = NoScript])
  /\ UNCHANGED <<topic, active, fa, tok, ledger, nextId, edits, sets, raced>>

SetActive(n) == active' = n

PushActivate(h) ==
  /\ hs[h].pc = "activate"
  /\ scripts[ManagedScriptName] # NoScript
  /\ SetActive(ManagedScriptName)
  /\ Goto(h, [hs[h] EXCEPT !.pc = "ledger"])
  /\ UNCHANGED <<topic, scripts, fa, tok, ledger, nextId, edits, sets, replaced, raced>>

(* The ids new rows get, in an order that does not matter.                 *)
NewIds(new) == CHOOSE f \in [new -> nextId..nextId + Cardinality(new)] :
                 \A n, o \in new : n # o => f[n] # f[o]

(* SyncSieveScripts: new names get ids, rows whose script is gone go.      *)
SyncSieveScriptsFresh(names) ==
  LET f == NewIds(names)
  IN /\ ledger' = [n \in Names |-> IF n \in names THEN f[n] ELSE 0]
     /\ nextId' = nextId + Cardinality(names)
SyncSieveScripts(names) ==
  LET new == {n \in names : ledger[n] = 0}
      f == NewIds(new)
  IN /\ ledger' = [n \in Names |-> IF n \in new THEN f[n]
                                     ELSE IF n \in names THEN ledger[n] ELSE 0]
     /\ nextId' = nextId + Cardinality(new)

Listed == {n \in Names : scripts[n] # NoScript}

(* After a push the ledger is reconciled; an error there is only logged.   *)
PushLedger(h) ==
  /\ hs[h].pc = "ledger"
  /\ Goto(h, [hs[h] EXCEPT !.pc = "acked"])
  /\ \/ SyncSieveScripts(Listed)
     \/ UNCHANGED <<ledger, nextId>>
  /\ UNCHANGED <<topic, scripts, active, fa, tok, edits, sets, replaced, raced>>

(* The answer has been sent, or a command failed or was refused and the    *)
(* request ends with an error wherever it stood.                           *)
Finish(h) ==
  /\ hs[h].pc # "idle"
  /\ Goto(h, Idle)
  /\ UNCHANGED <<topic, scripts, active, fa, tok, ledger, nextId, edits, sets, replaced, raced>>

-----------------------------------------------------------------------------
(* Forwarding addresses.                                                   *)

(* CreateForwardingAddress: within the limit and not listed yet; the row   *)
(* is pending before the verification mail is sent.                        *)
CreateForwardingAddress(h, a) ==
  /\ topic = "addresses" /\ sets < MaxSets[topic] /\ hs[h].pc = "idle"
  /\ Cardinality({b \in Addr : fa[b] # "none"}) < maxForwardingAddresses
  /\ fa[a] = "none"
  /\ fa' = [fa EXCEPT ![a] = "pending"]
  /\ sets' = sets + 1
  /\ Goto(h, [Idle EXCEPT !.pc = "mail", !.op = "create", !.arg = a])
  /\ UNCHANGED <<topic, scripts, active, tok, ledger, nextId, edits, replaced, raced>>

(* The mail carries the token; when it cannot be sent the row is removed.  *)
SendVerification(h) ==
  /\ hs[h].pc = "mail"
  /\ \/ tok' = tok \cup {hs[h].arg} /\ fa' = fa
     \/ tok' = tok /\ fa' = [fa EXCEPT ![hs[h].arg] = "none"]
  /\ Goto(h, Idle)
  /\ UNCHANGED <<topic, scripts, active, ledger, nextId, edits, sets, replaced, raced>>

(* VerifyForwarding: whoever holds the token accepts the address, if its   *)
(* row exists; a token is not used up.                                     *)
AcceptForwardingAddress(a) == fa' = [fa EXCEPT ![a] = "accepted"]

VerifyForwarding(a) ==
  /\ a \in tok
  /\ fa[a] # "none"
  /\ fa[a] # "accepted"
  /\ AcceptForwardingAddress(a)
  /\ UNCHANGED <<topic, scripts, active, tok, ledger, nextId, hs, edits, sets, replaced, raced>>

(* DestroyForwardingAddress refuses an address the managed script          *)
(* redirects to, then deletes the row in a separate step.                  *)
inUseNever(m, a) == FALSE
inUse(m, a) == a \in LiveRedirects(m)

DestroyForwardingAddress(h, a) ==
  /\ topic = "addresses" /\ sets < MaxSets[topic] /\ hs[h].pc = "idle"
  /\ fa[a] # "none"
  /\ LET p == ParseManaged(scripts[ManagedScriptName], AcceptedForwardingAddresses)
     IN p.ok /\ ~inUse(p.m, a)
  /\ sets' = sets + 1
  /\ Goto(h, [Idle EXCEPT !.pc = "delete", !.op = "destroy", !.arg = a])
  /\ UNCHANGED <<topic, scripts, active, fa, tok, ledger, nextId, edits, replaced, raced>>

(* ForwardingAddress/set; an update is refused.                            *)
handleForwardingAddressSet(h) ==
  \E a \in Addr : CreateForwardingAddress(h, a) \/ DestroyForwardingAddress(h, a)

(* A request that read the address as verified, or whose script was stored *)
(* since the check, races the deletion.                                    *)
DeleteForwardingAddress(h) ==
  /\ hs[h].pc = "delete"
  /\ LET a == hs[h].arg
     IN /\ fa' = [fa EXCEPT ![a] = "none"]
        /\ raced' = IF hs[h].overlap \/ \E g \in Handlers : hs[g].pc # "idle" /\ a \in hs[g].acc
                    THEN raced \cup {a} ELSE raced
  /\ Goto(h, Idle)
  /\ UNCHANGED <<topic, scripts, active, tok, ledger, nextId, edits, sets, replaced>>

-----------------------------------------------------------------------------
(* SieveScript/set and SieveScript/get.                                    *)

BeginScript(h, r) ==
  /\ topic = "scripts" /\ sets < MaxSets[topic] /\ hs[h].pc = "idle"
  /\ sets' = sets + 1
  /\ Goto(h, r)
  /\ UNCHANGED <<topic, scripts, active, fa, tok, ledger, nextId, edits, replaced, raced>>

(* ListScripts: names and contents are read, then the ledger follows; the  *)
(* rows of scripts that were not there when it read go.                    *)
ListScripts(h) == BeginScript(h, [Idle EXCEPT !.pc = "sync", !.op = "list", !.names = Listed])

SyncListed(h) ==
  /\ hs[h].pc = "sync"
  /\ SyncSieveScripts(hs[h].names)
  /\ hs' = [g \in Handlers |-> IF g = h THEN Idle
               ELSE [hs[g] EXCEPT !.overlap = @ \/ hs[g].name \notin hs[h].names \cup {NoName}]]
  /\ UNCHANGED <<topic, scripts, active, fa, tok, edits, sets, replaced, raced>>

managedAllowed(n) == TRUE
notManaged(n) == n # ManagedScriptName

(* CreateScript: LISTSCRIPTS, because PUTSCRIPT replaces silently.  A name *)
(* in use is refused, and so is the managed name.                          *)
CreateScript(h, n) ==
  /\ n \in Listed \/ (notManaged(n) /\ ~n.bk)
  /\ BeginScript(h, [Idle EXCEPT !.pc = IF n \in Listed THEN "taken" ELSE "store",
                                 !.op = "create", !.name = n])

(* PUTSCRIPT: whatever took the name since the listing is replaced.        *)
StoreNew(h) ==
  /\ hs[h].pc = "store" /\ edits < MaxEdits
  /\ PutScript(hs[h].name, ForeignText("foreign", edits + 1))
  /\ replaced' = replaced \cup Displaced(hs[h].name, ForeignText("foreign", edits + 1))
  /\ edits' = edits + 1
  /\ Goto(h, [hs[h] EXCEPT !.pc = "upsert"])
  /\ UNCHANGED <<topic, active, fa, tok, ledger, nextId, sets, raced>>

(* UpsertSieveScript: the row's id is the one the client is told.          *)
UpsertSieveScript(n) ==
  IF ledger[n] = 0 THEN ledger' = [ledger EXCEPT ![n] = nextId] /\ nextId' = nextId + 1
  ELSE UNCHANGED <<ledger, nextId>>

CreateUpsert(h) ==
  /\ hs[h].pc = "upsert"
  /\ UpsertSieveScript(hs[h].name)
  /\ Goto(h, [hs[h] EXCEPT !.pc = "acked", !.id = ledger'[hs[h].name]])
  /\ UNCHANGED <<topic, scripts, active, fa, tok, edits, sets, replaced, raced>>

(* The refusal of a name in use names the row of the script that has it.   *)
RefuseTaken(h) ==
  /\ hs[h].pc = "taken"
  /\ UpsertSieveScript(hs[h].name)
  /\ Goto(h, Idle)
  /\ UNCHANGED <<topic, scripts, active, fa, tok, edits, sets, replaced, raced>>

(* The script a ledger id names now; NoName when there is none.            *)
NameOf(id) == IF \E n \in Names : id # 0 /\ ledger[n] = id
              THEN CHOOSE n \in Names : ledger[n] = id ELSE NoName

(* What a request that names a script by its id knows of it: the row is    *)
(* read once, and its name is what every later command uses.               *)
Found(n, pc, op) == [Idle EXCEPT !.pc = pc, !.op = op, !.name = n, !.id = ledger[n]]

(* UpdateScript: the row's name and the new one may not be the managed     *)
(* one.  A new name comes first, the content after it.                     *)
UpdateScript(h, old, new, put) ==
  /\ ledger[old] # 0 /\ notManaged(old) /\ notManaged(new)
  /\ old # new \/ put
  /\ BeginScript(h, [Found(old, IF old # new THEN "rename" ELSE "content",
                           IF put THEN "update" ELSE "rename") EXCEPT !.to = new])

(* RENAMESCRIPT: a name that is taken is refused with the id of its row.   *)
RenameScript(h) ==
  LET old == hs[h].name
      new == hs[h].to
  IN /\ hs[h].pc = "rename" /\ scripts[old] # NoScript
     /\ \/ /\ scripts[new] = NoScript
           /\ scripts' = [scripts EXCEPT ![new] = scripts[old], ![old] = NoScript]
           /\ active' = IF active = old THEN new ELSE active
           /\ GotoTouching(h, old, 0, [hs[h] EXCEPT !.pc = "renamed", !.name = new])
           /\ UNCHANGED <<ledger, nextId>>
        \/ /\ scripts[new] # NoScript
           /\ UpsertSieveScript(new)
           /\ Goto(h, Idle)
           /\ UNCHANGED <<scripts, active>>
     /\ UNCHANGED <<topic, fa, tok, edits, sets, replaced, raced>>

(* RenameSieveScript: the row must still be there and the name free.       *)
RenameSieveScriptTwice(id, new) ==
  /\ NameOf(id) # NoName
  /\ ledger[new] = 0
  /\ ledger' = [ledger EXCEPT ![new] = id]
RenameSieveScript(id, new) ==
  /\ NameOf(id) # NoName
  /\ ledger[new] = 0
  /\ ledger' = [ledger EXCEPT ![NameOf(id)] = 0, ![new] = id]

RenameRow(h) ==
  /\ hs[h].pc = "renamed"
  /\ RenameSieveScript(hs[h].id, hs[h].name)
  /\ GotoTouching(h, NameOf(hs[h].id), hs[h].id,
                  [hs[h] EXCEPT !.pc = IF hs[h].op = "update" THEN "content" ELSE "acked"])
  /\ UNCHANGED <<topic, scripts, active, fa, tok, nextId, edits, sets, replaced, raced>>

(* PUTSCRIPT of new content, under the name the row had; a script that was *)
(* renamed or deleted since is stored anew.                                *)
UpdateContent(h) ==
  /\ hs[h].pc = "content" /\ edits < MaxEdits
  /\ PutScript(hs[h].name, ForeignText("foreign", edits + 1))
  /\ replaced' = replaced \cup Displaced(hs[h].name, ForeignText("foreign", edits + 1))
  /\ edits' = edits + 1
  /\ Goto(h, [hs[h] EXCEPT !.pc = "acked"])
  /\ UNCHANGED <<topic, active, fa, tok, ledger, nextId, sets, raced>>

(* DestroyScript: the row, DELETESCRIPT, which the server refuses for the  *)
(* active script, and the row's deletion.                                  *)
DestroyScript(h, n) ==
  /\ ledger[n] # 0 /\ notManaged(n)
  /\ BeginScript(h, Found(n, "remove", "destroyed"))

DeleteScript(h) ==
  /\ hs[h].pc = "remove"
  /\ scripts[hs[h].name] # NoScript /\ active # hs[h].name
  /\ PutScript(hs[h].name, NoScript)
  /\ GotoTouching(h, hs[h].name, 0, [hs[h] EXCEPT !.pc = "deleted", !.name = NoName])
  /\ UNCHANGED <<topic, active, fa, tok, ledger, nextId, edits, sets, replaced, raced>>

DeleteSieveScript(h) ==
  /\ hs[h].pc = "deleted"
  /\ ledger' = [n \in Names |-> IF ledger[n] = hs[h].id THEN 0 ELSE ledger[n]]
  /\ GotoTouching(h, NameOf(hs[h].id), hs[h].id, Idle)
  /\ UNCHANGED <<topic, scripts, active, fa, tok, nextId, edits, sets, replaced, raced>>

(* ActivateScript: by the name the row has; id 0 deactivates.              *)
ActivateScript(h, n) ==
  /\ n \in {NoName} \cup {o \in Names : ledger[o] # 0}
  /\ BeginScript(h, [Idle EXCEPT !.pc = "use", !.op = "use", !.name = n])

UseScript(h) ==
  /\ hs[h].pc = "use"
  /\ hs[h].name \in {NoName} \cup Listed
  /\ SetActive(hs[h].name)
  /\ Goto(h, Idle)
  /\ UNCHANGED <<topic, scripts, fa, tok, ledger, nextId, edits, sets, replaced, raced>>

(* SieveScript/set: one create, update, destroy or activation per request. *)
handleSieveScriptSet(h) ==
  \/ \E n \in Names \cup {NoName} : ActivateScript(h, n)
  \/ \E n \in Names : \/ CreateScript(h, n) \/ DestroyScript(h, n)
                      \/ \E o \in Names, put \in BOOLEAN : UpdateScript(h, n, o, put)

-----------------------------------------------------------------------------
(* Another client of the script server: it stores a script of its own and  *)
(* makes it active, edits the managed script by hand, overwrites it with a *)
(* script of its own, breaks its header, or activates any script.          *)
Foreign(n, text, act) ==
  /\ topic # "addresses" /\ edits < MaxEdits /\ sets < MaxSets[topic]
  /\ scripts[n] # text
  /\ scripts' = [scripts EXCEPT ![n] = text]
  /\ active' = act
  /\ edits' = edits + 1 /\ sets' = sets + 1
  /\ replaced' = replaced \cup Displaced(n, text)
  /\ hs' = [h \in Handlers |-> [hs[h] EXCEPT !.overlap = hs[h].pc # "idle"]]
  /\ UNCHANGED <<topic, fa, tok, ledger, nextId, raced>>

ForeignEdit ==
  \/ \E u \in Users :
       LET n == [base |-> u, bk |-> FALSE] IN Foreign(n, ForeignText("foreign", edits + 1), n)
  \/ /\ scripts[ManagedScriptName].kind = "managed"
     /\ Foreign(ManagedScriptName, [scripts[ManagedScriptName] EXCEPT !.edit = edits + 1], active)
  \/ \E kind \in {"foreign", "broken"} :
       /\ topic = "edits"
       /\ Foreign(ManagedScriptName, ForeignText(kind, edits + 1), ManagedScriptName)

SieveNext ==
  \/ \E h \in Handlers :
       \/ handleVacationSet(h) \/ handleFilterRuleSet(h) \/ handleForwardingSet(h)
       \/ generateEnv(h) \/ pushManaged(h) \/ PushRead(h)
       \/ PushDrift(h) \/ PushTakeover(h) \/ PushPut(h) \/ PushActivate(h) \/ PushLedger(h)
       \/ Finish(h) \/ SendVerification(h) \/ DeleteForwardingAddress(h)
       \/ handleForwardingAddressSet(h) \/ handleSieveScriptSet(h)
       \/ ListScripts(h) \/ SyncListed(h) \/ RefuseTaken(h) \/ StoreNew(h)
       \/ CreateUpsert(h) \/ RenameScript(h) \/ RenameRow(h) \/ UpdateContent(h)
       \/ DeleteScript(h) \/ DeleteSieveScript(h) \/ UseScript(h)
  \/ \E a \in Addr : VerifyForwarding(a)
  \/ ForeignEdit

SieveSpec == SieveInit /\ [][SieveNext]_sieveVars

-----------------------------------------------------------------------------
(* Properties.                                                             *)

(* A setting that was answered with success and met no concurrent change   *)
(* is in the managed script, the script is active, and every part of the   *)
(* settings that the request was not about is as it was before: pushManaged*)
(* rewrites the whole document, and only the part of its caller changes.   *)
SettingSaved ==
  \A h \in Handlers :
    hs[h].pc = "acked" /\ hs[h].op \in SettingOps /\ ~hs[h].overlap =>
      /\ active = ManagedScriptName
      /\ scripts[ManagedScriptName].kind = "managed"
      /\ LET was == ParseManaged(hs[h].before, {}).m
             now == scripts[ManagedScriptName].m
         IN CASE hs[h].op = "vacation" -> now = [was EXCEPT !.vac = hs[h].m.vac]
              [] hs[h].op = "filters" -> now = [was EXCEPT !.rule = hs[h].m.rule]
              [] OTHER -> now = [was EXCEPT !.fwd = hs[h].m.fwd]

(* Never destroy what we did not write: a body another client stored is    *)
(* still somewhere on the script server, as a script, as a safety copy or  *)
(* in the external section.  Three things may end one: a later edit of the *)
(* client itself; a later safety copy, which has the same name             *)
(* (manager.go:17-19: "a backup copy is stored under a distinct name");    *)
(* and a push that had read the script before the client stored it         *)
(* (manager.go:24-25: "the drifted bytes are backed up before the          *)
(* regeneration overwrites them").                                         *)
ForeignKept ==
  topic = "edits" => \A b \in 1..edits : b \in Kept \cup replaced

(* A managed script that redirects redirects only to verified addresses:   *)
(* an address in use cannot be destroyed, and a push refuses an unverified *)
(* one.  The exception is an address whose row was deleted while a push    *)
(* that had read it as verified was under way, or after one that ended     *)
(* since the check; sieve_adapter.go:796-798 has the check keep a live     *)
(* redirect from losing its permission, and generate.go:45-48 has no path  *)
(* "where an unverified address reaches a redirect".                       *)
RedirectsPermitted ==
  scripts[ManagedScriptName].kind = "managed" =>
    LiveRedirects(scripts[ManagedScriptName].m) \subseteq AcceptedForwardingAddresses \cup raced

(* The script that takes over runs what it replaced: while a request is at *)
(* its answer and nothing overlapped it, the bodies that were active when  *)
(* it began, in another script or in the external section, are in the      *)
(* external section of the active script.                                  *)
TakeoverKeepsRunning ==
  \A h \in Handlers :
    hs[h].pc \in {"activate", "ledger"} /\ ~hs[h].overlap =>
      /\ hs[h].act \notin {NoName, ManagedScriptName} =>
           BodiesOf(scripts[hs[h].act]) \subseteq scripts[ManagedScriptName].ext
      /\ hs[h].before.kind = "managed" => hs[h].before.ext \subseteq scripts[ManagedScriptName].ext

(* The id a client has for a script it created, renamed or updated names   *)
(* that script for as long as the answer is fresh: listings, refusals and  *)
(* the requests about other scripts leave its row alone.  The exceptions   *)
(* are a request that renames or deletes the same script or row, and a     *)
(* listing that was made without the script and prunes the row after.      *)
AnsweredIdNames ==
  \A h \in Handlers :
    hs[h].pc = "acked" /\ hs[h].op \in {"create", "rename", "update"} /\ ~hs[h].overlap
      /\ scripts[hs[h].name] # NoScript =>
      ledger[hs[h].name] = hs[h].id

(* No SieveScript/set request touches the managed script, whatever the     *)
(* ledger, other requests and another client do between its steps: what a  *)
(* rename, a PUTSCRIPT of content, a creation or a deletion names is never *)
(* the managed one by the time the command runs (sieve_adapter.go, RFC     *)
(* 9661 section 4 quoted in sieve.go).                                     *)
ManagedOnlyByPush ==
  [][ \A h \in Handlers :
        hs[h].op \in ScriptOps /\ hs'[h].pc # hs[h].pc =>
          scripts'[ManagedScriptName] = scripts[ManagedScriptName] ]_sieveVars

\* A setting that was acknowledged runs, the scripts of others are kept or
\* included, only accepted addresses are redirected to, and an answered id
\* names its script, outside overlapping requests (manager.go).
SieveSafe ==
  /\ SieveTypeOK /\ SettingSaved /\ ForeignKept /\ RedirectsPermitted
  /\ TakeoverKeepsRunning /\ AnsweredIdNames
=============================================================================
