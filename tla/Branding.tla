------------------------------ MODULE Branding ------------------------------
(***************************************************************************)
(* The brand of one host (internal/branding, jmaphttp branding,            *)
(* branding_admin, branding_pwa, moovctl branding): the document and the   *)
(* image files beside it, the server's cached reading of both, the icons   *)
(* rendered from them, and their two writers, the admin API (behind a      *)
(* per-host mutex) and moovctl (another process, which no mutex covers).   *)
(* Colours are represented by the primary one, links not at all.           *)
(***************************************************************************)
EXTENDS Integers, FiniteSets, FiniteSetsExt, TLC

CONSTANTS Procs,              \* requests and moovctl runs in progress
          Users,              \* mailboxes
          Kinds,              \* of "logo", "logoDark", "icon", "splash"
          Names,              \* product names a writer may be given
          ShortRunes, NameRunes,   \* MaxShortNameRunes, MaxNameRunes
          brandingCacheTTL,
          MaxNow, MaxJobs, MaxRestarts

ASSUME BrandAssumption == /\ {ShortRunes, NameRunes, brandingCacheTTL} \subseteq Nat \ {0}
                          /\ {MaxNow, MaxJobs, MaxRestarts} \subseteq Nat

VARIABLES disk,      \* [doc, files]
          hostEntry, \* the store's resolved entry of the host, if any
          icons,     \* icons rendered, by what they depend on
          job,       \* what each process is doing
          hostMu,    \* processes holding the host's mutex
          time, hist

brandVars == <<disk, hostEntry, icons, job, hostMu, time, hist>>

(***************************************************************************)
(* The document and its files.                                             *)
(***************************************************************************)

\* A name is its length and the length of its first word; <<0, 0>> is no name.
Fields == {"name", "primary", "admins"} \cup Kinds

File == [f \in Fields |-> CASE f = "name" -> <<0, 0>> [] f = "admins" -> {} [] OTHER -> ""]

HasBrand(d) == \E f \in Fields \ {"admins"} : d[f] # File[f]

\* A WebP can be shown but not decoded into icons.
Extensions == {"png", "webp"}
Stored == Kinds \X Extensions

FeedsIcons(kind) == kind \in {"logo", "icon"}

RemoveAsset(files, kind, ext) == [n \in Stored |-> IF n = <<kind, ext>> THEN 0 ELSE files[n]]

removeRecordedAssets(files, d) == [n \in Stored |-> IF d[n[1]] = n[2] THEN 0 ELSE files[n]]

\* The new file is in place before the same kind's other extensions go.
writeAtomic(files, kind, ext, v) == [files EXCEPT ![<<kind, ext>>] = v]
dropSiblings(files, kind, ext) == [n \in Stored |-> IF n[1] = kind /\ n[2] # ext THEN 0 ELSE files[n]]

ResetKeepsImages(d) == [d EXCEPT !["name"] = File["name"], !["primary"] = ""]

Reset(d) == [File EXCEPT !["admins"] = d["admins"]]

(***************************************************************************)
(* What the server makes of them.                                          *)
(***************************************************************************)

truncateRunes(n, m) == <<Min({n[1], m}), Min({n[2], m})>>

deriveShortNameWhole(n) == n

deriveShortName(n) == IF n[1] <= ShortRunes THEN n ELSE truncateRunes(<<n[2], n[2]>>, ShortRunes)

DefaultBranding == [default |-> TRUE, name |-> <<ShortRunes, ShortRunes>>, short |-> <<ShortRunes, ShortRunes>>,
                    primary |-> "moov", url |-> [k \in Kinds |-> FALSE]]

openAsset(files, d, kind) == d[kind] # "" /\ files[<<kind, d[kind]>>] # 0

\* The configured source is there and can be rendered.
loadIconCandidate(files, d, kind) == kind \in Kinds /\ openAsset(files, d, kind) /\ d[kind] = "png"

brandingIconIssue(files, d, source) ==
  \/ "icon" \in Kinds /\ d["icon"] # "" /\ ~loadIconCandidate(files, d, "icon")
  \/ "logo" \in Kinds /\ d["logo"] # "" /\ ~loadIconCandidate(files, d, "logo") /\ source # "logo"

load(d, files) ==
  LET source == CASE loadIconCandidate(files, d, "icon") -> "icon"
                  [] loadIconCandidate(files, d, "logo") -> "logo"
                  [] OTHER -> ""
      own == truncateRunes(d["name"], NameRunes)
      named == d["name"][1] > 0
  IN [doc |-> [default |-> ~HasBrand(d),
               name    |-> IF named THEN own ELSE DefaultBranding.name,
               short   |-> IF named THEN deriveShortName(own) ELSE DefaultBranding.short,
               primary |-> IF d["primary"] # "" THEN d["primary"] ELSE DefaultBranding.primary,
               url     |-> [k \in Kinds |-> openAsset(files, d, k)]],
      iconSource |-> source,
      iconSum    |-> IF source = "" THEN 0 ELSE files[<<source, "png">>],
      issue      |-> brandingIconIssue(files, d, source),
      configured |-> \E k \in Kinds : FeedsIcons(k) /\ d[k] # "",
      admins     |-> d["admins"]]

(***************************************************************************)
(* Processes.                                                              *)
(***************************************************************************)

Done == [op |-> "", at |-> "idle", then |-> "", user |-> "", since |-> 0, t |-> 0,
         file |-> File, entry |-> load(File, [n \in Stored |-> 0]), kind |-> "", ext |-> "", drawn |-> 0,
         touched |-> {}, dirty |-> {}]

Reads == {"public", "icon"}
Panel == {"get", "put", "putAsset", "deleteAsset", "reset"}
Operator == {"set", "grant", "unset"}

writing(j) == j.at \in {"read", "asset", "siblings", "remove", "write"}
isCli(j) == j.op \in Operator

\* hist: the document the accepted edits add up to, whether moovctl ran beside another
\* writer, kinds whose file changed while the document did not, the time of the last
\* change, whether it was a panel's finished save, and when each mailbox was last an administrator.
Overlapping(js) == \E p, q \in Procs : p # q /\ writing(js[p]) /\ writing(js[q]) /\ isCli(js[p])

Toward(p, j) == /\ job' = [job EXCEPT ![p] = j]
            /\ hist' = [hist EXCEPT !.overlap = @ \/ Overlapping(job')]

\* The end of a handler: the deferred unlock.
EndJob(p) == hostMu' = hostMu \ {p}

Begin(p, op, user) ==
  /\ job[p].at = "idle" /\ hist.jobs < MaxJobs
  /\ job' = [job EXCEPT ![p] = [Done EXCEPT !.op = op, !.at = IF op \in Operator THEN "read" ELSE "lookup",
                                 !.then = IF op \in Reads THEN "serve" ELSE "authorize",
                                 !.user = user, !.since = IF op \in Panel THEN time ELSE 0]]
  /\ hist' = [hist EXCEPT !.jobs = @ + 1, !.overlap = @ \/ Overlapping(job')]
  /\ UNCHANGED <<disk, hostEntry, icons, hostMu, time>>

(***************************************************************************)
(* resolveEntry: look in the entry, load outside the lock, store.          *)
(***************************************************************************)

CachedForever == hostEntry # {}

Cached == \E e \in hostEntry : time < e.expires

IsBrandAdmin(e, user) == user \in e.admins

\* What the caller of resolveEntry does with the entry.
Resolved(p, j, e) ==
  CASE j.then = "authorize" ->
         /\ LET in == IsBrandAdmin(e, j.user)
            IN Toward(p, CASE ~in -> Done
                       [] in /\ j.op = "get" -> [j EXCEPT !.at = "lookup", !.then = "answer", !.since = 0]
                       [] OTHER -> [j EXCEPT !.at = "lock"])
         /\ UNCHANGED hostMu
    [] j.then = "serve" /\ j.op = "icon" -> /\ Toward(p, [j EXCEPT !.at = "iconLookup", !.entry = e])
                                            /\ UNCHANGED hostMu
    [] j.then = "serve" /\ j.op = "public" -> Toward(p, Done) /\ UNCHANGED hostMu
    [] j.then = "answer" -> Toward(p, Done) /\ EndJob(p)

Lookup(p) ==
  /\ job[p].at = "lookup"
  /\ IF Cached THEN \E e \in hostEntry : Resolved(p, job[p], e.entry)
     ELSE Toward(p, [job[p] EXCEPT !.at = "config", !.t = time]) /\ UNCHANGED hostMu
  /\ UNCHANGED <<disk, hostEntry, icons, time>>

LoadConfig(p) ==
  /\ job[p].at = "config"
  /\ Toward(p, [job[p] EXCEPT !.at = "assets", !.file = disk.doc])
  /\ UNCHANGED <<disk, hostEntry, icons, hostMu, time>>

LoadAssets(p) ==
  /\ job[p].at = "assets"
  /\ Toward(p, [job[p] EXCEPT !.at = "store", !.entry = load(job[p].file, disk.files), !.file = File])
  /\ UNCHANGED <<disk, hostEntry, icons, hostMu, time>>

StoreEntryBeside(p) ==
  /\ job[p].at = "store"
  /\ hostEntry' = hostEntry \cup {[entry |-> job[p].entry, expires |-> job[p].t + brandingCacheTTL]}
  /\ Resolved(p, [job[p] EXCEPT !.t = 0], job[p].entry)
  /\ UNCHANGED <<disk, icons, time>>

StoreEntryLate(p) ==
  /\ job[p].at = "store"
  /\ hostEntry' = {[entry |-> job[p].entry, expires |-> time + brandingCacheTTL]}
  /\ Resolved(p, [job[p] EXCEPT !.t = 0], job[p].entry)
  /\ UNCHANGED <<disk, icons, time>>

\* The entry expires a TTL after the look-up, not after the load.
StoreEntry(p) ==
  /\ job[p].at = "store"
  /\ hostEntry' = {[entry |-> job[p].entry, expires |-> job[p].t + brandingCacheTTL]}
  /\ Resolved(p, [job[p] EXCEPT !.t = 0], job[p].entry)
  /\ UNCHANGED <<disk, icons, time>>

(***************************************************************************)
(* The icons.                                                              *)
(***************************************************************************)

iconCacheKey(e) == <<e.iconSum, e.iconSource, e.doc.primary>>

IconLookup(p) ==
  /\ job[p].at = "iconLookup"
  /\ LET e == job[p].entry
         hit == \E i \in icons : i.key = iconCacheKey(e) /\ time < i.expires
     IN IF e.iconSource = "" \/ hit THEN Toward(p, Done)
        ELSE Toward(p, [job[p] EXCEPT !.at = "iconOpen", !.t = time])
  /\ UNCHANGED <<disk, hostEntry, icons, hostMu, time>>

\* The file is opened again: its bytes need not be those whose digest the entry holds.
IconOpen(p) ==
  /\ job[p].at = "iconOpen"
  /\ LET v == disk.files[<<job[p].entry.iconSource, "png">>]
     IN Toward(p, IF v = 0 THEN Done ELSE [job[p] EXCEPT !.at = "iconStore", !.drawn = v])
  /\ UNCHANGED <<disk, hostEntry, icons, hostMu, time>>

IconStoreLate(p) ==
  /\ job[p].at = "iconStore"
  /\ LET key == iconCacheKey(job[p].entry)
     IN icons' = {i \in icons : i.key # key}
                   \cup {[key |-> key, drawn |-> job[p].drawn, expires |-> time + brandingCacheTTL]}
  /\ Toward(p, Done)
  /\ UNCHANGED <<disk, hostEntry, hostMu, time>>

IconStore(p) ==
  /\ job[p].at = "iconStore"
  /\ LET key == iconCacheKey(job[p].entry)
     IN icons' = {i \in icons : i.key # key}
                   \cup {[key |-> key, drawn |-> job[p].drawn, expires |-> job[p].t + brandingCacheTTL]}
  /\ Toward(p, Done)
  /\ UNCHANGED <<disk, hostEntry, hostMu, time>>

(***************************************************************************)
(* Writers.                                                                *)
(***************************************************************************)

lockHostNever(p) ==
  /\ job[p].at = "lock"
  /\ hostMu' = hostMu \cup {p}
  /\ Toward(p, [job[p] EXCEPT !.at = "read", !.since = 0])
  /\ UNCHANGED <<disk, hostEntry, icons, time>>

lockHost(p) ==
  /\ job[p].at = "lock" /\ hostMu = {}
  /\ hostMu' = hostMu \cup {p}
  /\ Toward(p, [job[p] EXCEPT !.at = "read", !.since = 0])
  /\ UNCHANGED <<disk, hostEntry, icons, time>>

\* A bad media type, body, field or image, or no write left in the mailbox's budget:
\* nothing is written.
Refuse(p) ==
  /\ job[p].at = "read" /\ job[p].op \in Panel
  /\ Toward(p, Done) /\ EndJob(p)
  /\ UNCHANGED <<disk, hostEntry, icons, time>>

Accept(p, j) == Toward(p, j) /\ UNCHANGED <<disk, hostEntry, icons, hostMu, time>>

\* PUT brand: a patch of names no longer than the limit and of colours, whole or not at all.
handleBrandAdminPut(p) ==
  /\ job[p].at = "read" /\ job[p].op = "put"
  /\ \E f \in {"name", "primary"} :
       \E v \in IF f = "name" THEN {n \in Names : n[1] <= NameRunes} ELSE {"", "brown"} :
         Accept(p, [job[p] EXCEPT !.at = "write", !.file = [disk.doc EXCEPT ![f] = v], !.touched = {f}])

handleBrandAdminPutAsset(p) ==
  /\ job[p].at = "read" /\ job[p].op = "putAsset"
  /\ \E kind \in Kinds, ext \in Extensions :
       Accept(p, [job[p] EXCEPT !.at = "asset", !.file = disk.doc, !.kind = kind, !.ext = ext, !.touched = {kind}])

handleBrandAdminDeleteAsset(p) ==
  /\ job[p].at = "read" /\ job[p].op = "deleteAsset"
  /\ \E kind \in Kinds :
       IF disk.doc[kind] = "" THEN Accept(p, [job[p] EXCEPT !.at = "lookup", !.then = "answer"])
       ELSE Accept(p, [job[p] EXCEPT !.at = "remove", !.file = disk.doc, !.kind = kind, !.touched = {kind}])

handleBrandAdminReset(p) ==
  /\ job[p].at = "read" /\ job[p].op = "reset"
  /\ Accept(p, [job[p] EXCEPT !.at = "remove", !.file = disk.doc, !.touched = Fields \ {"admins"}])

\* moovctl branding set: the name is not measured; the images are stored one by one.
brandingSet(p) ==
  /\ job[p].at = "read" /\ job[p].op = "set"
  /\ \/ \E n \in Names :
          Toward(p, [job[p] EXCEPT !.at = "write", !.file = [disk.doc EXCEPT !["name"] = n], !.touched = {"name"}])
     \/ \E kind \in Kinds :
          Toward(p, [job[p] EXCEPT !.at = "write", !.file = [disk.doc EXCEPT ![kind] = ""], !.touched = {kind}])
     \/ \E kind \in Kinds, ext \in Extensions :
          Toward(p, [job[p] EXCEPT !.at = "asset", !.file = disk.doc, !.kind = kind, !.ext = ext, !.touched = {kind}])
  /\ UNCHANGED <<disk, hostEntry, icons, hostMu, time>>

\* grant or revoke; nothing is written when the list already says so.
brandingGrant(p) ==
  /\ job[p].at = "read" /\ job[p].op = "grant"
  /\ \E u \in Users :
       LET now == IF u \in disk.doc["admins"] THEN disk.doc["admins"] \ {u} ELSE disk.doc["admins"] \cup {u}
       IN Toward(p, [job[p] EXCEPT !.at = "write", !.file = [disk.doc EXCEPT !["admins"] = now],
                               !.touched = {"admins"}])
  /\ UNCHANGED <<disk, hostEntry, icons, hostMu, time>>

brandingUnset(p) ==
  /\ job[p].at = "read" /\ job[p].op = "unset"
  /\ Toward(p, [job[p] EXCEPT !.at = "write", !.file = disk.doc, !.touched = Fields])
  /\ UNCHANGED <<disk, hostEntry, icons, hostMu, time>>

\* Files changed, document not: the kinds a job leaves behind when it stops here.
Torn(p) == hist.torn \cup job[p].dirty

Fail(p) ==
  /\ job[p].at \in {"asset", "remove", "write"}
  /\ job[p].at = "remove" => job[p].op = "deleteAsset"
  /\ job' = [job EXCEPT ![p] = Done]
  /\ hist' = [hist EXCEPT !.torn = Torn(p)]
  /\ EndJob(p)
  /\ UNCHANGED <<disk, hostEntry, icons, time>>

\* A change of the directory.
Changed(p, j) == /\ job' = [job EXCEPT ![p] = j]
                 /\ UNCHANGED <<hostEntry, icons, hostMu, time>>

\* The bytes of an upload: some file different from the one there.
StoreAsset(p) ==
  /\ job[p].at = "asset"
  /\ LET v == IF disk.files[<<job[p].kind, job[p].ext>>] = 1 THEN 2 ELSE 1
     IN disk' = [disk EXCEPT !.files = writeAtomic(@, job[p].kind, job[p].ext, v)]
  /\ Changed(p, [job[p] EXCEPT !.at = "siblings"])
  /\ hist' = [hist EXCEPT !.changed = time, !.saved = FALSE]

DropSiblings(p) ==
  /\ job[p].at = "siblings"
  /\ LET j == job[p]
         left == dropSiblings(disk.files, j.kind, j.ext)
     IN /\ disk' = [disk EXCEPT !.files = left]
        /\ \E more \in IF j.op = "set" THEN {"write", "asset"} ELSE {"write"}, kind \in Kinds, ext \in Extensions :
             /\ more = "write" => (kind = j.kind /\ ext = j.ext)
             /\ more = "asset" => kind \notin j.touched
             /\ Changed(p, [j EXCEPT !.at = more, !.file[j.kind] = j.ext, !.kind = kind, !.ext = ext,
                                     !.touched = IF more = "asset" THEN @ \cup {kind} ELSE @,
                                     !.dirty = @ \cup {j.kind}])
  /\ hist' = [hist EXCEPT !.changed = time, !.saved = FALSE]

\* Before the document is written; of unset, which may keep the files, after it is gone.
RemoveFiles(p) ==
  /\ job[p].at = "remove"
  /\ LET j == job[p]
     IN CASE j.op = "deleteAsset" ->
               /\ disk' = [disk EXCEPT !.files = RemoveAsset(@, j.kind, j.file[j.kind])]
               /\ Changed(p, [j EXCEPT !.at = "write", !.file[j.kind] = "", !.dirty = {j.kind}])
          [] j.op = "reset" ->
               /\ disk' = [disk EXCEPT !.files = removeRecordedAssets(@, j.file)]
               /\ Changed(p, [j EXCEPT !.at = "write", !.file = Reset(j.file), !.dirty = Kinds])
          [] j.op = "unset" ->
               /\ \E keep \in BOOLEAN : disk' = [disk EXCEPT !.files = IF keep THEN @ ELSE removeRecordedAssets(@, j.file)]
               /\ Changed(p, Done)
  /\ hist' = [hist EXCEPT !.changed = time, !.saved = FALSE]

\* Dir.Write; of unset, the removal of the document.
WriteDoc(p) ==
  /\ job[p].at = "write"
  /\ LET j == job[p]
         new == IF j.op = "unset" THEN File ELSE j.file
     IN /\ disk' = [disk EXCEPT !.doc = new]
        /\ Changed(p, CASE j.op = "unset" -> [j EXCEPT !.at = "remove"]
                        [] j.op \in {"set", "grant"} -> Done
                        [] OTHER -> [j EXCEPT !.at = "invalidate"])
        /\ hist' = [hist EXCEPT !.owed = [f \in Fields |-> IF f \in j.touched THEN new[f] ELSE @[f]],
                                !.torn = @ \ j.touched,
                                !.changed = time, !.saved = FALSE,
                                !.seen = [u \in Users |-> IF u \in disk.doc["admins"] \cup new["admins"] THEN time ELSE @[u]]]

invalidate(p) ==
  /\ job[p].at = "invalidate"
  /\ hostEntry' = {} /\ icons' = {}
  /\ job' = [job EXCEPT ![p] = [op |-> job[p].op, user |-> job[p].user, at |-> "lookup", then |-> "answer"] @@ Done]
  /\ hist' = [hist EXCEPT !.saved = \A q \in Procs \ {p} : ~writing(job[q])]
  /\ UNCHANGED <<disk, hostMu, time>>

(***************************************************************************)
(* The environment.                                                        *)
(***************************************************************************)

Restart ==
  /\ hist.restarts < MaxRestarts
  /\ LET mine == {p \in Procs : ~isCli(job[p])}
     IN /\ job' = [p \in Procs |-> IF p \in mine THEN Done ELSE job[p]]
        /\ hist' = [hist EXCEPT !.restarts = @ + 1,
                                !.torn = @ \cup UNION {job[p].dirty \cup (IF job[p].at = "siblings" THEN {job[p].kind} ELSE {}) :
                                                         p \in {q \in mine : writing(job[q])}}]
  /\ hostEntry' = {} /\ icons' = {} /\ hostMu' = {}
  /\ UNCHANGED <<disk, time>>

MinutePasses ==
  /\ time < MaxNow
  /\ time' = time + 1
  /\ hist' = [hist EXCEPT !.seen = [u \in Users |-> IF u \in disk.doc["admins"] THEN time + 1 ELSE @[u]]]
  /\ UNCHANGED <<disk, hostEntry, icons, job, hostMu>>

BrandInit ==
  /\ \E u \in Users :
       LET d == [File EXCEPT !["admins"] = {u}, !["logo"] = "png"]
       IN /\ disk = [doc |-> d, files |-> [n \in Stored |-> IF n = <<"logo", "png">> THEN 1 ELSE 0]]
          /\ hist = [owed |-> d, overlap |-> FALSE, torn |-> {}, changed |-> 0, saved |-> FALSE,
                     seen |-> [v \in Users |-> IF v = u THEN 0 ELSE -brandingCacheTTL],
                     jobs |-> 0, restarts |-> 0]
  /\ hostEntry \in {{}, {[entry |-> load(disk.doc, disk.files), expires |-> brandingCacheTTL]}}
  /\ icons = {}
  /\ job = [p \in Procs |-> Done]
  /\ hostMu = {}
  /\ time = 0

BrandStep(p) ==
  \/ \E op \in Reads \cup Operator : Begin(p, op, "")
  \/ \E op \in Panel, u \in Users : Begin(p, op, u)
  \/ Lookup(p) \/ LoadConfig(p) \/ LoadAssets(p) \/ StoreEntry(p)
  \/ IconLookup(p) \/ IconOpen(p) \/ IconStore(p)
  \/ lockHost(p) \/ Refuse(p)
  \/ handleBrandAdminPut(p) \/ handleBrandAdminPutAsset(p) \/ handleBrandAdminDeleteAsset(p) \/ handleBrandAdminReset(p)
  \/ brandingSet(p) \/ brandingGrant(p) \/ brandingUnset(p)
  \/ StoreAsset(p) \/ DropSiblings(p) \/ RemoveFiles(p) \/ Fail(p) \/ WriteDoc(p)
  \/ invalidate(p)

BrandNext == Restart \/ MinutePasses \/ \E p \in Procs : BrandStep(p)

BrandSpec == BrandInit /\ [][BrandNext]_brandVars

(***************************************************************************)
(* Properties.                                                             *)
(***************************************************************************)

\* Types of the state.
BrandTypeOK ==
  /\ DOMAIN disk.doc = Fields /\ disk.doc["admins"] \subseteq Users
  /\ disk.files \in [Stored -> 0..2]
  /\ Cardinality(hostEntry) <= 1 /\ hostMu \subseteq Procs

Loaded == load(disk.doc, disk.files)

\* However loads, saves, moovctl and invalidations interleave, an entry the store still
\* serves a minute after the directory last changed is what the directory says
\* (resolveEntry stamps the entry with the time read before the load).
EntryAtMostMinuteOld ==
  time >= hist.changed + brandingCacheTTL => \A e \in hostEntry : time < e.expires => e.entry = Loaded

\* An icon still served a minute after the last change was drawn from the bytes now on
\* disk, although the file is opened again after its digest became the key (icon).
IconAtMostMinuteOld ==
  time >= hist.changed + brandingCacheTTL =>
    \A i \in icons : time < i.expires => i.drawn = disk.files[<<i.key[2], "png">>]

\* A request that began a minute or more after its mailbox stopped being on the list is
\* not authorised, whatever the entry held (IsBrandAdmin over the cached entry).
AuthorisedInTime ==
  \A p \in Procs : job[p].at = "lock" =>
    job[p].since < hist.seen[job[p].user] + brandingCacheTTL

\* The document is the sum of the accepted edits, the administrators' included: two
\* panels never lose each other's save (lockHost around read-modify-write), and an edit
\* can be lost only when moovctl ran beside another writer, which no mutex covers.
EditsKept == ~hist.overlap => disk.doc = hist.owed

\* With no writer at work every image the document names is there, unless the writer that
\* changed the image stopped before the document (a failed write, a restart, a second
\* image moovctl refused) or moovctl ran beside another writer.
NamedIsStored ==
  ~hist.overlap /\ (\A p \in Procs : ~writing(job[p])) =>
    \A k \in Kinds \ hist.torn : disk.doc[k] # "" => disk.files[<<k, disk.doc[k]>>] # 0

\* What visitors get is presentable whatever the writers accepted: a name and a launcher
\* name within their limits and never empty; a configured icon or logo that cannot be
\* rendered into icons is declared when Moov's icons are served instead.
ShownIsPresentable ==
  \A e \in hostEntry :
    /\ e.entry.doc.name[1] \in 1..NameRunes /\ e.entry.doc.short[1] \in 1..ShortRunes
    /\ e.entry.configured /\ e.entry.iconSource = "" => e.entry.issue

\* The brand of a host with two writers and two caches: nothing older than a
\* minute is shown or trusted, no accepted edit is lost under the host's lock,
\* and every image the document names is stored (branding.go, dir.go).
BrandSafe ==
  /\ BrandTypeOK /\ EntryAtMostMinuteOld /\ IconAtMostMinuteOld /\ AuthorisedInTime
  /\ EditsKept /\ NamedIsStored /\ ShownIsPresentable
=============================================================================
