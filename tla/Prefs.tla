-------------------------------- MODULE Prefs --------------------------------
(***************************************************************************)
(* Preferences and identities: Prefs/get, /changes and /set with the patch *)
(* language of internal/jmap/mail/prefs.go, the stored document and its    *)
(* schema versions (internal/store/prefs.go), and Identity/set, which      *)
(* writes columns where Prefs/set writes the whole document.               *)
(*                                                                         *)
(* Several /set requests run at once; each SELECT and each statement is a  *)
(* step.  A statement takes its time when it starts and a row lock may let *)
(* a later one pass, so a write is begun and then committed.               *)
(***************************************************************************)
EXTENDS Naturals, Sequences, FiniteSets, FiniteSetsExt

CONSTANTS
    Setters,       \* concurrent /set requests
    Patches,       \* the Prefs patches a run sends
    IdPatches,     \* the Identity patches a run sends
    Stored,        \* the rows account_prefs may hold at the start
    UndoChoices, OptChoices,
    MaxLabels, MaxFolders, MaxItems, MaxBytes,
    MinDepth, MaxDepth,
    DefaultUndo,
    MaxPuts        \* how many writes are begun in a behaviour

ASSUME PrefsAssumption ==
    /\ DefaultUndo \in UndoChoices
    /\ MinDepth \in Nat /\ MaxDepth \in Nat /\ MinDepth <= MaxDepth
    /\ MaxLabels \in Nat /\ MaxFolders \in Nat /\ MaxItems \in Nat
    /\ MaxBytes \in Nat /\ MaxPuts \in Nat
    /\ "default" \in OptChoices

VARIABLES
    object,   \* the type of object the requests are about
    row,      \* account_prefs: [x, ver, doc, at]
    idrow,    \* the default identity: [x, name, sig, reply]
    req,      \* the /set requests
    puts,     \* history: the Prefs patches that were stored, in order
    idputs,   \* history: the Identity patches that were stored, in order
    rd,       \* a client that loaded the preferences
    tick      \* the newest time a write began

prefsVars == <<object, row, idrow, req, puts, idputs, rd, tick>>

SchemaVersion == 3
Empty == [n \in {} |-> 0]
Overlay(f, g) == [n \in DOMAIN f \cup DOMAIN g |->
                    IF n \in DOMAIN g THEN g[n] ELSE f[n]]
NoEdit == [op |-> "keep", edits |-> Empty]

(***************************************************************************)
(* The document.  undo, opt and lang stand for the numbers, the closed     *)
(* choices and booleans, and the free-form tag; labels, folders and the    *)
(* signature items are maps by name.                                       *)
(***************************************************************************)
NoSignatures == [items |-> Empty, forNew |-> "", forReply |-> ""]
DefaultPrefs ==
    [undo |-> DefaultUndo, opt |-> "default", lang |-> "",
     depth |-> [headers |-> MinDepth, bodies |-> MinDepth],
     labels |-> Empty, folders |-> Empty, sig |-> NoSignatures]

(* A stored document names only some fields; the rest are the defaults.    *)
(* Versions 0 to 3 are read the same way; a newer one is refused.          *)
liftPrefsV1ToV2(d) == d
liftPrefsV2ToV3(d) == d
migratePrefsAny(r) == [ok |-> TRUE, doc |-> Overlay(DefaultPrefs, r.doc)]
migratePrefs(r) ==
    LET d == Overlay(DefaultPrefs, r.doc)
    IN CASE r.ver \in {0, 1} -> [ok |-> TRUE, doc |-> liftPrefsV2ToV3(liftPrefsV1ToV2(d))]
         [] r.ver = 2 -> [ok |-> TRUE, doc |-> liftPrefsV2ToV3(d)]
         [] r.ver = 3 -> [ok |-> TRUE, doc |-> d]
         [] OTHER     -> [ok |-> FALSE, doc |-> d]

encodePrefsAhead(d, at) == [x |-> TRUE, ver |-> SchemaVersion, doc |-> d, at |-> at + 9]
encodePrefs(d, at) == [x |-> TRUE, ver |-> SchemaVersion, doc |-> d, at |-> at]
NoRow == [x |-> FALSE, ver |-> SchemaVersion, doc |-> Empty, at |-> 0]

(* GetPrefs: no row is the defaults; what cannot be read is an error.      *)
GetPrefs ==
    IF ~row.x THEN [ok |-> TRUE, doc |-> DefaultPrefs, exists |-> FALSE, at |-> 0]
    ELSE LET m == migratePrefs(row)
         IN [ok |-> m.ok, doc |-> m.doc, exists |-> TRUE, at |-> row.at]
Current == GetPrefs.doc

PrefsWatermark == row.at
CountPrefs == IF row.x THEN 1 ELSE 0
prefsStateString == <<PrefsWatermark, CountPrefs>>

(***************************************************************************)
(* Patches.  A value is "null", "bad" (wrong type, unknown choice, over a  *)
(* limit) or good; a map property may come whole and be edited by key in   *)
(* the same patch.  Every helper gives the new value and whether it is     *)
(* fine.                                                                   *)
(***************************************************************************)
Fine(v) == [ok |-> TRUE, to |-> v]
Fail(v) == [ok |-> FALSE, to |-> v]

prefsPatchInt(v) == v \in Nat
prefsPatchEnum(cur, v, choices) == IF v \in choices THEN Fine(v) ELSE Fail(cur)
prefsPatchBoundedInt(cur, v, low, high) ==
    IF prefsPatchInt(v) /\ v >= low /\ v <= high THEN Fine(v) ELSE Fail(cur)
(* null and blank both mean: follow the browser.                           *)
validLanguageTag(v) == v \notin {"bad"}
patchLanguage(cur, v) ==
    CASE v \in {"null", ""} -> Fine("")
      [] validLanguageTag(v) -> Fine(v)
      [] OTHER -> Fail(cur)

parseFolderVisibility(v) == v \in {"show", "hide"}
parseLabelPrefs(v) == v \in {"red", "blue"}

(* The whole map first (null empties it), then the edits (null removes),   *)
(* then the limit on what is left.                                         *)
PatchedMap(cur, e) ==
    LET base == CASE e.op = "keep" -> cur [] e.op = "null" -> Empty
                  [] OTHER -> e.whole
        drop == {n \in DOMAIN e.edits : e.edits[n] = "null"}
        keep == (DOMAIN base \cup DOMAIN e.edits) \ drop
    IN [n \in keep |-> IF n \in DOMAIN e.edits THEN e.edits[n] ELSE base[n]]
ValuesFine(e, Good(_)) ==
    /\ e.op # "bad"
    /\ e.op = "whole" => \A n \in DOMAIN e.whole : Good(e.whole[n])
    /\ \A n \in DOMAIN e.edits : e.edits[n] = "null" \/ Good(e.edits[n])

applyFolderVisibilityPatch(cur, e) ==
    LET to == PatchedMap(cur, e)
    IN [ok |-> ValuesFine(e, parseFolderVisibility)
                 /\ Cardinality(DOMAIN to) <= MaxFolders, to |-> to]
applyLabelsPatch(cur, e) ==
    LET to == PatchedMap(cur, e)
    IN [ok |-> ValuesFine(e, parseLabelPrefs)
                 /\ Cardinality(DOMAIN to) <= MaxLabels, to |-> to]

(* Signature items come as a whole map, never one by one.  Their HTML is   *)
(* rewritten by the sanitiser, which maps what it lets through to itself.  *)
sanitizeHTMLSignature(h) == IF h = "raw" THEN "clean" ELSE h
Bytes(h) == CASE h = "" -> 0 [] h = "clean" -> 1 [] OTHER -> 2
parseSignatureItems(items) ==
    [ok |-> /\ Cardinality(DOMAIN items) <= MaxItems
            /\ \A n \in DOMAIN items : items[n] # "bad"
            /\ MapThenSumSet(LAMBDA n : Bytes(sanitizeHTMLSignature(items[n])), DOMAIN items)
                  <= MaxBytes,
     to |-> [n \in DOMAIN items |-> sanitizeHTMLSignature(items[n])]]
parseSignatureRefRaw(v) == v
parseSignatureRef(v) == IF v = "null" THEN "" ELSE v

(* A whole value replaces all three parts, an absent part being empty; the *)
(* edits follow; at the end both references must name an item.             *)
Part(e, k, cur) == IF k \in DOMAIN e THEN e[k] ELSE cur
signatureRefsUnchecked(s) == TRUE
signatureRefsResolve(s) ==
    /\ s.forNew = "" \/ s.forNew \in DOMAIN s.items
    /\ s.forReply = "" \/ s.forReply \in DOMAIN s.items
applySignaturesPatch(cur, e) ==
    LET base == CASE e.op = "keep" -> cur
                  [] e.op = "null" -> NoSignatures
                  [] OTHER -> [items |-> parseSignatureItems(Part(e.whole, "items", Empty)).to,
                               forNew |-> parseSignatureRef(Part(e.whole, "forNew", "")),
                               forReply |-> parseSignatureRef(Part(e.whole, "forReply", ""))]
        to == [items |-> IF "items" \in DOMAIN e.edits
                         THEN parseSignatureItems(e.edits["items"]).to ELSE base.items,
               forNew |-> parseSignatureRef(Part(e.edits, "forNew", base.forNew)),
               forReply |-> parseSignatureRef(Part(e.edits, "forReply", base.forReply))]
    IN [ok |-> /\ e.op # "bad"
               /\ e.op = "whole" => parseSignatureItems(Part(e.whole, "items", Empty)).ok
               /\ "items" \in DOMAIN e.edits => parseSignatureItems(e.edits["items"]).ok
               /\ e = NoEdit \/ signatureRefsResolve(to),
        to |-> to]

(* The two depths are independent: a whole value keeps the one it does not *)
(* name, null restores the defaults, and an edit beats the whole.          *)
applyOfflineDepthPatch(cur, e) ==
    LET base == IF e.op = "null" THEN DefaultPrefs.depth ELSE cur
        edits == IF e.op = "whole" THEN Overlay(e.whole, e.edits) ELSE e.edits
        h == prefsPatchBoundedInt(base.headers, Part(edits, "headers", base.headers),
                                  MinDepth, MaxDepth)
        b == prefsPatchBoundedInt(base.bodies, Part(edits, "bodies", base.bodies),
                                  MinDepth, MaxDepth)
    IN [ok |-> e.op # "bad" /\ h.ok /\ b.ok, to |-> [headers |-> h.to, bodies |-> b.to]]

Touched(p) == DOMAIN p
clonePrefsValueFresh(d) == DefaultPrefs
clonePrefsValue(d) == d
(* One bad value refuses the whole patch.                                  *)
applyPrefsPatch(current, p) ==
    LET cur == clonePrefsValue(current)
        undo == IF "undo" \in DOMAIN p THEN prefsPatchEnum(cur.undo, p.undo, UndoChoices)
                ELSE Fine(cur.undo)
        opt == IF "opt" \in DOMAIN p THEN prefsPatchEnum(cur.opt, p.opt, OptChoices)
               ELSE Fine(cur.opt)
        lang == IF "lang" \in DOMAIN p THEN patchLanguage(cur.lang, p.lang)
                ELSE Fine(cur.lang)
        labels == applyLabelsPatch(cur.labels, Part(p, "labels", NoEdit))
        sig == applySignaturesPatch(cur.sig, Part(p, "sig", NoEdit))
        depth == applyOfflineDepthPatch(cur.depth, Part(p, "depth", NoEdit))
        folders == applyFolderVisibilityPatch(cur.folders, Part(p, "folders", NoEdit))
    IN [ok  |-> /\ undo.ok /\ opt.ok /\ lang.ok
                /\ labels.ok /\ sig.ok /\ depth.ok /\ folders.ok
                /\ "other" \notin DOMAIN p,
        doc |-> [undo |-> undo.to, opt |-> opt.to, lang |-> lang.to,
                 depth |-> depth.to, labels |-> labels.to,
                 folders |-> folders.to, sig |-> sig.to]]

(* What /get shows, written as the patch that would restore it: the empty  *)
(* tag and an empty reference are null, a map is always an object.         *)
prefsOptionalID(n) == IF n = "" THEN "null" ELSE n
prefsSignaturesValue(s) ==
    [op |-> "whole", edits |-> Empty,
     whole |-> [items |-> s.items, forNew |-> prefsOptionalID(s.forNew),
                forReply |-> prefsOptionalID(s.forReply)]]
WholeMap(m) == [op |-> "whole", whole |-> m, edits |-> Empty]
prefsObject(d) ==
    [undo |-> d.undo, opt |-> d.opt, lang |-> prefsOptionalID(d.lang),
     depth |-> WholeMap(d.depth), labels |-> WholeMap(d.labels),
     folders |-> WholeMap(d.folders), sig |-> prefsSignaturesValue(d.sig)]

(***************************************************************************)
(* Identities.  The default identity appears when it is first listed.      *)
(***************************************************************************)
NoIdentity == [x |-> FALSE, cols |-> Empty]
EnsureDefaultIdentity ==
    IF idrow.x THEN idrow
    ELSE [x |-> TRUE, cols |-> [name |-> "address", sig |-> "", reply |-> ""]]
patchAddresses(v) == IF v = "null" THEN "" ELSE v
interpretIdentityPatch(p) ==
    [ok |-> \A k \in DOMAIN p : k \in {"name", "sig", "reply"} /\ p[k] # "bad",
     cols |-> [k \in DOMAIN p |-> IF k = "sig" THEN sanitizeHTMLSignature(p[k])
                                  ELSE IF k = "reply" THEN patchAddresses(p[k])
                                  ELSE p[k]]]
(* Only the named columns are written.                                     *)
UpdateIdentityWhole(cur, read, cols) == Overlay(read, cols)
UpdateIdentity(cur, read, cols) == Overlay(cur, cols)

PrefsInit ==
    /\ object \in {"Prefs", "Identity"}
    /\ row \in Stored
    /\ idrow = NoIdentity
    /\ req = [s \in Setters |-> [pc |-> "idle"]]
    /\ puts = <<>> /\ idputs = <<>>
    /\ rd = [pc |-> "new", doc |-> DefaultPrefs, w |-> 0, n |-> 0, blind |-> FALSE]
    /\ tick = 1

(***************************************************************************)
(* Prefs/set: the state and ifInState, the document, the patch, the write. *)
(* The two SELECTs of oldState are one step: only ifInState looks at them. *)
(***************************************************************************)
handlePrefsSet(s) ==
    /\ req[s].pc = "idle" /\ object = "Prefs" /\ tick <= MaxPuts
    /\ \E ifInState \in {{}, {<<rd.w, rd.n>>}} :
          /\ ifInState # {} => rd.pc = "have" /\ prefsStateString \in ifInState
          /\ req' = [req EXCEPT ![s] = [pc |-> "read"]]
    /\ UNCHANGED <<object, row, idrow, puts, idputs, rd, tick>>

(* GetPrefs and applyPrefsPatch: a document that cannot be read, or a bad  *)
(* patch, ends the request with nothing written.                           *)
readPrefs(s) ==
    /\ req[s].pc = "read"
    /\ \E p \in Patches :
          LET a == applyPrefsPatch(GetPrefs.doc, p)
          IN req' = [req EXCEPT ![s] =
                       IF GetPrefs.ok /\ a.ok
                       THEN [pc |-> "put", patch |-> p, doc |-> a.doc,
                             seen |-> Len(puts)]
                       ELSE [pc |-> "idle"]]
    /\ UNCHANGED <<object, row, idrow, puts, idputs, rd, tick>>

beginPut(s) ==
    /\ req[s].pc = "put" /\ tick <= MaxPuts
    /\ req' = [req EXCEPT ![s] = [pc |-> "commit", patch |-> req[s].patch,
                                  doc |-> req[s].doc, seen |-> req[s].seen,
                                  at |-> tick + 1]]
    /\ tick' = tick + 1
    /\ UNCHANGED <<object, row, idrow, puts, idputs, rd>>

(* The upsert.  The reader is blind to it when it has read the document    *)
(* and not yet the state, or when the write is older than its state.       *)
PutPrefsNoBump(s) == encodePrefs(req[s].doc, IF row.x THEN row.at ELSE req[s].at)
PutPrefs(s) == encodePrefs(req[s].doc, req[s].at)
commitPut(s) ==
    /\ req[s].pc = "commit"
    /\ row' = PutPrefs(s)
    /\ puts' = Append(puts, [patch |-> req[s].patch, seen |-> req[s].seen])
    /\ rd' = [rd EXCEPT !.blind = @ \/ rd.pc \in {"w", "n"} \/ req[s].at <= rd.w]
    /\ req' = [req EXCEPT ![s] = [pc |-> "idle"]]
    /\ UNCHANGED <<object, idrow, idputs, tick>>

(* The store refuses the write: the request answers serverFail.            *)
failPut(s) ==
    /\ req[s].pc = "commit"
    /\ req' = [req EXCEPT ![s] = [pc |-> "idle"]]
    /\ UNCHANGED <<object, row, idrow, puts, idputs, rd, tick>>

(***************************************************************************)
(* Identity/set: list (which may create the default), patch, UPDATE.       *)
(***************************************************************************)
ListIdentities(s) ==
    /\ req[s].pc = "idle" /\ object = "Identity" /\ Len(idputs) < MaxPuts
    /\ idrow' = EnsureDefaultIdentity
    /\ \E p \in IdPatches :
          LET i == interpretIdentityPatch(p)
          IN req' = [req EXCEPT ![s] =
                       IF i.ok THEN [pc |-> "update", cols |-> i.cols,
                                     read |-> idrow'.cols]
                       ELSE [pc |-> "idle"]]
    /\ UNCHANGED <<object, row, puts, idputs, rd, tick>>

handleIdentitySet(s) ==
    /\ req[s].pc = "update"
    /\ idrow' = [idrow EXCEPT !.cols = UpdateIdentity(@, req[s].read, req[s].cols)]
    /\ idputs' = Append(idputs, req[s].cols)
    /\ req' = [req EXCEPT ![s] = [pc |-> "idle"]]
    /\ UNCHANGED <<object, row, puts, rd, tick>>

(***************************************************************************)
(* Prefs/get reads the document, then the watermark, then the count.       *)
(***************************************************************************)
handlePrefsGet ==
    /\ object = "Prefs"
    /\ \/ /\ rd.pc = "new" /\ GetPrefs.ok
          /\ rd' = [rd EXCEPT !.pc = "w", !.doc = Current, !.blind = FALSE]
       \/ /\ rd.pc = "w"
          /\ rd' = [rd EXCEPT !.pc = "n", !.w = PrefsWatermark]
       \/ /\ rd.pc = "n"
          /\ rd' = [rd EXCEPT !.pc = "have", !.n = CountPrefs]
    /\ UNCHANGED <<object, row, idrow, req, puts, idputs, tick>>

(* Prefs/changes tells created from updated by the count in the cursor.    *)
prefsCursorSawTheObject(n) == n # 0
handlePrefsChanges(w, n) ==
    IF ~GetPrefs.exists \/ GetPrefs.at <= w THEN "none"
    ELSE IF prefsCursorSawTheObject(n) THEN "updated" ELSE "created"

PrefsNext ==
    \/ \E s \in Setters : \/ handlePrefsSet(s) \/ readPrefs(s) \/ beginPut(s)
                          \/ commitPut(s) \/ failPut(s)
                          \/ ListIdentities(s) \/ handleIdentitySet(s)
    \/ handlePrefsGet

PrefsSpec == PrefsInit /\ [][PrefsNext]_prefsVars

(***************************************************************************)
(* Properties.                                                             *)
(***************************************************************************)
(* Rows and requests hold values of their kinds.                           *)
PrefsTypeOK ==
    /\ row.x \in BOOLEAN /\ row.ver \in Nat /\ row.at \in 0 .. tick
    /\ idrow.x \in BOOLEAN
    /\ \A s \in Setters : req[s].pc \in {"idle", "read", "put", "commit", "update"}
    /\ Len(puts) <= MaxPuts /\ tick <= MaxPuts + 1

(* Whatever patches and overlapping requests do, the stored document is    *)
(* one the validators accept: its maps are within their limits and both    *)
(* signature references name a signature.                                  *)
ValidPrefs(d) ==
    /\ d.undo \in UndoChoices /\ d.opt \in OptChoices
    /\ d.depth.headers \in MinDepth .. MaxDepth /\ d.depth.bodies \in MinDepth .. MaxDepth
    /\ Cardinality(DOMAIN d.labels) <= MaxLabels
    /\ Cardinality(DOMAIN d.folders) <= MaxFolders
    /\ Cardinality(DOMAIN d.sig.items) <= MaxItems
    /\ {d.sig.forNew, d.sig.forReply} \subseteq DOMAIN d.sig.items \cup {""}
StoredPrefsValid == GetPrefs.ok => ValidPrefs(Current)

(* What /get renders of a stored document, sent back as a patch over any   *)
(* other, restores the document: null, "" and {} survive the trip.         *)
RenderRestores ==
    (GetPrefs.ok /\ ValidPrefs(Current))
    => \A d \in {DefaultPrefs} \cup {req[s].doc : s \in {t \in Setters :
                                          req[t].pc \in {"put", "commit"}}} :
          applyPrefsPatch(d, prefsObject(Current)) = [ok |-> TRUE, doc |-> Current]

(* A document a newer build wrote is never overwritten by this one.        *)
NewerPrefsKept == [][row.ver > SchemaVersion => row' = row]_prefsVars

(* A stored preference is there until a later set names the same property  *)
(* or a set that had read the document before it was stored writes its own *)
(* copy.  Only such an overlap loses it.                                   *)
LostOnlyByOverlap ==
    \A i \in 1 .. Len(puts) : \A k \in Touched(puts[i].patch) :
        \/ \E j \in i + 1 .. Len(puts) :
              k \in Touched(puts[j].patch) \/ puts[j].seen < i
        \/ applyPrefsPatch(Current, [n \in {k} |-> puts[i].patch[n]]).doc = Current

(* Identity/set names columns in its UPDATE: an overlap loses nothing.     *)
IdentityColumnsKept ==
    \A i \in 1 .. Len(idputs) : \A k \in DOMAIN idputs[i] :
        \/ \E j \in i + 1 .. Len(idputs) : k \in DOMAIN idputs[j]
        \/ idrow.cols[k] = idputs[i][k]

(* /changes tells a client whose copy differs, unless a write slipped      *)
(* between the two reads of its Prefs/get, the document first and the      *)
(* state after it, or was stamped no later than that state by a clock read *)
(* before the write.  prefs.go:772-773 says of the answers that "all three *)
(* are exact rather than approximate".                                     *)
PrefsChangesTell ==
    (rd.pc = "have" /\ GetPrefs.ok /\ rd.doc # Current /\ ~rd.blind)
    => handlePrefsChanges(rd.w, rd.n) # "none"

\* The preferences document stays valid across versions, can be restored from
\* what a client was shown, loses a patch only to an overlapping one, and no
\* change of it goes unreported (prefs.go); an identity keeps every column
\* nobody wrote since (identities.go).
PrefsSafe ==
    /\ PrefsTypeOK /\ StoredPrefsValid /\ RenderRestores /\ LostOnlyByOverlap
    /\ IdentityColumnsKept /\ PrefsChangesTell
=============================================================================
