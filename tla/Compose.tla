------------------------------ MODULE Compose -------------------------------
(***************************************************************************)
(* A message composed over JMAP and read back (internal/jmap/mail):        *)
(* Email/set create interprets the creation object, materialises its parts *)
(* (email_create.go), and assembles them into a message (mime.go); once    *)
(* stored, Email/get rebuilds the part tree and sorts its leaves into      *)
(* textBody, htmlBody and attachments (bodypart.go, email.go).             *)
(*                                                                         *)
(* A creation object is abstracted to what its interpretation looks at; a  *)
(* part reference names the body value or the blob it takes its bytes      *)
(* from.  What a message says is the sequence of those names.              *)
(***************************************************************************)
EXTENDS Mime

CONSTANTS maxCreateStructureDepth, maxCreateStructureParts, maxAttachmentsBytes,
          lineLimit

(* The blobs an account may attach, with their sizes; and the body values  *)
(* a client may send, with the cids their text names.                      *)
BlobSize == [photo |-> 1, film |-> 2, letter |-> 1]
TextRefs == [plain |-> {}, page |-> {"logo"}]

Refused(err) == [err |-> err, part |-> <<>>, budget |-> 0]

-----------------------------------------------------------------------------
(* Interpretation.                                                         *)

decodePartRef(r) == ~(r.partID # "" /\ r.blobID # "")

decodeSingleBodyList(refs, want) ==
    \/ refs = <<>>
    \/ /\ Len(refs) = 1
       /\ decodePartRef(refs[1]) /\ refs[1].partID # ""
       /\ refs[1].type \in {"", want}

RECURSIVE decodeStructureNode(_, _)
decodeStructureNode(node, depth) ==
    /\ depth <= maxCreateStructureDepth
    /\ decodePartRef(node)
    /\ Len(node.subParts) <= maxCreateStructureParts
    /\ \A i \in 1..Len(node.subParts) : decodeStructureNode(node.subParts[i], depth + 1)
    /\ (node.type \in Multipart) = (node.subParts # <<>>)

parseCreateMailboxIDs(ids) == ids # "bad"

extraHeaderName(header) == header \in {"", "x-custom", "disposition-notification-to"}

receiptRequestHeaders == {"disposition-notification-to"}

(* The errors that end the interpretation where they are met; the object's *)
(* properties come in no order, so any of them may be the one answered.    *)
interpretAtOnce(obj) ==
    {e \in {"invalidProperties", "forbidden"} :
        CASE e = "invalidProperties" ->
               \/ ~parseCreateMailboxIDs(obj.mailboxIds) \/ obj.mailboxIds = "two"
               \/ obj.bodyStructure # <<>> /\ ~decodeStructureNode(obj.bodyStructure[1], 0)
          [] OTHER -> obj.header \in receiptRequestHeaders}

interpretAtEnd(obj) ==
    \/ ~decodeSingleBodyList(obj.textBody, "text/plain")
    \/ ~decodeSingleBodyList(obj.htmlBody, "text/html")
    \/ \E i \in 1..Len(obj.attachments) :
          ~decodePartRef(obj.attachments[i]) \/ obj.attachments[i].blobID = ""
    \/ ~extraHeaderName(obj.header)
    \/ obj.serverSet
    \/ obj.mailboxIds = "missing"
    \/ /\ obj.bodyStructure # <<>>
       /\ obj.textBody # <<>> \/ obj.htmlBody # <<>> \/ obj.attachments # <<>>

interpretEmailCreate(obj) ==
    CASE interpretAtOnce(obj) # {} -> interpretAtOnce(obj)
      [] interpretAtEnd(obj)       -> {"invalidProperties"}
      [] OTHER                     -> {""}

-----------------------------------------------------------------------------
(* Materialisation: the parts with their bytes, within the budget.         *)

MimePart(type, kids) ==
    [type |-> type, disp |-> "", named |-> FALSE, cid |-> "", size |-> 0, src |-> "",
     refs |-> {}, kids |-> kids]

materializeLeafUncounted(obj, ref, partID, blobID, budget) ==
    LET p == [MimePart(ref.type, <<>>) EXCEPT !.disp = ref.disp, !.cid = ref.cid,
                                              !.named = ref.name # ""]
    IN CASE ref.name = "run.exe" -> Refused("forbidden")
         [] partID # "" -> [err |-> "", budget |-> budget,
                            part |-> <<[p EXCEPT !.size = 1, !.src = partID]>>]
         [] blobID \notin DOMAIN BlobSize -> Refused("blobNotFound")
         [] BlobSize[blobID] > budget -> Refused("tooLarge")
         [] OTHER -> [err |-> "", budget |-> budget,
                      part |-> <<[p EXCEPT !.size = BlobSize[blobID], !.src = blobID,
                                           !.disp = IF @ = "" THEN "attachment" ELSE @]>>]

materializeLeaf(obj, ref, partID, blobID, budget) ==
    LET type == IF ref.type = "" THEN "application/octet-stream" ELSE ref.type
        p    == [MimePart(type, <<>>) EXCEPT !.disp = ref.disp, !.cid = ref.cid,
                                             !.named = ref.name # ""]
    IN CASE ref.name = "run.exe" -> Refused("forbidden")
         [] partID # "" ->
               IF partID \notin obj.bodyValues \/ type \notin Text
                 THEN Refused("invalidProperties")
                 ELSE [err |-> "", budget |-> budget,
                       part |-> <<[p EXCEPT !.size = 1, !.src = partID,
                                            !.refs = TextRefs[partID]]>>]
         [] blobID = "" -> Refused("invalidProperties")
         [] blobID \notin DOMAIN BlobSize -> Refused("blobNotFound")
         [] BlobSize[blobID] > budget -> Refused("tooLarge")
         [] OTHER ->
               [err |-> "", budget |-> budget - BlobSize[blobID],
                part |-> <<[p EXCEPT !.size = BlobSize[blobID], !.src = blobID,
                                     !.disp = IF @ = "" THEN "attachment" ELSE @]>>]

RECURSIVE materializeNode(_, _, _)
materializeNode(obj, node, budget) ==
    IF node.type \notin Multipart
      THEN materializeLeaf(obj, node, node.partID, node.blobID, budget)
      ELSE LET Sub(acc, kid) ==
                 IF acc.err # "" THEN acc
                 ELSE LET m == materializeNode(obj, kid, acc.budget)
                      IN [m EXCEPT !.part = acc.part \o @]
               subs == FoldLeft(Sub, [err |-> "", budget |-> budget, part |-> <<>>],
                                node.subParts)
           IN IF subs.err # "" THEN subs
              ELSE [subs EXCEPT !.part = <<MimePart(node.type, @)>>]

(* The bodies and the attachments of an object without a bodyStructure, in *)
(* the order their bytes are fetched.                                      *)
Sources(obj) ==
    LET Body(refs, type) == [i \in DOMAIN refs |-> [refs[i] EXCEPT !.type = type, !.blobID = ""]]
    IN Body(obj.textBody, "text/plain") \o Body(obj.htmlBody, "text/html")
         \o [i \in DOMAIN obj.attachments |-> [obj.attachments[i] EXCEPT !.partID = ""]]

AllMixed(text, html, files) ==
    MimePart("multipart/mixed", text \o html \o files)

(* html with its inline parts is a multipart/related; text and html are    *)
(* alternatives; everything else rides in a multipart/mixed around them.   *)
Nest(text, html, files) ==
    LET inline(p) == html # <<>> /\ p.disp = "inline" /\ p.cid # ""
        inlined   == SelectSeq(files, inline)
        attached  == SelectSeq(files, LAMBDA p : ~inline(p))
        rich      == IF inlined = <<>> THEN html
                     ELSE <<MimePart("multipart/related", html \o inlined)>>
        body      == CASE text # <<>> /\ html # <<>> ->
                             MimePart("multipart/alternative", text \o rich)
                       [] html # <<>> -> rich[1]
                       [] text # <<>> -> text[1]
                       [] OTHER       -> MimePart("text/plain", <<>>)
    IN IF attached = <<>> THEN body
       ELSE MimePart("multipart/mixed", <<body>> \o attached)

materializeBody(obj) ==
    IF obj.bodyStructure # <<>>
      THEN materializeNode(obj, obj.bodyStructure[1], maxAttachmentsBytes)
      ELSE LET Fetch(acc, ref) ==
                 IF acc.err # "" THEN acc
                 ELSE LET m == materializeLeaf(obj, ref, ref.partID, ref.blobID, acc.budget)
                      IN [m EXCEPT !.part = acc.part \o @]
               got == FoldLeft(Fetch, [err |-> "", budget |-> maxAttachmentsBytes,
                                       part |-> <<>>], Sources(obj))
               t   == Len(obj.textBody)
               h   == t + Len(obj.htmlBody)
           IN IF got.err # "" THEN got
              ELSE [got EXCEPT !.part = <<Nest(SubSeq(@, 1, t), SubSeq(@, t + 1, h),
                                               SubSeq(@, h + 1, Len(@)))>>]

(* The assembled message as go-message reads it back: a media type outside *)
(* the registered classes is written as given and read as unregistered;    *)
(* only a part with a disposition or a cid gets those headers.             *)
RECURSIVE writePart(_)
writePart(p) ==
    Entity([type |-> p.type, ct |-> IF p.type = "pdf" THEN "unregistered" ELSE "ok",
            disp |-> p.disp, named |-> p.named, cid |-> p.cid, size |-> p.size,
            refs |-> p.refs, src |-> p.src,
            inner |-> IF p.src = "letter" THEN <<Entity([src |-> "letter's text"])>> ELSE <<>>,
            kids |-> [i \in DOMAIN p.kids |-> writePart(p.kids[i])]])

RawOf(entity) ==
    [size |-> 1, bareCR |-> FALSE, declared |-> 0, closes |-> 0, midline |-> FALSE,
     legible |-> FALSE, go |-> <<entity>>, en |-> <<>>]

-----------------------------------------------------------------------------
(* Header folding: a value is segments of words (their lengths); lines are *)
(* sequences of words, the first after the name.                           *)

LineLength(line, first, name) ==
    FoldLeft(LAMBDA sum, w : sum + 1 + w, IF first THEN name ELSE 0, line)

writeWordOffByOne(acc, word, name) ==
    LET first == acc.done = <<>>
        line  == acc.line
    IN CASE line = <<>> /\ first /\ name + 1 + word > lineLimit ->
               [done |-> <<<<>>>>, line |-> <<word>>]
         [] line = <<>> -> [acc EXCEPT !.line = <<word>>]
         [] LineLength(line, first, name) + word <= lineLimit ->
               [acc EXCEPT !.line = Append(@, word)]
         [] OTHER -> [done |-> Append(acc.done, line), line |-> <<word>>]

writeWord(acc, word, name) ==
    LET first == acc.done = <<>>
        line  == acc.line
    IN CASE line = <<>> /\ first /\ name + 1 + word > lineLimit ->
               [done |-> <<<<>>>>, line |-> <<word>>]
         [] line = <<>> -> [acc EXCEPT !.line = <<word>>]
         [] LineLength(line, first, name) + 1 + word <= lineLimit ->
               [acc EXCEPT !.line = Append(@, word)]
         [] OTHER -> [done |-> Append(acc.done, line), line |-> <<word>>]

writeHeader(name, segments) ==
    LET Word(acc, word) == writeWord(acc, word, name)
        Segment(acc, i) ==
            FoldLeft(Word, IF i = 1 THEN acc
                           ELSE [done |-> Append(acc.done, acc.line), line |-> <<>>],
                     segments[i])
        end == FoldLeft(Segment, [done |-> <<>>, line |-> <<>>],
                        [i \in 1..Len(segments) |-> i])
    IN Append(end.done, end.line)

-----------------------------------------------------------------------------
(* Reading back: the tree of the stored parts.                             *)

(* The parts that hang below the root by their own parent numbers; the     *)
(* others - cycles, parents that do not exist - go directly under it.      *)
RECURSIVE Attached(_, _)
Attached(parts, got) ==
    LET more == {i \in 1..Len(parts) : parts[i].Parent \in got /\ i \notin got}
    IN IF more = {} THEN got ELSE Attached(parts, got \cup more)

bodyPartTreeLosing(parts) ==
    LET roots == {i \in 1..Len(parts) : parts[i].Parent = 0}
        root  == IF roots = {} THEN 1 ELSE Min(roots)
    IN [root |-> root,
        kids |-> [n \in 1..Len(parts) |->
                    SetToSortSeq({i \in Attached(parts, {root}) \ {root} :
                                    parts[i].Parent = n}, <)]]

bodyPartTree(parts) ==
    LET all    == 1..Len(parts)
        roots  == {i \in all : parts[i].Parent = 0}
        root   == IF roots = {} THEN 1 ELSE Min(roots)
        hung   == Attached(parts, {root})
    IN [root |-> root,
        kids |-> [n \in all |->
                    SetToSortSeq({i \in hung \ {root} : parts[i].Parent = n}
                                   \cup (IF n = root THEN all \ hung ELSE {}), <)]]

isMultipart(p) == p.IsMultipart \/ p.MediaType \in Multipart

isListedAttachment(p) == p.IsAttachment \/ p.Disposition = "attachment"

isInlineAnyText(p) == p.MediaType \in Text

isInlineText(p) == p.MediaType \in Text /\ ~isListedAttachment(p)

RECURSIVE containsHTML(_, _, _)
containsHTML(parts, t, n) ==
    IF isMultipart(parts[n])
      THEN \E i \in 1..Len(t.kids[n]) : containsHTML(parts, t, t.kids[n][i])
      ELSE parts[n].MediaType = "text/html" /\ ~isListedAttachment(parts[n])

alternativeIsText(parts, t, n) ==
    IF isMultipart(parts[n]) THEN ~containsHTML(parts, t, n)
    ELSE parts[n].MediaType = "text/plain" /\ ~isListedAttachment(parts[n])

alternativeIsHTML(parts, t, n) == containsHTML(parts, t, n)

RECURSIVE collectAll(_, _, _)
collectAll(parts, t, n) ==
    LET below == FlattenSeq([i \in 1..Len(t.kids[n]) |-> collectAll(parts, t, t.kids[n][i])])
    IN IF t.kids[n] = <<>> \/ ~isMultipart(parts[n]) THEN <<n>> \o below ELSE below

Lists(text, html, att) == [text |-> text, html |-> html, att |-> att]

Join(a, b) == Lists(a.text \o b.text, a.html \o b.html, a.att \o b.att)

(* The picks of a multipart/alternative: its first plain branch and its    *)
(* first HTML branch, either standing in for the other where it is missing *)
(* (0: neither).                                                           *)
Picks(parts, t, n) ==
    LET kids == t.kids[n]
        text == {i \in 1..Len(kids) : alternativeIsText(parts, t, kids[i])}
        html == {i \in 1..Len(kids) : alternativeIsHTML(parts, t, kids[i])}
        pick(a, b) == IF a # {} THEN kids[Min(a)] ELSE IF b # {} THEN kids[Min(b)] ELSE 0
    IN [text |-> pick(text, html), html |-> pick(html, text)]

RECURSIVE bodyStructureLists(_, _, _)
bodyStructureLists(parts, t, n) ==
    LET p       == parts[n]
        kids    == t.kids[n]
        of(i)   == bodyStructureLists(parts, t, kids[i])
        every   == [i \in 1..Len(kids) |-> i]
        all(F(_), is) == FoldLeft(LAMBDA acc, i : Join(acc, F(i)),
                                  Lists(<<>>, <<>>, <<>>), is)
        take(kid, lists, picks) ==
            Lists(IF kid = picks.text THEN lists.text ELSE <<>>,
                  IF kid = picks.html THEN lists.html ELSE <<>>, lists.att)
        order(picks) ==
            IF picks.text = picks.html /\ picks.text # 0
              THEN LET k == CHOOSE j \in 1..Len(kids) : kids[j] = picks.text
                   IN <<k>> \o SelectSeq(every, LAMBDA i : i # k)
              ELSE every
        chosen(picks) == LET pick(i) == take(kids[i], of(i), picks) IN all(pick, order(picks))
        rest(i) == IF i = 1 THEN of(1) ELSE Lists(<<>>, <<>>, collectAll(parts, t, kids[i]))
    IN CASE ~isMultipart(p) /\ kids = <<>> ->
               IF isInlineText(p) THEN Lists(<<n>>, <<n>>, <<>>) ELSE Lists(<<>>, <<>>, <<n>>)
         [] ~isMultipart(p) ->
               Join(Lists(<<>>, <<>>, <<n>>), all(of, every))
         [] p.MediaType = "multipart/alternative" -> chosen(Picks(parts, t, n))
         [] p.MediaType = "multipart/related" -> all(rest, every)
         [] OTHER -> all(of, every)

partBlobIDOfLetters(p) == ~p.IsMultipart

partBlobID(p) == ~p.IsMultipart /\ ~p.IsRFC822

extractPartContent(m, index) ==
    /\ index \in 1..Len(m.parts)
    /\ ~m.parts[index].IsMultipart /\ ~m.parts[index].IsRFC822

(* The body values of a request: the text parts of the lists it names, as  *)
(* a second parse of the same bytes reads them.                            *)
bodyValuesFor(m, t, lists, fetch) ==
    LET wanted == (IF "text" \in fetch THEN ToSet(lists.text) ELSE {})
                    \cup (IF "html" \in fetch THEN ToSet(lists.html) ELSE {})
                    \cup (IF "all" \in fetch THEN ToSet(collectAll(m.parts, t, t.root)) ELSE {})
    IN {i \in wanted : m.parts[i].MediaType \in Text}

renderEmail(m, fetch) ==
    IF m.status = "failed" \/ m.parts = <<>>
      THEN [lists |-> Lists(<<>>, <<>>, <<>>), values |-> {}]
      ELSE LET View(t, lists) == [lists |-> lists, values |-> bodyValuesFor(m, t, lists, fetch)]
               Listed(t) == View(t, bodyStructureLists(m.parts, t, t.root))
           IN Listed(bodyPartTree(m.parts))

=============================================================================
