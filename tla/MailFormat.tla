----------------------------- MODULE MailFormat -----------------------------
(***************************************************************************)
(* Questions to the message parser (Mime) and to the composer and the      *)
(* renderer (Compose), one per behaviour, with what their answers promise. *)
(* A question is a raw message, a creation object, a stored part list or a *)
(* header value, according to the topic.                                   *)
(***************************************************************************)
EXTENDS Compose

\* Each constant is a set of families of questions.
CONSTANTS Raws, Objects, PartLists, Headers

VARIABLES subject, ask, said

formatVars == <<subject, ask, said>>

FormatInit ==
    /\ \/ subject = "stored" /\ \E family \in PartLists : ask \in family
       \/ subject = "parse"  /\ \E family \in Raws : ask \in family
       \/ subject = "create" /\ \E family \in Objects : ask \in family
       \/ subject = "header" /\ \E family \in Headers : ask \in family
    /\ said = <<>>

ParseOne == subject = "parse" /\ said = <<>> /\ said' = <<Parse(ask)>>

(* A creation ends at the first refusal: of its interpretation, of the      *)
(* mailbox's keyword ceiling, of its parts, of the assembled size, of the   *)
(* store.  The ceiling, the size and the store are chosen freely.           *)
applyEmailCreate ==
    /\ subject = "create" /\ said = <<>>
    /\ \E err \in interpretEmailCreate(ask),
          refusal \in {"", "too many keywords", "assembled too large", "not stored"} :
          LET Stored(m, budget) == [err |-> "", budget |-> budget, message |-> m,
                                    view |-> renderEmail(m, {"text", "html"})]
              Built(body) == CASE body.err # "" -> [err |-> body.err]
                               [] body.err = "" /\ refusal # "" -> [err |-> refusal]
                               [] OTHER -> Stored(Parse(RawOf(writePart(body.part[1]))), body.budget)
          IN said' = CASE err # "" -> <<[err |-> err]>>
                       [] err = "" /\ refusal = "too many keywords" -> <<[err |-> refusal]>>
                       [] OTHER -> <<Built(materializeBody(ask))>>

Rebuild == subject = "stored" /\ said = <<>> /\ said' = <<bodyPartTree(ask)>>

Fold == subject = "header" /\ said = <<>> /\ said' = <<writeHeader(ask.name, ask.segments)>>

FormatNext ==
    /\ ParseOne \/ applyEmailCreate \/ Rebuild \/ Fold
    /\ UNCHANGED <<subject, ask>>

FormatSpec == FormatInit /\ [][FormatNext]_formatVars

Parsed == subject = "parse" /\ said # <<>>
Created == subject = "create" /\ said # <<>> /\ said[1].err = ""

-----------------------------------------------------------------------------
(* Parsing.                                                                *)

(* The flat list is a tree in document order: every part but the first     *)
(* names an earlier one as its parent and lies one level below it, whether *)
(* a library's walk, the descent into a forwarded message or the unpacking *)
(* of a winmail.dat added it (walk, descendRFC822, extractTNEFParts).      *)
PartsFormTree ==
    Parsed => \A i \in 1..Len(said[1].parts) :
        LET p == said[1].parts[i]
        IN /\ p.Index = i
           /\ IF i = 1 THEN p.Parent = 0 /\ p.Depth = 0
              ELSE p.Parent \in 1..(i - 1) /\ p.Depth = said[1].parts[p.Parent].Depth + 1

RECURSIVE EmbeddedIn(_, _)
EmbeddedIn(m, i) ==
    LET up == m.parts[i].Parent
    IN IF up = 0 THEN 0
       ELSE EmbeddedIn(m, up) + (IF m.parts[up].IsRFC822 THEN 1 ELSE 0)

(* No message yields more parts, deeper embedded messages or larger parts  *)
(* than the limits say, unpacked files included; only salvage, which keeps *)
(* the whole body as one part, is outside the per-part limit.              *)
BoundsHold ==
    Parsed => /\ Len(said[1].parts) <= MaxParts
              /\ \A i \in 1..Len(said[1].parts) :
                    LET p == said[1].parts[i]
                    IN /\ p.Depth <= MaxDepth + 1
                       /\ EmbeddedIn(said[1], i) <= MaxRFC822Depth
                       /\ said[1].parser # "salvage" => p.Content <= MaxPartSize

(* A message that is not refused has something to read: never a container  *)
(* with nothing in it.  A refused one has no part, and says why.           *)
NeverBlank ==
    Parsed => IF said[1].status = "failed"
                THEN said[1].parts = <<>> /\ said[1].defects # {}
                ELSE \E i \in 1..Len(said[1].parts) : ~said[1].parts[i].IsMultipart

(* Where go-message's tree was cut short, the answer has as many leaves as *)
(* the better of the two libraries' trees, and is marked partial.          *)
RicherTreeWins ==
    (Parsed /\ ask.go # <<>> /\ ask.en # <<>> /\ said[1].status # "failed") =>
        \A primary \in {parseGoMessage(ask.go[1])}, fallback \in {parseEnmimeChecked(ask.en[1])} :
           (primary.truncated /\ ~isContentless(primary) /\ ~primary.capped /\ ~fallback.capped) =>
              /\ said[1].status = "partial"
              /\ \A m \in {primary, fallback} :
                    Cardinality(LeafParts(said[1])) >= Cardinality(LeafParts(finish(m, ask.midline)))

(* What was lost is told: a part that holds only a prefix of its content,  *)
(* or a multipart whose reading broke off, makes the message partial and   *)
(* leaves a defect behind.                                                 *)
LossIsMarked ==
    Parsed => /\ \A i \in 1..Len(said[1].parts) :
                    said[1].parts[i].PartiallyDecoded =>
                        /\ said[1].status = "partial"
                        /\ \E d \in said[1].defects :
                              d.part = i /\ d.code \in {"partial_decode", "body_read_error",
                                                        "size_cap_exceeded", "salvaged"}
              /\ said[1].truncated => said[1].status = "partial"

(* A limit that stopped go-message ends the cascade: the other library is  *)
(* not tried on the same message, and the refusal names the limit.         *)
CapsAreFinal ==
    (Parsed /\ ask.go # <<>> /\ parseGoMessage(ask.go[1]).capped) =>
        /\ said[1].status = "failed"
        /\ \E d \in said[1].defects : d.code \in {"depth_cap_exceeded", "part_cap_exceeded",
                                                  "size_cap_exceeded", "empty_input"}

(* The files of a winmail.dat by their definition: each opened by a        *)
(* rendering attribute, holding the last data before the next one.         *)
Files(attrs) ==
    LET opens == {i \in 1..Len(attrs) : attrs[i].kind = "rend"}
        upto(i) == Min({j \in opens : j > i} \cup {Len(attrs) + 1})
        data(i) == {j \in (i + 1)..(upto(i) - 1) : attrs[j].kind = "data"}
    IN {i \in opens : data(i) # {} /\ attrs[Max(data(i))].size \in 1..MaxPartSize}

\* a header cut off at the end of the stream ends it in order (tnef.go:237-242)
Readable(attrs) ==
    LET cut == {i \in 1..Len(attrs) : attrs[i].kind = "short header"}
    IN IF cut = {} THEN attrs ELSE SubSeq(attrs, 1, Min(cut) - 1)

(* A container gives up all the files its stream holds up to its end, each *)
(* below the container, which stays an attachment of its own; a reading    *)
(* that an error or the part limit stopped is told.  The one silence is a  *)
(* container met when the list of parts is already full: extractTNEFParts  *)
(* returns (tnef.go:539-541), and the container stays as it came.          *)
UnpackedWhole ==
    Parsed => \A i \in 1..Len(said[1].parts) :
        LET p       == said[1].parts[i]
            kids    == {j \in 1..Len(said[1].parts) : said[1].parts[j].Parent = i}
            told(c) == [code |-> c, part |-> i] \in said[1].defects
        IN (isTNEFPart(p) /\ p.Content > 0 /\ p.stream[1].signed) =>
              /\ p.IsAttachment
              /\ \A j \in kids : said[1].parts[j].Content > 0 /\ said[1].parts[j].IsAttachment
              /\ \/ Cardinality(kids) = Cardinality(Files(Readable(p.stream[1].attrs)))
                 \/ told("tnef_undecodable") \/ told("part_cap_exceeded")
                 \/ kids = {} /\ Len(said[1].parts) = MaxParts

(* The text of every readable part is searchable, forwarded messages and   *)
(* unpacked files included, but for an HTML alternative with a plain       *)
(* sibling: of the two only the plain one is.  That sibling may be empty   *)
(* (parse.go:502-516 asks for its type alone), and then the HTML is not    *)
(* searchable at all, where parse.go:486-488 says "the index holds one     *)
(* clean copy of the content".                                             *)
IndexedOnce ==
    Parsed => LET m == said[1]
                  twins(i, j) == /\ m.parts[i].Parent = m.parts[j].Parent
                                 /\ m.parts[i].Parent > 0
                                 /\ m.parts[m.parts[i].Parent].MediaType = "multipart/alternative"
                                 /\ m.parts[i].MediaType = "text/plain"
                                 /\ m.parts[j].MediaType = "text/html"
              IN /\ \A i, j \in assembleBodyText(m) : ~twins(i, j)
                 /\ \A j \in 1..Len(m.parts) :
                       (IsText(m.parts[j]) /\ m.parts[j].Content > 0) =>
                           \/ j \in assembleBodyText(m)
                           \/ \E i \in 1..Len(m.parts) : twins(i, j)

(* A part offered for download is one that a second parse of the same      *)
(* bytes serves (partBlobID, extractPartContent).                          *)
OfferedIsServed ==
    Parsed => \A i \in 1..Len(said[1].parts) :
        partBlobID(said[1].parts[i]) => extractPartContent(said[1], i)

-----------------------------------------------------------------------------
(* Reading stored parts back.                                              *)

RECURSIVE Below(_, _)
Below(t, n) ==
    <<n>> \o FlattenSeq([i \in 1..Len(t.kids[n]) |-> Below(t, t.kids[n][i])])

(* However the stored parents point - nowhere, at themselves, in circles - *)
(* the tree holds every part, and holds it once (bodyPartTree).            *)
EveryPartOnce ==
    (subject = "stored" /\ said # <<>>) =>
        LET nodes == Below(said[1], said[1].root)
        IN Len(nodes) = Len(ask) /\ ToSet(nodes) = 1..Len(ask)

Occurs(n, list) == Cardinality({i \in 1..Len(list) : list[i] = n})

(* Every leaf that is not body text is listed as an attachment, once; what *)
(* is listed as body text is not an attachment; and a message with body    *)
(* text outside any alternative shows it in both bodies                    *)
(* (bodyStructureLists).                                                   *)
LeavesAreListed ==
    (subject = "stored" /\ said # <<>>) =>
        \A t \in {said[1]}, lists \in {bodyStructureLists(ask, said[1], said[1].root)} :
           /\ \A n \in 1..Len(ask) :
                 (t.kids[n] = <<>> /\ ~isMultipart(ask[n])
                    /\ ~(ask[n].MediaType \in Text /\ ask[n].Disposition # "attachment")) =>
                     Occurs(n, lists.att) = 1
           /\ (ToSet(lists.text) \cup ToSet(lists.html)) \cap ToSet(lists.att) = {}
           /\ (\A n \in 1..Len(ask) : ask[n].MediaType # "multipart/alternative") =>
                 lists.text = lists.html

-----------------------------------------------------------------------------
(* Composing.                                                              *)

Sent(refs, kind) == [i \in DOMAIN refs |-> IF kind = "blob" THEN refs[i].blobID ELSE refs[i].partID]

Shown(m, list) == [i \in DOMAIN list |-> m.parts[list[i]].src]

(* What is composed comes back: the text in textBody, the HTML in          *)
(* htmlBody, every attached file once among the attachments and nothing    *)
(* else, whatever mixture of inline and attached parts the message was     *)
(* nested into (materializeBody, writePart, Parse, bodyStructureLists).    *)
(* Text sent inline among the attachments reads as body text, and a        *)
(* forwarded message brings its own text along.                            *)
ComposedComesBack ==
    (Created /\ ask.bodyStructure = <<>>
        /\ \A i \in 1..Len(ask.attachments) :
              /\ ask.attachments[i].blobID # "letter"
              /\ ask.attachments[i].disp = "inline" =>
                    ask.attachments[i].type \notin Text \cup {"pdf"}) =>
        LET m    == said[1].message
            view == said[1].view.lists
            text == Sent(ask.textBody, "part")
            html == Sent(ask.htmlBody, "part")
        IN /\ Shown(m, view.text) = IF text # <<>> THEN text ELSE IF html # <<>> THEN html ELSE <<"">>
           /\ Shown(m, view.html) = IF html # <<>> THEN html ELSE IF text # <<>> THEN text ELSE <<"">>
           /\ \A b \in DOMAIN BlobSize :
                 Occurs(b, Shown(m, view.att)) = Occurs(b, Sent(ask.attachments, "blob"))
           /\ Len(view.att) = Len(ask.attachments)

RECURSIVE SubmittedLeaves(_)
SubmittedLeaves(node) ==
    IF node.subParts = <<>> THEN <<node>>
    ELSE FlattenSeq([i \in DOMAIN node.subParts |-> SubmittedLeaves(node.subParts[i])])

(* A created message holds no more attached bytes than the advertised      *)
(* limit, however they were submitted, no blocked file and no request for  *)
(* a receipt; every part it was given had one source.                      *)
OnlyPermitted ==
    Created =>
        LET refs == IF ask.bodyStructure # <<>> THEN SubmittedLeaves(ask.bodyStructure[1])
                    ELSE ask.textBody \o ask.htmlBody \o ask.attachments
            size(r) == IF r.blobID \in DOMAIN BlobSize THEN BlobSize[r.blobID] ELSE 0
        IN /\ FoldLeft(LAMBDA sum, r : sum + size(r), 0, refs) <= maxAttachmentsBytes
           /\ \A i \in DOMAIN refs : /\ refs[i].name # "run.exe"
                                     /\ (refs[i].partID = "") # (refs[i].blobID = "")
           /\ ask.header # "disposition-notification-to"

(* Folding a header keeps its words in order, starts no line with nothing  *)
(* on it but the first, and exceeds the line limit only with a single word *)
(* (writeHeader).                                                          *)
FoldKeepsWords ==
    (subject = "header" /\ said # <<>>) =>
        LET lines == said[1]
        IN /\ FlattenSeq(lines) = FlattenSeq(ask.segments)
           /\ \A i \in 2..Len(lines) : lines[i] # <<>>
           /\ \A i \in 1..Len(lines) :
                 LineLength(lines[i], i = 1, ask.name) > lineLimit => Len(lines[i]) = 1 /\ i > 1

\* A message is read into a bounded tree that is never blank and hides no
\* loss, the richer of two parses wins, every part is indexed, listed and
\* served once, and what a client composes comes back as it was meant
\* (parse.go, salvage.go, tnef.go, mime.go, bodypart.go).
FormatSafe ==
    /\ CapsAreFinal /\ PartsFormTree /\ BoundsHold /\ NeverBlank /\ RicherTreeWins
    /\ LossIsMarked /\ UnpackedWhole /\ IndexedOnce /\ OfferedIsServed /\ EveryPartOnce
    /\ LeavesAreListed /\ ComposedComesBack /\ OnlyPermitted /\ FoldKeepsWords
=============================================================================
