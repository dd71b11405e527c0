-------------------------------- MODULE Mime --------------------------------
(***************************************************************************)
(* The message parser (internal/parser): raw bytes in, a flat list of      *)
(* parts, a status and a list of defects out.  go-message is tried first,  *)
(* then enmime, then the parser's own salvage; embedded messages are       *)
(* descended into, winmail.dat containers are unpacked, and everything is  *)
(* bounded.                                                                *)
(*                                                                         *)
(* The two libraries are external: what each reads out of a message is an  *)
(* entity tree of its own (or a refusal), chosen freely.  A body is what   *)
(* the parser's decisions look at: its decoded size, the error its reading *)
(* stopped on (of its encoding or of the stream), what its charset came    *)
(* to, the cids it names.                                                  *)
(* Positions are numbered from 1, so a root part has parent 0.             *)
(***************************************************************************)
EXTENDS Integers, FiniteSets, SequencesExt

CONSTANTS MaxDepth, MaxParts, MaxRFC822Depth, MaxPartSize, MaxUnterminatedDepth,
          MaxTotalSize, maxTNEFAttributes, maxTNEFAttachments

ASSUME LimitsArePositive ==
    {MaxDepth, MaxParts, MaxRFC822Depth, MaxPartSize, MaxUnterminatedDepth,
     MaxTotalSize, maxTNEFAttributes, maxTNEFAttachments} \subseteq Nat \ {0}

Multipart == {"multipart/mixed", "multipart/alternative", "multipart/related"}
Text      == {"text/plain", "text/html"}
Protocol  == {"application/pgp-signature", "message/delivery-status"}

(* An entity as a library hands it over: its headers (ct tells how its     *)
(* Content-Type reads), its body (src tells whose bytes it holds), the     *)
(* message inside it, its children, and whether the reading of the         *)
(* children stopped on an error.                                           *)
Blank == [ct |-> "ok", type |-> "text/plain", disp |-> "", named |-> FALSE,
          cid |-> "", size |-> 1, fault |-> "", charset |-> "declared",
          refs |-> {}, inner |-> <<>>, stream |-> <<>>, kids |-> <<>>, torn |-> FALSE,
          src |-> ""]

Entity(fields) == fields @@ Blank

-----------------------------------------------------------------------------
(* The message under construction.                                         *)

NewMessage(parser) ==
    [status |-> "ok", parser |-> parser, parts |-> <<>>, defects |-> {},
     truncated |-> FALSE, capped |-> FALSE, midline |-> FALSE]

rank(status) == CASE status = "ok" -> 0 [] status = "partial" -> 1 [] OTHER -> 2

downgrade(m, status) ==
    IF rank(status) > rank(m.status) THEN [m EXCEPT !.status = status] ELSE m

addDefect(m, code, part) ==
    [m EXCEPT !.defects = @ \cup {[code |-> code, part |-> part]}]

Partial(m, code, part) == downgrade(addDefect(m, code, part), "partial")

Capped(m, code) == [addDefect(m, code, 0) EXCEPT !.capped = TRUE]

failedMessage(parser, defects) ==
    [NewMessage(parser) EXCEPT !.status = "failed", !.defects = defects]

capDefectsNone(m) == {}

capDefects(m) ==
    {d \in m.defects : d.code \in {"depth_cap_exceeded", "part_cap_exceeded",
                                   "size_cap_exceeded"}}

-----------------------------------------------------------------------------
(* One part.                                                               *)

IsText(p) == p.MediaType \in Text

isProtocolPart(mediaType) == mediaType \in Protocol

isAttachmentPart(p) ==
    /\ ~p.IsMultipart
    /\ ~isProtocolPart(p.MediaType)
    /\ p.Disposition = "attachment" \/ (p.Filename /\ ~IsText(p))

Declared(e) ==
    CASE e.ct \in {"ok", "salvageable"} -> e.type
      [] OTHER                          -> "text/plain"

Part(e, index, parent, depth) ==
    LET p == [Index |-> index, Parent |-> parent, Depth |-> depth,
              MediaType |-> Declared(e), Disposition |-> e.disp,
              Filename |-> e.named, ContentID |-> e.cid,
              IsAttachment |-> FALSE, IsMultipart |-> FALSE,
              IsRFC822 |-> Declared(e) = "message/rfc822",
              Content |-> 0, PartiallyDecoded |-> FALSE, CharsetGuessed |-> FALSE,
              refs |-> {}, stream |-> <<>>, src |-> e.src]
    IN [p EXCEPT !.IsAttachment = isAttachmentPart(p)]

newPart(m, e, parent, depth) ==
    LET index == Len(m.parts) + 1
        n     == [m EXCEPT !.parts = Append(@, Part(e, index, parent, depth))]
    IN CASE e.ct = "unregistered"              -> Partial(n, "malformed_header", index)
         [] e.ct \in {"salvageable", "broken"} -> addDefect(n, "malformed_header", index)
         [] OTHER                              -> n

newEnmimePart(m, e, parent, depth) ==
    [m EXCEPT !.parts = Append(@, Part(e, Len(@) + 1, parent, depth))]

readPartBodyWhole(m, e, index) ==
    LET kept == IF e.size > MaxPartSize THEN MaxPartSize ELSE e.size
    IN [content |-> kept, partial |-> e.fault # "", message |-> m]

(* What decoded before an error is kept, and what exceeds the per-part cap *)
(* is cut; either way the part is marked partial.                          *)
readPartBody(m, e, index) ==
    LET code == IF e.fault = "encoding" THEN "partial_decode" ELSE "body_read_error"
        read == IF e.fault # "" THEN Partial(m, code, index) ELSE m
    IN IF e.size > MaxPartSize
         THEN [content |-> MaxPartSize, partial |-> TRUE,
               message |-> Partial(read, "size_cap_exceeded", index)]
         ELSE [content |-> e.size, partial |-> e.fault # "", message |-> read]

Charset(m, e, index, guessed) ==
    CASE e.charset = "guessed" -> Partial(guessed, "charset_guessed", index)
      [] e.charset = "bom"     -> guessed
      [] e.charset = "nul"     -> Partial(m, "nul_stripped", index)
      [] OTHER                 -> m

finishLeaf(m, e, index, content, partial) ==
    LET n == [m EXCEPT !.parts[index].Content = content,
                       !.parts[index].PartiallyDecoded = @ \/ partial,
                       !.parts[index].refs = e.refs,
                       !.parts[index].stream = e.stream]
    IN IF IsText(n.parts[index])
         THEN Charset(n, e, index, [n EXCEPT !.parts[index].CharsetGuessed = TRUE])
         ELSE n

-----------------------------------------------------------------------------
(* The two walks.                                                          *)

RECURSIVE walk(_, _, _, _, _), walkEnmime(_, _, _, _, _)

descendRFC822(m, e, index, content, depth, rfc822) ==
    LET n == [m EXCEPT !.parts[index].Content = content]
    IN CASE rfc822 >= MaxRFC822Depth -> Partial(n, "rfc822_depth_capped", index)
         [] content = 0              -> n
         [] e.inner = <<>>           -> addDefect(n, "malformed_header", index)
         [] OTHER                    -> walk(n, e.inner[1], index, depth + 1, rfc822 + 1)

walk(m, e, parent, depth, rfc822) ==
    IF m.capped THEN m
    ELSE IF depth > MaxDepth THEN Capped(m, "depth_cap_exceeded")
    ELSE IF Len(m.parts) >= MaxParts THEN Capped(m, "part_cap_exceeded")
    ELSE LET index == Len(m.parts) + 1
             Kid(acc, kid) == walk(acc, kid, index, depth + 1, rfc822)
             Ended(kids) ==
                 IF e.torn /\ ~kids.capped
                   THEN [Partial(kids, "body_read_error", index) EXCEPT !.truncated = TRUE]
                   ELSE kids
             Read(body, isRFC822) ==
                 IF isRFC822
                   THEN descendRFC822(body.message, e, index, body.content, depth, rfc822)
                   ELSE finishLeaf(body.message, e, index, body.content, body.partial)
             Added(n) ==
                 IF e.ct = "ok" /\ e.type \in Multipart
                   THEN Ended(FoldLeft(Kid, [n EXCEPT !.parts[index].IsMultipart = TRUE], e.kids))
                   ELSE Read(readPartBody(n, e, index), n.parts[index].IsRFC822)
         IN Added(newPart(m, e, parent, depth))

parseGoMessage(e) == walk(NewMessage("go-message"), e, 0, 0, 0)

descendEnmimeRFC822(m, e, index, content, depth, rfc822) ==
    LET n == [m EXCEPT !.parts[index].Content = content]
    IN CASE rfc822 >= MaxRFC822Depth -> Partial(n, "rfc822_depth_capped", index)
         [] e.inner = <<>>           -> Partial(n, "malformed_header", index)
         [] OTHER                    -> walkEnmime(n, e.inner[1], index, depth + 1, rfc822 + 1)

walkEnmime(m, e, parent, depth, rfc822) ==
    IF m.capped THEN m
    ELSE IF depth > MaxDepth THEN Capped(m, "depth_cap_exceeded")
    ELSE IF Len(m.parts) >= MaxParts THEN Capped(m, "part_cap_exceeded")
    ELSE LET index == Len(m.parts) + 1
             big   == e.size > MaxPartSize
             kept  == IF big THEN MaxPartSize ELSE e.size
             Cut(n) == IF big
                         THEN [Partial(n, "size_cap_exceeded", index)
                                 EXCEPT !.parts[index].PartiallyDecoded = TRUE]
                         ELSE n
             Self(cut) == CASE cut.parts[index].IsRFC822 /\ kept > 0 ->
                                   descendEnmimeRFC822(cut, e, index, kept, depth, rfc822)
                            [] e.kids = <<>> -> finishLeaf(cut, e, index, kept, FALSE)
                            [] OTHER         -> [cut EXCEPT !.parts[index].IsMultipart = TRUE]
             Kid(acc, kid) == walkEnmime(acc, kid, index, depth + 1, rfc822)
         IN FoldLeft(Kid, Self(Cut(newEnmimePart(m, e, parent, depth))), e.kids)

parseEnmimeChecked(e) ==
    LET Checked(m) == IF e.torn /\ ~m.capped THEN Partial(m, "body_read_error", 0) ELSE m
    IN Checked(walkEnmime(NewMessage("enmime"), e, 0, 0, 0))

-----------------------------------------------------------------------------
(* winmail.dat: a stream of attributes, each of a level, a kind and a size *)
(* ("title" and "props" carry names; tail tells how the stream ends).      *)

TNEFStart == [out |-> <<>>, cur |-> <<>>, props |-> FALSE, total |-> 0, seen |-> 0,
              done |-> FALSE, err |-> ""]

flushKeepingEmpty(s) ==
    [s EXCEPT !.out = @ \o s.cur, !.cur = <<>>, !.props = FALSE]

(* An attachment without data is dropped; a long name ("notes.txt", say)   *)
(* beats the short one ("PHOTO~1.PNG").                                    *)
flush(s) ==
    LET file == IF s.props THEN [s.cur[1] EXCEPT !.name = "long"] ELSE s.cur[1]
    IN [s EXCEPT !.out = IF s.cur # <<>> /\ s.cur[1].data > 0 THEN Append(@, file) ELSE @,
                 !.cur = <<>>, !.props = FALSE]

Stop(s, err) == [flush(s) EXCEPT !.done = TRUE, !.err = err]

decodeAttribute(s, a) ==
    LET t == [s EXCEPT !.seen = @ + 1]
        f == flush(t)
    IN CASE s.done                               -> s
         [] s.seen >= maxTNEFAttributes          -> Stop(s, "attributes")
         [] a.kind = "short header"              -> Stop(t, "")
         [] a.kind = "overlong"                  -> Stop(t, "length")
         [] a.kind = "unknown level"             -> Stop(t, "level")
         [] a.kind = "rend" ->
               IF Len(f.out) >= maxTNEFAttachments
                 THEN [f EXCEPT !.done = TRUE, !.err = "attachments"]
                 ELSE [f EXCEPT !.cur = <<[name |-> "", data |-> 0]>>]
         [] s.cur = <<>>                         -> t
         [] a.kind = "title" ->
               [t EXCEPT !.cur[1].name = IF @ = "" THEN "short" ELSE @]
         [] a.kind = "props"                     -> [t EXCEPT !.props = TRUE]
         [] a.kind = "data" /\ a.size > MaxPartSize -> [t EXCEPT !.cur[1].data = 0]
         [] a.kind = "data" /\ s.total + a.size > MaxPartSize -> Stop(t, "total")
         [] a.kind = "data" ->
               [t EXCEPT !.cur[1].data = a.size, !.total = @ + a.size]
         [] OTHER                                -> t

decodeTNEF(stream) ==
    IF ~stream.signed THEN [out |-> <<>>, err |-> "not TNEF"]
    ELSE LET s == flush(FoldLeft(decodeAttribute, TNEFStart, stream.attrs))
         IN [out |-> s.out, err |-> s.err]

isTNEFPart(p) == p.MediaType = "application/ms-tnef" /\ p.stream # <<>>

tnefMediaType(name) ==
    CASE name = "long" -> "text/plain" [] name = "short" -> "image/png"
      [] OTHER         -> "application/octet-stream"

TNEFPartUnderRoot(file, index, p) ==
    [p EXCEPT !.Index = index, !.Parent = 1, !.Depth = @ + 1, !.IsAttachment = TRUE,
              !.MediaType = tnefMediaType(file.name), !.Content = file.data, !.stream = <<>>]

TNEFPart(file, index, p) ==
    [p EXCEPT !.Index = index, !.Parent = p.Index, !.Depth = @ + 1,
              !.MediaType = tnefMediaType(file.name), !.Disposition = "attachment",
              !.Filename = TRUE, !.ContentID = "", !.IsAttachment = TRUE,
              !.Content = file.data, !.PartiallyDecoded = FALSE, !.stream = <<>>]

appendTNEFUncapped(m, index, file) ==
    [m EXCEPT !.parts = Append(@, TNEFPart(file, Len(@) + 1, m.parts[index]))]

appendTNEF(m, index, file) ==
    IF m.truncatedTNEF THEN m
    ELSE IF Len(m.parts) >= MaxParts
      THEN [Partial(m, "part_cap_exceeded", index) EXCEPT !.truncatedTNEF = TRUE]
      ELSE [m EXCEPT !.parts = Append(@, TNEFPart(file, Len(@) + 1, m.parts[index]))]

unpack(m, index) ==
    LET p    == m.parts[index]
        Add(acc, file) == appendTNEF(acc, index, file)
        Told(with, err) ==
            CASE with.truncatedTNEF -> with
              [] err # "" -> Partial(addDefect(with, "tnef_extracted", index),
                                     "tnef_undecodable", index)
              [] OTHER    -> addDefect(with, "tnef_extracted", index)
        Unpacked(got) ==
            CASE got.out = <<>> /\ got.err \in {"", "not TNEF"} -> m
              [] got.out = <<>> -> Partial(m, "tnef_undecodable", index)
              [] OTHER          -> Told(FoldLeft(Add, m, got.out), got.err)
    IN CASE m.truncatedTNEF \/ Len(m.parts) >= MaxParts -> m
         [] p.IsMultipart \/ p.IsRFC822 \/ p.Content = 0 \/ ~isTNEFPart(p) -> m
         [] OTHER -> Unpacked(decodeTNEF(p.stream[1]))

extractTNEFParts(m) ==
    LET marked == m @@ [truncatedTNEF |-> FALSE]
        done   == FoldLeft(unpack, marked, [i \in 1..Len(m.parts) |-> i])
    IN [f \in DOMAIN m |-> done[f]]

-----------------------------------------------------------------------------
(* What follows the tree.                                                  *)

referenced(m) ==
    UNION {m.parts[i].refs : i \in {j \in 1..Len(m.parts) :
                                      IsText(m.parts[j]) /\ m.parts[j].Content > 0}}

(* A part some body renders by its cid is not listed as an attachment.     *)
resolveInlineReferences(m) ==
    [m EXCEPT !.parts = [i \in DOMAIN @ |->
        [@[i] EXCEPT !.IsAttachment = @ /\ m.parts[i].ContentID \notin referenced(m)]]]

finish(m, midline) ==
    resolveInlineReferences(extractTNEFParts([m EXCEPT !.midline = midline]))

isContentlessNever(m) == m.parts = <<>>

isContentless(m) == \A i \in 1..Len(m.parts) : m.parts[i].IsMultipart

RECURSIVE insideRFC822(_, _)
insideRFC822(m, i) ==
    LET up == m.parts[i].Parent
    IN up > 0 /\ (m.parts[up].IsRFC822 \/ insideRFC822(m, up))

LeafParts(m) ==
    {i \in 1..Len(m.parts) :
        /\ ~insideRFC822(m, i)
        /\ m.parts[i].IsRFC822 \/ \A j \in 1..Len(m.parts) : m.parts[j].Parent # i
        /\ ~(Len(m.parts) = 1 /\ m.parts[i].Content = 0 /\ m.midline)}

Attachments(m) == {i \in 1..Len(m.parts) : m.parts[i].IsAttachment}

assembleBodyTextTwice(m) ==
    {i \in 1..Len(m.parts) : IsText(m.parts[i]) /\ m.parts[i].Content > 0}

(* The parts whose text goes to the index: an HTML alternative with a      *)
(* plain sibling is skipped, whatever that sibling holds.                  *)
assembleBodyText(m) ==
    LET skipped(i) ==
          /\ m.parts[i].MediaType = "text/html"
          /\ m.parts[i].Parent > 0
          /\ m.parts[m.parts[i].Parent].MediaType = "multipart/alternative"
          /\ \E j \in 1..Len(m.parts) : /\ m.parts[j].Parent = m.parts[i].Parent
                                        /\ m.parts[j].MediaType = "text/plain"
    IN {i \in 1..Len(m.parts) :
          /\ IsText(m.parts[i]) /\ ~m.parts[i].IsMultipart /\ m.parts[i].Content > 0
          /\ ~skipped(i)}

-----------------------------------------------------------------------------
(* The cascade.  A raw message is its size, the boundaries it declares and *)
(* closes, what each library makes of it (<<>>: a refusal), and what       *)
(* salvage would find.                                                     *)

isUnterminatedNest(raw) == raw.closes < raw.declared

parseSalvage(raw, prior) ==
    IF ~raw.legible THEN <<>>
    ELSE <<[NewMessage("salvage") EXCEPT
              !.status = "partial",
              !.defects = prior \cup {[code |-> "salvaged", part |-> 1]},
              !.parts = <<[Part(Blank, 1, 0, 0) EXCEPT !.Content = raw.size,
                                                       !.PartiallyDecoded = TRUE]>>]>>

prepend(m, defects) == [m EXCEPT !.defects = @ \cup defects]

Tell(code) == [code |-> code, part |-> 0]

afterTruncatedPrimary(primary, prior, fallback, raw) == primary

(* go-message knew its tree was cut short: the tree with more leaves wins. *)
afterTruncated(primary, prior, fallback, raw) ==
    IF fallback = <<>> \/ fallback[1].capped THEN primary
    ELSE LET told == prior \cup {Tell("primary_parser_failed")}
             Richer(f, p) ==
                 IF Cardinality(LeafParts(f)) > Cardinality(LeafParts(p)) THEN f ELSE p
         IN Richer(finish(downgrade(prepend(fallback[1], told), "partial"), raw.midline),
                   primary)

afterRefused(prior, fallback, raw) ==
    LET told == prior \cup {Tell("primary_parser_failed")}
        both == told \cup {Tell("fallback_parser_failed")}
        Saved(salvaged) == IF salvaged # <<>> THEN finish(salvaged[1], raw.midline)
                           ELSE failedMessage("none", both)
    IN CASE fallback # <<>> /\ fallback[1].capped ->
               failedMessage("enmime", told \cup capDefects(fallback[1]))
         [] fallback # <<>> ->
               finish(downgrade(prepend(fallback[1], told), "partial"), raw.midline)
         [] OTHER -> Saved(parseSalvage(raw, both))

Parse(raw) ==
    LET pre == IF raw.bareCR THEN {Tell("line_ending_normalized")} ELSE {}
        Refused(primary) ==
            primary = <<>> \/ (~primary[1].capped /\ isContentless(primary[1]))
        Judge(primary, fallback) ==
            CASE Refused(primary)     -> afterRefused(pre, fallback, raw)
              [] primary[1].capped    ->
                    failedMessage("go-message", pre \cup capDefects(primary[1]))
              [] primary[1].truncated ->
                    afterTruncated(finish(prepend(primary[1], pre), raw.midline),
                                   pre, fallback, raw)
              [] OTHER                -> finish(prepend(primary[1], pre), raw.midline)
    IN CASE raw.size > MaxTotalSize -> failedMessage("none", {Tell("size_cap_exceeded")})
         [] raw.size = 0            -> failedMessage("none", {Tell("empty_input")})
         [] raw.declared > MaxUnterminatedDepth /\ isUnterminatedNest(raw) ->
               failedMessage("none", pre \cup {Tell("depth_cap_exceeded")})
         [] OTHER -> Judge(IF raw.go = <<>> THEN <<>> ELSE <<parseGoMessage(raw.go[1])>>,
                           IF raw.en = <<>> THEN <<>> ELSE <<parseEnmimeChecked(raw.en[1])>>)

=============================================================================
