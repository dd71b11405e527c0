---------------------------- MODULE MCMailFormat ----------------------------
(* Small messages, objects, part lists and headers for MailFormat.         *)
EXTENDS MailFormat

Seqs(S, n) == UNION {[1..k -> S] : k \in 0..n}

(* Leaves of every kind the parser tells apart.                            *)
Attr(kind) == [kind |-> kind, size |-> 0]
Data(size) == [kind |-> "data", size |-> size]
Winmail(attrs) == Entity([type |-> "application/ms-tnef", disp |-> "attachment",
                          named |-> TRUE, stream |-> <<[signed |-> TRUE, attrs |-> attrs]>>])
OneFile == <<Attr("rend"), Data(1)>>

PlainText   == Entity([src |-> "a"])
Page    == Entity([type |-> "text/html", refs |-> {"logo"}])
Logo    == Entity([type |-> "image/png", disp |-> "attachment", named |-> TRUE, cid |-> "logo"])
LeafSet ==
    {PlainText, Page, Logo, Entity([size |-> 0]), Entity([fault |-> "encoding"]), Entity([fault |-> "stream"]),
     Entity([charset |-> "guessed"]), Entity([charset |-> "bom"]), Entity([charset |-> "nul"]),
     Entity([ct |-> "unregistered", type |-> "pdf"]), Entity([ct |-> "broken", type |-> "?"]),
     Entity([type |-> "image/png", size |-> 3, disp |-> "inline", named |-> TRUE]),
     Entity([type |-> "application/pgp-signature", disp |-> "attachment"]), Winmail(OneFile)}

Box(type, kids, torn) == Entity([type |-> type, kids |-> kids, torn |-> torn])
Letter(e) == Entity([type |-> "message/rfc822", inner |-> e])

Boxes(S, n) == {Box(t, k, b) : t \in Multipart, k \in Seqs(S, n), b \in BOOLEAN}
Small == {PlainText, Page, Letter(<<PlainText>>), Letter(<<>>), Letter(<<Letter(<<PlainText>>)>>),
          Box("multipart/alternative", <<PlainText, Page>>, FALSE),
          Box("multipart/mixed", <<PlainText>>, TRUE), Box("multipart/mixed", <<>>, FALSE),
          Box("multipart/mixed",
              <<Box("multipart/mixed", <<Box("multipart/mixed", <<PlainText>>, FALSE)>>, FALSE)>>, FALSE)}

Three == {PlainText, Letter(<<PlainText>>), Box("multipart/mixed", <<PlainText>>, TRUE)}
EnTrees == {PlainText, Box("multipart/mixed", <<PlainText, PlainText>>, FALSE),
            Box("multipart/mixed", <<PlainText, Letter(<<PlainText>>), Page>>, TRUE),
            Box("multipart/mixed", <<PlainText, PlainText, PlainText, PlainText, PlainText, PlainText, PlainText>>, FALSE),
            Box("multipart/mixed", <<PlainText, Winmail(OneFile)>>, FALSE)}

Raw(go, en) == [RawOf(PlainText) EXCEPT !.go = go, !.en = en]
Some(S) == {<<e>> : e \in S}

TNEFAttributes == Seqs({Attr("rend"), Attr("title"), Attr("props"), Attr("overlong"),
                    Attr("short header"), Attr("unknown level"), Data(0), Data(1), Data(2), Data(3)}, 3)

\* the part limit is met among the files of a container, between two, or before one
Crowded == {Box("multipart/mixed", s, FALSE) :
              s \in {<<PlainText, PlainText, PlainText, PlainText, Winmail(OneFile \o OneFile)>>,
                     <<PlainText, PlainText, PlainText, Winmail(OneFile), Winmail(OneFile)>>,
                     <<PlainText, PlainText, PlainText, PlainText, PlainText, Winmail(OneFile)>>}}

MCRaws == {
    {Raw(<<go>>, en) : go \in LeafSet, en \in {<<>>, <<PlainText>>}},
    {Raw(<<go>>, en) : go \in Boxes(LeafSet, 2), en \in {<<>>, <<PlainText>>}},
    {Raw(<<go>>, en) : go \in Boxes(Small, 2), en \in {<<>>, <<PlainText>>}},
    {Raw(<<go>>, en) : go \in Boxes(Three, 3), en \in {<<>>, <<PlainText>>}},
    {Raw(go, en) : go \in {<<>>, <<PlainText>>}, en \in Some(EnTrees) \cup {<<>>}},
    {Raw(<<go>>, <<en>>) : go \in Boxes(Small, 1), en \in EnTrees},
    {Raw(<<go>>, <<en>>) : go \in Boxes(Three, 2), en \in EnTrees},
    {[Raw(go, en) EXCEPT !.size = s, !.bareCR = c, !.legible = l, !.declared = d,
                                !.midline = TRUE] :
               go \in {<<>>, <<PlainText>>, <<Entity([size |-> 0])>>}, en \in {<<>>, <<PlainText>>},
               s \in 0..5, c \in BOOLEAN, l \in BOOLEAN, d \in 0..3},
    {Raw(<<Box("multipart/mixed", <<PlainText, Winmail(s)>>, FALSE)>>, <<>>) : s \in TNEFAttributes},
    {Raw(<<Box("multipart/mixed", <<PlainText, Winmail(<<Attr("rend"), Attr("title"), Data(1)>> \o s)>>, FALSE)>>,
         <<>>) : s \in TNEFAttributes},
    {Raw(<<e>>, <<>>) : e \in Crowded}}

Ref(partID, blobID, type, disp, cid, name) ==
    [partID |-> partID, blobID |-> blobID, type |-> type, disp |-> disp, cid |-> cid,
     name |-> name, subParts |-> <<>>]

Bodies(p, types) == Seqs({Ref(p, b, t, "", "", "") : b \in {"", "photo"}, t \in types}, 1)
Photos == {Ref("", b, t, d, c, "doc") : b \in {"photo", "film"}, t \in {"image/png", "text/plain", "pdf"},
                                        d \in {"", "inline", "attachment"}, c \in {"", "logo"}}
Oddities == {Ref("", "gone", "image/png", "", "", ""), Ref("", "", "image/png", "", "", ""),
             Ref("plain", "photo", "text/plain", "", "", ""), Ref("", "photo", "", "", "", "run.exe"),
             Ref("", "letter", "message/rfc822", "", "", "doc")}
AttachmentPairs == [1..2 -> Oddities \cup {p \in Photos : p.type # "pdf" /\ p.disp # "attachment"}]

Node(type, kids) == [Ref("", "", type, "", "", "") EXCEPT !.subParts = kids]
NodeLeaves == {Ref("plain", "", "text/plain", "", "", ""), Ref("", "film", "image/png", "", "", "doc"),
               Ref("page", "", "text/html", "", "", ""), Ref("page", "", "image/png", "", "", "")}
Nodes == NodeLeaves \cup {Node(t, k) : t \in Multipart \cup {"text/plain"}, k \in Seqs(NodeLeaves, 2)}
Structures == UNION {
    Nodes,
    {Node("multipart/mixed", k) : k \in Seqs(Nodes, 1)},
    {Node("multipart/mixed", <<Node("multipart/mixed", <<n>>)>>) : n \in Nodes}}

Object(text, html, files, structure) ==
    [mailboxIds |-> "one", textBody |-> text, htmlBody |-> html, attachments |-> files,
     bodyStructure |-> structure, bodyValues |-> {"plain", "page"}, header |-> "",
     serverSet |-> FALSE]

MCObjects == {
    {Object(t, h, f, <<>>) : t \in Seqs({Ref("plain", "", "", "", "", "")}, 1),
                             h \in Seqs({Ref("page", "", "", "", "", "")}, 1),
                             f \in Seqs(Photos \cup Oddities, 1)},
    {Object(t, h, f, <<>>) : t \in Seqs({Ref("plain", "", "", "", "", "")}, 1),
                             h \in Seqs({Ref("page", "", "", "", "", "")}, 1),
                             f \in AttachmentPairs},
    {Object(t, h, <<>>, <<>>) : t \in Bodies("plain", {"", "text/plain", "text/html"}),
                                       h \in Bodies("page", {"", "text/plain", "text/html"})},
    {Object(t, <<>>, <<>>, <<s>>) : t \in Bodies("plain", {""}), s \in Structures},
    {[Object(t, <<>>, <<>>, <<>>) EXCEPT !.mailboxIds = m, !.header = x, !.serverSet = b,
                                                !.bodyValues = v] :
               t \in Bodies("plain", {""}), m \in {"one", "two", "bad", "missing"},
               x \in {"", "x-custom", "subject", "disposition-notification-to"},
               b \in BOOLEAN, v \in {{}, {"plain"}}}}

Stored(parent, kind) ==
    [Part(Entity([type |-> kind[1], disp |-> kind[2], named |-> kind[2] # ""]), 1, parent, 0)
        EXCEPT !.IsMultipart = kind[1] \in Multipart]
Kinds == ((Multipart \cup Text \cup {"image/png"}) \X {""})
           \cup {<<"text/plain", "attachment">>, <<"text/html", "inline">>}
StoredParts(parents, kinds) == {Stored(p, k) : p \in parents, k \in kinds}

Nesting == (Multipart \cup Text \cup {"image/png"}) \X {""}
Under(p) == StoredParts({p}, Nesting)
Top      == StoredParts({0}, (Multipart \ {"multipart/mixed"}) \X {""})

MCPartLists == {
    Seqs(StoredParts(0..3, Kinds), 2) \ {<<>>},
    [1..3 -> StoredParts(0..4, {<<"multipart/mixed", "">>, <<"text/html", "">>,
                                       <<"text/plain", "attachment">>})],
    [1..4 -> StoredParts(0..5, {<<"text/plain", "">>})],
    Top \X Under(1) \X Under(1) \X Under(1),
    Top \X Under(1) \X Under(2) \X Under(2)}

MCHeaders ==
    {{[name |-> 3, segments |-> s] : s \in [1..k -> Seqs({1, 4, 9}, 3) \ {<<>>}]} : k \in 1..2}
=============================================================================
