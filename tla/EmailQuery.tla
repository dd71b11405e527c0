----------------------------- MODULE EmailQuery -----------------------------
(***************************************************************************)
(* Email/query and SearchSnippet/get (jmap/mail/query.go, snippet.go), the  *)
(* adapter that walks the store's bounded pages (adapter_query.go,          *)
(* adapter_query_e3.go) and the store's search repertoire (store/search.go, *)
(* collapse.go, narrowing.go, snippets.go).                                 *)
(*                                                                         *)
(* `mail' is the account's messages newest first: the position in it is the *)
(* (date DESC, id DESC) order every statement of the repertoire uses, and a *)
(* keyset cursor is the position of the last row read.  A request is        *)
(* answered in one step.  The pager is a client that asks for one page      *)
(* after another while mail arrives.                                        *)
(***************************************************************************)
EXTENDS Integers, Sequences, SequencesExt, FiniteSets, FiniteSetsExt

CONSTANTS MaxMail,              \* messages of an account
          MaxSearchLimit,       \* store.MaxSearchLimit = mail.DefaultSearchWindow (200)
          CollapseWindow,       \* messages one collapsed statement scans (1000)
          RankCandidateWindow,  \* newest matches the relevance sort ranks (200)
          MaxQueryReach,        \* deepest row a query may need (100000)
          maxCollapsePasses,    \* windows one collapsed query may walk (32)
          MaxArrivals           \* messages that arrive while a client pages

VARIABLES topic,    \* "filter", "window", "threads", "union", "pager" or "snippet"
          mail,     \* the account's messages, newest first
          query,    \* the request
          reply,    \* its answer, or NoReply
          seen,     \* what the pager has been given, in order
          arrived   \* messages inserted while the pager was at work

queryVars == <<topic, mail, query, reply, seen, arrived>>

NoReply == [kind |-> "none"]
Refusal == [kind |-> "refused"]

DefaultSearchWindow == MaxSearchLimit
maxOrBranches == 4

----------------------------------------------------------------------------
(* The translated filter.  An absent string is "", an absent number 0.      *)

searchFilter ==
    [err |-> FALSE, text |-> "", mailboxID |-> "", since |-> 0, before |-> 0,
     unreadOnly |-> FALSE, keyword |-> "", hasAttachment |-> "", cc |-> "",
     minSize |-> 0, maxSize |-> 0, flagsAll |-> {}, flagsNone |-> {},
     excludeMailboxIDs |-> {}, excludes |-> FALSE, defaultExclusion |-> FALSE,
     or |-> <<>>, accountWide |-> FALSE]

unsupportedNode == [searchFilter EXCEPT !.err = TRUE]

systemFlagKeywords == {"$seen", "$flagged"}

systemFlagBit(kw) == kw \in systemFlagKeywords

applyHasKeyword(f, kw) ==
    IF systemFlagBit(kw)
    THEN IF kw \in f.flagsNone THEN unsupportedNode
         ELSE [f EXCEPT !.flagsAll = @ \cup {kw}]
    ELSE IF f.keyword \notin {"", kw} THEN unsupportedNode
         ELSE [f EXCEPT !.keyword = kw]

applyNotKeyword(f, kw) ==
    CASE kw = "$seen" -> [f EXCEPT !.unreadOnly = TRUE]
      [] kw # "$seen" /\ systemFlagBit(kw) ->
            IF kw \in f.flagsAll THEN unsupportedNode
            ELSE [f EXCEPT !.flagsNone = @ \cup {kw}]
      [] OTHER -> unsupportedNode

stringNode(f, field, text) ==
    IF text = "" \/ f[field] \notin {"", text} THEN unsupportedNode
    ELSE [f EXCEPT ![field] = text]

translateProperty(f, name, v) ==
    CASE name = "inMailbox" -> [f EXCEPT !.mailboxID = v]
      [] name \in {"text", "subject"} -> stringNode(f, "text", v)
      [] name = "after" -> [f EXCEPT !.since = v]
      [] name = "before" -> [f EXCEPT !.before = v]
      [] name = "hasKeyword" -> applyHasKeyword(f, v)
      [] name = "notKeyword" -> applyNotKeyword(f, v)
      [] name = "hasAttachment" -> [f EXCEPT !.hasAttachment = v]
      [] name = "cc" -> stringNode(f, "cc", v)
      [] name = "minSize" -> [f EXCEPT !.minSize = v]
      [] name = "maxSize" -> [f EXCEPT !.maxSize = v]
      [] name = "inMailboxOtherThan" ->
            [f EXCEPT !.excludes = TRUE, !.excludeMailboxIDs = @ \cup v,
                      !.defaultExclusion = FALSE]
      [] OTHER -> unsupportedNode

(* props is a sequence of <<name, value>> pairs: the order in which the     *)
(* iteration over the Go map meets them.                                    *)
translateCondition(props) ==
    IF props = <<>> THEN unsupportedNode
    ELSE FoldLeft(LAMBDA f, p : IF f.err THEN f ELSE translateProperty(f, p[1], p[2]),
                  searchFilter, props)

tighter(a, b, isMin) ==
    CASE b = 0 -> a
      [] a = 0 -> b
      [] OTHER -> IF (b > a) = isMin THEN b ELSE a

different(x, y) == x # "" /\ y # "" /\ x # y
given(x, y) == IF y # "" THEN y ELSE x

mergeFilters(a, b) ==
    IF \/ \E fld \in {"text", "mailboxID", "keyword", "hasAttachment", "cc"} :
            different(a[fld], b[fld])
       \/ b.flagsAll \cap a.flagsNone # {}
       \/ b.flagsNone \cap a.flagsAll # {}
       \/ b.or # <<>>
    THEN unsupportedNode
    ELSE [a EXCEPT
            !.text = given(@, b.text), !.mailboxID = given(@, b.mailboxID),
            !.keyword = given(@, b.keyword), !.cc = given(@, b.cc),
            !.hasAttachment = given(@, b.hasAttachment),
            !.since = tighter(@, b.since, TRUE), !.before = tighter(@, b.before, FALSE),
            !.minSize = tighter(@, b.minSize, TRUE), !.maxSize = tighter(@, b.maxSize, FALSE),
            !.unreadOnly = @ \/ b.unreadOnly,
            !.flagsAll = @ \cup b.flagsAll, !.flagsNone = @ \cup b.flagsNone,
            !.excludes = @ \/ b.excludes,
            !.excludeMailboxIDs = @ \cup b.excludeMailboxIDs]

answerable(f) ==
    LET g == IF f.keyword # "" /\ f.text = "" /\ f.mailboxID = ""
             THEN [f EXCEPT !.accountWide = TRUE] ELSE f
    IN  IF \/ g.err
           \/ g.text = "" /\ g.mailboxID = "" /\ ~g.accountWide
           \/ g.keyword # "" /\ g.text = "" /\ g.mailboxID # ""
        THEN unsupportedNode ELSE g

RECURSIVE translateNode(_)

translateAnd(conditions) ==
    FoldLeft(LAMBDA merged, c :
                LET with(sub) ==
                        IF merged.err \/ sub.err THEN unsupportedNode ELSE mergeFilters(merged, sub)
                IN  with(translateNode(c)),
             searchFilter, conditions)

translateOr(conditions) ==
    CASE Len(conditions) = 0 \/ Len(conditions) > maxOrBranches -> unsupportedNode
      [] Len(conditions) = 1 -> translateNode(conditions[1])
      [] OTHER ->
           LET branches == [i \in 1..Len(conditions) |-> translateNode(conditions[i])]
           IN  IF \E i \in 1..Len(branches) :
                    branches[i].or # <<>> \/ answerable(branches[i]).err
               THEN unsupportedNode
               ELSE [searchFilter EXCEPT
                        !.or = [i \in 1..Len(branches) |-> answerable(branches[i])]]

translateOperator(node) ==
    CASE node.op = "AND" -> translateAnd(node.conds)
      [] node.op = "OR" -> translateOr(node.conds)
      [] OTHER -> unsupportedNode

translateNode(node) ==
    CASE node.op = "null" -> [searchFilter EXCEPT !.accountWide = TRUE]
      [] node.op = "condition" -> translateCondition(node.props)
      [] OTHER -> translateOperator(node)

\* every view without a mailbox loses Junk and Trash, the account-wide ones too
applyDefaultExclusionAlways(f) ==
    IF f.mailboxID # "" THEN f ELSE [f EXCEPT !.defaultExclusion = TRUE]

applyDefaultExclusion(f) ==
    IF f.accountWide \/ f.mailboxID # "" \/ f.excludes THEN f
    ELSE [f EXCEPT !.defaultExclusion = TRUE]

translateFilter(node) ==
    LET excluding(g) == IF g.err THEN g ELSE applyDefaultExclusion(g)
        checked(f) ==
            CASE f.err -> f
              [] f.or # <<>> -> [f EXCEPT !.or = [i \in 1..Len(f.or) |-> applyDefaultExclusion(f.or[i])]]
              [] OTHER -> excluding(answerable(f))
    IN  checked(translateNode(node))

----------------------------------------------------------------------------
(* The sort.                                                                *)

sortSpec == [err |-> FALSE, byRelevance |-> FALSE, ascending |-> FALSE,
             keyword |-> "", keywordFirst |-> FALSE]
unsupportedSort == [sortSpec EXCEPT !.err = TRUE]

keywordComparator(c) == c.keyword # ""

translateKeywordSort(sort) ==
    IF \/ Len(sort) # 2
       \/ sort[1].property # "hasKeyword" \/ sort[2].property # "receivedAt"
       \/ ~keywordComparator(sort[1])
    THEN unsupportedSort
    ELSE [sortSpec EXCEPT !.keyword = sort[1].keyword,
                          !.keywordFirst = ~sort[1].isAscending,
                          !.ascending = sort[2].isAscending]

translateSort(sort) ==
    IF sort = <<>> THEN sortSpec
    ELSE IF Len(sort) > 1 THEN translateKeywordSort(sort)
    ELSE LET c == sort[1]
         IN  CASE c.property = "receivedAt" -> [sortSpec EXCEPT !.ascending = c.isAscending]
               [] c.property = "relevance" ->
                     IF c.isAscending THEN unsupportedSort
                     ELSE [sortSpec EXCEPT !.byRelevance = TRUE]
               [] c.property = "hasKeyword" ->
                     IF ~keywordComparator(c) THEN unsupportedSort
                     ELSE [sortSpec EXCEPT !.keyword = c.keyword,
                                           !.keywordFirst = ~c.isAscending]
               [] OTHER -> unsupportedSort

----------------------------------------------------------------------------
(* The store's statements.  Rows are positions in `mail'.                   *)

appendConditions(n, m) ==
    /\ n.hasAttachment # "" => m.att = (n.hasAttachment = "yes")
    /\ n.cc # "" => n.cc \in m.cc
    /\ n.minSize # 0 => m.size >= n.minSize
    /\ n.maxSize # 0 => m.size < n.maxSize
    /\ n.flagsAll \subseteq m.flags
    /\ n.flagsNone \cap m.flags = {}
    /\ m.box \notin n.excludeMailboxIDs

conditions(f, m) ==
    /\ ~m.deleted
    /\ f.text # "" => f.text \in m.words
    /\ f.mailboxID # "" => m.box = f.mailboxID
    /\ f.since # 0 => m.date >= f.since
    /\ f.before # 0 => m.date < f.before
    /\ f.unreadOnly => "$seen" \notin m.flags
    /\ f.keyword # "" => f.keyword \in m.keywords
    /\ appendConditions(f, m)

Rows(f, cursor) ==
    SelectSeq([i \in 1..Len(mail) |-> i], LAMBDA i : i > cursor /\ conditions(f, mail[i]))

FirstOf(s, n) == SubSeq(s, 1, IF Len(s) < n THEN Len(s) ELSE n)

effectiveLimit(limit) == IF limit > MaxSearchLimit THEN MaxSearchLimit ELSE limit

Search(f, limit, cursor) == FirstOf(Rows(f, cursor), effectiveLimit(limit))

\* the row after the cursor is skipped too
ListAccountMessagesSkips(f, limit, cursor) ==
    Search(f, limit, IF cursor > 0 THEN cursor + 1 ELSE 0)

ListAccountMessages(f, limit, cursor) == Search(f, limit, cursor)

ListMailboxMessages(f, limit, cursor) ==
    FirstOf(Rows([f EXCEPT !.keyword = ""], cursor), effectiveLimit(limit))

SearchByRelevance(f) ==
    LET candidates == FirstOf(Rows(f, 0), RankCandidateWindow)
    IN  FirstOf(SortSeq(candidates, LAMBDA i, j : \/ mail[i].rank > mail[j].rank
                                                  \/ mail[i].rank = mail[j].rank /\ i < j),
                effectiveLimit(MaxSearchLimit))

\* a conversation already listed by an earlier window is listed again
dedupeClauseNone(f, cursor, i) == TRUE

dedupeClause(f, cursor, i) ==
    ~\E j \in 1..cursor : mail[j].thread = mail[i].thread /\ conditions(f, mail[j])

effectiveWindow(limit) == IF CollapseWindow < limit THEN limit ELSE CollapseWindow

(* Each returned row carries the number of rows scanned and the window's    *)
(* edge: with no row left after the de-duplication neither is known.        *)
ListCollapsedMessages(f, limit, cursor) ==
    LET window == effectiveWindow(effectiveLimit(limit))
        newest(w) == SelectSeq(w, LAMBDA i : \A k \in 1..Len(w) :
                                 mail[w[k]].thread = mail[i].thread => w[k] >= i)
        result(w, rows) ==
            LET full == rows # <<>> /\ Len(w) >= window
            IN  [rows |-> rows, windowExhausted |-> full, next |-> IF full THEN Last(w) ELSE 0]
        collapse(w) ==
            result(w, FirstOf(SelectSeq(newest(w), LAMBDA i : dedupeClause(f, cursor, i)),
                              effectiveLimit(limit)))
    IN  collapse(FirstOf(Rows(f, cursor), window))

----------------------------------------------------------------------------
(* The adapter's walks.                                                     *)

resolveExclusions(f) ==
    IF f.defaultExclusion
    THEN [f EXCEPT !.excludeMailboxIDs = @ \cup {"junk", "trash"}] ELSE f

fetchPage(f, limit, cursor) ==
    CASE f.text # "" -> Search(f, limit, cursor)
      [] f.text = "" /\ f.accountWide -> ListAccountMessages(f, limit, cursor)
      [] OTHER -> ListMailboxMessages(f, limit, cursor)

hasKeyword(m, keyword) ==
    IF systemFlagBit(keyword) THEN keyword \in m.flags ELSE keyword \in m.keywords

sortIDsStable(hits, s) ==
    SortSeq(hits, LAMBDA i, j :
        LET a == s.keyword # "" /\ hasKeyword(mail[i], s.keyword)
            b == s.keyword # "" /\ hasKeyword(mail[j], s.keyword)
        IN  IF a # b THEN a = s.keywordFirst ELSE IF s.ascending THEN i > j ELSE i < j)

RECURSIVE walkPages(_, _, _, _)
walkPages(f, reach, hits, cursor) ==
    IF Len(hits) >= reach THEN hits
    ELSE LET want    == effectiveLimit(reach - Len(hits))
             results == fetchPage(f, want, cursor)
         IN  IF Len(results) < want THEN hits \o results
             ELSE walkPages(f, reach, hits \o results, Last(results))

RECURSIVE walkWindows(_, _, _, _, _)
walkWindows(f, reach, hits, cursor, pass) ==
    IF Len(hits) >= reach \/ pass >= maxCollapsePasses THEN hits
    ELSE LET further(res) ==
                 IF res.windowExhausted
                 THEN walkWindows(f, reach, hits \o res.rows, res.next, pass + 1)
                 ELSE hits \o res.rows
         IN  further(ListCollapsedMessages(f, effectiveLimit(reach - Len(hits)), cursor))

\* a message both branches found is listed twice
searchUnionTwice(branches, reach) == FirstOf(FlattenSeq(branches), reach)

searchUnion(branches, reach) ==
    LET n      == Len(branches)
        ids    == UNION { ToSet(branches[b]) : b \in 1..n }
        first  == [i \in ids |-> LET b == CHOOSE b \in 1..n : /\ i \in ToSet(branches[b])
                                                            /\ \A c \in 1..(b-1) : i \notin ToSet(branches[c])
                                 IN  CHOOSE k \in 1..Len(branches[b]) : branches[b][k] = i]
        merged == SetToSortSeq(ids, LAMBDA i, j : \/ first[i] < first[j]
                                                  \/ first[i] = first[j] /\ mail[i].id > mail[j].id)
    IN  FirstOf(merged, reach)

SearchEmails(filter, s, reach) ==
    LET resolved(g) == IF s.byRelevance THEN SearchByRelevance(g)
                       ELSE sortIDsStable(walkPages(g, reach, <<>>, 0), s)
        one(f) == resolved(resolveExclusions(f))
    IN  IF reach = 0 THEN <<>>
        ELSE IF filter.or # <<>>
        THEN searchUnion([b \in 1..Len(filter.or) |-> one(filter.or[b])], reach)
        ELSE one(filter)

SearchThreads(filter, s, reach) ==
    LET one(f) == sortIDsStable(walkWindows(resolveExclusions(f), reach, <<>>, 0, 0), s)
    IN  IF reach = 0 THEN <<>>
        ELSE IF filter.or # <<>>
        THEN searchUnion([b \in 1..Len(filter.or) |-> one(filter.or[b])], reach)
        ELSE one(filter)

----------------------------------------------------------------------------
(* The handler.  A request's position may be negative; anchor 0 and limit   *)
(* -1 mean "not given".                                                     *)

effectiveQueryLimit(requested) ==
    IF requested = -1 \/ requested > DefaultSearchWindow THEN DefaultSearchWindow ELSE requested

\* a position counted from the end is looked for in one page only
queryReachShort(req, limit) ==
    IF req.position < 0 THEN limit ELSE req.position + limit

queryReach(req, limit) ==
    IF req.anchor # 0 \/ req.position < 0 \/ req.position + limit > MaxQueryReach
    THEN MaxQueryReach ELSE req.position + limit

resolveStart(req, matches) ==
    LET n   == Len(matches)
        at  == { i \in 1..n : mail[matches[i]].id = req.anchor }
        raw == IF req.anchor # 0 THEN (CHOOSE i \in at : TRUE) - 1 + req.offset
               ELSE IF req.position < 0 THEN req.position + n ELSE req.position
    IN  IF req.anchor # 0 /\ at = {} THEN -1
        ELSE IF raw < 0 THEN 0 ELSE raw

\* a start past the end is echoed as it was asked for
clampStartNever(start, n) == start

clampStart(start, n) == IF start > n THEN n ELSE start

searchWindow == DefaultSearchWindow

\* every list is taken for the whole
queryTotalAlways(matched, reach) == matched

queryTotal(matched, reach) ==
    LET bound == IF reach > 0 /\ reach < searchWindow THEN reach ELSE searchWindow
    IN  IF matched < bound THEN matched ELSE -1

collapseRefusal(req, order) == req.collapse /\ order.byRelevance

handleEmailQuery(req) ==
    LET limit == effectiveQueryLimit(req.limit)
        reach == queryReach(req, limit)
        ids(page) == [k \in 1..Len(page) |-> mail[page[k]].id]
        window(matches, from) ==
            [kind |-> "page", position |-> from, total |-> queryTotal(Len(matches), reach),
             ids |-> ids(FirstOf(SubSeq(matches, from + 1, Len(matches)), limit))]
        page(matches, start) ==
            IF start = -1 THEN Refusal ELSE window(matches, clampStart(start, Len(matches)))
        found(matches) == page(matches, resolveStart(req, matches))
        search(filter, order) ==
            IF \/ filter.err \/ order.err
               \/ order.byRelevance /\ filter.text = ""
               \/ collapseRefusal(req, order)
            THEN Refusal
            ELSE found(IF req.collapse THEN SearchThreads(filter, order, reach)
                       ELSE SearchEmails(filter, order, reach))
    IN  search(translateFilter(req.filter), translateSort(req.sort))

----------------------------------------------------------------------------
(* Search snippets: text is a sequence of "start", "stop" and word tokens.  *)

\* the mark left open at the end is not closed
balanceMarksOpen(s) ==
    FoldLeft(LAMBDA acc, t :
        IF (t = "start" /\ acc.open) \/ (t = "stop" /\ ~acc.open) THEN acc
        ELSE [out |-> Append(acc.out, t),
              open |-> IF t \in {"start", "stop"} THEN t = "start" ELSE acc.open],
        [out |-> <<>>, open |-> FALSE], s).out

balanceMarks(s) ==
    LET done == FoldLeft(LAMBDA acc, t :
                    IF (t = "start" /\ acc.open) \/ (t = "stop" /\ ~acc.open) THEN acc
                    ELSE [out |-> Append(acc.out, t),
                          open |-> IF t \in {"start", "stop"} THEN t = "start" ELSE acc.open],
                    [out |-> <<>>, open |-> FALSE], s)
    IN  IF done.open THEN Append(done.out, "stop") ELSE done.out

balanceSnippetMarks(s) == balanceMarks(s)

(* ts_headline inserts the two marks; the marks of the mail itself are       *)
(* removed by translate() before, and html.EscapeString turns "<" into       *)
(* "&lt;", so the only tags of the answer are the replaced marks.            *)
markupSnippet(marked) ==
    LET t == balanceSnippetMarks(marked)
    IN  [i \in 1..Len(t) |-> CASE t[i] = "start" -> "<mark>"
                               [] t[i] = "stop" -> "</mark>"
                               [] t[i] = "<" -> "&lt;"
                               [] OTHER -> t[i]]

(* The store's ts_headline (external): the subject or the body as marked    *)
(* text.  Snippets drops a message with no mark in either part.             *)
Snippets(text, subject, preview) ==
    /\ text # ""
    /\ \/ "start" \in ToSet(balanceMarks(subject))
       \/ "start" \in ToSet(balanceMarks(preview))

handleSearchSnippetGet(req) ==
    LET marked(term, text) ==
            IF Snippets(term, req.subject, req.preview) THEN markupSnippet(balanceMarks(text)) ELSE <<>>
        answer(term) == [kind |-> "snippet", subject |-> marked(term, req.subject),
                         preview |-> marked(term, req.preview)]
        found(texts) == answer(IF texts = {""} THEN "" ELSE CHOOSE t \in texts : t # "")
        get(f) == IF f.err THEN Refusal
                  ELSE found({f.text} \cup { f.or[b].text : b \in 1..Len(f.or) })
    IN  get(translateFilter(req.filter))

----------------------------------------------------------------------------
(* The inputs.                                                              *)

cond(props) == [op |-> "condition", props |-> props, conds |-> <<>>]
Null == [op |-> "null", props |-> <<>>, conds |-> <<>>]
Oper(o, cs) == [op |-> o, props |-> <<>>, conds |-> cs]

Props == {<<"inMailbox", "inbox">>, <<"inMailbox", "junk">>, <<"text", "red">>, <<"subject", "blue">>,
          <<"after", 2>>, <<"before", 2>>, <<"hasKeyword", "$flagged">>, <<"hasKeyword", "label">>,
          <<"notKeyword", "$seen">>, <<"notKeyword", "$flagged">>, <<"hasAttachment", "yes">>,
          <<"minSize", 2>>, <<"maxSize", 2>>, <<"inMailboxOtherThan", {}>>,
          <<"inMailboxOtherThan", {"inbox"}>>, <<"cc", "x">>}

\* two properties of one JSON object, met in either order
Pairs == { p \in Props \X Props : p[1][1] # p[2][1] }

Leaves == { cond(<<p>>) : p \in Props } \cup {Null}
Trees == Leaves
   \cup { cond(p) : p \in Pairs }
   \cup { Oper(o, <<a, b>>) : o \in {"AND", "OR"}, a \in Leaves, b \in Leaves }
   \cup { Oper("OR", <<cond(p), r>>) :
             p \in { x \in Pairs : x[1] \in {<<"text", "red">>, <<"inMailbox", "inbox">>} },
             r \in {cond(<<<<"hasKeyword", "label">>>>), cond(<<<<"text", "blue">>>>)} }
   \cup { Oper(o, <<>>) : o \in {"AND", "OR", "NOT"} }
   \cup { Oper("AND", <<Oper("OR", <<a, cond(<<<<"text", "red">>>>)>>), cond(<<<<"inMailbox", "inbox">>>>)>>) :
             a \in Leaves }
   \cup { Oper("OR", <<Oper("AND", <<a, cond(<<<<"text", "red">>>>)>>)>>) : a \in Leaves }

Message(id) ==
    [id |-> id, thread |-> 1, box |-> "inbox", words |-> {"red"}, date |-> 1, size |-> 1,
     flags |-> {}, keywords |-> {}, att |-> FALSE, cc |-> {}, rank |-> 1, deleted |-> FALSE]

Attributes ==
    { [Message(1) EXCEPT !.box = b, !.words = w, !.date = d, !.size = s, !.flags = fl,
                         !.keywords = k, !.att = a, !.cc = c] :
        b \in {"inbox", "junk"}, w \in {{}, {"red"}, {"blue"}}, d \in 1..2, s \in 1..2,
        fl \in SUBSET {"$seen", "$flagged"}, k \in {{}, {"label"}}, a \in {FALSE},
        c \in {{"x"}} }
    \cup { [Message(1) EXCEPT !.att = a, !.deleted = x, !.cc = c, !.keywords = {"label"}] :
             a \in BOOLEAN, x \in BOOLEAN, c \in {{}, {"x"}} }

\* the conversation of message i is named after its newest member
Partitions(n) == { t \in [1..n -> 1..n] : \A i \in 1..n : t[i] <= i /\ t[t[i]] = t[i] }

Inbox == cond(<<<<"inMailbox", "inbox">>>>)
Everything(ask) ==
    ask @@ [filter |-> Inbox, sort |-> <<>>, position |-> 0, anchor |-> 0, offset |-> 0,
            limit |-> -1, collapse |-> FALSE]

Windows(n) ==
    { [position |-> p, anchor |-> 0, offset |-> 0, limit |-> l] : p \in (-2)..(n + 1), l \in (-1)..(MaxSearchLimit + 1) }
    \cup { [position |-> 0, anchor |-> a, offset |-> o, limit |-> l] :
             a \in 1..n, o \in (-1)..1, l \in 1..MaxSearchLimit }

Sorts == { <<>>, <<[property |-> "receivedAt", isAscending |-> TRUE, keyword |-> ""]>>,
           <<[property |-> "receivedAt", isAscending |-> FALSE, keyword |-> ""]>>,
           <<[property |-> "relevance", isAscending |-> FALSE, keyword |-> ""]>>,
           <<[property |-> "size", isAscending |-> FALSE, keyword |-> ""]>>,
           <<[property |-> "hasKeyword", isAscending |-> FALSE, keyword |-> "$flagged"],
             [property |-> "receivedAt", isAscending |-> FALSE, keyword |-> ""]>> }

QueriesInit ==
    /\ topic \in {"filter", "window", "threads", "union", "pager", "snippet"}
    /\ query = NoReply /\ reply = NoReply /\ seen = <<>> /\ arrived = 0
    /\ CASE topic = "filter" -> mail \in { <<m>> : m \in Attributes }
         [] topic = "window" ->
              \E n \in {0, MaxMail - 1}, fl \in SUBSET (1..MaxMail) :
                 /\ n = 0 => fl = {}
                 /\ mail = [i \in 1..n |-> [Message(n + 1 - i) EXCEPT
                               !.flags = IF i \in fl THEN {"$flagged"} ELSE {},
                               !.rank = IF MaxMail \in fl THEN i % 2 ELSE 1]]
         [] topic = "threads" ->
              \E t \in Partitions(MaxMail), out \in SUBSET (1..MaxMail) :
                 /\ Cardinality(out) <= 1
                 /\ mail = [i \in 1..MaxMail |-> [Message(MaxMail + 1 - i) EXCEPT
                               !.thread = t[i], !.box = IF i \in out THEN "sent" ELSE "inbox"]]
         [] topic = "union" ->
              \E red, lab \in SUBSET (1..(MaxMail - 1)) :
                 mail = [i \in 1..(MaxMail - 1) |-> [Message(MaxMail - i) EXCEPT
                            !.words = IF i \in red THEN {"red"} ELSE {},
                            !.keywords = IF i \in lab THEN {"label"} ELSE {}]]
         [] topic = "pager" ->
              \E n \in 1..(MaxMail - 1) : mail = [i \in 1..n |-> Message(n + 1 - i)]
         [] topic = "snippet" -> mail = <<>>

Asks ==
    CASE topic = "filter" -> { Everything([filter |-> t]) : t \in Trees }
      [] topic = "window" ->
           { Everything(w @@ [sort |-> s, filter |-> f]) : w \in Windows(Len(mail)), s \in Sorts,
                f \in {Inbox, cond(<<<<"text", "red">>>>)} }
      [] topic = "threads" -> { Everything(w @@ [collapse |-> TRUE]) : w \in Windows(Len(mail)) }
                              \cup { Everything([collapse |-> TRUE, sort |-> s, filter |-> cond(<<<<"text", "red">>>>)]) : s \in Sorts }
      [] topic = "union" ->
           { Everything(w @@ [filter |-> Oper("OR", <<cond(<<<<"text", "red">>>>), cond(<<<<"hasKeyword", "label">>>>)>>)]) :
               w \in { [position |-> p, limit |-> l] : p \in {-1, 0, 2}, l \in {-1, 2} } }
      [] OTHER -> {}

(* One request, answered whole.                                             *)
Query ==
    /\ reply = NoReply
    /\ \E q \in Asks : query' = q /\ reply' = handleEmailQuery(q)
    /\ UNCHANGED <<topic, mail, seen, arrived>>

Texts == UNION { [1..n -> {"start", "stop", "a", "<"}] : n \in 0..3 }

SnippetGet ==
    /\ topic = "snippet" /\ reply = NoReply
    /\ \E s \in Texts, p \in {<<>>, <<"start", "a">>},
          f \in {cond(<<<<"text", "red">>>>), Inbox, cond(<<>>),
                 Oper("OR", <<Inbox, cond(<<<<"text", "red">>>>)>>)} :
         LET q == [filter |-> f, subject |-> s, preview |-> p]
         IN  query' = q /\ reply' = handleSearchSnippetGet(q)
    /\ UNCHANGED <<topic, mail, seen, arrived>>

(* The client that scrolls: each request starts where the list it holds     *)
(* ends.                                                                    *)
NextPage ==
    /\ topic = "pager"
    /\ reply # NoReply => reply.ids # <<>>
    /\ \E l \in 1..MaxSearchLimit :
         LET q == Everything([filter |-> Null, position |-> Len(seen), limit |-> l])
         IN  query' = q /\ reply' = handleEmailQuery(q)
    /\ seen' = seen \o reply'.ids
    /\ UNCHANGED <<topic, mail, arrived>>

(* A message is inserted where its date puts it: new mail first, backfilled *)
(* mail anywhere.                                                           *)
Arrive ==
    /\ topic = "pager" /\ arrived < MaxArrivals
    /\ \E i \in 0..Len(mail) : mail' = InsertAt(mail, i + 1, Message(MaxMail + arrived))
    /\ arrived' = arrived + 1
    /\ UNCHANGED <<topic, query, reply, seen>>

Rest ==
    /\ reply # NoReply
    /\ topic = "pager" => reply.ids = <<>> /\ arrived = MaxArrivals
    /\ UNCHANGED queryVars

QueriesNext == Query \/ SnippetGet \/ NextPage \/ Arrive \/ Rest
QueriesSpec == QueriesInit /\ [][QueriesNext]_queryVars

----------------------------------------------------------------------------
(* What a client may rely on.                                               *)

QueriesTypeOK ==
    /\ reply.kind \in {"none", "refused", "page", "snippet", "quota"}
    /\ seen \in Seq(1..(MaxMail + MaxArrivals))
    /\ arrived \in 0..MaxArrivals
    /\ reply.kind = "page" => /\ reply.position \in 0..Len(mail)
                              /\ reply.total \in -1..Len(mail)

Ids(rows) == [k \in 1..Len(rows) |-> mail[rows[k]].id]

\* RFC 8621, 4.4.1: what a condition says of a message
HoldsFor(p, m) ==
    CASE p[1] = "inMailbox" -> m.box = p[2]
      [] p[1] \in {"text", "subject"} -> p[2] \in m.words
      [] p[1] = "after" -> m.date >= p[2]
      [] p[1] = "before" -> m.date < p[2]
      [] p[1] = "hasKeyword" -> p[2] \in m.flags \cup m.keywords
      [] p[1] = "notKeyword" -> p[2] \notin m.flags \cup m.keywords
      [] p[1] = "hasAttachment" -> m.att = (p[2] = "yes")
      [] p[1] = "minSize" -> m.size >= p[2]
      [] p[1] = "maxSize" -> m.size < p[2]
      [] p[1] = "inMailboxOtherThan" -> m.box \notin p[2]
      [] p[1] = "cc" -> p[2] \in m.cc

RECURSIVE Meaning(_, _)
Meaning(t, m) ==
    CASE t.op = "null" -> TRUE
      [] t.op = "condition" -> \A i \in 1..Len(t.props) : HoldsFor(t.props[i], m)
      [] t.op = "AND" -> \A i \in 1..Len(t.conds) : Meaning(t.conds[i], m)
      [] t.op = "OR" -> \E i \in 1..Len(t.conds) : Meaning(t.conds[i], m)

RECURSIVE Named(_)
Named(t) == { t.props[i][1] : i \in 1..Len(t.props) } \cup UNION { Named(t.conds[i]) : i \in 1..Len(t.conds) }

\* a text search that names no mailbox leaves Junk and Trash out
Hidden(t, m) ==
    /\ m.box \in {"junk", "trash"}
    /\ Named(t) \cap {"text", "subject"} # {}
    /\ Named(t) \cap {"inMailbox", "inMailboxOtherThan"} = {}

Branches(t) == IF t.op = "OR" THEN ToSet(t.conds) ELSE {t}

Wanted(t, m) == ~m.deleted /\ \E b \in Branches(t) : Meaning(b, m) /\ ~Hidden(b, m)

(* A filter the server accepts selects a message exactly when the filter    *)
(* tree holds for it (translateNode down to the statements' predicates):    *)
(* what cannot be served is refused, never approximated, whichever order    *)
(* the conditions are met in and whichever of the three paths serves it.    *)
FilterFaithful ==
    topic = "filter" /\ reply.kind = "page" =>
        (reply.ids # <<>>) = Wanted(query.filter, mail[1])

Listed == SelectSeq([i \in 1..Len(mail) |-> i], LAMBDA i : Wanted(query.filter, mail[i]))

\* RFC 8620, 5.5: the part of a list that a request asks for
Asked(list) ==
    LET n     == Len(list)
        limit == IF query.limit = -1 \/ query.limit > MaxSearchLimit THEN MaxSearchLimit ELSE query.limit
        at    == { i \in 1..n : list[i] = query.anchor }
        first == IF query.anchor # 0 THEN (CHOOSE i \in at : TRUE) + query.offset
                 ELSE IF query.position < 0 THEN n + query.position + 1 ELSE query.position + 1
        start == IF first < 1 THEN 1 ELSE first
    IN  IF query.anchor # 0 /\ at = {} THEN <<"refused">>
        ELSE FirstOf(SubSeq(list, start, n), limit)

NewestFirst == query.sort = <<>> \/ (Len(query.sort) = 1 /\ query.sort[1].property = "receivedAt"
                                                         /\ ~query.sort[1].isAscending)

\* RFC 8620, 5.5: i comes before j under the comparators of the request
Precedes(i, j) ==
    LET older == \E k \in 1..Len(query.sort) : query.sort[k].property = "receivedAt" /\ query.sort[k].isAscending
        byDate == IF older THEN i > j ELSE i < j
        key(m) == CASE query.sort = <<>> -> 0
                    [] query.sort # <<>> /\ query.sort[1].property = "hasKeyword" ->
                         IF (query.sort[1].keyword \in m.flags) = query.sort[1].isAscending THEN 1 ELSE 0
                    [] query.sort # <<>> /\ query.sort[1].property = "relevance" -> -m.rank
                    [] OTHER -> 0
    IN  key(mail[i]) < key(mail[j]) \/ (key(mail[i]) = key(mail[j]) /\ byDate)

\* how far the request makes the server read
Reach ==
    IF query.sort # <<>> /\ query.sort[1].property = "relevance" THEN RankCandidateWindow
    ELSE queryReach(query, effectiveQueryLimit(query.limit))

(* A newest-first page is the part of the complete list that its position   *)
(* or anchor and limit ask for, although the server reads only             *)
(* MaxSearchLimit rows at a time and no further than the page needs; in any *)
(* other order it is so when the whole list is within the rows read         *)
(* (queryReach, SearchEmails, sortIDsStable, resolveStart).  A longer list  *)
(* is sorted after the newest rows are taken, so that page is not a part of *)
(* the sorted list: query.go:660-664 calls the reversal "exact" and         *)
(* query.go:1611-1618 the keyword grouping "EXACT".                         *)
PageIsWindow ==
    topic = "window" /\ reply.kind = "page" /\ (NewestFirst \/ Len(Listed) <= Reach) =>
        reply.ids = Asked(Ids(SortSeq(Listed, Precedes)))

TotalRight == reply.kind = "page" /\ reply.total # -1 => reply.total = Len(Listed)

(* A total is given only when it is the number of messages that match       *)
(* (queryTotal): also for a union of branches, whose lists overlap.  A      *)
(* request that reads no row at all (limit 0 from position 0) is excepted.  *)
TotalExact ==
    /\ topic \in {"window", "union"}
    /\ reply.kind = "page" => query.anchor # 0 \/ query.position # 0 \/ query.limit # 0
    => TotalRight

(* The union of the branches' lists names each matching message once, and   *)
(* names all of them when the list ends inside the page (searchUnion).      *)
UnionOnce ==
    topic = "union" /\ reply.kind = "page" =>
        /\ IsInjective(reply.ids)
        /\ ToSet(reply.ids) \subseteq ToSet(Ids(Listed))
        /\ query.position = 0 /\ Len(reply.ids) < effectiveQueryLimit(query.limit)
             => ToSet(reply.ids) = ToSet(Ids(Listed))

Heads == SelectSeq(Listed, LAMBDA i : \A j \in ToSet(Listed) : mail[j].thread = mail[i].thread => i <= j)

\* a stretch of CollapseWindow messages that all belong to conversations listed before it
SwallowedWindow ==
    \E k \in 1..Len(Listed) :
        /\ k + CollapseWindow - 1 <= Len(Listed)
        /\ \A x \in k..(k + CollapseWindow - 1) : \E y \in 1..(k - 1) : mail[Listed[x]].thread = mail[Listed[y]].thread

\* a stretch of messages one statement scans, with more conversations than it returns
CrowdedWindow ==
    \E k \in 1..Len(Listed) :
        LET scanned == { x \in k..(k + CollapseWindow - 1) : x <= Len(Listed) }
        IN  Cardinality({ mail[Listed[x]].thread : x \in scanned }) > MaxSearchLimit

(* A collapsed list shows each conversation at most once, by its newest     *)
(* matching message, across every window the walk reads; and a page is      *)
(* exactly the page of the list of conversations when it lies within the    *)
(* first MaxSearchLimit of them or no window holds more conversations than  *)
(* one statement returns, and no window is filled by conversations already  *)
(* listed (SearchThreads, ListCollapsedMessages, dedupeClause).  What a     *)
(* window holds beyond its limit is never listed, and a window with nothing *)
(* new ends the walk: collapse.go:244-245 says resuming after the last      *)
(* scanned row "skips exactly what was already considered and nothing       *)
(* else", collapse.go:253-255 that a short page is told from the end.       *)
ConversationsOnce ==
    topic = "threads" /\ reply.kind = "page" =>
        /\ IsInjective(reply.ids)
        /\ ToSet(reply.ids) \subseteq ToSet(Ids(Heads))
        /\ /\ NewestFirst
           /\ Reach <= MaxSearchLimit \/ ~CrowdedWindow
           /\ ~SwallowedWindow
           => reply.ids = Asked(Ids(Heads))

(* A client that scrolls the list page by page to its end has been shown    *)
(* every message, whatever arrived in between: an insertion can repeat a    *)
(* message on the next page and can never hide one that was there when the  *)
(* client began (NextPage asks for position Len(seen)).                     *)
PagerMissesNothing ==
    topic = "pager" /\ reply # NoReply /\ reply.ids = <<>> =>
        \A i \in 1..Len(mail) : mail[i].id < MaxMail => mail[i].id \in ToSet(seen)

(* The marks of a snippet are balanced and never nested, the mail's own     *)
(* markup is escaped, and nothing of the text is dropped                    *)
(* (balanceMarks, balanceSnippetMarks, markupSnippet).                      *)
SnippetBalanced ==
    topic = "snippet" /\ reply.kind = "snippet" =>
        \A t \in {reply.subject, reply.preview} :
            LET tags == SelectSeq(t, LAMBDA x : x \in {"<mark>", "</mark>"})
            IN  /\ Len(tags) % 2 = 0
                /\ \A i \in 1..Len(tags) : tags[i] = IF i % 2 = 1 THEN "<mark>" ELSE "</mark>"
                /\ "<" \notin ToSet(t) /\ "start" \notin ToSet(t) /\ "stop" \notin ToSet(t)
=============================================================================
