----------------------------- MODULE ListQueries -----------------------------
(***************************************************************************)
(* The queries answered from a complete list in memory: Mailbox/query       *)
(* (mailbox_query.go), EmailSubmission/query over the submissions that      *)
(* EmailSubmission/set makes (submission_query.go, submission.go),          *)
(* Quota/get and Quota/query (quota.go) and SieveScript/query (sieve.go).   *)
(*                                                                         *)
(* The module uses the variables of EmailQuery: `mail' holds the rows of    *)
(* the topic's list, `arrived' is the clock of the submissions and `seen'   *)
(* the dates of the scheduled creates that have counted and not yet written *)
(* their row.                                                               *)
(***************************************************************************)
EXTENDS EmailQuery

CONSTANTS MaxObjectsInGet,         \* rows one listing reads (500)
          maxScheduledPerAccount,  \* scheduled sends an account may hold (100)
          MaxCreators,             \* creates that may be between their count and their row
          MaxSubmissions           \* submissions of the model

----------------------------------------------------------------------------
(* Mailbox/query.  A row is [id, name, order, parent, role, sub]; names are *)
(* numbers in the order of their case-folded spelling.                      *)

mailboxFilter == [err |-> FALSE, parentID |-> -1, role |-> "unset", hasAnyRole |-> "", isSubscribed |-> ""]
badMailboxFilter == [mailboxFilter EXCEPT !.err = TRUE]

jmapRole(row) == row.role # ""

matches(f, row) ==
    /\ f.parentID # -1 => row.parent = f.parentID
    /\ f.role # "unset" => row.role = f.role
    /\ f.hasAnyRole # "" => jmapRole(row) = (f.hasAnyRole = "yes")
    /\ f.isSubscribed # "" => row.sub = (f.isSubscribed = "yes")

\* parentId 0 and role "" stand for the null of the wire
translateMailboxCondition(props) ==
    FoldLeft(LAMBDA f, p :
        CASE f.err -> f
          [] ~f.err /\ p[1] = "parentId" -> [f EXCEPT !.parentID = p[2]]
          [] ~f.err /\ p[1] = "role" -> [f EXCEPT !.role = p[2]]
          [] ~f.err /\ p[1] = "hasAnyRole" -> [f EXCEPT !.hasAnyRole = p[2]]
          [] ~f.err /\ p[1] = "isSubscribed" -> [f EXCEPT !.isSubscribed = p[2]]
          [] OTHER -> badMailboxFilter,
        mailboxFilter, props)

sameParent(a, b) == a.parentID = b.parentID

\* the last of two contradictory conditions wins
mergeMailboxFiltersLast(a, b) ==
    [a EXCEPT !.parentID = IF b.parentID # -1 THEN b.parentID ELSE @,
              !.role = IF b.role # "unset" THEN b.role ELSE @,
              !.hasAnyRole = given(@, b.hasAnyRole), !.isSubscribed = given(@, b.isSubscribed)]

mergeMailboxFilters(a, b) ==
    IF \/ a.parentID # -1 /\ b.parentID # -1 /\ ~sameParent(a, b)
       \/ a.role # "unset" /\ b.role # "unset" /\ a.role # b.role
       \/ different(a.hasAnyRole, b.hasAnyRole)
       \/ different(a.isSubscribed, b.isSubscribed)
    THEN badMailboxFilter
    ELSE [a EXCEPT !.parentID = IF b.parentID # -1 THEN b.parentID ELSE @,
                   !.role = IF b.role # "unset" THEN b.role ELSE @,
                   !.hasAnyRole = given(@, b.hasAnyRole), !.isSubscribed = given(@, b.isSubscribed)]

RECURSIVE translateMailboxFilter(_)
translateMailboxFilter(node) ==
    CASE node.op = "null" -> mailboxFilter
      [] node.op = "condition" -> translateMailboxCondition(node.props)
      [] node.op = "AND" ->
           FoldLeft(LAMBDA f, c : LET sub == translateMailboxFilter(c)
                                  IN  IF f.err \/ sub.err THEN badMailboxFilter
                                      ELSE mergeMailboxFilters(f, sub),
                    mailboxFilter, node.conds)
      [] OTHER -> badMailboxFilter

translateMailboxSort(sorts) ==
    CASE sorts = <<>> -> [err |-> FALSE, byName |-> FALSE, ascending |-> TRUE]
      [] Len(sorts) = 1 /\ sorts[1].property \in {"sortOrder", "name"} ->
            [err |-> FALSE, byName |-> sorts[1].property = "name", ascending |-> sorts[1].isAscending]
      [] OTHER -> [err |-> TRUE, byName |-> FALSE, ascending |-> TRUE]

less(a, b, ascending) == IF ascending THEN a < b ELSE a > b

sortMailboxRows(rows, order) ==
    SortSeq(rows, LAMBDA a, b :
        IF order.byName \/ a.order = b.order
        THEN IF a.name # b.name THEN less(a.name, b.name, order.ascending)
             ELSE less(a.id, b.id, order.ascending)
        ELSE less(a.order, b.order, order.ascending))

resolveMailboxStart(req, ids) ==
    LET n   == Len(ids)
        at  == { i \in 1..n : ids[i] = req.anchor }
        raw == IF req.anchor # 0 THEN (CHOOSE i \in at : TRUE) - 1 + req.offset
               ELSE IF req.position < 0 THEN req.position + n ELSE req.position
    IN  IF req.anchor # 0 /\ at = {} THEN -1 ELSE IF raw < 0 THEN 0 ELSE raw

handleMailboxQuery(req) ==
    LET page(ids, from) ==
            [kind |-> "page", position |-> from, total |-> Len(ids),
             ids |-> FirstOf(SubSeq(ids, from + 1, Len(ids)), effectiveQueryLimit(req.limit))]
        from(ids, start) == IF start = -1 THEN Refusal ELSE page(ids, clampStart(start, Len(ids)))
        found(ids) == from(ids, resolveMailboxStart(req, ids))
        idsOf(rows) == [i \in 1..Len(rows) |-> rows[i].id]
        list(filter, order) ==
            IF filter.err \/ order.err \/ req.asTree THEN Refusal
            ELSE found(idsOf(sortMailboxRows(SelectSeq(mail, LAMBDA r : matches(filter, r)), order)))
    IN  list(translateMailboxFilter(req.filter), translateMailboxSort(req.sort))

----------------------------------------------------------------------------
(* EmailSubmission.  A row is [id, sendAt, undo, destroyed]; the rows are   *)
(* in the order they were made.                                             *)

submissionNow == arrived

\* ORDER BY id DESC LIMIT: the newest rows, destroyed ones included
ListSendIntents == FirstOf(Reverse(mail), MaxObjectsInGet)

ListSubmissions == ListSendIntents

countScheduled ==
    Len(SelectSeq(ListSubmissions,
                  LAMBDA r : ~r.destroyed /\ r.undo = "pending" /\ r.sendAt > submissionNow))

\* a past date means "now", refused beyond MaxDelayedSend (the model's horizon)
parseSendAt(t) == IF t > submissionNow THEN t ELSE 0

NewSubmission(sendAt) == [id |-> Len(mail) + 1, sendAt |-> sendAt, undo |-> "pending", destroyed |-> FALSE]

\* the cap is not asked about
applySubmissionCreateUncapped(t) ==
    IF parseSendAt(t) = 0 THEN mail' = Append(mail, NewSubmission(submissionNow)) /\ UNCHANGED seen
    ELSE seen' = Append(seen, t) /\ UNCHANGED mail

(* An immediate send is enqueued at once (its undo window is shorter than a *)
(* tick of the clock).  A scheduled one first counts the                    *)
(* account's scheduled sends; its row is written by a later statement, and  *)
(* another request may count in between.                                    *)
applySubmissionCreate(t) ==
    IF parseSendAt(t) = 0 THEN mail' = Append(mail, NewSubmission(submissionNow)) /\ UNCHANGED seen
    ELSE /\ countScheduled < maxScheduledPerAccount
         /\ seen' = Append(seen, t) /\ UNCHANGED mail

Enqueue(k) ==
    /\ mail' = Append(mail, NewSubmission(seen[k]))
    /\ seen' = RemoveAt(seen, k)

\* the cancel succeeds only while the row is still queued
applySubmissionUpdate(i) ==
    /\ mail[i].undo = "pending" /\ ~mail[i].destroyed
    /\ mail' = [mail EXCEPT ![i].undo = "canceled"] /\ UNCHANGED seen

applySubmissionDestroy(i) ==
    /\ ~mail[i].destroyed
    /\ mail' = [mail EXCEPT ![i].destroyed = TRUE,
                            ![i].undo = IF @ = "pending" THEN "canceled" ELSE @]
    /\ UNCHANGED seen

handleSubmissionSet ==
    /\ topic = "submissions" /\ reply = NoReply
    /\ \/ /\ Len(mail) + Len(seen) < MaxSubmissions /\ Len(seen) < MaxCreators
          /\ \E t \in {0, 2} : applySubmissionCreate(t)
       \/ \E k \in 1..Len(seen) : Enqueue(k)
       \/ \E i \in 1..Len(mail) : applySubmissionUpdate(i) \/ applySubmissionDestroy(i)
    /\ UNCHANGED <<topic, query, reply, arrived>>

(* The executor (Outbox) sends what is due; time passes.                    *)
SubmissionsDue ==
    /\ topic = "submissions" /\ reply = NoReply /\ arrived < 2
    /\ arrived' = arrived + 1
    /\ mail' = [i \in 1..Len(mail) |-> IF mail[i].undo = "pending" /\ mail[i].sendAt <= arrived
                                       THEN [mail[i] EXCEPT !.undo = "final"] ELSE mail[i]]
    /\ UNCHANGED <<topic, query, reply, seen>>

submissionMatches(f, r) ==
    /\ ~r.destroyed
    /\ f.undoStatus # "" => r.undo = f.undoStatus
    /\ f.before # 0 => r.sendAt < f.before
    /\ f.after # 0 => r.sendAt >= f.after

parseSubmissionFilter(node) ==
    IF node.op \notin {"null", "condition"} THEN [err |-> TRUE]
    ELSE FoldLeft(LAMBDA f, p :
                CASE f.err -> f
                  [] ~f.err /\ p[1] \in {"undoStatus", "before", "after"} -> [f EXCEPT ![p[1]] = p[2]]
                  [] OTHER -> [f EXCEPT !.err = TRUE],
             [err |-> FALSE, undoStatus |-> "", before |-> 0, after |-> 0], node.props)

\* no comparator means newest first, one comparator means what it says
parseSubmissionSort(sort) ==
    CASE sort = <<>> -> [err |-> FALSE, descending |-> TRUE]
      [] Len(sort) = 1 /\ sort[1].property = "sentAt" -> [err |-> FALSE, descending |-> ~sort[1].isAscending]
      [] OTHER -> [err |-> TRUE, descending |-> FALSE]

\* sorted by the date alone, ties as they come
orderSubmissionsByDate(rows, descending) ==
    SortSeq(rows, LAMBDA a, b : IF descending THEN a.sendAt > b.sendAt ELSE a.sendAt < b.sendAt)

orderSubmissions(rows, descending) ==
    SortSeq(rows, LAMBDA a, b :
        IF a.sendAt # b.sendAt THEN (IF descending THEN a.sendAt > b.sendAt ELSE a.sendAt < b.sendAt)
        ELSE IF descending THEN a.id > b.id ELSE a.id < b.id)

handleSubmissionQuery(req) ==
    LET f    == parseSubmissionFilter(req.filter)
        s    == parseSubmissionSort(req.sort)
        rows == orderSubmissions(SelectSeq(ListSubmissions, LAMBDA r : submissionMatches(f, r)), s.descending)
        pos  == IF req.position > Len(rows) THEN Len(rows) ELSE req.position
        rest == SubSeq(rows, pos + 1, Len(rows))
        page == IF req.limit = -1 THEN rest
                ELSE FirstOf(rest, IF req.limit > MaxObjectsInGet THEN MaxObjectsInGet ELSE req.limit)
    IN  IF f.err \/ s.err \/ req.position < 0 THEN Refusal
        ELSE [kind |-> "page", position |-> pos, total |-> Len(rows),
              ids |-> [i \in 1..Len(page) |-> page[i].id]]

----------------------------------------------------------------------------
(* Quota.  A row is a QUOTA answer [root, resource, used, limit].           *)

quotaWireID(v) == IF v.resource = "MESSAGE" THEN "message" ELSE "storage"

\* an unlimited resource is shown as one with a limit of zero
ReadQuotaUnlimited == SelectSeq(mail, LAMBDA u : u.resource \in {"STORAGE", "MESSAGE"})

ReadQuota == SelectSeq(mail, LAMBDA u : u.limit > 0 /\ u.used >= 0 /\ u.resource \in {"STORAGE", "MESSAGE"})

handleQuotaGet(ids) ==
    LET known == { quotaWireID(v) : v \in ToSet(ReadQuota) }
        order == SelectSeq(<<"storage", "message">>, LAMBDA i : i \in known)
    IN  [kind |-> "quota", list |-> IF ids = <<>> THEN order ELSE SelectSeq(ids, LAMBDA i : i \in known),
         notFound |-> ToSet(ids) \ known]

quotaMatches(f, v) ==
    /\ f.name # 0 => v.root = f.name
    /\ f.scope \in {"", "account"}
    /\ f.resource # "" => v.resource = f.resource

quotaBefore(sort, a, b) ==
    LET differs == { k \in 1..Len(sort) : IF sort[k].property = "name" THEN a.root # b.root ELSE a.used # b.used }
        c       == sort[CHOOSE k \in differs : \A x \in differs : k <= x]
    IN  IF differs # {}
        THEN (IF c.property = "name" THEN a.root < b.root ELSE a.used < b.used) = c.isAscending
        ELSE a.resource = "MESSAGE" /\ b.resource # "MESSAGE"

handleQuotaQuery(req) ==
    LET rows == SortSeq(SelectSeq(ReadQuota, LAMBDA v : quotaMatches(req.filter, v)),
                        LAMBDA a, b : quotaBefore(req.sort, a, b))
    IN  IF \E k \in 1..Len(req.sort) : req.sort[k].property \notin {"name", "used"} THEN Refusal
        ELSE [kind |-> "page", position |-> 0, total |-> Len(rows),
              ids |-> [i \in 1..Len(rows) |-> quotaWireID(rows[i])]]

----------------------------------------------------------------------------
(* SieveScript/query.  A row is [id, name, active].                         *)

\* isAscending is not looked at
scriptBeforeFirst(sort, a, b) ==
    IF sort # <<>> /\ sort[1].property = "isActive" THEN ~a.active /\ b.active ELSE a.name < b.name

scriptBefore(sort, a, b) ==
    LET by      == IF sort = <<>> THEN <<[property |-> "name", isAscending |-> TRUE]>> ELSE sort
        differs == { k \in 1..Len(by) : IF by[k].property = "name" THEN a.name # b.name ELSE a.active # b.active }
        c       == by[CHOOSE k \in differs : \A x \in differs : k <= x]
    IN  IF differs = {} THEN a.id < b.id
        ELSE (IF c.property = "name" THEN a.name < b.name ELSE ~a.active /\ b.active) = c.isAscending

handleSieveScriptQuery(req) ==
    LET ids(page) == [i \in 1..Len(page) |-> page[i].id]
        window(rest) == IF req.limit = -1 THEN rest ELSE FirstOf(rest, req.limit)
        page(rows, pos) ==
            [kind |-> "page", position |-> pos, total |-> Len(rows),
             ids |-> ids(window(SubSeq(rows, pos + 1, Len(rows))))]
        from(n) == IF req.position >= 0 THEN req.position ELSE IF req.position + n < 0 THEN 0 ELSE req.position + n
        found(rows) == page(rows, clampStart(from(Len(rows)), Len(rows)))
    IN  IF \E k \in 1..Len(req.sort) : req.sort[k].property \notin {"name", "isActive"} THEN Refusal
        ELSE found(SortSeq(SelectSeq(mail, LAMBDA s : /\ req.filter.name # 0 => s.name = req.filter.name
                                                      /\ req.filter.active # "" => s.active = (req.filter.active = "yes")),
                           LAMBDA a, b : scriptBefore(req.sort, a, b)))

----------------------------------------------------------------------------
by(p, up) == [property |-> p, isAscending |-> up]
ListTopics == {"mailboxes", "submissions", "quota", "scripts"}

ListInit ==
    /\ topic \in ListTopics
    /\ query = NoReply /\ reply = NoReply /\ seen = <<>> /\ arrived = 0
    /\ CASE topic = "mailboxes" ->
              \E name \in {<<1, 1, 2>>, <<1, 2, 1>>, <<2, 1, 1>>}, order \in [2..3 -> 2..3],
                 par \in [2..3 -> 0..1], r2 \in {"", "trash"} :
                \E perm \in {<<1, 2, 3>>, <<3, 1, 2>>} :
                 mail = [k \in 1..3 |-> LET i == perm[k] IN
                          [id |-> i, name |-> name[i], order |-> IF i = 1 THEN 1 ELSE order[i],
                           parent |-> IF i = 1 THEN 0 ELSE par[i],
                           role |-> IF i = 1 THEN "inbox" ELSE IF i = 2 THEN r2 ELSE "", sub |-> i # 3]]
         [] topic = "submissions" -> mail = <<>>
         [] topic = "quota" ->
              \E root \in {<<1, 1, 1>>, <<1, 2, 1>>}, used \in [1..2 -> 0..2], lim \in [1..2 -> 0..2], n \in 0..3 :
                 mail = [i \in 1..n |-> [root |-> root[i], used |-> IF i = 3 THEN 1 ELSE used[i] - 1,
                                         resource |-> <<"MESSAGE", "STORAGE", "X-NUM">>[i],
                                         limit |-> IF i = 3 THEN 1 ELSE lim[i] - 1]]
         [] topic = "scripts" ->
              \E n \in 0..3, name \in [1..3 -> 1..3], act \in 0..3 :
                 /\ IsInjective(name)
                 /\ mail = [i \in 1..n |-> [id |-> i, name |-> name[i], active |-> i = act]]

MailboxProps == {<<"parentId", 0>>, <<"parentId", 1>>, <<"role", "">>, <<"role", "inbox">>,
                 <<"hasAnyRole", "yes">>, <<"hasAnyRole", "no">>, <<"isSubscribed", "yes">>, <<"name", 1>>}
MailboxTrees == { cond(<<p>>) : p \in MailboxProps } \cup {Null, cond(<<>>), Oper("OR", <<Null>>)}
   \cup { Oper("AND", <<cond(<<p>>), cond(<<q>>)>>) : p \in MailboxProps, q \in MailboxProps }

ListWindows == { [position |-> p, anchor |-> 0, offset |-> 0, limit |-> l] : p \in -2..4, l \in {-1, 0, 1, 3} }
   \cup { [position |-> 0, anchor |-> a, offset |-> o, limit |-> 1] : a \in 1..4, o \in -1..1 }

ListSorts(props) == {<<>>} \cup { <<by(p, up)>> : p \in props, up \in BOOLEAN }
   \cup { <<by(p, TRUE), by(q, FALSE)>> : p \in props, q \in props }

WholeList == [position |-> 0, anchor |-> 0, offset |-> 0, limit |-> -1]

AskMailboxes ==
    /\ topic = "mailboxes" /\ reply = NoReply
    /\ \E q \in { w @@ [filter |-> cond(<<>>), sort |-> s, asTree |-> FALSE] :
                    w \in ListWindows, s \in {<<>>, <<by("name", FALSE)>>} }
             \cup { WholeList @@ [filter |-> f, sort |-> s, asTree |-> t] :
                    f \in MailboxTrees, s \in {<<>>, <<by("sortOrder", FALSE)>>}, t \in BOOLEAN }
             \cup { WholeList @@ [filter |-> Null, sort |-> s, asTree |-> FALSE] :
                    s \in ListSorts({"sortOrder", "name", "id"}) } :
         query' = q /\ reply' = handleMailboxQuery(q)
    /\ UNCHANGED <<topic, mail, seen, arrived>>

\* a query reads the rows alone: creates that have yet to write theirs are left out
AskSubmissions ==
    /\ topic = "submissions" /\ reply = NoReply /\ seen = <<>>
    /\ \E q \in { [filter |-> f, sort |-> s, position |-> 0, limit |-> -1] :
                    f \in {cond(<<<<"undoStatus", "pending">>>>), cond(<<<<"before", 1>>, <<"undoStatus", "final">>>>),
                           cond(<<<<"after", 1>>>>), cond(<<<<"emailIds", 1>>>>), Oper("AND", <<Null>>)},
                    s \in {<<>>, <<by("threadId", TRUE)>>} }
             \cup { [filter |-> Null, sort |-> s, position |-> p, limit |-> l] :
                    s \in {<<>>, <<by("sentAt", TRUE)>>, <<by("sentAt", FALSE)>>}, p \in -1..2, l \in {-1, 1} } :
         query' = q /\ reply' = handleSubmissionQuery(q)
    /\ UNCHANGED <<topic, mail, seen, arrived>>

AskQuota ==
    /\ topic = "quota" /\ reply = NoReply
    /\ \/ \E ids \in {<<>>, <<"message">>, <<"other", "storage">>} :
            /\ query' = [filter |-> "get", ids |-> ids]
            /\ reply' = handleQuotaGet(ids)
       \/ \E n \in {0, 1}, sc \in {"", "account", "domain"}, r \in {"", "STORAGE"},
             s \in ListSorts({"name", "used"}) :
            LET q == [filter |-> [name |-> n, scope |-> sc, resource |-> r], sort |-> s]
            IN  query' = q /\ reply' = handleQuotaQuery(q)
    /\ UNCHANGED <<topic, mail, seen, arrived>>

AskScripts ==
    /\ topic = "scripts" /\ reply = NoReply
    /\ \E n \in {0, 2}, a \in {"", "yes", "no"}, s \in ListSorts({"name", "isActive", "size"}), p \in -2..3, l \in {-1, 1} :
         LET q == [filter |-> [name |-> n, active |-> a], sort |-> s, position |-> p, limit |-> l]
         IN  query' = q /\ reply' = handleSieveScriptQuery(q)
    /\ UNCHANGED <<topic, mail, seen, arrived>>

ListNext == handleSubmissionSet \/ SubmissionsDue \/ AskMailboxes \/ AskSubmissions \/ AskQuota \/ AskScripts

----------------------------------------------------------------------------
\* RFC 8621, 2.3
MailboxHolds(p, r) ==
    CASE p[1] = "parentId" -> r.parent = p[2]
      [] p[1] = "role" -> r.role = p[2]
      [] p[1] = "hasAnyRole" -> (r.role # "") = (p[2] = "yes")
      [] p[1] = "isSubscribed" -> r.sub = (p[2] = "yes")

RECURSIVE MailboxMeaning(_, _)
MailboxMeaning(t, r) == /\ \A i \in 1..Len(t.props) : MailboxHolds(t.props[i], r)
                        /\ \A i \in 1..Len(t.conds) : MailboxMeaning(t.conds[i], r)

\* the folder's rank: how many matching folders come before it
MailboxRank(r, S) ==
    LET c    == IF query.sort = <<>> THEN by("sortOrder", TRUE) ELSE query.sort[1]
        key(x) == (IF c.property = "name" THEN 0 ELSE x.order * 100) + x.name * 10 + x.id
    IN  Cardinality({ x \in S : IF c.isAscending THEN key(x) < key(r) ELSE key(x) > key(r) })

(* Mailbox/query lists exactly the folders the filter describes, in one     *)
(* total order that does not depend on how the store returned them, cut by  *)
(* position, anchor and limit; two contradictory conditions are refused     *)
(* (translateMailboxFilter, sortMailboxRows, resolveMailboxStart).          *)
MailboxPageRight ==
    topic = "mailboxes" /\ reply.kind = "page" =>
        LET S    == { r \in ToSet(mail) : MailboxMeaning(query.filter, r) }
            list == [k \in 1..Cardinality(S) |-> (CHOOSE r \in S : MailboxRank(r, S) = k - 1).id]
        IN  reply.ids = Asked(list) /\ reply.total = Cardinality(S)

LiveSubmissions(f) ==
    { r \in ToSet(mail) : /\ ~r.destroyed
                          /\ \A i \in 1..Len(f.props) :
                               CASE f.props[i][1] = "undoStatus" -> r.undo = f.props[i][2]
                                 [] f.props[i][1] = "before" -> r.sendAt < f.props[i][2]
                                 [] f.props[i][1] = "after" -> r.sendAt >= f.props[i][2] }

SubmissionsRight ==
    LET S    == LiveSubmissions(query.filter)
        up   == query.sort # <<>> /\ query.sort[1].isAscending
        key(r) == r.sendAt * 100 + r.id
        list == SetToSortSeq(S, LAMBDA a, b : IF up THEN key(a) < key(b) ELSE key(a) > key(b))
        rest == SubSeq(list, query.position + 1, Len(list))
    IN  /\ reply.ids = [i \in 1..(IF query.limit = -1 \/ query.limit > Len(rest) THEN Len(rest) ELSE query.limit) |-> rest[i].id]
        /\ reply.total = Cardinality(S)

(* As long as the account has no more submissions than one listing reads,   *)
(* the Scheduled view and every other EmailSubmission/query shows exactly   *)
(* the live submissions that match, in an order two requests agree on       *)
(* (handleSubmissionQuery).                                                 *)
SubmissionPageRight ==
    topic = "submissions" /\ reply.kind = "page" /\ Len(mail) <= MaxObjectsInGet => SubmissionsRight

Scheduled == { r \in ToSet(mail) : ~r.destroyed /\ r.undo = "pending" /\ r.sendAt > submissionNow }

(* An account with no more submissions than one listing reads holds more    *)
(* scheduled sends than the limit only by creates that counted while        *)
(* another was between its count and its row, at most MaxCreators - 1 of    *)
(* them, however sends are created, cancelled, destroyed and released       *)
(* (countScheduled, applySubmissionCreate).  Beyond one listing the count   *)
(* is of the newest rows, sent ones included, and the limit is not kept:    *)
(* submission.go:1042-1044 says "the count is exact for every state the cap *)
(* can actually refuse".                                                    *)
ScheduledWithinCap ==
    topic = "submissions" /\ Len(mail) <= MaxObjectsInGet =>
        Cardinality(Scheduled) + Len(seen) < maxScheduledPerAccount + MaxCreators

(* Quota/get shows exactly the resources that really have a limit, and      *)
(* every object a Quota/query names is one that Quota/get would show        *)
(* (ReadQuota, handleQuotaGet, handleQuotaQuery).                           *)
QuotaHonest ==
    topic = "quota" =>
        LET limited == { quotaWireID(v) : v \in { x \in ToSet(mail) : x.limit > 0 /\ x.used >= 0 /\ x.resource # "X-NUM" } }
        IN  /\ reply.kind = "quota" =>
                 IF query.ids = <<>> THEN ToSet(reply.list) = limited
                 ELSE ToSet(reply.list) = ToSet(query.ids) \cap limited /\ reply.notFound = ToSet(query.ids) \ limited
            /\ reply.kind = "page" => ToSet(reply.ids) \subseteq limited

(* SieveScript/query lists each matching script once, and two neighbours of *)
(* a page are never in the opposite of the order the comparators ask for    *)
(* (handleSieveScriptQuery).                                                *)
ScriptPageRight ==
    topic = "scripts" /\ reply.kind = "page" =>
        LET row(i) == mail[reply.ids[i]]
        IN  /\ IsInjective(reply.ids)
            /\ \A i \in 1..(Len(reply.ids) - 1) :
                 LET a == row(i) b == row(i + 1)
                     c == IF query.sort = <<>> THEN by("name", TRUE) ELSE query.sort[1]
                 IN  IF c.property = "name" THEN a.name # b.name /\ (a.name < b.name) = c.isAscending
                     ELSE a.active # b.active => b.active = c.isAscending
            /\ reply.total = Cardinality({ s \in ToSet(mail) : /\ query.filter.name \in {0, s.name}
                                                               /\ query.filter.active # "" => s.active = (query.filter.active = "yes") })

\* What each query answers is what its reference definition says: the filter,
\* the window, the total, the union and the collapsed list of Email/query, the
\* pager over arriving mail, the snippets, and the pages of mailboxes,
\* submissions, quotas and scripts.
QueriesSafe ==
    /\ QueriesTypeOK /\ FilterFaithful /\ PageIsWindow /\ TotalExact /\ UnionOnce
    /\ ConversationsOnce /\ PagerMissesNothing /\ SnippetBalanced /\ MailboxPageRight
    /\ SubmissionPageRight /\ ScheduledWithinCap /\ QuotaHonest /\ ScriptPageRight
=============================================================================
