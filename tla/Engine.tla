------------------------------- MODULE Engine -------------------------------
(***************************************************************************)
(* The JMAP request engine (jmap/dispatch.go, backref.go, created.go,      *)
(* types.go): one request is parsed, checked, and its calls are run in     *)
(* order, each seeing the responses before it.  The handlers are those of  *)
(* the other modules; here a handler answers, fails, panics or produces    *)
(* what it may not, and may create a record or name one that was created.  *)
(* A call is chosen when it is reached: before that only the number of     *)
(* calls matters.  A JSON value is an object, an array or a leaf; an       *)
(* argument name is a pair of its number of leading # and the rest.        *)
(***************************************************************************)
EXTENDS Integers, Sequences, SequencesExt, FiniteSets, TLC

CONSTANTS MaxCallsInRequest,   \* limits.go
          MaxEscaped,          \* characters of a pointer token
          Supported,           \* capabilities of this server
          Uses,                \* what a request may list in using
          Calls,               \* topic -> the calls a request of it is made of
          Documents,           \* JSON values pointers are evaluated over
          Pointers             \* token sequences

ASSUME EngineAssumption == {MaxCallsInRequest, MaxEscaped} \subseteq Nat

VARIABLE eng

(***************************************************************************)
(* JSON values.                                                            *)
(***************************************************************************)

Leaf(v) == [t |-> "leaf", v |-> v]
Arr(s)  == [t |-> "arr", e |-> s]
Obj(f)  == [t |-> "obj", m |-> f]

\* A value, or nothing: a Go (value, error) pair.
Ok(v) == <<v>>
Failed == <<>>

isJSONObject(v) == v.t = "obj"

(***************************************************************************)
(* JSON pointers with * (RFC 6901, RFC 8620 3.7).                          *)
(***************************************************************************)

\* What strconv.Atoi reads as an index: the decimals, and signed spellings of
\* them; every other token (a leading zero, a minus) names none.
Decimals == [d \in {"0", "1", "2", "+1", "-0"} |->
               CASE d \in {"0", "-0"} -> 0 [] d \in {"1", "+1"} -> 1 [] d = "2" -> 2]

arrayIndex(token, length) ==
  IF token \in DOMAIN Decimals /\ Decimals[token] < length THEN Ok(Decimals[token]) ELSE Failed

RECURSIVE evalTokens(_, _)

\* A * maps the rest over the elements; an element that is itself an array is
\* spliced in; one element that fails fails the whole.
mapElementsNested(node, rest) ==
  LET each == [i \in DOMAIN node.e |-> evalTokens(node.e[i], rest)] IN
  IF \E i \in DOMAIN each : each[i] = Failed THEN Failed
  ELSE Ok(Arr([i \in DOMAIN each |-> each[i][1]]))

mapElements(node, rest) ==
  LET each == [i \in DOMAIN node.e |-> evalTokens(node.e[i], rest)] IN
  IF \E i \in DOMAIN each : each[i] = Failed THEN Failed
  ELSE Ok(Arr(FlattenSeq([i \in DOMAIN each |-> IF each[i][1].t = "arr" THEN each[i][1].e
                                                ELSE <<each[i][1]>>])))

evalTokens(doc, tokens) ==
  IF tokens = <<>> THEN Ok(doc)
  ELSE LET token == Head(tokens) rest == Tail(tokens) IN
       CASE doc.t = "obj" -> IF token \in DOMAIN doc.m THEN evalTokens(doc.m[token], rest) ELSE Failed
         [] doc.t = "arr" -> IF token = "*" THEN mapElements(doc, rest)
                             ELSE LET i == arrayIndex(token, Len(doc.e))
                                  IN  IF i = Failed THEN Failed ELSE evalTokens(doc.e[i[1] + 1], rest)
         [] OTHER -> Failed

\* strings.ReplaceAll of a two-character code by one character, left to right.
RECURSIVE ReplaceCode(_, _, _)
ReplaceCode(s, code, by) ==
  CASE Len(s) < 2 -> s
    [] Len(s) >= 2 /\ SubSeq(s, 1, 2) = code -> <<by>> \o ReplaceCode(SubSeq(s, 3, Len(s)), code, by)
    [] OTHER -> <<s[1]>> \o ReplaceCode(Tail(s), code, by)

unescapeTokenTildeFirst(s) == ReplaceCode(ReplaceCode(s, <<"~", "0">>, "~"), <<"~", "1">>, "/")

unescapeToken(s) == ReplaceCode(ReplaceCode(s, <<"~", "1">>, "/"), <<"~", "0">>, "~")

\* pointer is "" or a path; what starts with anything but / is refused.
evalPointer(doc, pointer) ==
  IF pointer.slash THEN evalTokens(doc, pointer.tokens)
  ELSE IF pointer.tokens = <<>> THEN Ok(doc) ELSE Failed

(***************************************************************************)
(* Result references.                                                      *)
(***************************************************************************)

Invocation(name, args, id) == [name |-> name, args |-> args, id |-> id]

MethodError(code, id) == Invocation("error", Obj("type" :> Leaf(code)), id)

resolveReferenceLast(ref, prior) ==
  LET mine == {i \in DOMAIN prior : prior[i].id = ref.resultOf} IN
  IF mine = {} THEN Failed
  ELSE LET found == prior[CHOOSE i \in mine : \A j \in mine : j <= i] IN
       IF found.name # ref.name THEN Failed ELSE evalPointer(found.args, ref.path)

\* The FIRST response of that call decides; an error response has the name
\* "error" and so never matches.
resolveReference(ref, prior) ==
  LET mine == {i \in DOMAIN prior : prior[i].id = ref.resultOf} IN
  IF mine = {} THEN Failed
  ELSE LET found == prior[CHOOSE i \in mine : \A j \in mine : i <= j] IN
       IF found.name # ref.name THEN Failed ELSE evalPointer(found.args, ref.path)

Plain(name) == <<name[1] - 1, name[2]>>

\* The # arguments in the order the map happens to yield them: [args] or [code].
RECURSIVE resolveInOrder(_, _, _)
resolveInOrder(order, fields, prior) ==
  IF order = <<>> THEN [code |-> "none", args |-> fields]
  ELSE LET name == Head(order)
           value == fields[name]
           got == IF value.t = "ref" THEN resolveReference(value, prior) ELSE Failed
           rest == [n \in DOMAIN fields \ {name} |-> fields[n]]
       IN  CASE Plain(name) \in DOMAIN fields -> [code |-> "invalidArguments", args |-> <<>>]
             [] Plain(name) \notin DOMAIN fields /\ got = Failed ->
                  [code |-> "invalidResultReference", args |-> <<>>]
             [] OTHER -> resolveInOrder(Tail(order), (Plain(name) :> got[1]) @@ rest, prior)

ResolveBackReferences(fields, prior) ==
  {resolveInOrder(order, fields, prior) : order \in SetToSeqs({n \in DOMAIN fields : n[1] > 0})}

(***************************************************************************)
(* Creation ids: client-chosen names of records made in this request.      *)
(***************************************************************************)

NewCreationIDs(seed) == seed

Record(created, key, id) == (key :> id) @@ created

ResolveUnchecked(created, key) == Ok(key)

Resolve(created, key) == IF key \in DOMAIN created THEN Ok(created[key]) ELSE Failed

Snapshot(created) == created

(***************************************************************************)
(* The methods.  What a handler may do with its arguments is given by the  *)
(* call itself: the creations it makes, the creation id it needs, and its  *)
(* outcomes, each a sequence of named results, an error or a panic.        *)
(***************************************************************************)

\* A repeated name or an empty part panics at start-up, so this is a function.
Registry == [m \in {"Core/echo", "Email/query", "Email/get", "EmailSubmission/set"} |->
               [capability |-> CASE m = "Core/echo" -> "core" [] m = "EmailSubmission/set" -> "submission"
                                 [] OTHER -> "mail",
                multi |-> m = "EmailSubmission/set"]]

Method(code) == [results |-> <<>>, code |-> code]

\* A panic below is an error of this call and of no other.
safeCallMulti(outcome) ==
  CASE outcome.how = "panics" -> Method("serverFail")
    [] outcome.how = "refuses" -> Method("invalidArguments")
    [] outcome.how = "answers" -> [results |-> outcome.results, code |-> "none"]

\* A plain handler's one result goes out under the name of the call.
safeCall(call, outcome) ==
  LET got == safeCallMulti(outcome)
  IN  [got EXCEPT !.results = [i \in DOMAIN @ |-> [name |-> call.name, doc |-> @[i].doc]]]

\* What a call whose arguments are resolved answers, given the handler's outcome.
AnswerSkipping(call, got) ==
  IF got.code # "none" THEN <<MethodError(got.code, call.id)>>
  ELSE [i \in DOMAIN got.results |-> Invocation(got.results[i].name, got.results[i].doc, call.id)]

AnswerOmittingEmpty(call, got) ==
  IF got.code # "none" THEN <<MethodError(got.code, call.id)>>
  ELSE IF \E i \in DOMAIN got.results : ~isJSONObject(got.results[i].doc)
       THEN <<MethodError("serverFail", call.id)>>
       ELSE [i \in DOMAIN got.results |-> Invocation(got.results[i].name, got.results[i].doc, call.id)]

Answer(call, got) ==
  IF got.code # "none" THEN <<MethodError(got.code, call.id)>>
  ELSE IF got.results = <<>> \/ \E i \in DOMAIN got.results : ~isJSONObject(got.results[i].doc)
       THEN <<MethodError("serverFail", call.id)>>
       ELSE [i \in DOMAIN got.results |-> Invocation(got.results[i].name, got.results[i].doc, call.id)]

\* [out, ran, args, created]: the responses of one call and what it did.
Refuse(call, code, created) ==
  [out |-> <<MethodError(code, call.id)>>, ran |-> FALSE, args |-> <<>>, created |-> created]

MayRun(name, using) == name \in DOMAIN Registry /\ Registry[name].capability \in using

\* A handler that needs a creation id it cannot resolve refuses its record; one
\* that creates records it for the calls after it.
Run(call, args, outcome, created) ==
  LET named == call.needs = <<>> \/ Resolve(created, call.needs[1]) # Failed
      got == IF ~named THEN Method("invalidArguments")
             ELSE IF Registry[call.name].multi THEN safeCallMulti(outcome) ELSE safeCall(call, outcome)
      made == got.code = "none" /\ call.makes # <<>>
  IN  [out |-> Answer(call, got), ran |-> TRUE, args |-> args,
       created |-> IF made THEN Record(created, call.makes[1], call.id) ELSE created]

dispatchOne(call, outcome, using, prior, created) ==
  IF ~MayRun(call.name, using) THEN {Refuse(call, "unknownMethod", created)}
  ELSE {IF resolved.code # "none" THEN Refuse(call, resolved.code, created)
        ELSE Run(call, resolved.args, outcome, created) :
          resolved \in ResolveBackReferences(call.args, prior)}

(***************************************************************************)
(* One request.                                                            *)
(***************************************************************************)

NoRun == [call |-> <<>>, args |-> <<>>, from |-> 0, ran |-> FALSE]

\* shape is what the body turned out to be; n its number of calls.
Request(topic, shape, using, n, given, seed) ==
  [pc |-> "read", topic |-> topic, shape |-> shape, using |-> using, left |-> n, n |-> n,
   given |-> given, seed |-> seed, created |-> <<>>, responses |-> <<>>, last |-> NoRun,
   answer |-> <<>>, question |-> <<>>]

\* "notJSON": not UTF-8, not JSON, of the wrong types, or followed by more;
\* "notRequest": using or methodCalls missing, or a call that is no triple.
ParseRequest(shape) == IF shape \in {"notJSON", "notRequest"} THEN shape ELSE "none"

\* The checks before any call runs, in their order.
RequestError(r) ==
  IF ParseRequest(r.shape) # "none" THEN ParseRequest(r.shape)
  ELSE IF ~(r.using \subseteq Supported) THEN "unknownCapability"
  ELSE IF r.n > MaxCallsInRequest THEN "limit" ELSE "none"

ProcessBegin ==
  /\ eng.pc = "read"
  /\ eng' = IF RequestError(eng) # "none" THEN [eng EXCEPT !.pc = "refused", !.answer = <<RequestError(eng)>>]
            ELSE [eng EXCEPT !.pc = "running", !.created = NewCreationIDs(eng.seed)]

\* The next call runs to its end before the one after it starts.
ProcessCall ==
  /\ eng.pc = "running" /\ eng.left > 0
  /\ \E call \in Calls[eng.topic] : \E outcome \in call.outcomes :
     \E d \in dispatchOne(call, outcome, eng.using, eng.responses, eng.created) :
       eng' = [eng EXCEPT !.left = @ - 1, !.responses = @ \o d.out, !.created = d.created,
                          !.last = [call |-> <<call>>, args |-> d.args, from |-> Len(eng.responses),
                                    ran |-> d.ran]]

\* Response.MarshalJSON: createdIds is in the answer exactly when the request had one.
RespondAlways(r) == <<[methodResponses |-> r.responses, createdIds |-> <<Snapshot(r.created)>>]>>

Respond(r) == <<[methodResponses |-> r.responses,
                 createdIds |-> IF r.given THEN <<Snapshot(r.created)>> ELSE <<>>]>>

ProcessEnd ==
  /\ eng.pc = "running" /\ eng.left = 0
  /\ eng' = [eng EXCEPT !.pc = "done", !.answer = Respond(eng)]

\* A pointer evaluated, or a token unescaped, on its own.
Evaluate ==
  /\ eng.pc = "ask"
  /\ eng' = [eng EXCEPT !.pc = "told",
               !.answer = IF eng.topic = "pointer" THEN evalTokens(eng.question[1], eng.question[2])
                          ELSE unescapeToken(eng.question[1])]

Ask(topic, q) == [Request(topic, "ok", {}, 0, FALSE, <<>>) EXCEPT !.pc = "ask", !.question = q]

EscapeChars == {"~", "0", "1", "/", "a"}

EngineInit ==
  \/ \E u \in Uses, n \in 0..MaxCallsInRequest + 1, shape \in {"ok", "notJSON", "notRequest"} :
       eng = Request("using", shape, u, n, FALSE, <<>>)
  \/ \E n \in 1..MaxCallsInRequest : eng = Request("refs", "ok", Supported, n, FALSE, <<>>)
  \/ \E n \in 1..MaxCallsInRequest, given \in BOOLEAN, seed \in {<<>>, "k" :> "old"} :
       /\ seed # <<>> => given
       /\ eng = Request("created", "ok", Supported, n, given, seed)
  \/ \E d \in Documents, p \in Pointers : eng = Ask("pointer", <<d, p>>)
  \/ \E s \in UNION {[1..k -> EscapeChars] : k \in 0..MaxEscaped} : eng = Ask("token", <<s>>)

EngineNext == ProcessBegin \/ ProcessCall \/ ProcessEnd \/ Evaluate

EngineSpec == EngineInit /\ [][EngineNext]_eng

(***************************************************************************)
(* Properties                                                              *)
(***************************************************************************)

\* Type invariant of the engine's request record.
EngineTypeOK ==
  /\ eng.pc \in {"read", "running", "refused", "done", "ask", "told"}
  /\ eng.left \in 0..eng.n /\ eng.given \in BOOLEAN
  /\ \A i \in DOMAIN eng.responses : isJSONObject(eng.responses[i].args)

\* dispatchOne answers each call in its turn: a step adds at least one response,
\* all of them under the id of the call it ran, and touches none of those before;
\* a panicking, failing or empty handler costs its own call and no other.
AnsweredInTurn ==
  [][eng'.last # eng.last \/ eng'.left # eng.left =>
       /\ IsPrefix(eng.responses, eng'.responses)
       /\ Len(eng'.responses) > Len(eng.responses)
       /\ \A i \in Len(eng.responses) + 1..Len(eng'.responses) :
            eng'.responses[i].id = eng'.last.call[1].id]_eng

\* The responses a reference to call id may look at: those before position upto.
FirstResponseOf(id, upto) ==
  LET mine == {i \in 1..upto : eng.responses[i].id = id}
  IN  IF mine = {} THEN 0 ELSE CHOOSE i \in mine : \A j \in mine : i <= j

\* ResolveBackReferences: a call that ran had each # argument replaced by the value
\* its path has in the first earlier response of the call it names, that response
\* carried the method name the reference expects and was no error, and no argument
\* was given in both forms; every other argument is as the client sent it.
ReferencesLookBack ==
  eng.last.ran =>
    LET sent == eng.last.call[1].args
        got == eng.last.args
        refs == {n \in DOMAIN sent : n[1] = 1}
    IN  /\ DOMAIN got = {<<0, n[2]>> : n \in DOMAIN sent}
        /\ Cardinality(DOMAIN got) = Cardinality(DOMAIN sent)
        /\ \A n \in DOMAIN sent \ refs : got[n] = sent[n]
        /\ \A n \in refs :
             LET at == FirstResponseOf(sent[n].resultOf, eng.last.from) IN
             /\ at > 0 /\ eng.responses[at].name = sent[n].name /\ eng.responses[at].name # "error"
             /\ <<got[<<0, n[2]>>]>> = evalPointer(eng.responses[at].args, sent[n].path)

\* CreationIDs: the answer carries createdIds exactly when the request did; every
\* name the client seeded or a call created is in it, a later creation of the same
\* name wins, and nothing else is.
CreatedKept ==
  eng.pc = "done" =>
    LET told == eng.answer[1].createdIds
        makers == {i \in DOMAIN eng.responses : eng.responses[i].name = "Email/query"
                                                 /\ eng.topic = "created"}
        newest == CHOOSE i \in makers : \A j \in makers : j <= i
    IN  /\ (told # <<>>) <=> eng.given
        /\ told # <<>> =>
             told[1] = IF makers # {} THEN "k" :> eng.responses[newest].id ELSE eng.seed

\* A call that names #k is answered without an error only if k was seeded or made
\* by an earlier call of the same request, whether or not the ids are reported.
NamesNeedCreation ==
  eng.last.ran /\ eng.last.call[1].needs # <<>> /\ Last(eng.responses).name # "error" =>
    \/ eng.seed # <<>>
    \/ \E i \in 1..eng.last.from : eng.responses[i].name = "Email/query"

\* The concrete paths a pointer with * stands for in a document: each * that meets an
\* array becomes each of its indexes in turn.
RECURSIVE Concrete(_, _)
Concrete(doc, tokens) ==
  IF tokens = <<>> THEN <<(<<>>)>>
  ELSE LET token == Head(tokens)
           Under(name, child) == LET below == Concrete(child, Tail(tokens))
                                 IN  [i \in DOMAIN below |-> <<name>> \o below[i]]
           index(i) == CHOOSE d \in {"0", "1", "2"} : Decimals[d] = i - 1
       IN  CASE doc.t = "arr" /\ token = "*" ->
                  FlattenSeq([i \in DOMAIN doc.e |-> Under(index(i), doc.e[i])])
             [] doc.t = "obj" /\ token \in DOMAIN doc.m -> Under(token, doc.m[token])
             [] doc.t = "arr" /\ (\E i \in DOMAIN doc.e : index(i) = token) ->
                  Under(token, doc.e[CHOOSE i \in DOMAIN doc.e : index(i) = token])
             [] OTHER -> <<tokens>>

\* evalPointer: a pointer with * means the concrete pointers it stands for, in document
\* order, arrays among their values spliced in once; it fails if one of them fails.  A
\* pointer without * means the one value it leads to.  A signed index is taken as the code
\* takes it: arrayIndex accepts +1 and -0, where backref.go:213-214 says "decimal digits
\* without a leading zero".
PointerMeansPaths ==
  eng.pc = "told" /\ eng.topic = "pointer" =>
    LET doc == eng.question[1]
        path == eng.question[2]
        paths == Concrete(doc, path)
        values == [i \in DOMAIN paths |-> evalTokens(doc, paths[i])]
        starred == \E k \in DOMAIN path :
                     path[k] = "*" /\ LET node == evalTokens(doc, SubSeq(path, 1, k - 1))
                                      IN  node # Failed /\ node[1].t = "arr"
    IN  IF \E i \in DOMAIN values : values[i] = Failed THEN eng.answer = Failed
        ELSE IF ~starred THEN eng.answer = values[1]
        ELSE eng.answer = Ok(Arr(FlattenSeq([i \in DOMAIN values |->
               IF values[i][1].t = "arr" THEN values[i][1].e ELSE <<values[i][1]>>])))

\* RFC 6901 escaping, the inverse unescapeToken must have.
Escaped(s) == FlattenSeq([i \in DOMAIN s |-> CASE s[i] = "~" -> <<"~", "0">>
                                              [] s[i] = "/" -> <<"~", "1">>
                                              [] OTHER -> <<s[i]>>])

\* Every member name can be reached: unescapeToken undoes the escaping of any name,
\* whatever mix of ~, /, 0 and 1 it holds.
EveryNameReachable ==
  eng.pc = "told" /\ eng.topic = "token" => unescapeToken(Escaped(eng.question[1])) = eng.question[1]

\* One request's calls: references look back to the response they name, names
\* need their creation and are reported once, and a pointer means the values
\* its paths lead to (backref.go, created.go).
EngineSafe ==
  /\ EngineTypeOK /\ ReferencesLookBack /\ CreatedKept /\ NamesNeedCreation
  /\ PointerMeansPaths /\ EveryNameReachable
=============================================================================
