------------------------------ MODULE MCEngine ------------------------------
(* Requests of up to three calls, and the documents pointers are tried on. *)
EXTENDS Engine

IdList == Obj("ids" :> Arr(<<Leaf("1"), Leaf("2")>>))
List == Obj("list" :> Arr(<<Obj("ids" :> Arr(<<Leaf("1")>>)), Obj("ids" :> Arr(<<Leaf("2"), Leaf("3")>>))>>))

Call(name, id, args, outcomes) ==
  [name |-> name, id |-> id, args |-> args, outcomes |-> outcomes, needs |-> <<>>, makes |-> <<>>]

BackRef(id, name, tokens) ==
  [t |-> "ref", resultOf |-> id, name |-> name, path |-> [slash |-> tokens # <<>>, tokens |-> tokens]]

Answers(results) == [how |-> "answers", results |-> results]
Panics == [how |-> "panics", results |-> <<>>]
Refuses == [how |-> "refuses", results |-> <<>>]
Gives(doc) == {Answers(<<[name |-> "", doc |-> doc]>>)}

NoArgs == [x \in {} |-> 0]
OneRef(r) == <<1, "ids">> :> r

Referring ==
  {Call("Email/get", "a", OneRef(BackRef("a", name, path)), Gives(List)) :
     name \in {"Email/query", "Email/get", "Email/set", "error"}, path \in {<<"ids">>, <<"list", "*", "ids">>}}
    \cup
  {Call("Email/get", "b", OneRef(BackRef("a", name, <<"ids", "*">>)), Gives(List) \cup {Refuses}) :
     name \in {"Email/query", "Email/set"}}
    \cup
  {Call("Email/get", "b", OneRef(BackRef("a", "Email/query", <<>>)) @@ (<<0, "ids">> :> Leaf("9")), Gives(List)),
   Call("Email/get", "b", OneRef(Leaf("7")), Gives(List)),
   Call("Email/get", "b", OneRef(BackRef("a", "Email/query", <<"ids", "1">>))
                            @@ (<<1, "extra">> :> BackRef("b", "Email/get", <<"list">>))
                            @@ (<<0, "more">> :> Leaf("5")), Gives(List))}

Producing ==
  {Call("Email/query", id, NoArgs, Gives(IdList) \cup Gives(Leaf("1")) \cup {Panics, Refuses}) : id \in {"a", "b"}}
    \cup
  {Call("EmailSubmission/set", "a", NoArgs,
        {Answers(<<>>), Answers(<<[name |-> "EmailSubmission/set", doc |-> Obj(NoArgs)], [name |-> "Email/set", doc |-> IdList]>>),
         Answers(<<[name |-> "Email/set", doc |-> IdList], [name |-> "Email/set", doc |-> Leaf("1")]>>),
         Answers(<<[name |-> "Email/set", doc |-> List], [name |-> "Email/set", doc |-> IdList]>>), Panics})}

Creating ==
  {[Call("Email/query", id, NoArgs, Gives(IdList) \cup {Panics}) EXCEPT !.makes = <<"k">>] : id \in {"a", "b"}}
    \cup {[Call("Email/get", "c", NoArgs, Gives(List)) EXCEPT !.needs = <<"k">>]}

Listing ==
  {Call(name, "a", NoArgs, Gives(IdList)) : name \in {"Core/echo", "Email/get", "Mailbox/copy"}}
    \cup {Call("EmailSubmission/set", "a", NoArgs, {Answers(<<[name |-> "EmailSubmission/set", doc |-> IdList]>>)})}

MCCalls == [topic \in {"refs", "created", "using"} |->
              CASE topic = "refs" -> Referring \cup Producing
                [] topic = "created" -> Creating
                [] topic = "using" -> Listing]

MCSupported == {"core", "mail", "submission"}
MCUses == SUBSET {"core", "mail", "submission", "vacation"}

Leaves1 == {Leaf("1"), Leaf("2")}
Level1 == Leaves1 \cup {Arr(s) : s \in UNION {[1..n -> Leaves1] : n \in 0..2}}
            \cup {Obj("ids" :> v) : v \in Leaves1} \cup {Obj("*" :> Leaf("3"))}
Level2 == Level1 \cup {Arr(s) : s \in UNION {[1..n -> Level1] : n \in 1..2}}
            \cup {Obj("ids" :> v) : v \in Level1}
MCDocuments == Level2 \cup {Arr(<<a, b>>) : a \in Level2, b \in {Arr(<<Arr(<<Leaf("1")>>)>>), Obj("ids" :> Arr(<<>>))}}
MCPointers == UNION {[1..n -> {"ids", "*", "0", "1", "01"}] : n \in 0..3}
                \cup {<<"+1">>, <<"-0">>, <<"*", "+1">>, <<"+1", "*">>}

=============================================================================
