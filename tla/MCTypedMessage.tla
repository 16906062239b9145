---------------------------- MODULE MCTypedMessage ----------------------------
(* Structs, templates, topics and values for model-checking TypedMessage. *)
EXTENDS TypedMessage

Field(name, type) == [name |-> name, type |-> type]
Struct(pattern, args, fields) ==
    [pattern |-> pattern, args |-> args, shape |-> "named", fields |-> fields]

TwoNames == <<Str("s"), Plus("x"), Plus("y")>>
Mixed    == <<Plus(Anonymous), Plus("x")>>
Rest     == <<Str("s"), Plus("x"), Hash("rest")>>
Topical  == <<Str("s"), Plus("topic")>>

\* Accepted: fields of both kinds; a serializer of its own; an anonymous
\* wildcard before a field; a "#"; a wildcard called as a reserved field that is
\* not there.  Then those to refuse.
MCDeclarations ==
    {Struct(TwoNames, <<>>,
            <<Field("y", "u32"), Field("x", "String"), Field("payload", "Data"),
              Field("meta", "Arc<MessageMeta>")>>),
     Struct(Mixed, <<Assign("serializer", "json")>>,
            <<Field("x", "String"), Field("payload", "Data")>>),
     Struct(Rest, <<Flag("subscriber")>>,
            <<Field("rest", "String"), Field("topic", "TopicMatch")>>),
     Struct(Topical, <<>>, <<Field("payload", "Data")>>),
     Struct(Topical, <<>>, <<Field("topic", "TopicMatch")>>),
     Struct(Rest, <<>>, <<Field("x", "String")>>),
     Struct(TwoNames, <<Flag("sender")>>, <<>>),
     Struct(TwoNames, <<>>, <<Field("z", "String")>>),
     Struct(TwoNames, <<Assign("serializer", "generic")>>, <<>>),
     Struct(<<Str("s"), Plus("data")>>, <<Flag("publisher")>>, <<>>)}

MCDeclared == {d.pattern : d \in {e \in MCDeclarations : Parses(e.pattern)}}

\* For each pattern a template that fits; then the ones to refuse: names in
\* another order, a "#" in the middle, a name twice, a bad segment, a blank.
MCCustoms == {<<Plus("x"), Str("s"), Plus("y")>>,
              <<Plus(Anonymous), Str("s"), Plus("x")>>,
              <<Plus("x"), Hash("rest")>>,
              <<Str("s"), Plus("y"), Plus("x")>>,
              <<Plus("x"), Hash("rest"), Str("s")>>,
              <<Plus("x"), Plus("x")>>,
              <<Plus("x"), Invalid, Plus("y")>>,
              <<>>}

MCTopics == {<<"a">>, <<"s", "a">>, <<"a", "7">>, <<"s", "a", "7">>,
             <<"a", "s", "7">>, <<"s", "7", "a">>, <<"s", "7", "07">>,
             <<"7", "s", "a", "a">>, <<"s", "s">>, <<"7", "s", "s">>, <<"s", "s", "7">>,
             <<"$d", "s", "7">>}
MCDollar == {"$d"}

\* Two plain values, one also a literal of the patterns and one a number, one
\* with a slash in it, and a wildcard character.
MCValues == {"s", "7", "s/7", "+"}
MCNumerals == [t \in {"7", "07"} |-> "7"]
MCSplit == [v \in {"s", "a", "7", "07", "+", "s/7"} |->
                IF v = "s/7" THEN <<"s", "7">> ELSE <<v>>]

\* "zero" has no bytes in the codec of the client.
MCPayloads    == {"one", "zero", "broken"}
MCUnencodable == {"broken"}
MCEmptyForm   == {<<"wincode", "zero">>}

\* Not a number, another spelling of one, another codec, an empty payload.
MCForeign == {[topic |-> <<"s", "a", "a">>, bytes |-> <<"wincode", "one">>],
              [topic |-> <<"s", "a", "07">>, bytes |-> <<"wincode", "one">>],
              [topic |-> <<"a", "a">>, bytes |-> <<"xml", "one">>],
              [topic |-> <<"s", "a", "7">>, bytes |-> <<>>]}
=============================================================================
