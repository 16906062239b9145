----------------------------- MODULE TypedMessage -----------------------------
(***************************************************************************)
(* A struct with #[mqtt_topic] in use: what its publishers and last wills  *)
(* send, what the broker retains, and what a subscription built from it    *)
(* gives to the application.                                               *)
(*   core/src/client/publisher.rs          publish, retain, clear          *)
(*   core/src/client/subscriber.rs         payloads decoded                *)
(*   core/src/structured/subscriber.rs     structs made of them            *)
(*   core/src/client/async_client.rs       get_publisher, subscribe        *)
(*   macros/src/codegen.rs                 the methods generated           *)
(*                                                                         *)
(* The pattern is prepared first (the actions of TopicPattern), then       *)
(* messages are published: the builder is a value of the application, and  *)
(* preparing it commutes with publishing.  Delivery is that of one         *)
(* consumer that keeps up: Backpressure has the others.                    *)
(***************************************************************************)
EXTENDS MacroExpansion

CONSTANTS
    Declarations,  \* structs with their attribute, refused ones included
    Payloads,      \* values of the payload type
    Unencodable,   \* payloads serialize() refuses
    EmptyForm,     \* <<codec, payload>> whose encoding has no bytes
    Foreign,       \* [topic, bytes] published by others
    MaxMessages    \* bound: messages published

ASSUME MessagesAssumption == MaxMessages \in Nat

VARIABLES
    declaration,  \* the struct
    phase,        \* "building", "publishing", "subscribed" or "ended"
    retained,     \* at the broker: topic -> bytes and origin
    owed,         \* topics whose retained message the broker has still to send
    incoming,     \* received by the client for this subscription
    got,          \* what receive() returned last, and history: whence it came
    sent,         \* messages published so far
    wished        \* history: topic -> what was last asked to be retained

messages == <<retained, owed, incoming, got, sent, wished>>
typedVars == <<vars, declaration, phase, messages>>

-----------------------------------------------------------------------------
(* Serializers *)

Serialize(codec, v) ==
    IF v \in Unencodable THEN [ok |-> FALSE]
    ELSE [ok |-> TRUE, bytes |-> IF <<codec, v>> \in EmptyForm THEN <<>> ELSE <<codec, v>>]

Deserialize(codec, bytes) ==
    IF bytes[1] = codec THEN [ok |-> TRUE, value |-> bytes[2]] ELSE [ok |-> FALSE]

-----------------------------------------------------------------------------
Fits(d) == Accepted(d) /\ Compiles(d)

\* Where a message comes from: history, no part of the message.
From(via, template, params, v) ==
    [via |-> via, template |-> template, params |-> params, value |-> v]
Others == [via |-> "other"]

TypedInit ==
    /\ Init
    /\ declaration \in {d \in Declarations : Fits(d)}
    /\ declared = declaration.pattern
    /\ phase = "building"
    /\ retained = <<>> /\ owed = {} /\ incoming = <<>>
    /\ got = [event |-> [is |-> "nothing"], from |-> Others]
    /\ sent = 0 /\ wished = <<>>

\* The builder in the hands of the application.
Build ==
    /\ phase = "building"
    /\ Subscribes(declaration)
    /\ Next
    /\ UNCHANGED <<declaration, phase, messages>>

\* Building is over.  From here on only plain values are bound and nothing is
\* cached: BrokerAgrees and CacheTransparent say of the steps before that the
\* others are read in two ways and that a cache makes no difference.
Built ==
    /\ phase = "building"
    /\ stage = "live" /\ capacity = 0
    /\ \A n \in DOMAIN bindings : bindings[n] \in PlainValues
    /\ phase' = "publishing"
    /\ asked' = <<>>
    /\ UNCHANGED <<declared, segments, bindings, capacity, cache, stage>>
    /\ UNCHANGED <<declaration, messages>>

-----------------------------------------------------------------------------
(* Publishing *)

\* validate_mqtt_topic
Publishable(t) == t # <<"">> /\ \A i \in 1..Len(t) : t[i] \notin {"+", "#"}

\* The default pattern, or a template with the same wildcards.
Templates(d) == {d.pattern} \cup
    {p \in Customs : Parses(p) /\ Compatible(d.pattern, p) /\ Formattable(p)}

\* Faulty form: publish_normal keeps the publisher's flag.
Retains_Own(method, own) == IF method = "publish_retain" THEN TRUE ELSE own

\* The retain flag a publishing method sends, given the publisher's own.
Retains(method, own) ==
    CASE method = "publish"        -> own
      [] method = "publish_retain" -> TRUE
      [] method = "publish_normal" -> FALSE

\* The subscription gets what the broker sends for its filter, the router finds
\* and the pattern matches.
Reaches(t) == BrokerSends(MqttPattern, t) /\ TrieFinds(t) /\ Matched(t)

Arrive(t, bytes, retain, from) ==
    incoming' = Append(incoming, [topic |-> t, bytes |-> bytes, retain |-> retain,
                                  match |-> Answer(t), from |-> from])

\* The broker: a retained message replaces the last one of its topic, an empty
\* one only removes it; subscribers get it as any other.
Broker(t, bytes, retain, from) ==
    /\ retained' = CASE ~retain -> retained
                     [] retain /\ bytes = <<>> ->
                            [u \in DOMAIN retained \ {t} |-> retained[u]]
                     [] retain /\ bytes # <<>> ->
                            [u \in DOMAIN retained \cup {t} |->
                                IF u = t THEN [bytes |-> bytes, from |-> from] ELSE retained[u]]
    /\ IF phase = "subscribed" /\ Reaches(t) THEN Arrive(t, bytes, FALSE, from)
       ELSE UNCHANGED incoming
    /\ sent' = sent + 1
    /\ UNCHANGED vars

\* History: the calls that ask for the value to be kept, by what the methods
\* are documented to do (publisher.rs:49, 71, 96, 104), whatever flag is sent.
AskedToKeep == {<<"publish", TRUE>>, <<"publish_retain", TRUE>>, <<"publish_retain", FALSE>>}

Wish(t, w) ==
    wished' = [u \in DOMAIN wished \cup {t} |-> IF u = t THEN w ELSE wished[u]]

CanSend == phase \in {"publishing", "subscribed"} /\ sent < MaxMessages

\* The methods, of a publisher with or without the flag.
Calls == {"publish", "publish_retain", "publish_normal"} \X BOOLEAN

\* A generated publisher, for the default or a custom pattern, and one of its
\* publishing methods; a value that cannot be encoded is not sent.
Publish(p, params, v, method, own) ==
    LET t == FormatTopic(p, params)
        encoded == Serialize(Codec(declaration), v)
    IN  /\ Publishable(t) /\ encoded.ok
        /\ Broker(t, encoded.bytes, Retains(method, own), From("publisher", p, params, v))
        /\ IF <<method, own>> \in AskedToKeep THEN Wish(t, From("publisher", p, params, v))
           ELSE UNCHANGED wished
        /\ UNCHANGED <<declaration, phase, owed, got>>

ClearRetained(p, params) ==
    LET t == FormatTopic(p, params)
    IN  /\ Publishable(t)
        /\ Broker(t, <<>>, TRUE, Others)
        /\ Wish(t, Others)
        /\ UNCHANGED <<declaration, phase, owed, got>>

\* A client that set a generated last will has died: the configuration had
\* serialized the payload with its own serializer.  Nothing validates the topic
\* on the way; a broker takes no client whose will it could not publish.
LastWill(p, params, v, retain) ==
    LET t == FormatTopic(p, params)
        encoded == Serialize(ClientCodec, v)
        from == From("will", p, params, v)
    IN  /\ Publishable(t) /\ encoded.ok
        /\ Broker(t, encoded.bytes, retain, from)
        /\ IF retain THEN Wish(t, from) ELSE UNCHANGED wished
        /\ UNCHANGED <<declaration, phase, owed, got>>

\* Someone else publishes.
OthersPublish(m) ==
    /\ Broker(m.topic, m.bytes, FALSE, Others)
    /\ UNCHANGED <<declaration, phase, owed, got, wished>>

-----------------------------------------------------------------------------
(* Subscribing and receiving *)

\* The broker now owes the retained messages that match.
Subscribe ==
    /\ phase = "publishing"
    /\ Subscribes(declaration)
    /\ phase' = "subscribed"
    /\ owed' = {t \in DOMAIN retained : BrokerSends(MqttPattern, t)}
    /\ UNCHANGED <<vars, declaration, retained, incoming, got, sent, wished>>

\* A retained message, unless it was cleared in the meantime.
Replay(t) ==
    /\ phase = "subscribed"
    /\ owed' = owed \ {t}
    /\ IF t \in DOMAIN retained /\ Reaches(t)
       THEN Arrive(t, retained[t].bytes, TRUE, retained[t].from)
       ELSE UNCHANGED incoming
    /\ UNCHANGED <<vars, declaration, phase, retained, got, sent, wished>>

\* The event for a message, after both subscribers.
Event(m) ==
    LET decoded == Deserialize(Codec(declaration), m.bytes)
    IN  IF decoded.ok
        THEN FromMqttMessage(declaration, m.match, m.topic, m.retain, decoded.value)
        ELSE [is |-> "failed", error |-> "payload"]

\* receive(): the next message that is not empty.
Receive ==
    /\ phase = "subscribed"
    /\ \E n \in 1..Len(incoming) :
        /\ incoming[n].bytes # <<>>
        /\ \A i \in 1..(n - 1) : incoming[i].bytes = <<>>
        /\ got' = [event |-> Event(incoming[n]), from |-> incoming[n].from]
        /\ incoming' = SubSeq(incoming, n + 1, Len(incoming))
    /\ UNCHANGED <<vars, declaration, phase, retained, owed, sent, wished>>

\* cancel(), or the last sender is gone: what is still queued is not received.
End ==
    /\ phase = "subscribed"
    /\ phase' = "ended"
    /\ incoming' = <<>> /\ owed' = {}
    /\ UNCHANGED <<vars, declaration, retained, got, sent, wished>>

PublishOwn ==
    \E p \in Templates(declaration), params \in Arguments(declaration) :
        \/ \E v \in Payloads, call \in Calls : Publish(p, params, v, call[1], call[2])
        \/ ClearRetained(p, params)
        \/ \E v \in Payloads, retain \in BOOLEAN : LastWill(p, params, v, retain)

TypedNext ==
    \/ Build
    \/ Built
    \/ CanSend /\ Publishes(declaration) /\ PublishOwn
    \/ CanSend /\ \E m \in Foreign : OthersPublish(m)
    \/ Subscribe
    \/ \E t \in owed : Replay(t)
    \/ Receive
    \/ End

TypedSpec == TypedInit /\ [][TypedNext]_typedVars

-----------------------------------------------------------------------------
(* Properties *)

\* Every variable has its type, and those of the pattern theirs.
TypedTypeOK ==
    /\ TypeOK
    /\ declaration \in Declarations /\ declared = declaration.pattern
    /\ phase \in {"building", "publishing", "subscribed", "ended"}
    /\ owed # {} => phase = "subscribed"
    /\ \A t \in DOMAIN retained : retained[t].bytes # <<>> /\ Publishable(t)
    /\ Len(incoming) <= 2 * MaxMessages
    /\ sent \in 0..MaxMessages
    /\ got.event.is \in {"nothing", "message", "failed"}

\* Encoded as the subscribers of the struct decode.
Own(from) ==
    \/ from.via = "publisher"
    \/ from.via = "will" /\ Codec(declaration) = ClientCodec

PlainParams(params) == \A k \in DOMAIN params : params[k] \in PlainValues

\* What a struct's own publishers and last wills send for plain parameters, by
\* the default or a custom pattern, live or retained, subscribers of the same
\* template receive field for field: each parameter in the field of its name, the
\* payload, and never a failure.
RoundTrip ==
    LET event == got.event
        readable == got.from.template = segments /\ PlainParams(got.from.params)
    IN  event.is # "nothing" /\ Own(got.from) /\ readable =>
            /\ event.is = "message"
            /\ "payload" \in DOMAIN event.fields => event.fields["payload"] = got.from.value
            /\ \A k \in DOMAIN TopicParams(declaration) :
                    LET name == TopicParams(declaration)[k].name
                    IN  name \in DOMAIN event.fields =>
                            event.fields[name] = <<got.from.params[k]>>

\* What the broker keeps for a topic is what a call documented to keep its value
\* left there last: no publish_normal and no publish of a publisher without the
\* flag puts anything there or replaces it, publish_retain does so whatever the
\* flag, nothing survives clear_retained, and a payload with an empty encoding
\* clears the topic as well.
RetainedIsLatest ==
    /\ DOMAIN retained \subseteq DOMAIN wished
    /\ \A t \in DOMAIN wished :
        LET w == wished[t]
            codec == IF w.via = "will" THEN ClientCodec ELSE Codec(declaration)
        IN  IF w.via = "other" \/ (w.via # "other" /\ <<codec, w.value>> \in EmptyForm)
            THEN t \notin DOMAIN retained
            ELSE /\ t \in DOMAIN retained
                 /\ Deserialize(codec, retained[t].bytes) = [ok |-> TRUE, value |-> w.value]

\* README.md:184 "This topic always uses JSON, regardless of the client's default
\* serializer.": whatever the generated code of a struct publishes has the
\* encoding of the struct.
TopicKeepsCodec ==
    \A i \in 1..Len(incoming) :
        incoming[i].from.via # "other" /\ incoming[i].bytes # <<>> =>
            incoming[i].bytes[1] = Codec(declaration)
=============================================================================
