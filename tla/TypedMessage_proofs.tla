------------------------- MODULE TypedMessage_proofs -------------------------
(* Theorems about TypedMessage, for every set of structs, templates, values, *)
(* payloads and codecs, and any number of messages.                          *)
EXTENDS TypedMessage, TopicPattern_proofs, FiniteSetTheorems

-----------------------------------------------------------------------------
(* The pattern in use *)

\* The actions after building leave the pattern alone.
LEMMA PatternKept ==
    ASSUME PatternInv, UNCHANGED <<declared, segments, bindings, capacity, cache, stage>>,
           asked' = asked \/ asked' = <<>>
    PROVE  PatternInv'
<1>1. TypeOK' /\ CacheTransparent' /\ Compatible(declared, segments)'
  BY DEF PatternInv, TypeOK, CacheTransparent
<1> QED BY <1>1 DEF PatternInv

\* The steps of a typed message, by what they do to the pattern.
LEMMA TypedSteps ==
    ASSUME [TypedNext]_typedVars
    PROVE  \/ Build
           \/ Built
           \/ UNCHANGED vars
<1>1. ASSUME NEW t, NEW bytes, NEW retain, NEW from, Broker(t, bytes, retain, from)
      PROVE  UNCHANGED vars
  BY <1>1 DEF Broker
<1>2. CASE PublishOwn
  <2>1. ASSUME NEW p, NEW params, NEW v, NEW method, NEW own, Publish(p, params, v, method, own)
        PROVE  UNCHANGED vars
    BY <1>1, <2>1 DEF Publish
  <2>2. ASSUME NEW p, NEW params, ClearRetained(p, params) PROVE UNCHANGED vars
    BY <1>1, <2>2 DEF ClearRetained
  <2>3. ASSUME NEW p, NEW params, NEW v, NEW retain, LastWill(p, params, v, retain)
        PROVE  UNCHANGED vars
    BY <1>1, <2>3 DEF LastWill
  <2> QED BY <1>2, <2>1, <2>2, <2>3 DEF PublishOwn
<1>3. CASE \E m \in Foreign : OthersPublish(m)
  BY <1>1, <1>3 DEF OthersPublish
<1>4. CASE Subscribe \/ (\E t \in owed : Replay(t)) \/ Receive \/ End
  BY <1>4 DEF Subscribe, Replay, Receive, End
<1>5. CASE UNCHANGED typedVars
  BY <1>5 DEF typedVars
<1> QED BY <1>2, <1>3, <1>4, <1>5 DEF TypedNext

\* Every step keeps the invariant of the pattern.
LEMMA TypedPatternStep == ASSUME PatternInv, [TypedNext]_typedVars PROVE PatternInv'
<1>1. CASE Build
  BY <1>1, PatternStep DEF Build
<1>2. CASE Built
  BY <1>2, PatternKept DEF Built
<1>3. CASE UNCHANGED vars
  BY <1>3, PatternStep
<1> QED BY <1>1, <1>2, <1>3, TypedSteps

\* The pattern of a struct in use keeps all that TopicPattern promises.
THEOREM PatternInUse ==
    TypedSpec => [](TypeOK /\ CacheTransparent /\ RoutedMatches /\ BrokerAgrees /\ FieldsExtracted)
<1>1. TypedInit => PatternInv
  BY PatternInit DEF TypedInit
<1>2. PatternInv => TypeOK /\ CacheTransparent /\ RoutedMatches /\ BrokerAgrees /\ FieldsExtracted
  BY InvRouted, InvBroker, InvFields DEF PatternInv
<1> QED
  BY <1>1, <1>2, TypedPatternStep, PTL DEF TypedSpec

-----------------------------------------------------------------------------
(* Retained messages *)

\* Each method sends the flag its documentation asks for.
LEMMA RetainsAsAsked ==
    ASSUME NEW call \in Calls
    PROVE  \/ Retains(call[1], call[2]) = TRUE /\ <<call[1], call[2]>> \in AskedToKeep
           \/ Retains(call[1], call[2]) = FALSE /\ <<call[1], call[2]>> \notin AskedToKeep
<1>1. PICK method \in {"publish", "publish_retain", "publish_normal"}, own \in BOOLEAN :
          call = <<method, own>>
  BY DEF Calls
<1>2. call[1] = method /\ call[2] = own
  BY <1>1
<1>3. \/ Retains(method, own) = TRUE /\ <<method, own>> \in AskedToKeep
      \/ Retains(method, own) = FALSE /\ <<method, own>> \notin AskedToKeep
  <2>1. CASE method = "publish"
    <3>1. Retains(method, own) = own
      BY <2>1 DEF Retains
    <3>2. <<"publish", TRUE>> \in AskedToKeep /\ <<"publish", FALSE>> \notin AskedToKeep
      BY DEF AskedToKeep
    <3>3. own = TRUE \/ own = FALSE
      OBVIOUS
    <3> QED BY <2>1, <3>1, <3>2, <3>3
  <2>2. CASE method = "publish_retain"
    <3>1. Retains(method, own) = TRUE
      BY <2>2 DEF Retains
    <3>2. /\ <<"publish_retain", TRUE>> \in AskedToKeep
          /\ <<"publish_retain", FALSE>> \in AskedToKeep
      BY DEF AskedToKeep
    <3>3. own = TRUE \/ own = FALSE
      OBVIOUS
    <3> QED BY <2>2, <3>1, <3>2, <3>3
  <2>3. CASE method = "publish_normal"
    <3>1. Retains(method, own) = FALSE
      BY <2>3 DEF Retains
    <3>2. <<method, own>> \notin AskedToKeep
      BY <2>3 DEF AskedToKeep
    <3> QED BY <3>1, <3>2
  <2> QED BY <1>1, <2>1, <2>2, <2>3
<1> QED BY <1>2, <1>3

\* A retained message of a struct is the one last wished for: the invariant is
\* the property itself.
LEMMA WishedStep ==
    ASSUME RetainedIsLatest, [TypedNext]_typedVars
    PROVE  RetainedIsLatest'
<1>1. ASSUME UNCHANGED <<retained, wished, declaration>> PROVE RetainedIsLatest'
  BY <1>1 DEF RetainedIsLatest
<1>2. ASSUME NEW t, NEW v, NEW via \in {"publisher", "will"}, NEW p, NEW params, NEW codec,
             codec = IF via = "will" THEN ClientCodec ELSE Codec(declaration),
             Serialize(codec, v).ok,
             Broker(t, Serialize(codec, v).bytes, TRUE, From(via, p, params, v)),
             Wish(t, From(via, p, params, v)), UNCHANGED declaration
      PROVE  RetainedIsLatest'
  <2> DEFINE bytes == Serialize(codec, v).bytes
             from == From(via, p, params, v)
  <2>1. bytes = IF <<codec, v>> \in EmptyForm THEN <<>> ELSE <<codec, v>>
    BY <1>2 DEF Serialize
  <2>2. /\ DOMAIN wished' = DOMAIN wished \cup {t}
        /\ \A u \in DOMAIN wished' : wished'[u] = IF u = t THEN from ELSE wished[u]
    BY <1>2 DEF Wish
  <2>3. CASE <<codec, v>> \in EmptyForm
    <3>1. bytes = <<>>
      BY <2>1, <2>3
    <3>2. retained' = [u \in DOMAIN retained \ {t} |-> retained[u]]
      BY <1>2, <3>1 DEF Broker
    <3>3. wished'[t] = from /\ from.via = via /\ from.value = v /\ from.via # "other"
      BY <1>2, <2>2 DEF From
    <3> QED BY <1>2, <2>2, <2>3, <3>2, <3>3 DEF RetainedIsLatest
  <2>4. CASE <<codec, v>> \notin EmptyForm
    <3>1. bytes = <<codec, v>> /\ bytes # <<>>
      BY <2>1, <2>4
    <3>2. retained' = [u \in DOMAIN retained \cup {t} |->
                          IF u = t THEN [bytes |-> bytes, from |-> from] ELSE retained[u]]
      BY <1>2, <3>1 DEF Broker
    <3>3. wished'[t] = from /\ from.via = via /\ from.value = v /\ from.via # "other"
      BY <1>2, <2>2 DEF From
    <3>4. retained'[t].bytes = <<codec, v>>
      BY <3>1, <3>2
    <3>5. Deserialize(codec, retained'[t].bytes) = [ok |-> TRUE, value |-> v]
      BY <3>4 DEF Deserialize
    <3> HIDE DEF from
    <3> QED BY <1>2, <2>2, <2>4, <3>2, <3>3, <3>5 DEF RetainedIsLatest
  <2> QED BY <2>3, <2>4
<1>3. ASSUME NEW t, NEW bytes, NEW from, Broker(t, bytes, FALSE, from),
             UNCHANGED <<wished, declaration>>
      PROVE  RetainedIsLatest'
  BY <1>1, <1>3 DEF Broker
<1>4. ASSUME NEW p, NEW params, NEW v, NEW call \in Calls, Publish(p, params, v, call[1], call[2])
      PROVE  RetainedIsLatest'
  <2> DEFINE retain == Retains(call[1], call[2])
             kept   == <<call[1], call[2]>> \in AskedToKeep
  <2>1. (retain = TRUE /\ kept) \/ (retain = FALSE /\ ~kept)
    BY RetainsAsAsked
  <2>2. CASE retain = TRUE /\ kept
    BY <1>2, <1>4, <2>2 DEF Publish
  <2>3. CASE retain = FALSE /\ ~kept
    BY <1>3, <1>4, <2>3 DEF Publish
  <2> QED BY <2>1, <2>2, <2>3
<1>5. ASSUME NEW p, NEW params, NEW v, NEW retain \in BOOLEAN, LastWill(p, params, v, retain)
      PROVE  RetainedIsLatest'
  <2>1. CASE retain = TRUE
    BY <1>2, <1>5, <2>1 DEF LastWill
  <2>2. CASE retain = FALSE
    BY <1>3, <1>5, <2>2 DEF LastWill
  <2> QED BY <2>1, <2>2
<1>6. ASSUME NEW p, NEW params, ClearRetained(p, params) PROVE RetainedIsLatest'
  <2> DEFINE t == FormatTopic(p, params)
  <2>1. Broker(t, <<>>, TRUE, Others) /\ Wish(t, Others) /\ UNCHANGED declaration
    BY <1>6 DEF ClearRetained
  <2>2. retained' = [u \in DOMAIN retained \ {t} |-> retained[u]]
    BY <2>1 DEF Broker
  <2>3. /\ DOMAIN wished' = DOMAIN wished \cup {t}
        /\ \A u \in DOMAIN wished' : wished'[u] = IF u = t THEN Others ELSE wished[u]
    BY <2>1 DEF Wish
  <2>4. Others.via = "other"
    BY DEF Others
  <2> HIDE DEF t
  <2> QED BY <2>1, <2>2, <2>3, <2>4 DEF RetainedIsLatest
<1>7. CASE PublishOwn
  BY <1>4, <1>5, <1>6, <1>7 DEF PublishOwn
<1>8. CASE \E m \in Foreign : OthersPublish(m)
  BY <1>3, <1>8 DEF OthersPublish
<1>9. CASE Build \/ Built \/ Subscribe \/ (\E t \in owed : Replay(t)) \/ Receive \/ End
  BY <1>1, <1>9 DEF Build, Built, Subscribe, Replay, Receive, End, messages
<1>10. CASE UNCHANGED typedVars
  BY <1>1, <1>10 DEF typedVars, messages
<1> QED BY <1>7, <1>8, <1>9, <1>10 DEF TypedNext

\* What the broker keeps is what was last asked to be kept, by what the calls are
\* documented to do: for every struct and any number of messages.
THEOREM RetainedIsLatestHolds == TypedSpec => []RetainedIsLatest
<1>1. TypedInit => RetainedIsLatest
  <2> SUFFICES ASSUME TypedInit PROVE RetainedIsLatest
    OBVIOUS
  <2>1. wished = <<>> /\ retained = <<>>
    BY DEF TypedInit
  <2> QED BY <2>1 DEF RetainedIsLatest
<1> QED
  BY <1>1, WishedStep, PTL DEF TypedSpec

-----------------------------------------------------------------------------
(* What is under way *)

\* A message of the struct's own has the topic its template gives for its
\* parameters, and its value in the encoding of the struct or no bytes.
Genuine(t, bytes, from) ==
    Own(from) =>
        /\ Formattable(from.template)
        /\ from.params \in Arguments(declaration)
        /\ t = FormatTopic(from.template, from.params)
        /\ bytes \in {<<>>, <<Codec(declaration), from.value>>}

\* The messages at the broker and at the client; those at the client were matched
\* by the template.
Contents ==
    /\ \A t \in DOMAIN retained :
        /\ retained[t].bytes # <<>> /\ Publishable(t)
        /\ Genuine(t, retained[t].bytes, retained[t].from)
    /\ \A i \in 1..Len(incoming) :
        /\ Genuine(incoming[i].topic, incoming[i].bytes, incoming[i].from)
        /\ incoming[i].match = Match(segments, incoming[i].topic)

\* A sequence of whatever elements.
IsSequence(s) == \E S : s \in Seq(S)

\* Each message sent arrives at most twice: live, and as the retained one.
Counts ==
    /\ IsSequence(incoming)
    /\ IsFiniteSet(DOMAIN retained) /\ Cardinality(DOMAIN retained) <= sent
    /\ IsFiniteSet(owed) /\ Len(incoming) + Cardinality(owed) <= 2 * sent
    /\ sent \in 0..MaxMessages

\* Nothing is received while the pattern can change, nothing queued before
\* subscribing.
Phases ==
    /\ phase \in {"building", "publishing", "subscribed", "ended"}
    /\ phase \in {"building", "publishing"} => incoming = <<>>
    /\ phase # "subscribed" => owed = {}
    /\ phase = "building" => retained = <<>> /\ got.event.is = "nothing"

\* The struct is one that the macro and the compiler accept.
OfStruct == declaration \in Declarations /\ Fits(declaration) /\ declared = declaration.pattern

TypedInv ==
    /\ PatternInv /\ OfStruct /\ Phases /\ Counts /\ Contents
    /\ got.event.is \in {"nothing", "message", "failed"}
    /\ RoundTrip

\* r is s with one more element at the end.
Longer(r, s, e) ==
    /\ Len(s) \in Nat /\ Len(r) = Len(s) + 1
    /\ IsSequence(r)
    /\ \A i \in 1..Len(s) : r[i] = s[i]
    /\ r[Len(s) + 1] = e

\* Append makes such a sequence.
LEMMA AppendAny ==
    ASSUME NEW s, NEW e, IsSequence(s)
    PROVE  Longer(Append(s, e), s, e)
<1>1. PICK S : s \in Seq(S)
  BY DEF IsSequence
<1>2. s \in Seq(S \cup {e})
  BY <1>1, SeqMonotonic
<1>3. /\ Append(s, e) \in Seq(S \cup {e})
      /\ Len(Append(s, e)) = Len(s) + 1
      /\ \A i \in 1..Len(s) : Append(s, e)[i] = s[i]
      /\ Append(s, e)[Len(s) + 1] = e
  BY <1>2, AppendProperties
<1>4. Len(s) \in Nat
  BY <1>1
<1>5. IsSequence(Append(s, e))
  BY <1>3, Zenon DEF IsSequence
<1> QED BY <1>3, <1>4, <1>5, Zenon DEF Longer

\* r is s without its first n elements.
Dropped(r, s, n) ==
    /\ Len(s) \in Nat /\ Len(r) = Len(s) - n
    /\ IsSequence(r)
    /\ \A i \in 1..Len(r) : r[i] = s[n + i] /\ n + i \in 1..Len(s)

\* SubSeq makes such a sequence.
LEMMA DropAny ==
    ASSUME NEW s, IsSequence(s), NEW n \in 1..Len(s)
    PROVE  Dropped(SubSeq(s, n + 1, Len(s)), s, n)
<1> DEFINE d == SubSeq(s, n + 1, Len(s))
<1>1. PICK S : s \in Seq(S)
  BY DEF IsSequence
<1>2. Len(s) \in Nat /\ n \in Nat /\ n <= Len(s)
  BY <1>1
<1>3. d \in Seq(S) /\ Len(d) = Len(s) - n
  BY <1>1, <1>2
<1>4. \A i \in 1..Len(d) : d[i] = s[n + i] /\ n + i \in 1..Len(s)
  BY <1>1, <1>2, <1>3
<1>5. IsSequence(d)
  BY <1>3, Zenon DEF IsSequence
<1> HIDE DEF d
<1>6. Dropped(d, s, n)
  BY <1>2, <1>3, <1>4, <1>5, Zenon DEF Dropped
<1> QED BY <1>6 DEF d

\* What Phases, Counts and Contents say of the three actions of the broker and
\* the client that queue a message: the queue as before, or one element longer.
LEMMA Queued ==
    ASSUME TypedInv, UNCHANGED segments, NEW t, NEW bytes, NEW retain, NEW from,
           Genuine(t, bytes, from),
           incoming' = incoming \/ (Matched(t) /\ Arrive(t, bytes, retain, from))
    PROVE  /\ Len(incoming) \in Nat /\ Len(incoming') \in Nat
           /\ Len(incoming') <= Len(incoming) + 1
           /\ incoming' # incoming => Matched(t) /\ Arrive(t, bytes, retain, from)
           /\ IsSequence(incoming')
           /\ \A i \in 1..Len(incoming') :
                /\ Genuine(incoming'[i].topic, incoming'[i].bytes, incoming'[i].from)
                /\ incoming'[i].match = Match(segments, incoming'[i].topic)
<1> DEFINE m == [topic |-> t, bytes |-> bytes, retain |-> retain,
                 match |-> Answer(t), from |-> from]
<1>1. /\ IsSequence(incoming)
      /\ Len(incoming) \in Nat
      /\ \A i \in 1..Len(incoming) :
            /\ Genuine(incoming[i].topic, incoming[i].bytes, incoming[i].from)
            /\ incoming[i].match = Match(segments, incoming[i].topic)
  BY DEF TypedInv, Counts, Contents
<1>2. CASE incoming' = incoming
  <2> HIDE DEF m
  <2> QED BY <1>1, <1>2
<1>3. CASE Matched(t) /\ Arrive(t, bytes, retain, from)
  <2>1. incoming' = Append(incoming, m)
    BY <1>3 DEF Arrive
  <2>2. /\ m.topic = t /\ m.bytes = bytes /\ m.from = from
        /\ m.match = Match(segments, t)
    BY <1>3, AnswerFacts DEF TypedInv, PatternInv
  <2> HIDE DEF m
  <2>3. /\ Len(incoming') = Len(incoming) + 1
        /\ IsSequence(incoming')
        /\ \A i \in 1..Len(incoming) : incoming'[i] = incoming[i]
        /\ incoming'[Len(incoming) + 1] = m
    <3>1. Longer(incoming', incoming, m)
      BY <1>1, <2>1, AppendAny
    <3> QED BY <3>1 DEF Longer
  <2>4. ASSUME NEW i \in 1..Len(incoming')
        PROVE  /\ Genuine(incoming'[i].topic, incoming'[i].bytes, incoming'[i].from)
               /\ incoming'[i].match = Match(segments, incoming'[i].topic)
    <3>1. CASE i = Len(incoming) + 1
      BY <2>2, <2>3, <3>1
    <3>2. CASE i # Len(incoming) + 1
      <4>1. i \in 1..Len(incoming)
        BY <1>1, <2>3, <3>2
      <4> QED BY <1>1, <2>3, <4>1
    <3> QED BY <3>1, <3>2
  <2> QED BY <1>1, <1>3, <2>3, <2>4
<1> QED BY <1>2, <1>3

\* What was received last stays what it is.
LEMMA RoundTripKept ==
    ASSUME RoundTrip, UNCHANGED <<got, segments, declaration>>
    PROVE  RoundTrip'
  BY DEF RoundTrip, Own

\* The actions after building that leave the struct and the last event alone.
LEMMA Assembled ==
    ASSUME TypedInv, UNCHANGED <<vars, declaration, got>>, Phases', Counts', Contents'
    PROVE  TypedInv'
<1>1. PatternInv'
  BY PatternStep DEF TypedInv
<1>2. UNCHANGED <<declared, segments>>
  BY DEF vars
<1>3. OfStruct'
  BY <1>2 DEF TypedInv, OfStruct
<1>4. RoundTrip'
  BY <1>2, RoundTripKept DEF TypedInv
<1> QED BY <1>1, <1>3, <1>4 DEF TypedInv

\* A publication keeps the invariant: it is counted, kept as the broker keeps it
\* and queued if it reaches the subscription.
LEMMA SendStep ==
    ASSUME TypedInv, NEW t, NEW bytes, NEW retain, NEW from,
           Broker(t, bytes, retain, from), Genuine(t, bytes, from),
           retain = FALSE \/ (retain = TRUE /\ Publishable(t)),
           CanSend, UNCHANGED <<declaration, phase, owed, got>>
    PROVE  TypedInv'
<1>1. UNCHANGED vars /\ UNCHANGED segments /\ sent' = sent + 1
  BY DEF Broker, vars
<1>2. \/ retained' = retained
      \/ /\ DOMAIN retained' = DOMAIN retained \ {t}
         /\ \A u \in DOMAIN retained' : retained'[u] = retained[u]
      \/ /\ Publishable(t) /\ bytes # <<>>
         /\ DOMAIN retained' = DOMAIN retained \cup {t}
         /\ retained'[t] = [bytes |-> bytes, from |-> from]
         /\ \A u \in DOMAIN retained' : u # t => retained'[u] = retained[u]
  <2>1. CASE retain = FALSE
    BY <2>1 DEF Broker
  <2>2. CASE retain = TRUE /\ Publishable(t) /\ bytes = <<>>
    <3>1. retained' = [u \in DOMAIN retained \ {t} |-> retained[u]]
      BY <2>2 DEF Broker
    <3> QED BY <3>1
  <2>3. CASE retain = TRUE /\ Publishable(t) /\ bytes # <<>>
    <3>1. retained' = [u \in DOMAIN retained \cup {t} |->
                          IF u = t THEN [bytes |-> bytes, from |-> from] ELSE retained[u]]
      BY <2>3 DEF Broker
    <3> QED BY <2>3, <3>1
  <2> QED BY <2>1, <2>2, <2>3
<1>3. /\ incoming' = incoming \/ (Matched(t) /\ Arrive(t, bytes, FALSE, from))
      /\ phase # "subscribed" => incoming' = incoming
  BY DEF Broker, Reaches
<1>4. /\ Len(incoming) \in Nat /\ Len(incoming') \in Nat
      /\ Len(incoming') <= Len(incoming) + 1
      /\ IsSequence(incoming')
      /\ \A i \in 1..Len(incoming') :
            /\ Genuine(incoming'[i].topic, incoming'[i].bytes, incoming'[i].from)
            /\ incoming'[i].match = Match(segments, incoming'[i].topic)
  BY <1>1, <1>3, Queued
<1>5. Counts'
  <2>1. /\ IsFiniteSet(DOMAIN retained) /\ Cardinality(DOMAIN retained) <= sent
        /\ IsFiniteSet(owed) /\ Len(incoming) + Cardinality(owed) <= 2 * sent
        /\ sent \in Nat /\ sent + 1 \in 0..MaxMessages
    BY MessagesAssumption DEF TypedInv, Counts, CanSend
  <2>2. IsFiniteSet(DOMAIN retained') /\ Cardinality(DOMAIN retained') <= sent + 1
    <3>1. DOMAIN retained' \subseteq DOMAIN retained \cup {t}
      BY <1>2
    <3>2. /\ IsFiniteSet(DOMAIN retained \cup {t})
          /\ Cardinality(DOMAIN retained \cup {t}) =
                IF t \in DOMAIN retained THEN Cardinality(DOMAIN retained)
                ELSE Cardinality(DOMAIN retained) + 1
      BY <2>1, FS_AddElement, Zenon
    <3>3. Cardinality(DOMAIN retained) \in Nat
      BY <2>1, FS_CardinalityType, Zenon
    <3>4. /\ IsFiniteSet(DOMAIN retained')
          /\ Cardinality(DOMAIN retained') <= Cardinality(DOMAIN retained \cup {t})
      BY <3>1, <3>2, FS_Subset, Zenon
    <3>5. Cardinality(DOMAIN retained') \in Nat
      BY <3>4, FS_CardinalityType, Zenon
    <3>6. Cardinality(DOMAIN retained \cup {t}) <= sent + 1
      BY <2>1, <3>2, <3>3
    <3> QED BY <2>1, <3>2, <3>3, <3>4, <3>5, <3>6
  <2>3. Cardinality(owed) \in Nat
    BY <2>1, FS_CardinalityType
  <2>4. Len(incoming') + Cardinality(owed) <= 2 * (sent + 1)
    BY <1>4, <2>1, <2>3
  <2> QED BY <1>1, <1>4, <2>1, <2>2, <2>4 DEF Counts
<1>6. Contents'
  <2>1. \A u, b, f : Genuine(u, b, f)' <=> Genuine(u, b, f)
    BY DEF Genuine, Own
  <2>2. ASSUME NEW u \in DOMAIN retained'
        PROVE  /\ retained'[u].bytes # <<>> /\ Publishable(u)
               /\ Genuine(u, retained'[u].bytes, retained'[u].from)
    <3>1. \/ u \in DOMAIN retained /\ retained'[u] = retained[u]
          \/ u = t /\ Publishable(t) /\ bytes # <<>> /\ retained'[u] = [bytes |-> bytes, from |-> from]
      BY <1>2
    <3> QED BY <3>1 DEF TypedInv, Contents
  <2> QED BY <1>1, <1>4, <2>1, <2>2 DEF Contents
<1>7. Phases'
  BY <1>3 DEF TypedInv, Phases, CanSend
<1> QED BY <1>1, <1>5, <1>6, <1>7, Assembled

\* What the generated code of a struct sends has the topic of its template and its
\* parameters, and the payload in the encoding of the method's serializer.
LEMMA SentGenuine ==
    ASSUME OfStruct, Publishes(declaration), NEW p \in Templates(declaration),
           NEW params \in Arguments(declaration), NEW via, NEW codec, NEW v,
           via = "publisher" => codec = Codec(declaration),
           via = "will" => codec = ClientCodec,
           Serialize(codec, v).ok
    PROVE  Genuine(FormatTopic(p, params), Serialize(codec, v).bytes, From(via, p, params, v))
<1> DEFINE bytes == Serialize(codec, v).bytes
           from  == From(via, p, params, v)
           t     == FormatTopic(p, params)
<1>1. Formattable(p)
  BY DEF Templates, OfStruct, Fits, Accepted, ArgsAccepted
<1>2. bytes \in {<<>>, <<codec, v>>}
  BY DEF Serialize
<1>3. from.via = via /\ from.template = p /\ from.params = params /\ from.value = v
  BY DEF From
<1>4. Own(from) => codec = Codec(declaration)
  BY <1>3 DEF Own
<1> HIDE DEF bytes, from, t
<1>5. t = FormatTopic(from.template, from.params)
  BY <1>3 DEF t
<1> QED BY <1>1, <1>2, <1>3, <1>4, <1>5 DEF Genuine, bytes, from, t

\* Everything that is published keeps the invariant.
LEMMA PublishedStep ==
    ASSUME TypedInv, CanSend,
           \/ Publishes(declaration) /\ PublishOwn
           \/ \E m \in Foreign : OthersPublish(m)
    PROVE  TypedInv'
<1>1. OfStruct
  BY DEF TypedInv
<1>2. \A t, bytes : Genuine(t, bytes, Others)
  BY DEF Genuine, Own, Others
<1>3. ASSUME NEW p \in Templates(declaration), NEW params \in Arguments(declaration),
             Publishes(declaration), NEW v, NEW call \in Calls,
             Publish(p, params, v, call[1], call[2])
      PROVE  TypedInv'
  <2> DEFINE t == FormatTopic(p, params)
             bytes == Serialize(Codec(declaration), v).bytes
             from == From("publisher", p, params, v)
             retain == Retains(call[1], call[2])
  <2>1. /\ Publishable(t) /\ Serialize(Codec(declaration), v).ok
        /\ Broker(t, bytes, retain, from)
        /\ UNCHANGED <<declaration, phase, owed, got>>
    BY <1>3 DEF Publish
  <2>2. Genuine(t, bytes, from)
    BY <1>1, <1>3, <2>1, SentGenuine
  <2>3. retain = FALSE \/ retain = TRUE
    BY RetainsAsAsked
  <2> HIDE DEF t, bytes, from, retain
  <2> QED BY <2>1, <2>2, <2>3, SendStep
<1>4. ASSUME NEW p \in Templates(declaration), NEW params \in Arguments(declaration),
             Publishes(declaration), NEW v, NEW retain \in BOOLEAN,
             LastWill(p, params, v, retain)
      PROVE  TypedInv'
  <2> DEFINE t == FormatTopic(p, params)
             bytes == Serialize(ClientCodec, v).bytes
             from == From("will", p, params, v)
  <2>1. /\ Publishable(t) /\ Serialize(ClientCodec, v).ok
        /\ Broker(t, bytes, retain, from)
        /\ UNCHANGED <<declaration, phase, owed, got>>
    BY <1>4 DEF LastWill
  <2>2. Genuine(t, bytes, from)
    BY <1>1, <1>4, <2>1, SentGenuine
  <2>3. retain = FALSE \/ retain = TRUE
    BY <1>4
  <2> HIDE DEF t, bytes, from
  <2> QED BY <2>1, <2>2, <2>3, SendStep
<1>5. ASSUME NEW p, NEW params, ClearRetained(p, params) PROVE TypedInv'
  <2> DEFINE t == FormatTopic(p, params)
  <2>1. /\ Publishable(t) /\ Broker(t, <<>>, TRUE, Others)
        /\ UNCHANGED <<declaration, phase, owed, got>>
    BY <1>5 DEF ClearRetained
  <2> HIDE DEF t
  <2> QED BY <1>2, <2>1, SendStep
<1>6. ASSUME NEW m, OthersPublish(m) PROVE TypedInv'
  <2>1. /\ Broker(m.topic, m.bytes, FALSE, Others)
        /\ UNCHANGED <<declaration, phase, owed, got>>
    BY <1>6 DEF OthersPublish
  <2> QED BY <1>2, <2>1, SendStep
<1> QED BY <1>3, <1>4, <1>5, <1>6 DEF PublishOwn

-----------------------------------------------------------------------------
(* What is read back *)

\* The topic written for plain parameters has each of them at the place of its
\* wildcard.
LEMMA FormattedTopic ==
    ASSUME NEW p \in Patterns, Parses(p), NEW params,
           DOMAIN params = 1..Len(Wildcards(p)), PlainParams(params)
    PROVE  \A k \in 1..Len(Wildcards(p)) : FormatTopic(p, params)[Wildcards(p)[k]] = params[k]
<1> DEFINE W == Wildcards(p)
           n == Len(p)
           S == {p[i].text : i \in 1..n} \cup {params[k] : k \in 1..Len(W)}
           words == [i \in 1..n |-> IF IsWildcard(p[i]) THEN Split[params[ParamOf(p, i)]]
                                    ELSE Split[p[i].text]]
<1>1. /\ p \in Seq(Items) /\ n \in Nat /\ n # 0
      /\ \A i \in 1..n : p[i] \in Items /\ p[i] # Invalid
      /\ \A i \in 1..n : p[i].is = "str" => Split[p[i].text] = <<p[i].text>>
  <2>1. p # <<>> /\ \A i \in 1..n : p[i] # Invalid
    BY DEF Parses
  <2> QED BY <2>1, PatternFacts
<1>2. Lists(W, p, n)
  BY <1>1, WildcardPositions
<1>3. ASSUME NEW k \in 1..Len(W)
      PROVE  /\ W[k] \in 1..n /\ IsWildcard(p[W[k]])
             /\ ParamOf(p, W[k]) = k
             /\ words[W[k]] = <<params[k]>>
  <2>1. W[k] \in 1..n /\ IsWildcard(p[W[k]])
    BY <1>2 DEF Lists
  <2>2. \A j \in 1..Len(W) : W[j] = W[k] => j = k
    BY <1>2 DEF Lists
  <2>3. ParamOf(p, W[k]) = k
    BY <2>2 DEF ParamOf
  <2>4. Split[params[k]] = <<params[k]>>
    BY DEF PlainParams, PlainValues
  <2> QED BY <2>1, <2>3, <2>4
<1>4. ASSUME NEW i \in 1..n PROVE \E e \in S : words[i] = <<e>>
  <2>1. CASE IsWildcard(p[i])
    <3>1. PICK k \in 1..Len(W) : W[k] = i
      BY <1>2, <2>1 DEF Lists
    <3>2. words[i] = <<params[k]>> /\ params[k] \in S
      BY <1>3, <3>1
    <3> HIDE DEF words, S
    <3> QED BY <3>2
  <2>2. CASE ~IsWildcard(p[i])
    <3>1. p[i].is = "str"
      BY <1>1, <2>2 DEF Items, IsWildcard
    <3>2. words[i] = <<p[i].text>> /\ p[i].text \in S
      BY <1>1, <2>2, <3>1
    <3> HIDE DEF words, S
    <3> QED BY <3>2
  <2> QED BY <2>1, <2>2
<1>5. Len(words) = n
  BY <1>1
<1>6. FormatTopic(p, params) = FlattenSeq(words)
  BY DEF FormatTopic
<1> HIDE DEF words, S
<1>7. FirstWords(FormatTopic(p, params), words, n, S)
  BY <1>1, <1>4, <1>5, <1>6, FlattenWords
<1>8. \A i \in 1..n : words[i] = <<FormatTopic(p, params)[i]>>
  BY <1>7 DEF FirstWords
<1> QED BY <1>3, <1>8

\* The parameters of the generated methods are those of the template in use, and
\* of the type of their field.
LEMMA ArgumentFacts ==
    ASSUME PatternInv, OfStruct, NEW params \in Arguments(declaration)
    PROVE  /\ DOMAIN params = 1..Len(Wildcards(segments))
           /\ Len(Wildcards(declaration.pattern)) = Len(Wildcards(segments))
           /\ DOMAIN TopicParams(declaration) = DOMAIN params
           /\ \A k \in DOMAIN params : TopicParams(declaration)[k].type = <<"u32">> =>
                  params[k] \in DOMAIN Numerals /\ Numerals[params[k]] = params[k]
<1>1. declaration.pattern \in Patterns /\ segments \in Patterns /\ declared = declaration.pattern
  BY DEF PatternInv, TypeOK, Patterns, OfStruct
<1>2. Len(declaration.pattern) \in Nat /\ Len(segments) \in Nat
  BY <1>1, PatternFacts
<1>3. Len(Wildcards(declaration.pattern)) = Len(Wildcards(segments))
  BY <1>1, <1>2, SameWildcards DEF PatternInv
<1>4. Len(Wildcards(declaration.pattern)) \in Nat
  BY <1>2, WildcardPositions DEF Lists
<1>5. /\ DOMAIN TopicParams(declaration) = 1..Len(Wildcards(declaration.pattern))
      /\ Len(TopicParams(declaration)) = Len(Wildcards(declaration.pattern))
  BY <1>4 DEF TopicParams
<1>6. /\ DOMAIN params = 1..Len(TopicParams(declaration))
      /\ \A k \in DOMAIN params : params[k] \in ParamValues(declaration, k)
  BY DEF Arguments
<1>7. ASSUME NEW k \in DOMAIN params, TopicParams(declaration)[k].type = <<"u32">>
      PROVE  params[k] \in DOMAIN Numerals /\ Numerals[params[k]] = params[k]
  <2>1. params[k] \in Range(Numerals)
    BY <1>6, <1>7 DEF ParamValues
  <2>2. PICK x \in DOMAIN Numerals : Numerals[x] = params[k]
    BY <2>1 DEF Range
  <2> QED BY <2>2, NumeralsAssumption
<1> QED BY <1>3, <1>5, <1>6, <1>7

\* A field with the name of a wildcard is no reserved one, and the wildcard of its
\* name is the only one.
LEMMA FieldOfWildcard ==
    ASSUME PatternInv, OfStruct, NEW k \in DOMAIN TopicParams(declaration),
           TopicParams(declaration)[k].name \in FieldNames(declaration)
    PROVE  /\ TopicParams(declaration)[k].name \notin Reserved
           /\ TopicParams(declaration)[k].type # <<>>
           /\ \A j \in DOMAIN TopicParams(declaration) :
                  TopicParams(declaration)[j].name = TopicParams(declaration)[k].name => j = k
<1> DEFINE p == declaration.pattern
           W == Wildcards(p)
           name == TopicParams(declaration)[k].name
<1>1. Parses(p) /\ p \in Patterns
  BY DEF PatternInv, TypeOK, Patterns, OfStruct, Fits, Accepted, ArgsAccepted
<1>2. Len(p) \in Nat
  BY <1>1, PatternFacts
<1>3. Lists(W, p, Len(p))
  BY <1>2, WildcardPositions
<1>4. /\ DOMAIN TopicParams(declaration) = 1..Len(W)
      /\ \A j \in 1..Len(W) :
            /\ TopicParams(declaration)[j].name = p[W[j]].text
            /\ TopicParams(declaration)[j].type =
                  IF IsNamed(p[W[j]]) /\ p[W[j]].text \in FieldNames(declaration) \ Reserved
                  THEN <<TypeOf(declaration, p[W[j]].text)>> ELSE <<>>
  BY DEF TopicParams
<1>5. \A j \in 1..Len(W) : W[j] \in 1..Len(p) /\ IsWildcard(p[W[j]])
  BY <1>3 DEF Lists
<1>6. PICK f \in Range(declaration.fields) : f.name = name
  BY DEF FieldNames
<1>7. FieldAccepted(declaration, f)
  BY DEF OfStruct, Fits, Accepted, StructAccepted
<1>8. name # Anonymous => name \in Names(p)
  BY <1>4, <1>5 DEF Names, IsNamed
<1>9. name \in Names(p) => name # Anonymous
  BY DEF Names, IsNamed
<1> HIDE DEF W, name
<1>10. name \notin Reserved /\ name # Anonymous
  <2>1. CASE name = "payload"
    <3>1. name \notin Names(p)
      BY <1>6, <1>7, <2>1 DEF FieldAccepted
    <3> QED BY <1>8, <2>1, <3>1 DEF Anonymous
  <2>2. CASE name = "topic"
    <3>1. name \notin Names(p)
      BY <1>6, <1>7, <2>2 DEF FieldAccepted
    <3> QED BY <1>8, <2>2, <3>1 DEF Anonymous
  <2>3. CASE name = "meta"
    <3>1. name \notin Names(p)
      BY <1>6, <1>7, <2>3 DEF FieldAccepted
    <3> QED BY <1>8, <2>3, <3>1 DEF Anonymous
  <2>4. CASE name \notin {"payload", "topic", "meta"}
    <3>1. name \in Names(p)
      BY <1>6, <1>7, <2>4 DEF FieldAccepted
    <3> QED BY <1>9, <2>4, <3>1 DEF Reserved
  <2> QED BY <2>1, <2>2, <2>3, <2>4
<1>11. \A j \in 1..Len(W) : TopicParams(declaration)[j].name = name => IsNamed(p[W[j]])
  BY <1>4, <1>5, <1>10 DEF IsNamed
<1>12. TopicParams(declaration)[k].type # <<>>
  <2>1. p[W[k]].text = name
    BY <1>4 DEF name
  <2>2. IsNamed(p[W[k]]) /\ p[W[k]].text \in FieldNames(declaration) \ Reserved
    BY <1>4, <1>10, <1>11, <2>1 DEF name
  <2>3. TopicParams(declaration)[k].type = <<TypeOf(declaration, p[W[k]].text)>>
    BY <1>4, <2>2
  <2>4. \A x : <<x>> # <<>>
    OBVIOUS
  <2> QED BY <2>3, <2>4, Zenon
<1>13. ASSUME NEW j \in DOMAIN TopicParams(declaration), TopicParams(declaration)[j].name = name
       PROVE  j = k
  <2>1. W[j] = W[k]
    <3>1. /\ W[j] \in 1..Len(p) /\ W[k] \in 1..Len(p)
          /\ IsNamed(p[W[j]]) /\ IsNamed(p[W[k]])
          /\ p[W[j]].text = p[W[k]].text
      BY <1>4, <1>5, <1>11, <1>13 DEF name
    <3> QED BY <1>1, <3>1 DEF Parses
  <2> QED BY <1>3, <1>4, <2>1 DEF Lists
<1> QED BY <1>10, <1>12, <1>13 DEF name

\* Reading a message of the struct's own back: nothing fails, and each field that
\* is read from the topic has the parameter of its name.
LEMMA ReadBack ==
    ASSUME PatternInv, OfStruct, NEW m, Genuine(m.topic, m.bytes, m.from), Own(m.from),
           m.from.template = segments, PlainParams(m.from.params), m.bytes # <<>>,
           m.match = Match(segments, m.topic)
    PROVE  /\ Event(m).is = "message"
           /\ "payload" \in DOMAIN Event(m).fields =>
                  Event(m).fields["payload"] = m.from.value
           /\ \A k \in DOMAIN TopicParams(declaration) :
                  LET name == TopicParams(declaration)[k].name
                  IN  name \in DOMAIN Event(m).fields =>
                          Event(m).fields[name] = <<m.from.params[k]>>
<1> DEFINE W == Wildcards(segments)
           params == m.from.params
           types == TopicParams(declaration)
           extracted == Extractions(declaration, m.match)
<1>1. /\ segments \in Patterns /\ Parses(segments) /\ Len(segments) \in Nat
      /\ \A i \in 1..Len(segments) : segments[i].is # "hash"
  <2>1. segments \in Patterns /\ Parses(segments)
    BY DEF PatternInv, TypeOK, Patterns
  <2>2. Formattable(segments)
    BY DEF Genuine
  <2> QED BY <2>1, <2>2, PatternFacts DEF Formattable
<1>2. /\ params \in Arguments(declaration)
      /\ m.topic = FormatTopic(segments, params)
      /\ m.bytes = <<Codec(declaration), m.from.value>>
  BY DEF Genuine
<1>3. /\ DOMAIN params = 1..Len(W) /\ DOMAIN types = DOMAIN params
      /\ \A k \in DOMAIN params : types[k].type = <<"u32">> =>
             params[k] \in DOMAIN Numerals /\ Numerals[params[k]] = params[k]
  BY <1>2, ArgumentFacts
<1>4. \A k \in 1..Len(W) : m.topic[W[k]] = params[k]
  BY <1>1, <1>2, <1>3, FormattedTopic
<1>5. \A k \in 1..Len(W) : W[k] \in 1..Len(segments)
  BY <1>1, WildcardPositions DEF Lists
<1>6. /\ DOMAIN m.match.params = 1..Len(W)
      /\ \A k \in 1..Len(W) : m.match.params[k] = Captured(segments, m.topic, W[k])
  BY DEF Match
<1>7. \A k \in 1..Len(W) : m.match.params[k] = <<params[k]>>
  BY <1>1, <1>4, <1>5, <1>6 DEF Captured
<1>8. /\ DOMAIN extracted = {k \in DOMAIN types : types[k].type # <<>>}
      /\ \A k \in DOMAIN extracted : extracted[k] = Extract(types[k].type[1], m.match, k)
  BY DEF Extractions
<1>9. \A k \in DOMAIN types : types[k].type # <<>> => \E T : types[k].type = <<T>>
  BY DEF TopicParams
<1> HIDE DEF W, params, types, extracted
<1>10. ASSUME NEW k \in DOMAIN extracted
       PROVE  extracted[k].ok = TRUE /\ extracted[k].value = <<params[k]>>
  <2>1. k \in 1..Len(W) /\ k \in DOMAIN types /\ types[k].type # <<>>
    BY <1>3, <1>8
  <2>2. PICK T : types[k].type = <<T>>
    BY <1>9, <2>1
  <2>3. extracted[k] = Extract(T, m.match, k)
    BY <1>8, <2>2
  <2>4. k \in DOMAIN m.match.params /\ m.match.params[k] = <<params[k]>>
    BY <1>6, <1>7, <2>1
  <2>5. CASE T = "u32"
    <3>1. params[k] \in DOMAIN Numerals /\ Numerals[params[k]] = params[k]
      BY <1>3, <2>1, <2>2, <2>5
    <3>2. m.match.params[k][1] = params[k]
      BY <2>4
    <3>3. \E t \in DOMAIN Numerals : m.match.params[k] = <<t>>
      BY <2>4, <3>1
    <3>4. Extract(T, m.match, k) = [ok |-> TRUE, value |-> <<Numerals[m.match.params[k][1]]>>]
      BY <2>4, <2>5, <3>3 DEF Extract
    <3> QED BY <2>3, <3>1, <3>2, <3>4
  <2>6. CASE T # "u32"
    <3>1. Extract(T, m.match, k) = [ok |-> TRUE, value |-> m.match.params[k]]
      BY <2>4, <2>6 DEF Extract
    <3> QED BY <2>3, <2>4, <3>1
  <2> QED BY <2>5, <2>6
<1>11. {k \in DOMAIN extracted : ~extracted[k].ok} = {}
  BY <1>10
<1> DEFINE fields == FieldAssignments(declaration, extracted, m.topic, m.retain, m.from.value)
<1>12. Event(m) = [is |-> "message", fields |-> fields]
  <2>1. Deserialize(Codec(declaration), m.bytes) = [ok |-> TRUE, value |-> m.from.value]
    BY <1>2 DEF Deserialize
  <2>2. Event(m) = FromMqttMessage(declaration, m.match, m.topic, m.retain, m.from.value)
    BY <2>1 DEF Event
  <2>3. FromMqttMessage(declaration, m.match, m.topic, m.retain, m.from.value)
            = [is |-> "message", fields |-> fields]
    BY <1>11 DEF FromMqttMessage, extracted
  <2> QED BY <2>2, <2>3
<1> HIDE DEF fields
<1>13. Event(m).is = "message" /\ Event(m).fields = fields
  BY <1>12
<1>14. /\ DOMAIN fields = FieldNames(declaration)
       /\ "payload" \in DOMAIN fields => fields["payload"] = m.from.value
  BY DEF fields, FieldAssignments
<1>15. ASSUME NEW k \in DOMAIN types, types[k].name \in DOMAIN fields
       PROVE  fields[types[k].name] = <<params[k]>>
  <2> DEFINE name == types[k].name
  <2>1. /\ name \notin Reserved /\ types[k].type # <<>>
        /\ \A j \in DOMAIN types : types[j].name = name => j = k
    BY <1>14, <1>15, FieldOfWildcard DEF types
  <2>2. k \in DOMAIN extracted /\ \A j \in DOMAIN extracted : j \in DOMAIN types
    BY <1>8, <2>1
  <2>3. (CHOOSE j \in DOMAIN extracted : types[j].name = name) = k
    BY <2>1, <2>2
  <2>4. fields[name] = extracted[CHOOSE j \in DOMAIN extracted : types[j].name = name].value
    <3>1. name \notin {"payload", "topic", "meta"} /\ name \in FieldNames(declaration)
      BY <1>14, <1>15, <2>1 DEF Reserved
    <3> HIDE DEF name
    <3> QED BY <3>1 DEF fields, FieldAssignments, types
  <2> QED BY <1>10, <2>2, <2>3, <2>4
<1> QED BY <1>13, <1>14, <1>15 DEF types, params

-----------------------------------------------------------------------------
(* Every step keeps the invariant *)

\* Building changes the pattern while nothing is under way.
LEMMA BuildStep == ASSUME TypedInv, Build PROVE TypedInv'
<1>1. /\ phase = "building" /\ Next
      /\ UNCHANGED <<declaration, phase, retained, owed, incoming, got, sent>>
  BY DEF Build, messages
<1>2. PatternInv'
  BY <1>1, PatternStep DEF TypedInv
<1>3. declared' = declared
  BY <1>1 DEF Next, BindParameter, ForMethodPanics, WithCacheStrategy, Clone, WithPattern, TryMatch
<1>4. OfStruct'
  BY <1>1, <1>3 DEF TypedInv, OfStruct
<1>5. retained = <<>> /\ incoming = <<>> /\ got.event.is = "nothing"
  BY <1>1 DEF TypedInv, Phases
<1>6. Phases' /\ Counts'
  BY <1>1 DEF TypedInv, Phases, Counts
<1>7. Contents'
  <2>1. DOMAIN retained' = {} /\ Len(incoming') = 0
    BY <1>1, <1>5
  <2> QED BY <2>1 DEF Contents
<1>8. RoundTrip'
  BY <1>1, <1>5 DEF RoundTrip
<1> QED BY <1>1, <1>2, <1>4, <1>5, <1>6, <1>7, <1>8 DEF TypedInv

\* The end of building leaves the pattern and what is under way.
LEMMA BuiltStep == ASSUME TypedInv, Built PROVE TypedInv'
<1>1. /\ phase = "building" /\ phase' = "publishing"
      /\ UNCHANGED <<declared, segments, declaration, retained, owed, incoming, got, sent>>
  BY DEF Built, messages
<1>2. PatternInv'
  BY PatternKept DEF Built, TypedInv
<1>3. OfStruct' /\ RoundTrip'
  BY <1>1, RoundTripKept DEF TypedInv, OfStruct
<1>4. Phases' /\ Counts'
  BY <1>1 DEF TypedInv, Phases, Counts
<1>5. Contents'
  BY <1>1 DEF TypedInv, Contents, Genuine, Own
<1> QED BY <1>1, <1>2, <1>3, <1>4, <1>5 DEF TypedInv

\* What the broker owes a new subscription is some of what it has retained.
LEMMA SubscribeStep == ASSUME TypedInv, Subscribe PROVE TypedInv'
<1>1. /\ phase = "publishing" /\ phase' = "subscribed"
      /\ owed' \subseteq DOMAIN retained
      /\ UNCHANGED <<vars, declaration, retained, incoming, got, sent>>
  BY DEF Subscribe
<1>2. UNCHANGED segments
  BY <1>1 DEF vars
<1>3. incoming = <<>>
  BY <1>1 DEF TypedInv, Phases
<1>4. Counts'
  <2>1. /\ IsFiniteSet(DOMAIN retained) /\ Cardinality(DOMAIN retained) <= sent
        /\ sent \in 0..MaxMessages /\ IsSequence(incoming)
    BY DEF TypedInv, Counts
  <2>2. IsFiniteSet(owed') /\ Cardinality(owed') <= Cardinality(DOMAIN retained)
    BY <1>1, <2>1, FS_Subset, Zenon
  <2>3. Cardinality(owed') \in Nat /\ Cardinality(DOMAIN retained) \in Nat
    BY <2>1, <2>2, FS_CardinalityType, Zenon
  <2>4. Len(incoming) + Cardinality(owed') <= 2 * sent
    BY <1>3, <2>1, <2>2, <2>3, MessagesAssumption
  <2> QED BY <1>1, <2>1, <2>2, <2>4 DEF Counts
<1>5. Contents'
  BY <1>1, <1>2 DEF TypedInv, Contents, Genuine, Own
<1>6. Phases'
  BY <1>1, <1>3 DEF TypedInv, Phases
<1> QED BY <1>1, <1>4, <1>5, <1>6, Assembled

\* A retained message is no longer owed and may be queued.
LEMMA ReplayStep == ASSUME TypedInv, NEW t \in owed, Replay(t) PROVE TypedInv'
<1>1. /\ phase = "subscribed" /\ owed' = owed \ {t}
      /\ UNCHANGED <<vars, declaration, phase, retained, got, sent>>
  BY DEF Replay
<1>2. UNCHANGED segments
  BY <1>1 DEF vars
<1>3. /\ Len(incoming) \in Nat /\ Len(incoming') \in Nat
      /\ Len(incoming') <= Len(incoming) + 1
      /\ IsSequence(incoming')
      /\ \A i \in 1..Len(incoming') :
            /\ Genuine(incoming'[i].topic, incoming'[i].bytes, incoming'[i].from)
            /\ incoming'[i].match = Match(segments, incoming'[i].topic)
  <2>1. CASE t \in DOMAIN retained /\ Reaches(t)
    <3>1. Matched(t) /\ Arrive(t, retained[t].bytes, TRUE, retained[t].from)
      BY <2>1 DEF Replay, Reaches
    <3>2. Genuine(t, retained[t].bytes, retained[t].from)
      BY <2>1 DEF TypedInv, Contents
    <3> QED BY <1>2, <3>1, <3>2, Queued
  <2>2. CASE ~(t \in DOMAIN retained /\ Reaches(t))
    <3>1. incoming' = incoming
      BY <2>2 DEF Replay
    <3>2. Genuine(t, <<>>, Others)
      BY DEF Genuine, Own, Others
    <3> QED BY <1>2, <3>1, <3>2, Queued
  <2> QED BY <2>1, <2>2
<1>4. Counts'
  <2>1. /\ IsFiniteSet(DOMAIN retained) /\ Cardinality(DOMAIN retained) <= sent
        /\ IsFiniteSet(owed) /\ Len(incoming) + Cardinality(owed) <= 2 * sent
        /\ sent \in 0..MaxMessages
    BY DEF TypedInv, Counts
  <2>2. IsFiniteSet(owed') /\ Cardinality(owed') = Cardinality(owed) - 1
    BY <1>1, <2>1, FS_RemoveElement, Zenon
  <2>3. Cardinality(owed) \in Nat
    BY <2>1, FS_CardinalityType, Zenon
  <2>4. Len(incoming') + Cardinality(owed') <= 2 * sent
    BY <1>3, <2>1, <2>2, <2>3, MessagesAssumption
  <2> QED BY <1>1, <1>3, <2>1, <2>2, <2>4 DEF Counts
<1>5. Contents'
  <2>1. \A u, b, f : Genuine(u, b, f)' <=> Genuine(u, b, f)
    BY <1>1 DEF Genuine, Own
  <2>2. \A u \in DOMAIN retained : /\ retained[u].bytes # <<>> /\ Publishable(u)
                                  /\ Genuine(u, retained[u].bytes, retained[u].from)
    BY DEF TypedInv, Contents
  <2> QED BY <1>1, <1>2, <1>3, <2>1, <2>2 DEF Contents
<1>6. Phases'
  BY <1>1 DEF TypedInv, Phases
<1> QED BY <1>1, <1>4, <1>5, <1>6, Assembled

\* What is received is read back, the rest of the queue stays.
LEMMA ReceiveStep == ASSUME TypedInv, Receive PROVE TypedInv'
<1>1. /\ phase = "subscribed"
      /\ UNCHANGED <<vars, declaration, phase, retained, owed, sent>>
  BY DEF Receive
<1>2. UNCHANGED <<segments, declared>>
  BY <1>1 DEF vars
<1>3. PICK n \in 1..Len(incoming) :
          /\ incoming[n].bytes # <<>>
          /\ got' = [event |-> Event(incoming[n]), from |-> incoming[n].from]
          /\ incoming' = SubSeq(incoming, n + 1, Len(incoming))
  BY DEF Receive
<1> DEFINE m == incoming[n]
<1>4. Genuine(m.topic, m.bytes, m.from) /\ m.match = Match(segments, m.topic)
  BY DEF TypedInv, Contents
<1>5. PatternInv' /\ OfStruct'
  BY <1>1, <1>2, PatternStep DEF TypedInv, OfStruct
<1>6. /\ Len(incoming) \in Nat /\ Len(incoming') = Len(incoming) - n
      /\ IsSequence(incoming')
      /\ \A i \in 1..Len(incoming') : incoming'[i] = incoming[n + i] /\ n + i \in 1..Len(incoming)
  <2>1. Dropped(incoming', incoming, n)
    BY <1>3, DropAny DEF TypedInv, Counts
  <2> QED BY <2>1 DEF Dropped
<1>7. Counts'
  <2>1. /\ IsFiniteSet(DOMAIN retained) /\ Cardinality(DOMAIN retained) <= sent
        /\ IsFiniteSet(owed) /\ Len(incoming) + Cardinality(owed) <= 2 * sent
        /\ sent \in 0..MaxMessages
    BY DEF TypedInv, Counts
  <2>2. Cardinality(owed) \in Nat
    BY <2>1, FS_CardinalityType, Zenon
  <2>3. Len(incoming') + Cardinality(owed) <= 2 * sent
    BY <1>6, <2>1, <2>2, MessagesAssumption
  <2> QED BY <1>1, <1>6, <2>1, <2>3 DEF Counts
<1>8. Contents'
  <2>1. \A u, b, f : Genuine(u, b, f)' <=> Genuine(u, b, f)
    BY <1>1 DEF Genuine, Own
  <2>2. /\ \A u \in DOMAIN retained : /\ retained[u].bytes # <<>> /\ Publishable(u)
                                     /\ Genuine(u, retained[u].bytes, retained[u].from)
        /\ \A i \in 1..Len(incoming) :
              /\ Genuine(incoming[i].topic, incoming[i].bytes, incoming[i].from)
              /\ incoming[i].match = Match(segments, incoming[i].topic)
    BY DEF TypedInv, Contents
  <2> QED BY <1>1, <1>2, <1>6, <2>1, <2>2 DEF Contents
<1>9. Phases'
  BY <1>1 DEF TypedInv, Phases
<1> HIDE DEF m
<1>10. got' = [event |-> Event(m), from |-> m.from] /\ m.bytes # <<>>
  BY <1>3 DEF m
<1>11. got'.event.is \in {"nothing", "message", "failed"}
  BY <1>10 DEF Event, FromMqttMessage
<1>12. RoundTrip'
  <2>1. CASE Own(m.from) /\ m.from.template = segments /\ PlainParams(m.from.params)
    <3>1. /\ Event(m).is = "message"
          /\ "payload" \in DOMAIN Event(m).fields =>
                Event(m).fields["payload"] = m.from.value
          /\ \A k \in DOMAIN TopicParams(declaration) :
                LET name == TopicParams(declaration)[k].name
                IN  name \in DOMAIN Event(m).fields =>
                        Event(m).fields[name] = <<m.from.params[k]>>
      BY <1>4, <1>10, <2>1, ReadBack DEF TypedInv, m
    <3> QED BY <1>1, <1>10, <3>1 DEF RoundTrip
  <2>2. CASE ~(Own(m.from) /\ m.from.template = segments /\ PlainParams(m.from.params))
    BY <1>1, <1>2, <1>10, <2>2 DEF RoundTrip, Own
  <2> QED BY <2>1, <2>2
<1> QED BY <1>5, <1>7, <1>8, <1>9, <1>11, <1>12 DEF TypedInv

\* The end of a subscription drops what is queued and what is owed.
LEMMA EndStep == ASSUME TypedInv, End PROVE TypedInv'
<1>1. /\ phase' = "ended" /\ incoming' = <<>> /\ owed' = {}
      /\ UNCHANGED <<vars, declaration, retained, got, sent>>
  BY DEF End
<1>2. UNCHANGED segments
  BY <1>1 DEF vars
<1>3. Counts'
  <2>1. /\ IsFiniteSet(DOMAIN retained) /\ Cardinality(DOMAIN retained) <= sent
        /\ sent \in 0..MaxMessages
    BY DEF TypedInv, Counts
  <2>2. IsFiniteSet(owed') /\ Cardinality(owed') = 0
    BY <1>1, FS_EmptySet, Zenon
  <2>3. IsSequence(incoming')
    <3>1. incoming' \in Seq({})
      BY <1>1
    <3> QED BY <3>1 DEF IsSequence
  <2>4. Len(incoming') = 0
    BY <1>1
  <2>5. Len(incoming') + Cardinality(owed') <= 2 * sent
    BY <2>1, <2>2, <2>4, MessagesAssumption
  <2> QED BY <1>1, <2>1, <2>2, <2>3, <2>5 DEF Counts
<1>4. Contents'
  <2>1. \A u, b, f : Genuine(u, b, f)' <=> Genuine(u, b, f)
    BY <1>1 DEF Genuine, Own
  <2>2. Len(incoming') = 0
    BY <1>1
  <2> QED BY <1>1, <2>1, <2>2 DEF TypedInv, Contents
<1>5. Phases'
  BY <1>1 DEF TypedInv, Phases
<1> QED BY <1>1, <1>3, <1>4, <1>5, Assembled

\* Nothing is under way at the start.
LEMMA TypedInvInit == TypedInit => TypedInv
<1> SUFFICES ASSUME TypedInit PROVE TypedInv
  OBVIOUS
<1>1. /\ declaration \in Declarations /\ Fits(declaration) /\ declared = declaration.pattern
      /\ phase = "building" /\ retained = <<>> /\ owed = {} /\ incoming = <<>> /\ sent = 0
      /\ got.event.is = "nothing"
  BY DEF TypedInit
<1>2. PatternInv
  BY PatternInit DEF TypedInit
<1>3. DOMAIN retained = {} /\ Len(incoming) = 0 /\ incoming \in Seq({})
  BY <1>1
<1>4. Counts
  <2>1. IsFiniteSet({}) /\ Cardinality({}) = 0
    BY FS_EmptySet, Zenon
  <2> QED BY <1>1, <1>3, <2>1, MessagesAssumption DEF Counts, IsSequence
<1>5. Contents
  BY <1>3 DEF Contents
<1>6. Phases /\ RoundTrip /\ OfStruct
  BY <1>1 DEF Phases, RoundTrip, OfStruct
<1> QED BY <1>1, <1>2, <1>4, <1>5, <1>6 DEF TypedInv

\* The invariant is inductive.
LEMMA TypedInvStep == ASSUME TypedInv, [TypedNext]_typedVars PROVE TypedInv'
<1>1. CASE UNCHANGED typedVars
  <2>1. UNCHANGED <<vars, declaration, phase, retained, owed, incoming, got, sent>>
    BY <1>1 DEF typedVars, messages
  <2>2. UNCHANGED segments
    BY <2>1 DEF vars
  <2>3. Phases' /\ Counts'
    BY <2>1 DEF TypedInv, Phases, Counts
  <2>4. Contents'
    BY <2>1, <2>2 DEF TypedInv, Contents, Genuine, Own
  <2> QED BY <2>1, <2>3, <2>4, Assembled
<1> QED
  BY <1>1, BuildStep, BuiltStep, PublishedStep, SubscribeStep, ReplayStep, ReceiveStep, EndStep
  DEF TypedNext

-----------------------------------------------------------------------------
\* Types are kept, topics at the broker are valid ones, and a subscription has at
\* most two messages for each that was sent: for any number of messages.
THEOREM TypedTypeOKHolds == TypedSpec => []TypedTypeOK
<1>1. TypedInv => TypedTypeOK
  <2> SUFFICES ASSUME TypedInv PROVE TypedTypeOK
    OBVIOUS
  <2>1. Len(incoming) \in Nat /\ Cardinality(owed) \in Nat
    BY FS_CardinalityType DEF TypedInv, Counts
  <2>2. Len(incoming) <= 2 * MaxMessages
    BY <2>1, MessagesAssumption DEF TypedInv, Counts
  <2>3. owed # {} => phase = "subscribed"
    BY DEF TypedInv, Phases
  <2> QED BY <2>2, <2>3 DEF TypedTypeOK, TypedInv, PatternInv, OfStruct, Phases, Counts, Contents
<1> QED
  BY <1>1, TypedInvInit, TypedInvStep, PTL DEF TypedSpec

\* Publishers, last wills and subscribers of a struct agree, for every struct the
\* macro and the compiler accept, every template, and any number of messages.
THEOREM RoundTripHolds == TypedSpec => []RoundTrip
<1>1. TypedInv => RoundTrip
  BY DEF TypedInv
<1> QED
  BY <1>1, TypedInvInit, TypedInvStep, PTL DEF TypedSpec
=============================================================================
