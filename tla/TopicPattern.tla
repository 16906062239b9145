----------------------------- MODULE TopicPattern -----------------------------
(***************************************************************************)
(* The topic pattern of a typed subscription, from the struct it was       *)
(* declared on to the messages it matches.                                 *)
(*   mqtt-topic-engine/src/topic_pattern_path.rs   pattern, bindings, cache*)
(*   mqtt-topic-engine/src/topic_match.rs          what a match extracts   *)
(*   core/src/client/subscription_builder.rs       the builder around it   *)
(*   macros/src/codegen.rs                         the methods generated   *)
(*                                                                         *)
(* Three parties read a pattern: the broker its mqtt_pattern(), the trie   *)
(* its resolved segments, try_match() its unresolved ones, and the         *)
(* generated code then picks fields by the wildcard positions of the       *)
(* DECLARED pattern.  The module is about their agreement.                 *)
(*                                                                         *)
(* A string is a model string; Split gives its segments between slashes.   *)
(***************************************************************************)
EXTENDS Naturals, Sequences, SequencesExt

CONSTANTS
    Declared,    \* patterns in #[mqtt_topic], checked at compile time
    Customs,     \* templates handed to with_pattern, ill-formed ones included
    Topics,      \* topics of incoming messages, as sequences of segments
    Dollar,      \* segments that begin with a "$"
    Values,      \* values bound to, or formatted into, a wildcard
    Split,       \* string -> its segments
    MaxCapacity  \* bound: the largest match cache

-----------------------------------------------------------------------------
(* Segments of a pattern *)

Anonymous == ""

Str(s)  == [is |-> "str",  text |-> s]
Plus(n) == [is |-> "plus", text |-> n]
Hash(n) == [is |-> "hash", text |-> n]
Invalid == [is |-> "invalid", text |-> ""]   \* such as "a+b" or "{}"

IsWildcard(item) == item.is \in {"plus", "hash"}
IsNamed(item)    == IsWildcard(item) /\ item.text # Anonymous

\* Positions of the wildcards, in order.
Wildcards(p) ==
    LET upTo[i \in 0..Len(p)] ==
            IF i = 0 THEN <<>>
            ELSE IF IsWildcard(p[i]) THEN Append(upTo[i - 1], i) ELSE upTo[i - 1]
    IN  upTo[Len(p)]

Names(p) == {p[i].text : i \in {j \in 1..Len(p) : IsNamed(p[j])}}

\* A template that is not blank, whose segments are all valid, whose names are
\* distinct, and whose "#" comes last.
Parses(p) ==
    /\ p # <<>>
    /\ \A i \in 1..Len(p) : p[i] # Invalid
    /\ \A i, j \in 1..Len(p) :
            IsNamed(p[i]) /\ IsNamed(p[j]) /\ i # j => p[i].text # p[j].text
    /\ \A i \in 1..Len(p) : p[i].is = "hash" => i = Len(p)

Items == [is : {"str", "plus", "hash"}, text : STRING] \cup {Invalid}

\* What the parser makes of a string: a literal has no slash in it and is not a
\* wildcard character.
ASSUME PatternsAssumption ==
    \A p \in Declared \cup Customs :
        /\ p \in Seq(Items)
        /\ \A i \in 1..Len(p) : p[i].is = "str" =>
                Split[p[i].text] = <<p[i].text>> /\ p[i].text \notin {"+", "#"}
ASSUME TopicsAssumption == Topics \subseteq Seq(STRING) \ {<<>>}
ASSUME DeclaredAssumption == \A p \in Declared : Parses(p)
ASSUME CapacityAssumption == MaxCapacity \in Nat

-----------------------------------------------------------------------------
VARIABLES
    declared,   \* the pattern of the struct
    segments,   \* the parsed template
    bindings,   \* name -> value
    capacity,   \* of the match cache; 0 is NoCache
    cache,      \* [topic, match] entries, the most recently used first
    asked,      \* history: name -> the value last asked for with for_<name>
    stage       \* "live", or "panicked" in a generated method

vars == <<declared, segments, bindings, capacity, cache, asked, stage>>

Init ==
    /\ declared \in Declared
    /\ segments = declared
    /\ bindings = <<>>
    /\ capacity = 0
    /\ cache = <<>>
    /\ asked = <<>>
    /\ stage = "live"

-----------------------------------------------------------------------------
(* What the broker and the trie are given *)

\* Faulty form: a binding takes the first wildcard there is.
Resolved_FirstWildcard ==
    [i \in 1..Len(segments) |->
        IF bindings # <<>> /\ i = Wildcards(segments)[1]
        THEN Str(bindings[CHOOSE n \in DOMAIN bindings : TRUE]) ELSE segments[i]]

\* resolve_bound_segments: each bound "+" becomes a literal.
Resolved ==
    [i \in 1..Len(segments) |->
        IF segments[i].is = "plus" /\ segments[i].text \in DOMAIN bindings
        THEN Str(bindings[segments[i].text]) ELSE segments[i]]

Written(item) == CASE item.is = "plus" -> <<"+">>
                   [] item.is = "hash" -> <<"#">>
                   [] OTHER            -> Split[item.text]

\* Faulty form: the bindings do not reach the broker.
MqttPattern_Unbound ==
    FlattenSeq([i \in 1..Len(segments) |-> Written(segments[i])])

\* mqtt_pattern(), as the broker splits it again.
MqttPattern ==
    LET items == Resolved
    IN  FlattenSeq([i \in 1..Len(items) |-> Written(items[i])])

\* The broker's reading of a filter: a wildcard in front takes no topic that
\* begins with a "$".
BrokerSends(filter, t) ==
    LET n == IF Last(filter) = "#" THEN Len(filter) - 1 ELSE Len(filter)
    IN  /\ IF Last(filter) = "#" THEN n <= Len(t) ELSE n = Len(t)
        /\ \A i \in 1..n : filter[i] \in {t[i], "+"}
        /\ t[1] \in Dollar => filter[1] \notin {"+", "#"}

\* The trie's reading of the resolved segments: the literal child is looked up
\* as a whole, and the walk ends at the first "#".
TrieFinds(t) ==
    LET items  == Resolved
        hashes == {i \in 1..Len(items) : items[i].is = "hash"}
        n == IF hashes = {} THEN Len(items)
             ELSE (CHOOSE i \in hashes : \A j \in hashes : i <= j) - 1
    IN  /\ IF hashes = {} THEN n = Len(t) ELSE n <= Len(t)
        /\ \A i \in 1..n : items[i].is = "str" => items[i].text = t[i]

-----------------------------------------------------------------------------
(* try_match *)

Captured(p, t, i) ==
    IF p[i].is = "hash" THEN SubSeq(t, i, Len(t)) ELSE <<t[i]>>

\* try_match_internal succeeds: every segment of the pattern consumes its
\* segment of the topic, a "#" is the last, and nothing is left over.
Accepts(p, t) ==
    /\ \A i \in 1..Len(p) :
        CASE p[i].is = "str"  -> i <= Len(t) /\ p[i].text = t[i]
          [] p[i].is = "plus" -> i <= Len(t)
          [] p[i].is = "hash" -> i = Len(p)
    /\ Len(t) > Len(p) => Last(p).is = "hash"

\* The TopicMatch it returns: what each wildcard took, by position and by name.
Match(p, t) ==
    [params |-> [k \in 1..Len(Wildcards(p)) |-> Captured(p, t, Wildcards(p)[k])],
     named  |-> [n \in Names(p) |->
                    Captured(p, t, CHOOSE i \in 1..Len(p) :
                                        IsNamed(p[i]) /\ p[i].text = n)]]

Hits(t) == {i \in 1..Len(cache) : cache[i].topic = t}

Matched(t) == Hits(t) # {} \/ Accepts(segments, t)

\* What try_match returns for a topic that is matched.
Answer(t) == IF Hits(t) # {} THEN cache[CHOOSE i \in Hits(t) : TRUE].match
             ELSE Match(segments, t)

\* Faulty form: nothing has to go.
Vacated_NoEviction(t) ==
    IF Hits(t) # {} THEN CHOOSE i \in Hits(t) : TRUE ELSE Len(cache) + 1

\* The place that becomes free when an entry goes to the front: its own, or the
\* next one, or in a full cache that of the last.
Vacated(t) ==
    IF Hits(t) # {} THEN CHOOSE i \in Hits(t) : TRUE
    ELSE IF Len(cache) < capacity THEN Len(cache) + 1 ELSE Len(cache)

\* The entry comes to the front, those before the free place move up by one.
Remember(t) ==
    LET free == Vacated(t)
    IN  [i \in 1..(IF free > Len(cache) THEN free ELSE Len(cache)) |->
            IF i = 1 THEN [topic |-> t, match |-> Answer(t)]
            ELSE cache[IF i <= free THEN i - 1 ELSE i]]

TryMatch(t) ==
    /\ stage = "live"
    /\ capacity > 0 /\ Matched(t)
    /\ cache' = Remember(t)
    /\ UNCHANGED <<declared, segments, bindings, capacity, asked, stage>>

-----------------------------------------------------------------------------
(* Changing the pattern *)

\* bind_parameter through the generated for_<name>: the name must be that of a
\* "+"; a second value replaces the first.  The cache stays.
BindParameter(n, v) ==
    /\ stage = "live"
    /\ Plus(n) \in Range(segments) /\ n # Anonymous
    /\ bindings' = [m \in DOMAIN bindings \cup {n} |-> IF m = n THEN v ELSE bindings[m]]
    /\ asked' = [m \in DOMAIN asked \cup {n} |-> IF m = n THEN v ELSE asked[m]]
    /\ UNCHANGED <<declared, segments, capacity, cache, stage>>

\* A for_ method exists for every wildcard of the struct, and unwraps the error
\* bind_parameter returns for a "#" and for a wildcard without a name.
ForMethodPanics ==
    /\ stage = "live"
    /\ \E i \in 1..Len(declared) :
            /\ IsWildcard(declared[i])
            /\ declared[i].is = "hash" \/ declared[i].text = Anonymous
    /\ stage' = "panicked"
    /\ UNCHANGED <<declared, segments, bindings, capacity, cache, asked>>

\* with_cache_strategy: the template parsed again, the bindings copied.
WithCacheStrategy(c) ==
    /\ stage = "live"
    /\ capacity' = c
    /\ cache' = <<>>
    /\ UNCHANGED <<declared, segments, bindings, asked, stage>>

\* A clone matches like the original and starts with an empty cache.
Clone ==
    /\ stage = "live"
    /\ cache' = <<>>
    /\ UNCHANGED <<declared, segments, bindings, capacity, asked, stage>>

\* Faulty form: the wildcards may come in another order.
Compatible_AnyOrder(own, p) ==
    {own[i] : i \in Range(Wildcards(own))} = {p[i] : i \in Range(Wildcards(p))}

\* check_pattern_compatibility: the same wildcards, names included, in order.
Compatible(own, p) ==
    [k \in 1..Len(Wildcards(own)) |-> own[Wildcards(own)[k]]]
        = [k \in 1..Len(Wildcards(p)) |-> p[Wildcards(p)[k]]]

\* Faulty form: the candidate takes over the cache of the pattern it replaces.
WithPattern_KeepsCache(p) ==
    /\ stage = "live"
    /\ Parses(p) /\ Compatible(segments, p)
    /\ segments' = p
    /\ bindings' = <<>>
    /\ UNCHANGED <<declared, capacity, cache, asked, stage>>

\* with_pattern: the candidate as it was parsed, without the bindings and the
\* cache of the pattern it replaces.  A candidate that is refused changes nothing.
WithPattern(p) ==
    /\ stage = "live"
    /\ Parses(p) /\ Compatible(segments, p)
    /\ segments' = p
    /\ bindings' = <<>>
    /\ capacity' = 0
    /\ cache' = <<>>
    /\ UNCHANGED <<declared, asked, stage>>

-----------------------------------------------------------------------------
(* format_topic: the publisher's side *)

\* The parameter that fills the wildcard at position i.
ParamOf(p, i) == CHOOSE k \in 1..Len(Wildcards(p)) : Wildcards(p)[k] = i

Formattable(p) == \A i \in 1..Len(p) : p[i].is # "hash"

\* The topic written for params (one for each wildcard), as it is split again.
\* Bindings play no part.  A pattern with a "#" is refused.
FormatTopic(p, params) ==
    FlattenSeq([i \in 1..Len(p) |->
        IF IsWildcard(p[i]) THEN Split[params[ParamOf(p, i)]] ELSE Split[p[i].text]])

-----------------------------------------------------------------------------
Next ==
    \/ \E n \in Names(segments), v \in Values : BindParameter(n, v)
    \/ ForMethodPanics
    \/ \E c \in 0..MaxCapacity : WithCacheStrategy(c)
    \/ Clone
    \/ \E p \in Customs : WithPattern(p)
    \/ \E t \in Topics : TryMatch(t)

Spec == Init /\ [][Next]_vars

-----------------------------------------------------------------------------
(* Properties *)

\* Every variable has its type: the template stays one that parses, only names
\* of a "+" are bound, and a cache that is off is empty.
TypeOK ==
    /\ declared \in Declared
    /\ segments \in Declared \cup Customs /\ Parses(segments)
    /\ \A n \in DOMAIN bindings :
            n # Anonymous /\ Plus(n) \in Range(segments) /\ bindings[n] \in Values
    /\ \A n \in DOMAIN asked : Plus(n) \in Range(declared) /\ asked[n] \in Values
    /\ capacity \in 0..MaxCapacity
    /\ Len(cache) <= capacity
    /\ stage \in {"live", "panicked"}

\* The cache never changes an answer: through binding, cloning, re-caching and
\* replacing, each entry is what a fresh match of its topic gives, and there is
\* one for a topic.
CacheTransparent ==
    /\ \A i \in 1..Len(cache) :
        /\ Accepts(segments, cache[i].topic)
        /\ cache[i].match = Match(segments, cache[i].topic)
    /\ \A i, j \in 1..Len(cache) : cache[i].topic = cache[j].topic => i = j

\* What the trie finds by the resolved segments, try_match accepts by the
\* unresolved ones, so the error branch of handle_send is not taken; and a
\* bound parameter then has the value it was bound to.
RoutedMatches ==
    \A t \in Topics : TrieFinds(t) =>
        /\ Matched(t)
        /\ \A n \in DOMAIN bindings : Answer(t).named[n] = <<bindings[n]>>

PlainValues == {v \in Values : Split[v] = <<v>> /\ v \notin {"+", "#"}}

\* As long as only plain values are bound, the trie finds a subscriber for what
\* the broker sends, and the broker sends what the trie finds, but for topics with
\* a "$" in front: there the trie has no rule of its own.
BrokerAgrees ==
    (\A n \in DOMAIN bindings : bindings[n] \in PlainValues) =>
        LET filter == MqttPattern
        IN  \A t \in Topics :
                /\ BrokerSends(filter, t) => TrieFinds(t)
                /\ TrieFinds(t) /\ t[1] \notin Dollar => BrokerSends(filter, t)

\* The generated code reads a field by the position its wildcard has in the
\* declared pattern.  In any pattern put in its place that position still holds
\* the parameter of the field's name.
FieldsExtracted ==
    \A t \in Topics : Matched(t) =>
        \A k \in 1..Len(Wildcards(declared)) :
            LET item == declared[Wildcards(declared)[k]]
            IN  IsNamed(item) => /\ k \in DOMAIN Answer(t).params
                                 /\ item.text \in DOMAIN Answer(t).named
                                 /\ Answer(t).params[k] = Answer(t).named[item.text]

\* examples/001_ping_pong.rs:85 ".for_player("alice") subscribes to "game/alice"
\* only": a subscription routes no topic whose parameter differs from the value
\* asked for.
NarrowedStays ==
    \A t \in Topics : TrieFinds(t) =>
        \A n \in DOMAIN asked : Match(segments, t).named[n] = <<asked[n]>>
=============================================================================
