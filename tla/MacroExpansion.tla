---------------------------- MODULE MacroExpansion ----------------------------
(***************************************************************************)
(* What the attribute mqtt_topic makes of a struct.                        *)
(*   macros/src/lib.rs                    the arguments of the attribute   *)
(*   macros/src/analysis.rs               the fields against the pattern   *)
(*   macros/src/codegen.rs                the conversions it generates     *)
(*   core/src/structured/subscriber.rs    the conversion of one parameter  *)
(*                                                                         *)
(* A declaration is what the macro is given:                               *)
(*   [pattern, args (after the pattern), shape, fields (name and type)].   *)
(* It is refused, or code is generated for it.                             *)
(***************************************************************************)
EXTENDS TopicPattern

CONSTANTS
    ClientCodec,  \* the serializer of the client, its type parameter F
    Numerals      \* text -> the number it stands for, as it is written again;
                  \* all other text is none

ASSUME NumeralsAssumption ==
    \A t \in DOMAIN Numerals :
        Numerals[t] \in DOMAIN Numerals /\ Numerals[Numerals[t]] = Numerals[t]

-----------------------------------------------------------------------------
(* The arguments of the attribute *)

Flag(word)          == [is |-> "flag", word |-> word]
Assign(left, right) == [is |-> "assign", left |-> left, right |-> right]

Flags(d)       == SelectSeq(d.args, LAMBDA a : a.is = "flag")
Assignments(d) == SelectSeq(d.args, LAMBDA a : a.is = "assign")
Modes(d)       == {a.word : a \in Range(Flags(d))}

\* Both, unless one is asked for.
Subscribes(d) == Modes(d) = {} \/ "subscriber" \in Modes(d)
Publishes(d)  == Modes(d) = {} \/ "publisher" \in Modes(d)

\* The last assignment wins.
Codec(d) == IF Assignments(d) = <<>> THEN ClientCodec ELSE Last(Assignments(d)).right

\* A publisher needs a pattern without "#".
ArgsAccepted(d) ==
    /\ Parses(d.pattern)
    /\ Modes(d) \subseteq {"subscriber", "publisher"}
    /\ \A a \in Range(Assignments(d)) : a.left = "serializer" /\ a.right # "generic"
    /\ Len(Flags(d)) <= 2
    /\ Publishes(d) => Formattable(d.pattern)

-----------------------------------------------------------------------------
(* The fields of the struct *)

Reserved      == {"payload", "topic", "meta"}
FieldNames(d) == {f.name : f \in Range(d.fields)}
TypeOf(d, n)  == (CHOOSE f \in Range(d.fields) : f.name = n).type

\* The types of the two fields that can be taken bare or shared.
Adaptive == [topic |-> {"TopicMatch", "Arc<TopicMatch>"},
             meta  |-> {"MessageMeta", "Arc<MessageMeta>"}]

\* Faulty form: a reserved field may have the name of a wildcard.
FieldAccepted_Shadows(d, f) ==
    CASE f.name = "payload" -> TRUE
      [] f.name = "topic"   -> f.type \in Adaptive.topic
      [] f.name = "meta"    -> f.type \in Adaptive.meta
      [] OTHER              -> f.name \in Names(d.pattern)

\* A reserved field must not be a wildcard's name, any other has to be one.
FieldAccepted(d, f) ==
    CASE f.name = "payload" -> f.name \notin Names(d.pattern)
      [] f.name = "topic"   -> /\ f.name \notin Names(d.pattern)
                               /\ f.type \in Adaptive.topic
      [] f.name = "meta"    -> /\ f.name \notin Names(d.pattern)
                               /\ f.type \in Adaptive.meta
      [] OTHER              -> f.name \in Names(d.pattern)

StructAccepted(d) ==
    d.shape = "named" /\ \A f \in Range(d.fields) : FieldAccepted(d, f)

\* One for each wildcard, in order; the type is none without a field of its name.
TopicParams(d) ==
    [k \in 1..Len(Wildcards(d.pattern)) |->
        LET item == d.pattern[Wildcards(d.pattern)[k]]
        IN  [name |-> item.text,
             type |-> IF IsNamed(item) /\ item.text \in FieldNames(d) \ Reserved
                      THEN <<TypeOf(d, item.text)>> ELSE <<>>]]

-----------------------------------------------------------------------------
(* The code that is generated *)

ParamName(d, k) ==
    LET name == TopicParams(d)[k].name
    IN  IF name = Anonymous THEN <<"wildcard_0", "wildcard_1", "wildcard_2">>[k] ELSE name

\* What the parameter of a generated method ranges over; "&str" for a String and
\* for a wildcard without a field.
ParamValues(d, k) ==
    IF TopicParams(d)[k].type = <<"u32">> THEN Values \cap Range(Numerals) ELSE Values

Arguments(d) ==
    {params \in [1..Len(TopicParams(d)) -> Values] :
        \A k \in DOMAIN params : params[k] \in ParamValues(d, k)}

\* The generated methods have parameters of their own beside those of the
\* pattern; the macro checks neither these nor each other, the compiler does.
Compiles(d) ==
    LET params == 1..Len(TopicParams(d))
    IN  /\ \A j, k \in params : ParamName(d, j) = ParamName(d, k) => j = k
        /\ Publishes(d) => \A k \in params : ParamName(d, k) \notin
                                {"client", "data", "custom_pattern", "payload"}

Accepted(d) == ArgsAccepted(d) /\ StructAccepted(d)

\* extract_topic_parameter: present, and a value of the field's type.
Extract(type, match, k) ==
    CASE k \notin DOMAIN match.params -> [ok |-> FALSE, error |-> "missing"]
      [] type = "u32" /\ ~(\E t \in DOMAIN Numerals : match.params[k] = <<t>>)
            -> [ok |-> FALSE, error |-> "parse"]
      [] type = "u32" /\ (\E t \in DOMAIN Numerals : match.params[k] = <<t>>)
            -> [ok |-> TRUE, value |-> <<Numerals[match.params[k][1]]>>]
      [] OTHER -> [ok |-> TRUE, value |-> match.params[k]]

\* The extractions of the parameters that are fields, by the wildcard's position.
Extractions(d, match) ==
    LET params == TopicParams(d)
    IN  [k \in {j \in DOMAIN params : params[j].type # <<>>} |->
            Extract(params[k].type[1], match, k)]

\* The struct's fields from what was extracted and from the message.
FieldAssignments(d, extracted, topic, meta, payload) ==
    LET Position(n) == CHOOSE k \in DOMAIN extracted : TopicParams(d)[k].name = n
    IN  [n \in FieldNames(d) |-> CASE n = "payload" -> payload
                                  [] n = "topic"   -> topic
                                  [] n = "meta"    -> meta
                                  [] OTHER         -> extracted[Position(n)].value]

\* from_mqtt_message: the extractions in the order of the wildcards, the first
\* error is returned; then the fields.
FromMqttMessage(d, match, topic, meta, payload) ==
    LET extracted == Extractions(d, match)
        bad == {k \in DOMAIN extracted : ~extracted[k].ok}
    IN  IF bad # {}
        THEN [is |-> "failed",
              error |-> extracted[CHOOSE k \in bad : \A j \in bad : k <= j].error]
        ELSE [is |-> "message",
              fields |-> FieldAssignments(d, extracted, topic, meta, payload)]
=============================================================================
