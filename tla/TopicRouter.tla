----------------------------- MODULE TopicRouter -----------------------------
(***************************************************************************)
(* The routing table of the actor: a map of subscriptions and a trie that  *)
(* finds those whose pattern matches a topic.                              *)
(*   mqtt-topic-engine/src/topic_router.rs   the map and its operations    *)
(*   mqtt-topic-engine/src/topic_matcher.rs  the trie                      *)
(*                                                                         *)
(* A pattern is the sequence of its resolved segments; "+" and "#" are the *)
(* wildcard items, every other segment is literal.  A trie node is the     *)
(* path that leads to it.  Its exact-match table is tables[path], its      *)
(* multi-level table tables[path \o <<"#">>]; a table that is None is not  *)
(* in the domain.  The payload of a subscription plays no part.            *)
(***************************************************************************)
EXTENDS Naturals, Sequences, Functions

CONSTANTS
    Patterns,   \* the patterns in use, as sequences of segments
    Topics,     \* the topics published, as sequences of literal segments
    QoS,        \* levels of service in use, ordered as numbers
    MaxIds      \* bound: subscriptions made between two cleanups

ASSUME PatternsAssumption ==
    \A p \in Patterns : /\ p \in Seq(STRING) /\ p # <<>>
                        /\ \A i \in 1..Len(p) - 1 : p[i] # "#"
ASSUME TopicsAssumption ==
    \A t \in Topics : /\ t \in Seq(STRING) /\ t # <<>>
                      /\ \A i \in 1..Len(t) : t[i] \notin {"+", "#"}
ASSUME QoSAssumption    == QoS \subseteq 0..2
ASSUME MaxIdsAssumption == MaxIds \in Nat

VARIABLES
    subscriptions,  \* id -> [pattern, qos]
    tables,         \* pattern -> the ids in its table
    nodes,          \* the nodes of the trie, the root <<>> among them
    nextId

vars == <<subscriptions, tables, nodes, nextId>>

-----------------------------------------------------------------------------
Ids == DOMAIN subscriptions

\* The node that holds a pattern's table, and the path from the root to it.
NodeOf(p) == IF p[Len(p)] = "#" THEN SubSeq(p, 1, Len(p) - 1) ELSE p
Path(p)   == {SubSeq(NodeOf(p), 1, k) : k \in 0..Len(NodeOf(p))}

Children(n) == {c \in nodes : Len(c) = Len(n) + 1 /\ SubSeq(c, 1, Len(n)) = n}

Table(p) == IF p \in DOMAIN tables THEN tables[p] ELSE {}

Init ==
    /\ subscriptions = <<>>
    /\ tables = <<>>
    /\ nodes = {<<>>}
    /\ nextId = 0

-----------------------------------------------------------------------------
(* add_subscription *)

\* Faulty form: any subscription on the pattern is taken to be enough.
NeedsSubscribe_AnyQoS(p, q) == Table(p) = {}

\* First of its pattern, or of a higher level than all others.
NeedsSubscribe(p, q) == \A id \in Table(p) : q > subscriptions[id].qos

AddSubscription(p, q) ==
    /\ nextId < MaxIds
    /\ subscriptions' = [id \in Ids \cup {nextId} |->
                            IF id = nextId THEN [pattern |-> p, qos |-> q]
                            ELSE subscriptions[id]]
    /\ tables' = [r \in DOMAIN tables \cup {p} |->
                    IF r = p THEN Table(p) \cup {nextId} ELSE tables[r]]
    /\ nodes' = nodes \cup Path(p)
    /\ nextId' = nextId + 1

-----------------------------------------------------------------------------
(* unsubscribe *)

\* The pattern's table becomes None when its last subscription goes.
Vacated(id) == Table(subscriptions[id].pattern) = {id}

\* is_empty() of a node on the pattern's path once update_node has returned to
\* it: no table besides the vacated one, no child besides the pruned one.
Bare(n, p) ==
    /\ \A r \in DOMAIN tables \ {p} : NodeOf(r) # n
    /\ Children(n) \subseteq Path(p)

\* Faulty forms: a node is pruned although another subtree hangs from it; the
\* bubbling up stops one level too early.
Pruned_Siblings(id) ==
    LET p == subscriptions[id].pattern
    IN  IF ~Vacated(id) THEN {}
        ELSE {n \in Path(p) : \A m \in Path(p) :
                Len(m) >= Len(n) => \A r \in DOMAIN tables \ {p} : NodeOf(r) # m}

Pruned_LeafOnly(id) ==
    LET p == subscriptions[id].pattern
    IN  IF Vacated(id) /\ Bare(NodeOf(p), p) THEN {NodeOf(p)} ELSE {}

\* The nodes update_node reports empty on its way up: it stops at the first
\* one that is not.
Pruned(id) ==
    LET p == subscriptions[id].pattern
    IN  IF ~Vacated(id) THEN {}
        ELSE {n \in Path(p) : \A m \in Path(p) : Len(m) >= Len(n) => Bare(m, p)}

\* What update_node returns is the emptiness of the ROOT: its caller's.
TopicNowEmpty(id) == <<>> \in Pruned(id)

Unsubscribe(id) ==
    LET p == subscriptions[id].pattern
    IN  /\ subscriptions' = Restrict(subscriptions, Ids \ {id})
        /\ tables' = IF Vacated(id) THEN Restrict(tables, DOMAIN tables \ {p})
                     ELSE [tables EXCEPT ![p] = @ \ {id}]
        /\ nodes' = (nodes \ Pruned(id)) \cup {<<>>}
        /\ UNCHANGED nextId

\* Faulty form: the map of subscriptions is not cleared.
Cleanup_KeepsMap ==
    /\ tables' = <<>>
    /\ nodes' = {<<>>}
    /\ nextId' = 0
    /\ UNCHANGED subscriptions

Cleanup ==
    /\ subscriptions' = <<>>
    /\ tables' = <<>>
    /\ nodes' = {<<>>}
    /\ nextId' = 0

-----------------------------------------------------------------------------
(* get_subscribers *)

\* The nodes the search reaches for the first k segments of a topic.
Reached(t, k) ==
    {n \in nodes : /\ Len(n) = k
                   /\ \A i \in 1..k : /\ n[i] \in {t[i], "+"}
                                      /\ SubSeq(n, 1, i) \in nodes}

\* Faulty form: "#" is not looked at when the topic is used up.
GetSubscribers_NoParent(t) ==
    UNION ({Table(n) : n \in Reached(t, Len(t))}
           \cup {Table(Append(n, "#")) : n \in UNION {Reached(t, k) : k \in 0..Len(t) - 1}})

\* Every node reached gives its "#" table, those reached by the whole topic
\* their exact-match table too.
GetSubscribers(t) ==
    UNION ({Table(n) : n \in Reached(t, Len(t))}
           \cup {Table(Append(n, "#")) : n \in UNION {Reached(t, k) : k \in 0..Len(t)}})

\* Each pattern once, with the highest level among its subscriptions.
TopicsForResubscribe ==
    [p \in {subscriptions[id].pattern : id \in Ids} |->
        CHOOSE q \in QoS :
            /\ \E id \in Ids : subscriptions[id] = [pattern |-> p, qos |-> q]
            /\ \A id \in Ids : subscriptions[id].pattern = p => q >= subscriptions[id].qos]

-----------------------------------------------------------------------------
Next ==
    \/ \E p \in Patterns, q \in QoS : AddSubscription(p, q)
    \/ \E id \in Ids : Unsubscribe(id)
    \/ Cleanup

Spec == Init /\ [][Next]_vars

-----------------------------------------------------------------------------
(* Properties *)

\* Every variable has its type, and every id in use has been handed out since
\* the counter last started over.
TypeOK ==
    /\ nextId \in 0..MaxIds
    /\ Ids \subseteq 0..nextId - 1
    /\ \A id \in Ids : subscriptions[id] \in [pattern : Patterns, qos : QoS]
    /\ DOMAIN tables \subseteq Patterns
    /\ \A p \in DOMAIN tables : tables[p] \subseteq 0..nextId - 1
    /\ nodes \subseteq {<<>>} \cup UNION {Path(p) : p \in Patterns}

\* MQTT's meaning of a pattern: "+" stands for one segment, a final "#" for
\* any number of segments, none included.
Matches(p, t) ==
    LET n == NodeOf(p)
    IN  /\ IF p[Len(p)] = "#" THEN Len(n) <= Len(t) ELSE Len(n) = Len(t)
        /\ \A i \in 1..Len(n) : n[i] \in {t[i], "+"}

\* Through every sequence of additions, removals and prunings the trie finds
\* exactly the subscriptions whose pattern matches.
RoutesExactly ==
    \A t \in Topics :
        GetSubscribers(t) = {id \in Ids : Matches(subscriptions[id].pattern, t)}

\* The two structures agree, so no "BUG:" panic, no failed expect and no
\* TopicMatcherError is reachable: tables hold live ids under their pattern,
\* and each live id has its table on an unbroken path of nodes.
InStep ==
    /\ \A p \in DOMAIN tables : \A id \in tables[p] :
            id \in Ids /\ subscriptions[id].pattern = p
    /\ \A id \in Ids :
            LET p == subscriptions[id].pattern
            IN  id \in Table(p) /\ Path(p) \subseteq nodes

\* Nothing is left behind: no empty table, and no node but the root without a
\* table at or below it.
NoGarbage ==
    /\ \A p \in DOMAIN tables : tables[p] # {}
    /\ \A n \in nodes \ {<<>>} : \E p \in DOMAIN tables : n \in Path(p)

\* topic_router.rs:171 "`topic_now_empty` is `true` when no other subscription
\* remains for the pattern, so the caller should unsubscribe it on the broker".
EmptyFlagComplete ==
    [][\A id \in Ids :
        /\ Unsubscribe(id)
        /\ \A o \in DOMAIN subscriptions' :
                subscriptions'[o].pattern # subscriptions[id].pattern
        => TopicNowEmpty(id)]_vars

=============================================================================
