------------------------- MODULE TopicRouter_proofs -------------------------
(* Theorems about TopicRouter, for every set of patterns and topics and any  *)
(* number of subscriptions.                                                  *)
EXTENDS TopicRouter, SequenceTheorems, WellFoundedInduction, TLAPS

-----------------------------------------------------------------------------
(* Paths *)

\* n is the beginning of m.
Begins(n, m) == Len(n) <= Len(m) /\ \A i \in 1..Len(n) : n[i] = m[i]

\* The beginning of a sequence, element by element.
LEMMA TakeFacts ==
    ASSUME NEW s \in Seq(STRING), NEW k \in 0..Len(s)
    PROVE  /\ SubSeq(s, 1, k) \in Seq(STRING)
           /\ Len(SubSeq(s, 1, k)) = k
           /\ Begins(SubSeq(s, 1, k), s)
<1>1. Len(s) \in Nat /\ k \in Nat
  OBVIOUS
<1>2. \A i \in 1..k : s[i] \in STRING
  BY <1>1
<1>3. /\ SubSeq(s, 1, k) \in Seq(STRING)
      /\ Len(SubSeq(s, 1, k)) = IF 1 <= k THEN k - 1 + 1 ELSE 0
      /\ \A i \in 1..k - 1 + 1 : SubSeq(s, 1, k)[i] = s[1 + i - 1]
  BY <1>1, <1>2, SubSeqProperties
<1> QED
  BY <1>1, <1>3 DEF Begins

\* Two sequences of one length, of which one begins the other, are the same.
LEMMA BeginsWhole ==
    ASSUME NEW n \in Seq(STRING), NEW m \in Seq(STRING), Begins(n, m), Len(n) = Len(m)
    PROVE  n = m
  BY SeqEqual DEF Begins

\* The node of a pattern.
LEMMA NodeFacts ==
    ASSUME NEW p \in Patterns
    PROVE  /\ p \in Seq(STRING) /\ Len(p) \in Nat \ {0}
           /\ NodeOf(p) \in Seq(STRING)
           /\ p[Len(p)] # "#" => NodeOf(p) = p
           /\ p[Len(p)] = "#" => Len(NodeOf(p)) = Len(p) - 1 /\ Begins(NodeOf(p), p)
<1>1. p \in Seq(STRING) /\ Len(p) \in Nat \ {0}
  BY PatternsAssumption
<1>2. Len(p) - 1 \in 0..Len(p)
  BY <1>1
<1> QED
  BY <1>1, <1>2, TakeFacts DEF NodeOf

\* The path of a pattern: all that begins its node.
LEMMA PathFacts ==
    ASSUME NEW p \in Patterns, NEW n
    PROVE  n \in Path(p) <=> n \in Seq(STRING) /\ Begins(n, NodeOf(p))
<1>1. NodeOf(p) \in Seq(STRING) /\ Len(NodeOf(p)) \in Nat
  BY NodeFacts
<1>2. n \in Path(p) => n \in Seq(STRING) /\ Begins(n, NodeOf(p))
  BY <1>1, TakeFacts DEF Path
<1>3. ASSUME n \in Seq(STRING), Begins(n, NodeOf(p)) PROVE n \in Path(p)
  <2>1. Len(n) \in 0..Len(NodeOf(p))
    BY <1>1, <1>3 DEF Begins
  <2>2. /\ SubSeq(NodeOf(p), 1, Len(n)) \in Seq(STRING)
        /\ Len(SubSeq(NodeOf(p), 1, Len(n))) = Len(n)
        /\ Begins(SubSeq(NodeOf(p), 1, Len(n)), NodeOf(p))
    BY <1>1, <2>1, TakeFacts
  <2>3. Begins(n, SubSeq(NodeOf(p), 1, Len(n)))
    BY <1>1, <1>3, <2>1, <2>2 DEF Begins
  <2>4. n = SubSeq(NodeOf(p), 1, Len(n))
    BY <1>3, <2>2, <2>3, BeginsWhole
  <2> QED BY <2>1, <2>4 DEF Path
<1> QED
  BY <1>2, <1>3

\* What begins a node of the path is on the path, and of two nodes of a path the
\* shorter begins the longer.
LEMMA PathClosed ==
    ASSUME NEW p \in Patterns, NEW m \in Path(p), NEW n \in Seq(STRING)
    PROVE  /\ Begins(n, m) => n \in Path(p)
           /\ n \in Path(p) /\ Len(n) <= Len(m) => Begins(n, m)
<1>1. m \in Seq(STRING) /\ Begins(m, NodeOf(p)) /\ NodeOf(p) \in Seq(STRING)
  BY PathFacts, NodeFacts
<1>2. Begins(n, m) => Begins(n, NodeOf(p))
  BY <1>1 DEF Begins
<1>3. n \in Path(p) => Begins(n, NodeOf(p))
  BY PathFacts
<1>4. Begins(n, NodeOf(p)) /\ Len(n) <= Len(m) => Begins(n, m)
  BY <1>1 DEF Begins
<1> QED
  BY <1>2, <1>3, <1>4, PathFacts

\* The two ends of a path.
LEMMA PathEnds ==
    ASSUME NEW p \in Patterns
    PROVE  <<>> \in Path(p) /\ NodeOf(p) \in Path(p)
<1>1. NodeOf(p) \in Seq(STRING) /\ <<>> \in Seq(STRING) /\ Len(<<>>) = 0
  BY NodeFacts
<1>2. Begins(<<>>, NodeOf(p)) /\ Begins(NodeOf(p), NodeOf(p))
  BY <1>1 DEF Begins
<1> QED
  BY <1>1, <1>2, PathFacts

-----------------------------------------------------------------------------
(* The invariant *)

Inv ==
    /\ TypeOK
    /\ InStep
    /\ NoGarbage
    /\ <<>> \in nodes

\* A pattern with a table has a live subscription and its whole path.
LEMMA TableFacts ==
    ASSUME Inv, NEW p \in DOMAIN tables
    PROVE  /\ p \in Patterns
           /\ \E id \in Ids : subscriptions[id].pattern = p /\ id \in tables[p]
           /\ Path(p) \subseteq nodes
<1>1. p \in Patterns /\ tables[p] # {}
  BY DEF Inv, TypeOK, NoGarbage
<1>2. PICK id \in tables[p] : id \in Ids /\ subscriptions[id].pattern = p
  BY <1>1 DEF Inv, InStep
<1>3. Path(p) \subseteq nodes
  BY <1>2 DEF Inv, InStep
<1> QED
  BY <1>1, <1>2, <1>3

\* Nodes are sequences of segments.
LEMMA NodesTyped == ASSUME Inv PROVE nodes \subseteq Seq(STRING)
<1> SUFFICES ASSUME NEW n \in nodes PROVE n \in Seq(STRING)
  OBVIOUS
<1>1. <<>> \in Seq(STRING)
  OBVIOUS
<1>2. ASSUME NEW p \in Patterns, n \in Path(p) PROVE n \in Seq(STRING)
  BY <1>2, PathFacts
<1> QED
  BY <1>1, <1>2 DEF Inv, TypeOK

\* The children of a node, for a child that begins with it.
LEMMA ChildFacts ==
    ASSUME NEW n \in Seq(STRING), NEW c \in Seq(STRING), c \in nodes
    PROVE  c \in Children(n) <=> Len(c) = Len(n) + 1 /\ Begins(n, c)
<1>1. ASSUME Len(c) = Len(n) + 1
      PROVE  SubSeq(c, 1, Len(n)) = n <=> Begins(n, c)
  <2>1. Len(n) \in 0..Len(c)
    BY <1>1
  <2>2. /\ SubSeq(c, 1, Len(n)) \in Seq(STRING)
        /\ Len(SubSeq(c, 1, Len(n))) = Len(n)
        /\ Begins(SubSeq(c, 1, Len(n)), c)
    BY <2>1, TakeFacts
  <2>3. Begins(n, c) => Begins(n, SubSeq(c, 1, Len(n)))
    BY <2>1, <2>2 DEF Begins
  <2>4. Begins(n, c) => n = SubSeq(c, 1, Len(n))
    BY <2>2, <2>3, BeginsWhole
  <2> QED BY <2>2, <2>4
<1> QED
  BY <1>1 DEF Children

\* The empty router.
LEMMA InvInit == Init => Inv
<1> SUFFICES ASSUME Init PROVE Inv
  OBVIOUS
<1>1. Ids = {} /\ DOMAIN tables = {} /\ nodes = {<<>>} /\ nextId = 0
  BY DEF Init, Ids
<1>2. TypeOK
  BY <1>1, MaxIdsAssumption DEF TypeOK
<1>3. InStep
  BY <1>1 DEF InStep
<1>4. NoGarbage
  BY <1>1 DEF NoGarbage
<1> QED
  BY <1>1, <1>2, <1>3, <1>4 DEF Inv

\* A subscription is added: its path may be new, its id is.
LEMMA AddStep ==
    ASSUME Inv, NEW p \in Patterns, NEW q \in QoS, AddSubscription(p, q)
    PROVE  Inv'
<1>1. nextId \in Nat /\ nextId < MaxIds /\ MaxIds \in Nat /\ nextId' = nextId + 1
      /\ Ids \subseteq 0..nextId - 1 /\ nextId \notin Ids
  BY MaxIdsAssumption DEF AddSubscription, Inv, TypeOK
<1>2. /\ Ids' = Ids \cup {nextId}
      /\ subscriptions'[nextId] = [pattern |-> p, qos |-> q]
      /\ \A id \in Ids : subscriptions'[id] = subscriptions[id]
  BY <1>1 DEF AddSubscription, Ids
<1>3. /\ DOMAIN tables' = DOMAIN tables \cup {p}
      /\ tables'[p] = Table(p) \cup {nextId}
      /\ \A r \in DOMAIN tables \ {p} : tables'[r] = tables[r]
  BY DEF AddSubscription
<1>4. nodes' = nodes \cup Path(p)
  BY DEF AddSubscription
<1>5. TypeOK'
  <2>1. nextId' \in 0..MaxIds /\ Ids' \subseteq 0..nextId' - 1
    BY <1>1, <1>2
  <2>2. \A id \in Ids' : subscriptions'[id] \in [pattern : Patterns, qos : QoS]
    BY <1>2 DEF Inv, TypeOK
  <2>3. DOMAIN tables' \subseteq Patterns
    BY <1>3 DEF Inv, TypeOK
  <2>4. \A r \in DOMAIN tables' : tables'[r] \subseteq 0..nextId' - 1
    <3>1. Table(p) \subseteq 0..nextId - 1
      BY DEF Table, Inv, TypeOK
    <3>2. 0..nextId - 1 \subseteq 0..nextId' - 1 /\ nextId \in 0..nextId' - 1
      BY <1>1
    <3> QED BY <1>3, <3>1, <3>2 DEF Inv, TypeOK
  <2>5. nodes' \subseteq {<<>>} \cup UNION {Path(r) : r \in Patterns}
    BY <1>4 DEF Inv, TypeOK
  <2> QED BY <2>1, <2>2, <2>3, <2>4, <2>5 DEF TypeOK
<1>6. InStep'
  <2>1. \A r \in DOMAIN tables' : \A id \in tables'[r] :
            id \in Ids' /\ subscriptions'[id].pattern = r
    <3>1. \A id \in Table(p) : id \in Ids /\ subscriptions[id].pattern = p
      BY DEF Table, Inv, InStep
    <3>2. \A id \in tables'[p] : id \in Ids' /\ subscriptions'[id].pattern = p
      BY <1>2, <1>3, <3>1
    <3>3. \A r \in DOMAIN tables \ {p} : \A id \in tables'[r] :
            id \in Ids' /\ subscriptions'[id].pattern = r
      BY <1>2, <1>3 DEF Inv, InStep
    <3> QED BY <1>3, <3>2, <3>3
  <2>2. ASSUME NEW id \in Ids'
        PROVE  id \in Table(subscriptions[id].pattern)'
               /\ Path(subscriptions'[id].pattern) \subseteq nodes'
    <3>1. CASE id = nextId
      BY <1>2, <1>3, <1>4, <3>1 DEF Table
    <3>2. CASE id \in Ids
      <4>1. id \in Table(subscriptions[id].pattern)
            /\ Path(subscriptions[id].pattern) \subseteq nodes
        BY <3>2 DEF Inv, InStep
      <4>2. subscriptions'[id].pattern = subscriptions[id].pattern
        BY <1>2, <3>2
      <4>3. subscriptions[id].pattern \in DOMAIN tables
            /\ id \in tables[subscriptions[id].pattern]
        BY <4>1 DEF Table
      <4>4. id \in tables'[subscriptions[id].pattern]
        BY <1>3, <4>3 DEF Table
      <4> QED BY <1>3, <1>4, <4>1, <4>2, <4>3, <4>4 DEF Table
    <3> QED BY <1>2, <3>1, <3>2
  <2>3. \A id \in Ids' : Path(subscriptions[id].pattern)' = Path(subscriptions'[id].pattern)
    BY DEF Path, NodeOf
  <2> QED BY <2>1, <2>2, <2>3 DEF InStep
<1>7. NoGarbage'
  <2>1. \A r \in DOMAIN tables' : tables'[r] # {}
    BY <1>3 DEF Inv, NoGarbage
  <2> QED BY <1>3, <1>4, <2>1 DEF Inv, NoGarbage
<1> QED
  BY <1>4, <1>5, <1>6, <1>7 DEF Inv

-----------------------------------------------------------------------------
(* Removal *)

\* The least element of a set of numbers.
LEMMA LeastNumber ==
    ASSUME NEW T, T \subseteq Nat, T # {}
    PROVE  \E k \in T : \A j \in T : k <= j
<1>1. PICK k \in T : \A j \in T : <<j, k>> \notin OpToRel(<, Nat)
  BY WFMin, NatLessThanWellFounded, Zenon
<1>2. ASSUME NEW j \in T PROVE k <= j
  <2>1. j \in Nat /\ k \in Nat
    OBVIOUS
  <2>2. ~(j < k)
    BY <1>1, <2>1, Zenon DEF OpToRel
  <2> QED BY <2>1, <2>2
<1> QED
  BY <1>2

\* No node on the path of another pattern with a table is pruned: a node between
\* the pruned one and the table would not have been reported empty.
LEMMA OthersSurvive ==
    ASSUME Inv, NEW id \in Ids, NEW r \in DOMAIN tables,
           r # subscriptions[id].pattern, NEW n \in Path(r)
    PROVE  n \notin Pruned(id)
<1> DEFINE p == subscriptions[id].pattern
           N == NodeOf(r)
<1> SUFFICES ASSUME n \in Pruned(id) PROVE FALSE
  OBVIOUS
<1>1. /\ p \in Patterns /\ r \in Patterns /\ Path(r) \subseteq nodes
      /\ N \in Seq(STRING) /\ Len(N) \in Nat
  BY TableFacts, NodeFacts DEF Inv, TypeOK
<1>2. n \in Path(p) /\ \A m \in Path(p) : Len(m) >= Len(n) => Bare(m, p)
  BY DEF Pruned
<1>3. n \in Seq(STRING) /\ Begins(n, N) /\ Len(n) \in Nat /\ Len(n) <= Len(N)
  BY <1>1, PathFacts DEF Begins
<1> DEFINE T == {k \in Nat : Len(n) <= k /\ k <= Len(N) /\ SubSeq(N, 1, k) \notin Path(p)}
<1>4. Len(N) \in T
  <2>1. N \notin Path(p)
    BY <1>1, <1>2, <1>3 DEF Bare
  <2>2. SubSeq(N, 1, Len(N)) = N
    <3>1. Len(N) \in 0..Len(N)
      BY <1>1
    <3> QED BY <1>1, <3>1, TakeFacts, BeginsWhole
  <2>3. SubSeq(N, 1, Len(N)) \notin Path(p)
    BY <2>1, <2>2
  <2> HIDE DEF N, p
  <2> QED BY <1>1, <1>3, <2>3
<1>5. PICK k \in T : \A j \in T : k <= j
  <2> HIDE DEF T
  <2>1. T \subseteq Nat /\ T # {}
    BY <1>4 DEF T
  <2> QED BY <2>1, LeastNumber
<1>6. k \in 0..Len(N) /\ Len(n) <= k /\ SubSeq(N, 1, k) \notin Path(p)
  BY <1>1
<1> DEFINE c == SubSeq(N, 1, k)
           m == SubSeq(N, 1, k - 1)
<1>7. c \in Seq(STRING) /\ Len(c) = k /\ Begins(c, N) /\ c \in nodes
  <2>1. c \in Seq(STRING) /\ Len(c) = k /\ Begins(c, N)
    BY <1>1, <1>6, TakeFacts
  <2> QED BY <1>1, <2>1, PathFacts
<1>8. k # Len(n)
  <2>1. ASSUME k = Len(n) PROVE FALSE
    <3>1. Begins(n, c)
      BY <1>3, <1>7, <2>1 DEF Begins
    <3>2. n = c
      BY <1>3, <1>7, <2>1, <3>1, BeginsWhole
    <3> QED BY <1>2, <1>6, <3>2
  <2> QED BY <2>1
<1>9. k - 1 \in 0..Len(N) /\ Len(n) <= k - 1 /\ k - 1 \notin T
  BY <1>1, <1>3, <1>5, <1>6, <1>8
<1>10. m \in Seq(STRING) /\ Len(m) = k - 1 /\ Begins(m, N) /\ m \in Path(p)
  BY <1>1, <1>9, TakeFacts
<1>11. c \in Children(m)
  <2>1. Begins(m, c) /\ Len(c) = Len(m) + 1
    BY <1>6, <1>7, <1>10 DEF Begins
  <2> HIDE DEF c, m
  <2> QED BY <1>7, <1>10, <2>1, ChildFacts
<1>12. c \in Path(p)
  <2> HIDE DEF c, m
  <2> QED BY <1>2, <1>9, <1>10, <1>11 DEF Bare
<1> QED
  BY <1>6, <1>12

\* A node of the removed pattern's path that is not pruned has a table of
\* another pattern at it or below it.
LEMMA KeptHasTable ==
    ASSUME Inv, NEW id \in Ids, Vacated(id),
           NEW n \in Path(subscriptions[id].pattern), n \notin Pruned(id)
    PROVE  \E r \in DOMAIN tables \ {subscriptions[id].pattern} : n \in Path(r)
<1> DEFINE p == subscriptions[id].pattern
<1>1. p \in Patterns
  BY DEF Inv, TypeOK
<1>2. PICK m \in Path(p) : Len(m) >= Len(n) /\ ~Bare(m, p)
  BY DEF Pruned
<1>3. n \in Seq(STRING) /\ m \in Seq(STRING) /\ Len(n) \in Nat /\ Len(m) \in Nat
  BY <1>1, PathFacts
<1>4. Begins(n, m)
  BY <1>1, <1>2, <1>3, PathClosed
<1>5. CASE \E r \in DOMAIN tables \ {p} : NodeOf(r) = m
  <2>1. PICK r \in DOMAIN tables \ {p} : NodeOf(r) = m
    BY <1>5
  <2>2. r \in Patterns
    BY DEF Inv, TypeOK
  <2> QED BY <1>3, <1>4, <2>1, <2>2, PathFacts
<1>6. CASE ~(Children(m) \subseteq Path(p))
  <2>1. PICK c \in Children(m) : c \notin Path(p)
    BY <1>6
  <2>2. c \in nodes /\ c \in Seq(STRING)
    BY <2>1, NodesTyped DEF Children
  <2>3. Len(c) = Len(m) + 1 /\ Begins(m, c)
    BY <1>3, <2>1, <2>2, ChildFacts
  <2>4. c # <<>>
    BY <1>3, <2>3
  <2>5. PICK r \in DOMAIN tables : c \in Path(r)
    BY <2>2, <2>4 DEF Inv, NoGarbage
  <2>6. r \in Patterns /\ r # p
    BY <2>1, <2>5 DEF Inv, TypeOK
  <2>7. Begins(n, c)
    BY <1>3, <1>4, <2>2, <2>3 DEF Begins
  <2>8. n \in Path(r)
    BY <1>3, <2>5, <2>6, <2>7, PathClosed
  <2> QED BY <2>6, <2>8
<1> QED
  BY <1>2, <1>5, <1>6 DEF Bare

\* A subscription is removed, and with the last of its pattern the table and the
\* nodes that nothing else needs.
LEMMA UnsubscribeStep ==
    ASSUME Inv, NEW id \in Ids, Unsubscribe(id)
    PROVE  Inv'
<1> DEFINE p == subscriptions[id].pattern
<1>1. p \in Patterns /\ id \in Table(p) /\ p \in DOMAIN tables /\ Path(p) \subseteq nodes
      /\ tables[p] = Table(p) /\ UNCHANGED nextId
  BY DEF Inv, TypeOK, InStep, Table, Unsubscribe
<1>2. /\ Ids' = Ids \ {id}
      /\ \A o \in Ids \ {id} : subscriptions'[o] = subscriptions[o]
  BY DEF Unsubscribe, Restrict, Ids
<1>3. /\ Vacated(id) => DOMAIN tables' = DOMAIN tables \ {p}
      /\ ~Vacated(id) => /\ DOMAIN tables' = DOMAIN tables
                         /\ tables'[p] = tables[p] \ {id} /\ tables[p] # {id}
      /\ \A r \in DOMAIN tables \ {p} : tables'[r] = tables[r]
  BY <1>1 DEF Unsubscribe, Restrict, Vacated
<1>4. /\ nodes' = (nodes \ Pruned(id)) \cup {<<>>}
      /\ ~Vacated(id) => Pruned(id) = {}
      /\ Pruned(id) \subseteq Path(p)
  BY DEF Unsubscribe, Pruned
<1>5. DOMAIN tables' \subseteq DOMAIN tables /\ \A r \in DOMAIN tables' : tables'[r] \subseteq tables[r]
  BY <1>1, <1>3
<1>6. TypeOK'
  <2>1. nextId' \in 0..MaxIds /\ Ids' \subseteq 0..nextId' - 1
    BY <1>1, <1>2 DEF Inv, TypeOK
  <2>2. \A o \in Ids' : subscriptions'[o] \in [pattern : Patterns, qos : QoS]
    BY <1>2 DEF Inv, TypeOK
  <2>3. DOMAIN tables' \subseteq Patterns /\ \A r \in DOMAIN tables' : tables'[r] \subseteq 0..nextId' - 1
    BY <1>1, <1>5 DEF Inv, TypeOK
  <2>4. nodes' \subseteq {<<>>} \cup UNION {Path(r) : r \in Patterns}
    BY <1>4 DEF Inv, TypeOK
  <2> QED BY <2>1, <2>2, <2>3, <2>4 DEF TypeOK
<1>7. InStep'
  <2>1. ASSUME NEW r \in DOMAIN tables', NEW o \in tables'[r]
        PROVE  o \in Ids' /\ subscriptions'[o].pattern = r
    <3>1. o \in Ids /\ subscriptions[o].pattern = r /\ r \in DOMAIN tables
      BY <1>5, <2>1 DEF Inv, InStep
    <3>2. o # id
      <4>1. CASE r = p
        BY <1>3, <2>1, <4>1
      <4>2. CASE r # p
        BY <3>1, <4>2
      <4> QED BY <4>1, <4>2
    <3> QED BY <1>2, <3>1, <3>2
  <2>2. ASSUME NEW o \in Ids'
        PROVE  o \in Table(subscriptions[o].pattern)'
               /\ Path(subscriptions'[o].pattern) \subseteq nodes'
    <3> DEFINE r == subscriptions[o].pattern
    <3>1. o \in Ids /\ o # id /\ subscriptions'[o].pattern = r
      BY <1>2
    <3>2. o \in Table(r) /\ r \in DOMAIN tables /\ o \in tables[r] /\ Path(r) \subseteq nodes
      BY <3>1 DEF Inv, InStep, Table
    <3>3. r = p => ~Vacated(id)
      BY <3>1, <3>2 DEF Vacated
    <3>4. r \in DOMAIN tables' /\ o \in tables'[r]
      BY <1>3, <3>1, <3>2, <3>3
    <3>5. Path(r) \subseteq nodes'
      <4>1. CASE Vacated(id)
        <5>1. \A n \in Path(r) : n \notin Pruned(id)
          BY <3>2, <3>3, <4>1, OthersSurvive
        <5> QED BY <1>4, <3>2, <5>1
      <4>2. CASE ~Vacated(id)
        BY <1>4, <3>2, <4>2
      <4> QED BY <4>1, <4>2
    <3> QED BY <3>1, <3>4, <3>5 DEF Table
  <2>3. \A o \in Ids' : Path(subscriptions[o].pattern)' = Path(subscriptions'[o].pattern)
    BY DEF Path, NodeOf
  <2> QED BY <2>1, <2>2, <2>3 DEF InStep
<1>8. NoGarbage'
  <2>1. \A r \in DOMAIN tables' : tables'[r] # {}
    BY <1>1, <1>3 DEF Inv, NoGarbage
  <2>2. ASSUME NEW n \in nodes' \ {<<>>} PROVE \E r \in DOMAIN tables' : n \in Path(r)
    <3>1. n \in nodes /\ n \notin Pruned(id)
      BY <1>4, <2>2
    <3>2. PICK r \in DOMAIN tables : n \in Path(r)
      BY <2>2, <3>1 DEF Inv, NoGarbage
    <3>3. CASE Vacated(id) /\ r = p
      <4>1. \E s \in DOMAIN tables \ {p} : n \in Path(s)
        BY <3>1, <3>2, <3>3, KeptHasTable
      <4> QED BY <1>3, <3>3, <4>1
    <3>4. CASE ~Vacated(id) \/ r # p
      BY <1>3, <3>2, <3>4
    <3> QED BY <3>3, <3>4
  <2> QED BY <2>1, <2>2 DEF NoGarbage
<1> QED
  BY <1>4, <1>6, <1>7, <1>8 DEF Inv

\* Every step keeps the map and the trie together.
LEMMA InvStep == ASSUME Inv, [Next]_vars PROVE Inv'
<1>1. CASE Cleanup
  <2>1. Ids' = {} /\ DOMAIN tables' = {} /\ nodes' = {<<>>} /\ nextId' = 0
    BY <1>1 DEF Cleanup, Ids
  <2>2. TypeOK'
    BY <2>1, MaxIdsAssumption DEF TypeOK
  <2>3. InStep'
    BY <2>1 DEF InStep
  <2>4. NoGarbage'
    BY <2>1 DEF NoGarbage
  <2> QED BY <2>1, <2>2, <2>3, <2>4 DEF Inv
<1>2. CASE UNCHANGED vars
  <2>1. UNCHANGED <<subscriptions, tables, nodes, nextId, Ids>>
    BY <1>2 DEF vars, Ids
  <2>2. TypeOK' <=> TypeOK
    BY <2>1 DEF TypeOK, Path, NodeOf
  <2>3. InStep' <=> InStep
    BY <2>1 DEF InStep, Table, Path, NodeOf
  <2>4. NoGarbage' <=> NoGarbage
    BY <2>1 DEF NoGarbage, Path, NodeOf
  <2> QED BY <2>1, <2>2, <2>3, <2>4 DEF Inv
<1> QED
  BY <1>1, <1>2, AddStep, UnsubscribeStep DEF Next

\* The variables have their types, for any set of patterns.
THEOREM TypeCorrect == Spec => []TypeOK
<1>1. Inv => TypeOK
  BY DEF Inv
<1> QED
  BY <1>1, InvInit, InvStep, PTL DEF Spec

\* The map of subscriptions and the trie agree after every sequence of
\* operations: no "BUG:" panic and no TopicMatcherError is reachable.
THEOREM InStepHolds == Spec => []InStep
<1>1. Inv => InStep
  BY DEF Inv
<1> QED
  BY <1>1, InvInit, InvStep, PTL DEF Spec

\* No empty table and no useless node stays in the trie.
THEOREM NoGarbageHolds == Spec => []NoGarbage
<1>1. Inv => NoGarbage
  BY DEF Inv
<1> QED
  BY <1>1, InvInit, InvStep, PTL DEF Spec

-----------------------------------------------------------------------------
(* The search *)

\* A sequence with one more element.
LEMMA OneMore ==
    ASSUME NEW S, NEW s \in Seq(S), NEW e \in S
    PROVE  /\ Append(s, e) \in Seq(S)
           /\ Len(Append(s, e)) = Len(s) + 1
           /\ Append(s, e)[Len(s) + 1] = e
           /\ \A i \in 1..Len(s) : Append(s, e)[i] = s[i]
  OBVIOUS

\* A node that ends in no "#" is the node of itself as a pattern, and of itself
\* with a "#" after it.
LEMMA HashFacts ==
    ASSUME NEW n \in Seq(STRING), Append(n, "#") \in Patterns
    PROVE  /\ Append(n, "#") \in Seq(STRING)
           /\ Append(n, "#")[Len(Append(n, "#"))] = "#"
           /\ NodeOf(Append(n, "#")) = n
<1> DEFINE h == Append(n, "#")
<1>1. h \in Seq(STRING) /\ Len(h) = Len(n) + 1 /\ h[Len(h)] = "#" /\ Len(n) \in 0..Len(h)
      /\ Begins(n, h)
  <2>1. h \in Seq(STRING) /\ Len(n) \in Nat
    <3>1. h \in Patterns
      OBVIOUS
    <3> HIDE DEF h
    <3> QED BY <3>1, PatternsAssumption
  <2>2. n \in Seq(STRING \cup {"#"})
    BY SeqMonotonic
  <2>3. /\ Len(h) = Len(n) + 1 /\ h[Len(n) + 1] = "#"
        /\ \A i \in 1..Len(n) : h[i] = n[i]
    BY <2>2, OneMore
  <2> HIDE DEF h
  <2> QED BY <2>1, <2>3 DEF Begins
<1>2. NodeOf(h) = SubSeq(h, 1, Len(n))
  <2>1. NodeOf(h) = SubSeq(h, 1, Len(h) - 1)
    <3> HIDE DEF h
    <3> QED BY <1>1 DEF NodeOf
  <2>2. Len(h) - 1 = Len(n)
    <3> HIDE DEF h
    <3> QED BY <1>1
  <2> QED BY <2>1, <2>2
<1>3. /\ SubSeq(h, 1, Len(n)) \in Seq(STRING)
      /\ Len(SubSeq(h, 1, Len(n))) = Len(n)
      /\ Begins(SubSeq(h, 1, Len(n)), h)
  <2> HIDE DEF h
  <2> QED BY <1>1, TakeFacts
<1>4. Begins(n, SubSeq(h, 1, Len(n)))
  <2> HIDE DEF h
  <2> QED BY <1>1, <1>3 DEF Begins
<1>5. SubSeq(h, 1, Len(n)) = n
  <2> HIDE DEF h
  <2> QED BY <1>3, <1>4, BeginsWhole
<1> QED
  BY <1>1, <1>2, <1>5

\* What the tables hold.
LEMMA InTable ==
    ASSUME Inv, NEW p, NEW id, id \in Table(p)
    PROVE  p \in Patterns /\ id \in Ids /\ subscriptions[id].pattern = p
  BY DEF Inv, InStep, TypeOK, Table

\* What is found matches.
LEMMA FoundMatches ==
    ASSUME Inv, NEW t \in Topics, NEW id \in GetSubscribers(t)
    PROVE  id \in Ids /\ Matches(subscriptions[id].pattern, t)
<1>1. t \in Seq(STRING) /\ Len(t) \in Nat \ {0} /\ \A i \in 1..Len(t) : t[i] \notin {"+", "#"}
  BY TopicsAssumption
<1>2. ASSUME NEW n \in Reached(t, Len(t)), id \in Table(n)
      PROVE  id \in Ids /\ Matches(subscriptions[id].pattern, t)
  <2>1. n \in Patterns /\ id \in Ids /\ subscriptions[id].pattern = n
    BY <1>2, InTable
  <2>2. Len(n) = Len(t) /\ \A i \in 1..Len(n) : n[i] \in {t[i], "+"}
    BY <1>2 DEF Reached
  <2>3. n[Len(n)] # "#"
    <3>1. n[Len(n)] \in {t[Len(n)], "+"} /\ t[Len(n)] # "#"
      BY <1>1, <2>2
    <3> QED BY <3>1
  <2>4. NodeOf(n) = n
    BY <2>1, <2>3, NodeFacts
  <2> QED BY <2>1, <2>2, <2>3, <2>4 DEF Matches
<1>3. ASSUME NEW k \in 0..Len(t), NEW n \in Reached(t, k), id \in Table(Append(n, "#"))
      PROVE  id \in Ids /\ Matches(subscriptions[id].pattern, t)
  <2> DEFINE h == Append(n, "#")
  <2>1. h \in Patterns /\ id \in Ids /\ subscriptions[id].pattern = h
    BY <1>3, InTable
  <2>2. n \in nodes /\ Len(n) = k /\ \A i \in 1..Len(n) : n[i] \in {t[i], "+"}
    BY <1>3 DEF Reached
  <2>3. n \in Seq(STRING)
    BY <2>2, NodesTyped
  <2>4. h[Len(h)] = "#" /\ NodeOf(h) = n
    BY <2>1, <2>3, HashFacts
  <2>5. Len(n) <= Len(t)
    BY <1>1, <2>2
  <2> HIDE DEF h
  <2> QED BY <2>1, <2>2, <2>4, <2>5 DEF Matches
<1> QED
  BY <1>2, <1>3 DEF GetSubscribers

\* What matches is found.
LEMMA MatchIsFound ==
    ASSUME Inv, NEW t \in Topics, NEW id \in Ids, Matches(subscriptions[id].pattern, t)
    PROVE  id \in GetSubscribers(t)
<1> DEFINE p == subscriptions[id].pattern
           n == NodeOf(p)
<1>1. p \in Patterns /\ id \in Table(p) /\ Path(p) \subseteq nodes
  BY DEF Inv, TypeOK, InStep
<1>2. p \in Seq(STRING) /\ Len(p) \in Nat \ {0} /\ n \in Seq(STRING) /\ Len(n) \in Nat
      /\ t \in Seq(STRING) /\ Len(t) \in Nat
  BY <1>1, NodeFacts, TopicsAssumption
<1>3. /\ p[Len(p)] # "#" => Len(n) = Len(t)
      /\ Len(n) <= Len(t)
      /\ \A i \in 1..Len(n) : n[i] \in {t[i], "+"}
  BY <1>2 DEF Matches
<1>4. n \in Reached(t, Len(n))
  <2>1. n \in nodes
    BY <1>1, PathEnds
  <2>2. ASSUME NEW i \in 1..Len(n) PROVE SubSeq(n, 1, i) \in nodes
    <3> HIDE DEF n
    <3>1. i \in 0..Len(n)
      BY <1>2
    <3>2. SubSeq(n, 1, i) \in Seq(STRING) /\ Begins(SubSeq(n, 1, i), n)
      BY <1>2, <3>1, TakeFacts
    <3>3. SubSeq(n, 1, i) \in Path(p)
      BY <1>1, <3>2, PathFacts DEF n
    <3> QED BY <1>1, <3>3
  <2> QED BY <1>3, <2>1, <2>2 DEF Reached
<1>5. CASE p[Len(p)] # "#"
  <2>1. n = p
    BY <1>1, <1>5, NodeFacts
  <2>2. p \in Reached(t, Len(t))
    BY <1>3, <1>4, <1>5, <2>1
  <2> QED BY <1>1, <2>2 DEF GetSubscribers
<1>6. CASE p[Len(p)] = "#"
  <2>1. Len(n) = Len(p) - 1 /\ Begins(n, p)
    BY <1>1, <1>6, NodeFacts
  <2>2. p = Append(n, "#")
    <3> DEFINE h == Append(n, "#")
    <3>1. h \in Seq(STRING) /\ Len(h) = Len(n) + 1 /\ h[Len(h)] = "#"
          /\ \A i \in 1..Len(n) : h[i] = n[i]
      <4>1. "#" \in STRING
        <5>1. Len(p) \in 1..Len(p)
          BY <1>2
        <5> QED BY <1>2, <1>6, <5>1, ElementOfSeq
      <4>2. /\ h \in Seq(STRING) /\ Len(h) = Len(n) + 1 /\ h[Len(n) + 1] = "#"
            /\ \A i \in 1..Len(n) : h[i] = n[i]
        <5> HIDE DEF n
        <5> QED BY <1>2, <4>1, OneMore
      <4> HIDE DEF h, n
      <4> QED BY <4>2
    <3>2. Len(h) = Len(p)
      <4> HIDE DEF h, n
      <4> QED BY <1>2, <2>1, <3>1
    <3>3. ASSUME NEW i \in 1..Len(p) PROVE p[i] = h[i]
      <4>1. CASE i = Len(p)
        BY <1>6, <3>1, <3>2, <4>1
      <4>2. CASE i # Len(p)
        <5>1. i \in 1..Len(n)
          BY <1>2, <2>1, <4>2
        <5> QED BY <2>1, <3>1, <5>1 DEF Begins
      <4> QED BY <4>1, <4>2
    <3> HIDE DEF h
    <3>4. Begins(p, h)
      BY <3>2, <3>3, <1>2 DEF Begins
    <3>5. p = h
      BY <1>2, <3>1, <3>2, <3>4, BeginsWhole
    <3> QED BY <3>5 DEF h
  <2>3. Len(n) \in 0..Len(t)
    BY <1>2, <1>3
  <2>4. id \in Table(Append(n, "#"))
    BY <1>1, <2>2
  <2> HIDE DEF n
  <2> QED BY <1>4, <2>3, <2>4 DEF GetSubscribers
<1> QED
  BY <1>5, <1>6

\* While the structures agree the trie finds what matches.
LEMMA RoutesWhenInStep == Inv => RoutesExactly
<1> SUFFICES ASSUME Inv, NEW t \in Topics
             PROVE  GetSubscribers(t) = {id \in Ids : Matches(subscriptions[id].pattern, t)}
  BY DEF RoutesExactly
<1> QED BY FoundMatches, MatchIsFound

\* Through every sequence of operations the trie finds exactly the
\* subscriptions whose pattern matches, for all patterns and topics.
THEOREM RoutesExactlyHolds == Spec => []RoutesExactly
  BY RoutesWhenInStep, InvInit, InvStep, PTL DEF Spec
=============================================================================
