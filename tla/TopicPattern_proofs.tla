------------------------- MODULE TopicPattern_proofs -------------------------
(* Theorems about TopicPattern, for every set of patterns, templates, topics *)
(* and values.                                                               *)
EXTENDS TopicPattern, WellFoundedInduction, SequenceTheorems, TLAPS

-----------------------------------------------------------------------------
(* Sequences built from left to right *)

\* A set of numbers has a least one.  What holds at 0, and from one number to
\* the next, therefore holds everywhere: there is no least exception.
LEMMA LeastNumber ==
    ASSUME NEW T, T \subseteq Nat, T # {}
    PROVE  \E k \in T : \A j \in T : k <= j
<1>1. PICK k \in T : \A j \in T : <<j, k>> \notin OpToRel(<, Nat)
  BY WFMin, NatLessThanWellFounded, Zenon
<1>2. ASSUME NEW j \in T PROVE k <= j
  <2>1. j \in Nat /\ k \in Nat
    OBVIOUS
  <2>2. ~(j < k)
    BY <1>1, <2>1, Zenon DEF OpToRel
  <2> QED BY <2>1, <2>2
<1> QED BY <1>2

\* What Wildcards computes up to a position, as an equation.
WildcardsUpTo(f, p, m) ==
    f = [i \in 0..m |->
            IF i = 0 THEN <<>>
            ELSE IF IsWildcard(p[i]) THEN Append(f[i - 1], i) ELSE f[i - 1]]

\* The equation has a solution up to every position.
LEMMA WildcardsDefined ==
    ASSUME NEW p, NEW n \in Nat
    PROVE  \E f : WildcardsUpTo(f, p, n)
<1> DEFINE T == {m \in Nat : ~\E f : WildcardsUpTo(f, p, m)}
<1> SUFFICES ASSUME T # {} PROVE FALSE
  OBVIOUS
<1>1. PICK k \in T : \A j \in T : k <= j
  BY LeastNumber
<1>2. CASE k = 0
  <2> DEFINE f == [i \in 0..0 |-> <<>>]
  <2>1. WildcardsUpTo(f, p, 0)
    BY DEF WildcardsUpTo
  <2> QED BY <1>1, <1>2, <2>1
<1>3. CASE k # 0
  <2>1. k \in Nat /\ k - 1 \in Nat /\ k - 1 \notin T
    BY <1>1, <1>3
  <2>2. PICK f : WildcardsUpTo(f, p, k - 1)
    BY <2>1
  <2> DEFINE g == [i \in 0..k |->
                      IF i = k THEN (IF IsWildcard(p[k]) THEN Append(f[k - 1], k) ELSE f[k - 1])
                      ELSE f[i]]
  <2>3. \A i \in 0..(k - 1) : g[i] = f[i]
    BY <2>1
  <2>4. \A i \in 0..k : g[i] = IF i = 0 THEN <<>>
                               ELSE IF IsWildcard(p[i]) THEN Append(g[i - 1], i) ELSE g[i - 1]
    <3> SUFFICES ASSUME NEW i \in 0..k
                 PROVE  g[i] = IF i = 0 THEN <<>>
                               ELSE IF IsWildcard(p[i]) THEN Append(g[i - 1], i) ELSE g[i - 1]
      OBVIOUS
    <3>1. CASE i = k
      <4>1. g[k - 1] = f[k - 1]
        BY <2>1, <2>3
      <4> QED BY <1>3, <2>1, <3>1, <4>1
    <3>2. CASE i # k
      <4>1. i \in 0..(k - 1) /\ (i # 0 => i - 1 \in 0..(k - 1))
        BY <2>1, <3>2
      <4>2. f[i] = IF i = 0 THEN <<>>
                   ELSE IF IsWildcard(p[i]) THEN Append(f[i - 1], i) ELSE f[i - 1]
        BY <2>2, <4>1 DEF WildcardsUpTo
      <4> HIDE DEF g
      <4> QED BY <2>3, <4>1, <4>2
    <3> QED BY <3>1, <3>2
  <2>5. WildcardsUpTo(g, p, k)
    BY <2>4 DEF WildcardsUpTo
  <2> QED BY <1>1, <2>5
<1> QED BY <1>2, <1>3

\* Positions up to i: w lists the wildcards among them, in order.
Lists(w, p, i) ==
    /\ w \in Seq(Nat)
    /\ \A k \in 1..Len(w) : w[k] \in 1..i /\ IsWildcard(p[w[k]])
    /\ \A j \in 1..i : IsWildcard(p[j]) => \E k \in 1..Len(w) : w[k] = j
    /\ \A j, k \in 1..Len(w) : w[j] = w[k] => j = k

\* One position more.
LEMMA ListsNext ==
    ASSUME NEW w, NEW p, NEW i \in Nat, i # 0, Lists(w, p, i - 1)
    PROVE  Lists(IF IsWildcard(p[i]) THEN Append(w, i) ELSE w, p, i)
<1>1. CASE IsWildcard(p[i])
  <2> DEFINE v == Append(w, i)
  <2>1. /\ v \in Seq(Nat) /\ Len(v) = Len(w) + 1 /\ Len(w) \in Nat
        /\ v[Len(w) + 1] = i
        /\ \A k \in 1..Len(w) : v[k] = w[k]
    BY DEF Lists
  <2> HIDE DEF v
  <2>2. \A k \in 1..Len(v) : v[k] \in 1..i /\ IsWildcard(p[v[k]])
    <3> SUFFICES ASSUME NEW k \in 1..Len(v) PROVE v[k] \in 1..i /\ IsWildcard(p[v[k]])
      OBVIOUS
    <3>1. CASE k = Len(w) + 1
      BY <1>1, <2>1, <3>1
    <3>2. CASE k # Len(w) + 1
      <4>1. k \in 1..Len(w) /\ v[k] = w[k]
        BY <2>1, <3>2
      <4>2. w[k] \in 1..(i - 1) /\ IsWildcard(p[w[k]])
        BY <4>1 DEF Lists
      <4> QED BY <4>1, <4>2
    <3> QED BY <3>1, <3>2
  <2>3. \A j \in 1..i : IsWildcard(p[j]) => \E k \in 1..Len(v) : v[k] = j
    <3> SUFFICES ASSUME NEW j \in 1..i, IsWildcard(p[j]) PROVE \E k \in 1..Len(v) : v[k] = j
      OBVIOUS
    <3>1. CASE j = i
      BY <2>1, <3>1
    <3>2. CASE j # i
      <4>1. PICK k \in 1..Len(w) : w[k] = j
        BY <3>2 DEF Lists
      <4> QED BY <2>1, <4>1
    <3> QED BY <3>1, <3>2
  <2>4. \A j, k \in 1..Len(v) : v[j] = v[k] => j = k
    <3>1. \A k \in 1..Len(w) : v[k] \in 1..(i - 1)
      BY <2>1 DEF Lists
    <3> SUFFICES ASSUME NEW j \in 1..Len(v), NEW k \in 1..Len(v), v[j] = v[k] PROVE j = k
      OBVIOUS
    <3>2. CASE j \in 1..Len(w) /\ k \in 1..Len(w)
      <4>1. w[j] = w[k]
        BY <2>1, <3>2
      <4> QED BY <3>2, <4>1 DEF Lists
    <3>3. CASE j \notin 1..Len(w) \/ k \notin 1..Len(w)
      BY <2>1, <3>1, <3>3
    <3> QED BY <3>2, <3>3
  <2>5. Lists(v, p, i)
    BY <2>1, <2>2, <2>3, <2>4 DEF Lists
  <2> QED BY <1>1, <2>5 DEF v
<1>2. CASE ~IsWildcard(p[i])
  BY <1>2 DEF Lists
<1> QED BY <1>1, <1>2

\* Wildcards lists the positions of the wildcards, each once.
LEMMA WildcardPositions ==
    ASSUME NEW p, Len(p) \in Nat
    PROVE  Lists(Wildcards(p), p, Len(p))
<1> DEFINE n    == Len(p)
           upTo == CHOOSE f : WildcardsUpTo(f, p, n)
<1>1. Wildcards(p) = upTo[n]
  BY DEF Wildcards, WildcardsUpTo
<1>2. WildcardsUpTo(upTo, p, n)
  BY WildcardsDefined
<1> HIDE DEF upTo
<1> DEFINE T == {i \in 0..n : ~Lists(upTo[i], p, i)}
<1>3. T = {}
  <2> SUFFICES ASSUME T # {} PROVE FALSE
    OBVIOUS
  <2>1. PICK k \in T : \A j \in T : k <= j
    <3>1. T \subseteq Nat
      OBVIOUS
    <3> HIDE DEF T
    <3> QED BY <3>1, LeastNumber
  <2>2. CASE k = 0
    <3>1. upTo[0] = <<>>
      BY <1>2 DEF WildcardsUpTo
    <3>2. Lists(<<>>, p, 0)
      BY DEF Lists
    <3> QED BY <2>1, <2>2, <3>1, <3>2
  <2>3. CASE k # 0
    <3>1. k \in Nat /\ k - 1 \in 0..n /\ k \in 0..n
      BY <2>1, <2>3
    <3>2. k - 1 \notin T
      BY <2>1, <3>1
    <3>3. Lists(upTo[k - 1], p, k - 1)
      BY <3>1, <3>2
    <3>4. upTo[k] = IF IsWildcard(p[k]) THEN Append(upTo[k - 1], k) ELSE upTo[k - 1]
      BY <1>2, <2>3, <3>1 DEF WildcardsUpTo
    <3>5. Lists(upTo[k], p, k)
      BY <2>3, <3>1, <3>3, <3>4, ListsNext
    <3> QED BY <2>1, <3>5
  <2> QED BY <2>2, <2>3
<1>4. Lists(upTo[n], p, n)
  BY <1>3
<1> QED BY <1>1, <1>4

\* What FlattenSeq computes up to a position, as an equation.
FlattenedUpTo(f, s, m) ==
    f = [i \in 1..m |-> IF i = 1 THEN s[i] ELSE f[i - 1] \o s[i]]

\* The equation has a solution up to every position.
LEMMA FlattenDefined ==
    ASSUME NEW s, NEW n \in Nat
    PROVE  \E f : FlattenedUpTo(f, s, n)
<1> DEFINE T == {m \in Nat : ~\E f : FlattenedUpTo(f, s, m)}
<1> SUFFICES ASSUME T # {} PROVE FALSE
  OBVIOUS
<1>1. PICK k \in T : \A j \in T : k <= j
  BY LeastNumber
<1>2. CASE k = 0
  <2> DEFINE f == [i \in 1..0 |-> <<>>]
  <2>1. FlattenedUpTo(f, s, 0)
    BY DEF FlattenedUpTo
  <2> QED BY <1>1, <1>2, <2>1
<1>3. CASE k # 0
  <2>1. k \in Nat /\ k - 1 \in Nat /\ k - 1 \notin T
    BY <1>1, <1>3
  <2>2. PICK f : FlattenedUpTo(f, s, k - 1)
    BY <2>1
  <2> DEFINE g == [i \in 1..k |->
                      IF i = k THEN (IF k = 1 THEN s[k] ELSE f[k - 1] \o s[k]) ELSE f[i]]
  <2>3. \A i \in 1..(k - 1) : g[i] = f[i]
    BY <2>1
  <2>4. \A i \in 1..k : g[i] = IF i = 1 THEN s[i] ELSE g[i - 1] \o s[i]
    <3> SUFFICES ASSUME NEW i \in 1..k
                 PROVE  g[i] = IF i = 1 THEN s[i] ELSE g[i - 1] \o s[i]
      OBVIOUS
    <3>1. CASE i = k
      <4>1. k # 1 => g[k - 1] = f[k - 1]
        BY <2>1, <2>3
      <4> QED BY <2>1, <3>1, <4>1
    <3>2. CASE i # k
      <4>1. i \in 1..(k - 1) /\ (i # 1 => i - 1 \in 1..(k - 1))
        BY <2>1, <3>2
      <4>2. f[i] = IF i = 1 THEN s[i] ELSE f[i - 1] \o s[i]
        BY <2>2, <4>1 DEF FlattenedUpTo
      <4> HIDE DEF g
      <4> QED BY <2>3, <4>1, <4>2
    <3> QED BY <3>1, <3>2
  <2>5. FlattenedUpTo(g, s, k)
    BY <2>4 DEF FlattenedUpTo
  <2> QED BY <1>1, <2>5
<1> QED BY <1>2, <1>3

\* The sequence of the first i words.
FirstWords(w, s, i, S) ==
    /\ w \in Seq(S)
    /\ Len(w) = i
    /\ \A j \in 1..i : s[j] = <<w[j]>>

\* One word more.
LEMMA FirstWordsNext ==
    ASSUME NEW w, NEW s, NEW i \in Nat, NEW S, NEW e \in S,
           s[i + 1] = <<e>>, FirstWords(w, s, i, S)
    PROVE  FirstWords(w \o s[i + 1], s, i + 1, S)
<1> DEFINE v == Append(w, e)
<1>1. w \o s[i + 1] = v
  BY AppendIsConcat DEF FirstWords
<1>2. v \in Seq(S) /\ Len(v) = i + 1 /\ v[i + 1] = e /\ \A j \in 1..i : v[j] = w[j]
  BY AppendProperties DEF FirstWords
<1> HIDE DEF v
<1>3. \A j \in 1..(i + 1) : s[j] = <<v[j]>>
  <2> SUFFICES ASSUME NEW j \in 1..(i + 1) PROVE s[j] = <<v[j]>>
    OBVIOUS
  <2>1. CASE j = i + 1
    BY <1>2, <2>1
  <2>2. CASE j # i + 1
    <3>1. j \in 1..i
      BY <2>2
    <3> QED BY <1>2, <3>1 DEF FirstWords
  <2> QED BY <2>1, <2>2
<1> QED BY <1>1, <1>2, <1>3 DEF FirstWords

\* Segments of one word each are flattened to the sequence of the words.
LEMMA FlattenWords ==
    ASSUME NEW s, NEW n \in Nat, n # 0, NEW S, Len(s) = n,
           \A i \in 1..n : \E e \in S : s[i] = <<e>>
    PROVE  FirstWords(FlattenSeq(s), s, n, S)
<1> DEFINE f == CHOOSE g : FlattenedUpTo(g, s, n)
<1>1. FlattenSeq(s) = f[n]
  BY DEF FlattenSeq, FlattenedUpTo
<1>2. FlattenedUpTo(f, s, n)
  BY FlattenDefined
<1> HIDE DEF f
<1> DEFINE T == {i \in 1..n : ~FirstWords(f[i], s, i, S)}
<1>3. T = {}
  <2> SUFFICES ASSUME T # {} PROVE FALSE
    OBVIOUS
  <2>1. PICK k \in T : \A j \in T : k <= j
    <3>1. T \subseteq Nat
      OBVIOUS
    <3> HIDE DEF T
    <3> QED BY <3>1, LeastNumber
  <2>2. CASE k = 1
    <3>1. PICK e \in S : s[1] = <<e>>
      OBVIOUS
    <3>2. f[1] = <<e>>
      BY <1>2, <3>1 DEF FlattenedUpTo
    <3>3. FirstWords(<<e>>, s, 1, S)
      BY <3>1 DEF FirstWords
    <3> QED BY <2>1, <2>2, <3>2, <3>3
  <2>3. CASE k # 1
    <3>1. k \in 1..n /\ k - 1 \in 1..n /\ k - 1 \in Nat /\ (k - 1) + 1 = k
      BY <2>1, <2>3
    <3>2. k - 1 \notin T
      BY <2>1, <3>1
    <3>3. FirstWords(f[k - 1], s, k - 1, S)
      BY <3>1, <3>2
    <3>4. f[k] = f[k - 1] \o s[k]
      BY <1>2, <2>3, <3>1 DEF FlattenedUpTo
    <3>5. PICK e \in S : s[k] = <<e>>
      BY <3>1
    <3>6. FirstWords(f[k - 1] \o s[k], s, k, S)
      BY <3>1, <3>3, <3>5, FirstWordsNext
    <3> QED BY <2>1, <3>4, <3>6
  <2> QED BY <2>2, <2>3
<1>4. FirstWords(f[n], s, n, S)
  BY <1>3
<1> QED BY <1>1, <1>4

-----------------------------------------------------------------------------
(* Patterns *)

Patterns == Declared \cup Customs

\* A pattern is a sequence of items.
LEMMA PatternFacts ==
    ASSUME NEW p \in Patterns
    PROVE  /\ p \in Seq(Items) /\ Len(p) \in Nat
           /\ \A i \in 1..Len(p) : p[i] \in Items
           /\ \A i \in 1..Len(p) : p[i].is = "str" =>
                   Split[p[i].text] = <<p[i].text>> /\ p[i].text \notin {"+", "#"}
<1>1. p \in Seq(Items)
  BY PatternsAssumption DEF Patterns
<1>2. \A i \in 1..Len(p) : p[i].is = "str" =>
          Split[p[i].text] = <<p[i].text>> /\ p[i].text \notin {"+", "#"}
  BY PatternsAssumption, Zenon DEF Patterns
<1> QED BY <1>1, <1>2

\* Compatible patterns have the same wildcards, at places of their own.
LEMMA SameWildcards ==
    ASSUME NEW own, NEW p, Len(own) \in Nat, Len(p) \in Nat, Compatible(own, p)
    PROVE  /\ Len(Wildcards(own)) = Len(Wildcards(p))
           /\ \A k \in 1..Len(Wildcards(p)) :
                own[Wildcards(own)[k]] = p[Wildcards(p)[k]]
<1> DEFINE a == Wildcards(own)
           b == Wildcards(p)
<1>1. Len(a) \in Nat /\ Len(b) \in Nat
  BY WildcardPositions DEF Lists
<1>2. [k \in 1..Len(a) |-> own[a[k]]] = [k \in 1..Len(b) |-> p[b[k]]]
  BY DEF Compatible
<1> HIDE DEF a, b
<1> DEFINE f == [k \in 1..Len(a) |-> own[a[k]]]
           g == [k \in 1..Len(b) |-> p[b[k]]]
<1>3. DOMAIN f = 1..Len(a) /\ DOMAIN g = 1..Len(b)
  OBVIOUS
<1>4. 1..Len(a) = 1..Len(b)
  BY <1>2, <1>3
<1>5. Len(a) = Len(b)
  BY <1>1, <1>4
<1>6. \A k \in 1..Len(b) : own[a[k]] = f[k] /\ p[b[k]] = g[k]
  BY <1>5
<1> QED BY <1>2, <1>5, <1>6 DEF a, b

\* A wildcard of a pattern is found in any pattern compatible with it.
LEMMA WildcardShared ==
    ASSUME NEW own, NEW p, Len(own) \in Nat, Len(p) \in Nat, Compatible(own, p),
           NEW i \in 1..Len(p), IsWildcard(p[i])
    PROVE  \E j \in 1..Len(own) : own[j] = p[i]
<1>1. PICK k \in 1..Len(Wildcards(p)) : Wildcards(p)[k] = i
  BY WildcardPositions DEF Lists
<1>2. k \in 1..Len(Wildcards(own)) /\ own[Wildcards(own)[k]] = p[i]
  BY <1>1, SameWildcards
<1>3. Wildcards(own)[k] \in 1..Len(own)
  BY <1>2, WildcardPositions DEF Lists
<1> QED BY <1>2, <1>3

-----------------------------------------------------------------------------
(* The invariant *)

Entries == [topic : Topics, match : {Match(p, t) : p \in Patterns, t \in Topics}]

\* Beside the properties: the template has the wildcards of the struct's pattern.
PatternInv ==
    /\ TypeOK
    /\ CacheTransparent
    /\ Compatible(declared, segments)
    /\ cache \in Seq(Entries)

\* A match is the same from the cache as made afresh.
LEMMA AnswerFacts ==
    ASSUME CacheTransparent, NEW t, Matched(t)
    PROVE  Answer(t) = Match(segments, t) /\ Accepts(segments, t)
<1>1. CASE Hits(t) # {}
  <2>1. \A i \in Hits(t) : i \in 1..Len(cache) /\ cache[i].topic = t
    BY DEF Hits
  <2>2. PICK i \in Hits(t) : Answer(t) = cache[i].match
    BY <1>1 DEF Answer
  <2> QED BY <2>1, <2>2 DEF CacheTransparent
<1>2. CASE Hits(t) = {}
  BY <1>2 DEF Answer, Matched
<1> QED BY <1>1, <1>2

\* The place that becomes free, and the length of the cache afterwards.
LEMMA VacatedFacts ==
    ASSUME CacheTransparent, Len(cache) \in Nat, capacity \in Nat, capacity > 0,
           Len(cache) <= capacity, NEW t
    PROVE  LET free == Vacated(t)
               size == IF free > Len(cache) THEN free ELSE Len(cache)
           IN  /\ free \in 1..size
               /\ size \in Nat /\ size <= capacity
               /\ size = Len(cache) \/ (size = Len(cache) + 1 /\ free = size)
               /\ \A j \in 1..Len(cache) : cache[j].topic = t => j = free
<1>1. CASE Hits(t) # {}
  <2>1. PICK i \in Hits(t) : Vacated(t) = i
    BY <1>1 DEF Vacated
  <2>2. i \in 1..Len(cache) /\ cache[i].topic = t
    BY <2>1 DEF Hits
  <2>3. \A j \in 1..Len(cache) : cache[j].topic = t => j = i
    BY <2>2 DEF CacheTransparent
  <2> DEFINE size == IF i > Len(cache) THEN i ELSE Len(cache)
  <2>4. size = Len(cache)
    BY <2>2
  <2> HIDE DEF size
  <2>5. /\ i \in 1..size /\ size \in Nat /\ size <= capacity
        /\ size = Len(cache) \/ (size = Len(cache) + 1 /\ i = size)
    BY <2>2, <2>4
  <2> QED BY <2>1, <2>3, <2>5 DEF size
<1>2. CASE Hits(t) = {}
  <2>1. \A j \in 1..Len(cache) : cache[j].topic # t
    BY <1>2 DEF Hits
  <2>2. Vacated(t) = IF Len(cache) < capacity THEN Len(cache) + 1 ELSE Len(cache)
    BY <1>2 DEF Vacated
  <2> QED BY <2>1, <2>2
<1> QED BY <1>1, <1>2

\* Matching a topic, from the cache or not, keeps the cache in order.
LEMMA TryMatchStep ==
    ASSUME PatternInv, NEW t \in Topics, TryMatch(t)
    PROVE  PatternInv'
<1> DEFINE free == Vacated(t)
           size == IF free > Len(cache) THEN free ELSE Len(cache)
           from(i) == IF i <= free THEN i - 1 ELSE i
           new == [topic |-> t, match |-> Match(segments, t)]
<1>1. /\ UNCHANGED <<declared, segments, bindings, capacity, asked, stage>>
      /\ cache' = [i \in 1..size |-> IF i = 1 THEN new ELSE cache[from(i)]]
      /\ Accepts(segments, t)
  BY AnswerFacts DEF TryMatch, PatternInv, Remember
<1>2. /\ Len(cache) \in Nat /\ capacity \in Nat /\ capacity > 0 /\ Len(cache) <= capacity
      /\ \A i \in 1..Len(cache) : cache[i] \in Entries
  BY CapacityAssumption DEF TryMatch, PatternInv, TypeOK
<1>3. /\ free \in 1..size
      /\ size \in Nat /\ size <= capacity
      /\ size = Len(cache) \/ (size = Len(cache) + 1 /\ free = size)
      /\ \A j \in 1..Len(cache) : cache[j].topic = t => j = free
  BY <1>2, VacatedFacts DEF PatternInv
<1> HIDE DEF free, size
<1>4. \A i \in 2..size : from(i) \in 1..Len(cache) /\ from(i) # free
  BY <1>2, <1>3
<1>5. \A i, j \in 2..size : from(i) = from(j) => i = j
  BY <1>3
<1> HIDE DEF from
<1>6. new \in Entries
  BY DEF Entries, Patterns, PatternInv, TypeOK
<1> HIDE DEF new
<1>7. \A i \in 2..size : cache'[i] = cache[from(i)]
  BY <1>1, <1>3
<1>8. cache'[1] = new
  BY <1>1, <1>3
<1>9. cache' \in Seq(Entries) /\ Len(cache') = size
  <2>1. \A i \in 1..size : (IF i = 1 THEN new ELSE cache[from(i)]) \in Entries
    BY <1>2, <1>4, <1>6
  <2>2. cache' \in [1..size -> Entries]
    BY <1>1, <2>1
  <2> QED BY <1>3, <2>2
<1>10. new.topic = t /\ new.match = Match(segments, t)
  BY DEF new
<1>11. \A i \in 1..size : i = 1 \/ i \in 2..size
  BY <1>3
<1>12. CacheTransparent'
  <2>1. ASSUME NEW i \in 1..size
        PROVE  Accepts(segments, cache'[i].topic)
                  /\ cache'[i].match = Match(segments, cache'[i].topic)
    <3>1. CASE i = 1
      BY <1>1, <1>8, <1>10, <3>1
    <3>2. CASE i \in 2..size
      BY <1>4, <1>7, <3>2 DEF PatternInv, CacheTransparent
    <3> QED BY <1>11, <3>1, <3>2
  <2>2. ASSUME NEW i \in 2..size PROVE cache'[i].topic # t
    BY <1>3, <1>4, <1>7
  <2>3. ASSUME NEW i \in 1..size, NEW j \in 1..size, cache'[i].topic = cache'[j].topic
        PROVE  i = j
    <3>1. CASE i = 1 \/ j = 1
      BY <1>8, <1>10, <1>11, <2>2, <2>3, <3>1
    <3>2. CASE i \in 2..size /\ j \in 2..size
      <4>1. from(i) = from(j)
        BY <1>4, <1>7, <2>3, <3>2 DEF PatternInv, CacheTransparent
      <4> QED BY <1>5, <3>2, <4>1
    <3> QED BY <1>11, <3>1, <3>2
  <2> QED BY <1>1, <1>9, <2>1, <2>3 DEF CacheTransparent
<1>13. TypeOK'
  BY <1>1, <1>3, <1>9 DEF PatternInv, TypeOK
<1> QED BY <1>1, <1>9, <1>12, <1>13 DEF PatternInv

\* A new pattern has nothing bound and nothing cached.
LEMMA PatternInit == Init => PatternInv
<1> SUFFICES ASSUME Init PROVE PatternInv
  OBVIOUS
<1>1. /\ declared \in Declared /\ segments = declared /\ bindings = <<>> /\ capacity = 0
      /\ cache = <<>> /\ asked = <<>> /\ stage = "live"
  BY DEF Init
<1>2. TypeOK
  BY <1>1, DeclaredAssumption, CapacityAssumption DEF TypeOK
<1>3. CacheTransparent
  BY <1>1 DEF CacheTransparent
<1>4. Compatible(declared, segments)
  BY <1>1 DEF Compatible
<1>5. cache \in Seq(Entries)
  BY <1>1
<1> QED BY <1>2, <1>3, <1>4, <1>5 DEF PatternInv

\* An empty cache is in order, whatever the pattern.
LEMMA EmptyCache ==
    ASSUME cache' = <<>>, TypeOK', Compatible(declared, segments)'
    PROVE  PatternInv'
<1>1. CacheTransparent'
  BY DEF CacheTransparent
<1>2. cache' \in Seq(Entries)
  OBVIOUS
<1> QED BY <1>1, <1>2 DEF PatternInv

\* Every step keeps the invariant.
LEMMA PatternStep == ASSUME PatternInv, [Next]_vars PROVE PatternInv'
<1>0. /\ declared \in Patterns /\ segments \in Patterns
      /\ Len(declared) \in Nat /\ Len(segments) \in Nat
  <2>1. declared \in Patterns /\ segments \in Patterns
    BY DEF PatternInv, TypeOK, Patterns
  <2> QED BY <2>1, PatternFacts
<1>1. ASSUME NEW n, NEW v \in Values, BindParameter(n, v) PROVE PatternInv'
  <2>1. UNCHANGED <<declared, segments, capacity, cache, stage>>
    BY <1>1 DEF BindParameter
  <2>2. Plus(n) \in Range(segments) /\ n # Anonymous
    BY <1>1 DEF BindParameter
  <2>3. Plus(n) \in Range(declared)
    <3>1. PICK i \in 1..Len(segments) : segments[i] = Plus(n)
      <4>1. DOMAIN segments = 1..Len(segments)
        BY <1>0, PatternFacts
      <4> QED BY <2>2, <4>1 DEF Range
    <3>2. IsWildcard(segments[i])
      BY <3>1 DEF IsWildcard, Plus
    <3>3. PICK j \in 1..Len(declared) : declared[j] = segments[i]
      BY <1>0, <3>2, WildcardShared DEF PatternInv
    <3>4. DOMAIN declared = 1..Len(declared)
      BY <1>0, PatternFacts
    <3> QED BY <3>1, <3>3, <3>4 DEF Range
  <2>4. /\ DOMAIN bindings' = DOMAIN bindings \cup {n}
        /\ \A m \in DOMAIN bindings' : bindings'[m] = IF m = n THEN v ELSE bindings[m]
    BY <1>1 DEF BindParameter
  <2>5. /\ DOMAIN asked' = DOMAIN asked \cup {n}
        /\ \A m \in DOMAIN asked' : asked'[m] = IF m = n THEN v ELSE asked[m]
    BY <1>1 DEF BindParameter
  <2>6. TypeOK'
    <3>1. \A m \in DOMAIN bindings' :
              m # Anonymous /\ Plus(m) \in Range(segments) /\ bindings'[m] \in Values
      BY <2>2, <2>4 DEF PatternInv, TypeOK
    <3>2. \A m \in DOMAIN asked' : Plus(m) \in Range(declared) /\ asked'[m] \in Values
      BY <2>3, <2>5 DEF PatternInv, TypeOK
    <3> QED BY <2>1, <3>1, <3>2 DEF PatternInv, TypeOK
  <2>7. CacheTransparent' /\ Compatible(declared, segments)'
    BY <2>1 DEF PatternInv, CacheTransparent
  <2> QED BY <2>1, <2>6, <2>7 DEF PatternInv
<1>2. CASE ForMethodPanics
  <2>1. UNCHANGED <<declared, segments, bindings, capacity, cache, asked>> /\ stage' = "panicked"
    BY <1>2 DEF ForMethodPanics
  <2>2. TypeOK' /\ CacheTransparent' /\ Compatible(declared, segments)'
    BY <2>1 DEF PatternInv, TypeOK, CacheTransparent
  <2> QED BY <2>1, <2>2 DEF PatternInv
<1>3. ASSUME NEW c \in 0..MaxCapacity, WithCacheStrategy(c) PROVE PatternInv'
  <2>1. UNCHANGED <<declared, segments, bindings, asked, stage>> /\ capacity' = c /\ cache' = <<>>
    BY <1>3 DEF WithCacheStrategy
  <2>2. TypeOK' /\ Compatible(declared, segments)'
    BY <2>1, CapacityAssumption DEF PatternInv, TypeOK
  <2> QED BY <2>1, <2>2, EmptyCache
<1>4. CASE Clone
  <2>1. UNCHANGED <<declared, segments, bindings, capacity, asked, stage>> /\ cache' = <<>>
    BY <1>4 DEF Clone
  <2>2. TypeOK' /\ Compatible(declared, segments)'
    BY <2>1, CapacityAssumption DEF PatternInv, TypeOK
  <2> QED BY <2>1, <2>2, EmptyCache
<1>5. ASSUME NEW p \in Customs, WithPattern(p) PROVE PatternInv'
  <2>1. /\ UNCHANGED <<declared, asked, stage>>
        /\ segments' = p /\ bindings' = <<>> /\ capacity' = 0 /\ cache' = <<>>
        /\ Parses(p) /\ Compatible(segments, p)
    BY <1>5 DEF WithPattern
  <2>2. TypeOK'
    BY <2>1, CapacityAssumption DEF PatternInv, TypeOK
  <2>3. Compatible(declared, segments)'
    BY <2>1 DEF PatternInv, Compatible
  <2> QED BY <2>1, <2>2, <2>3, EmptyCache
<1>6. CASE UNCHANGED vars
  <2>1. UNCHANGED <<declared, segments, bindings, capacity, cache, asked, stage>>
    BY <1>6 DEF vars
  <2>2. TypeOK' /\ CacheTransparent' /\ Compatible(declared, segments)'
    BY <2>1 DEF PatternInv, TypeOK, CacheTransparent
  <2> QED BY <2>1, <2>2 DEF PatternInv
<1> QED
  BY <1>1, <1>2, <1>3, <1>4, <1>5, <1>6, TryMatchStep DEF Next

\* Every variable has its type, for every set of patterns and values.
THEOREM TypeOKHolds == Spec => []TypeOK
<1>1. PatternInv => TypeOK
  BY DEF PatternInv
<1> QED
  BY <1>1, PatternInit, PatternStep, PTL DEF Spec

\* The cache never changes an answer, for every capacity and every order of
\* matches, bindings, clones and replacements.
THEOREM CacheTransparentHolds == Spec => []CacheTransparent
<1>1. PatternInv => CacheTransparent
  BY DEF PatternInv
<1> QED
  BY <1>1, PatternInit, PatternStep, PTL DEF Spec

-----------------------------------------------------------------------------
(* Three readings of a pattern *)

\* How many segments of a topic the trie compares, and how the broker does.
Compared(p) == IF Last(p).is = "hash" THEN Len(p) - 1 ELSE Len(p)

\* The segments that broker, trie and try_match all look at agree in number.
LengthFits(p, t) == IF Last(p).is = "hash" THEN Compared(p) <= Len(t) ELSE Compared(p) = Len(t)

\* Binding a parameter replaces a "+" by a literal, and nothing else.
LEMMA ResolvedFacts ==
    /\ Len(segments) \in Nat =>
            Len(Resolved) = Len(segments) /\ DOMAIN Resolved = 1..Len(segments)
    /\ \A i \in 1..Len(segments) :
        /\ Resolved[i].is = "hash" <=> segments[i].is = "hash"
        /\ segments[i].is = "str" => Resolved[i] = segments[i]
        /\ Resolved[i] = segments[i] \/ \E n \in DOMAIN bindings : Resolved[i] = Str(bindings[n])
        /\ segments[i].is = "plus" /\ segments[i].text \in DOMAIN bindings =>
                Resolved[i] = Str(bindings[segments[i].text])
<1>1. Resolved = [i \in 1..Len(segments) |->
                     IF segments[i].is = "plus" /\ segments[i].text \in DOMAIN bindings
                     THEN Str(bindings[segments[i].text]) ELSE segments[i]]
  BY DEF Resolved
<1> QED BY <1>1 DEF Str

\* In a template that parses, a "#" can only be the last segment: so the trie,
\* which stops at the first "#", compares what comes before the last.
LEMMA TrieReads ==
    ASSUME Len(segments) \in Nat, Parses(segments), segments # <<>>, NEW t,
           segments \in Seq(Items)
    PROVE  TrieFinds(t) <=>
                /\ LengthFits(segments, t)
                /\ \A i \in 1..Compared(segments) :
                        Resolved[i].is = "str" => Resolved[i].text = t[i]
<1> DEFINE items  == Resolved
           n      == Len(segments)
           hashes == {i \in 1..Len(items) : items[i].is = "hash"}
<1>1. Len(items) = n /\ n \in Nat /\ n \in 1..n
  BY ResolvedFacts
<1>2. \A i \in 1..n : items[i].is = "hash" <=> segments[i].is = "hash"
  BY ResolvedFacts
<1>3. \A i \in 1..n : segments[i].is = "hash" => i = n
  BY DEF Parses
<1>4. Last(segments) = segments[n]
  BY DEF Last
<1> HIDE DEF items
<1>5. CASE segments[n].is = "hash"
  <2>1. hashes = {n}
    BY <1>1, <1>2, <1>3, <1>5
  <2>2. (CHOOSE i \in hashes : \A j \in hashes : i <= j) = n
    BY <1>1, <2>1
  <2>3. Compared(segments) = n - 1
    BY <1>4, <1>5 DEF Compared
  <2>4. TrieFinds(t) <=> /\ n - 1 <= Len(t)
                         /\ \A i \in 1..(n - 1) : items[i].is = "str" => items[i].text = t[i]
    BY <2>1, <2>2 DEF TrieFinds, items
  <2> QED BY <1>4, <1>5, <2>3, <2>4 DEF LengthFits, items
<1>6. CASE segments[n].is # "hash"
  <2>1. hashes = {}
    BY <1>1, <1>2, <1>3, <1>6
  <2>2. Compared(segments) = n
    BY <1>4, <1>6 DEF Compared
  <2>3. TrieFinds(t) <=> /\ n = Len(t)
                         /\ \A i \in 1..n : items[i].is = "str" => items[i].text = t[i]
    BY <1>1, <2>1 DEF TrieFinds, items
  <2> QED BY <1>4, <1>6, <2>2, <2>3 DEF LengthFits, items
<1> QED BY <1>5, <1>6

\* What the trie finds try_match accepts, and the bound parameters have the
\* values they were bound to.
LEMMA TrieAccepts ==
    ASSUME PatternInv, NEW t \in Topics, TrieFinds(t)
    PROVE  /\ Accepts(segments, t)
           /\ \A n \in DOMAIN bindings : Match(segments, t).named[n] = <<bindings[n]>>
<1> DEFINE m == Len(segments)
<1>1. /\ segments \in Seq(Items) /\ m \in Nat /\ Parses(segments) /\ segments # <<>>
      /\ \A i \in 1..m : segments[i] \in Items
      /\ Len(t) \in Nat
  <2>1. segments \in Patterns /\ Parses(segments)
    BY DEF PatternInv, TypeOK, Patterns
  <2>2. segments # <<>>
    BY <2>1 DEF Parses
  <2> QED BY <2>1, <2>2, PatternFacts, TopicsAssumption
<1>2. m >= 1 /\ Last(segments) = segments[m]
  BY <1>1 DEF Last
<1>3. /\ LengthFits(segments, t)
      /\ \A i \in 1..Compared(segments) : Resolved[i].is = "str" => Resolved[i].text = t[i]
  BY <1>1, TrieReads
<1>4. \A i \in 1..m : segments[i].is = "hash" => i = m
  BY <1>1 DEF Parses
<1>5. \A i \in 1..m : segments[i].is \in {"str", "plus", "hash"}
  BY <1>1 DEF Parses, Items
<1>6. /\ segments[m].is # "hash" => Compared(segments) = m /\ Len(t) = m
      /\ segments[m].is = "hash" => Compared(segments) = m - 1 /\ m - 1 <= Len(t)
  BY <1>2, <1>3 DEF LengthFits, Compared
<1>7. \A i \in 1..m : segments[i].is # "hash" => i \in 1..Compared(segments) /\ i <= Len(t)
  BY <1>1, <1>2, <1>4, <1>6
<1>8. ASSUME NEW i \in 1..m, segments[i].is = "str"
      PROVE  i <= Len(t) /\ segments[i].text = t[i]
  <2>1. Resolved[i] = segments[i]
    BY <1>8, ResolvedFacts
  <2> QED BY <1>3, <1>7, <1>8, <2>1
<1>9. Accepts(segments, t)
  <2>1. Len(t) > m => segments[m].is = "hash"
    BY <1>6
  <2>2. \A i \in 1..m :
            CASE segments[i].is = "str"  -> i <= Len(t) /\ segments[i].text = t[i]
              [] segments[i].is = "plus" -> i <= Len(t)
              [] segments[i].is = "hash" -> i = m
    BY <1>4, <1>5, <1>7, <1>8
  <2> QED BY <1>2, <2>1, <2>2 DEF Accepts
<1>10. ASSUME NEW n \in DOMAIN bindings
       PROVE  Match(segments, t).named[n] = <<bindings[n]>>
  <2>1. PICK i \in 1..m : segments[i] = Plus(n) /\ n # Anonymous
    <3>1. n # Anonymous /\ Plus(n) \in Range(segments)
      BY DEF PatternInv, TypeOK
    <3>2. DOMAIN segments = 1..m
      BY <1>1
    <3> QED BY <3>1, <3>2 DEF Range
  <2>2. segments[i].is = "plus" /\ segments[i].text = n /\ IsNamed(segments[i])
    BY <2>1 DEF Plus, IsNamed, IsWildcard
  <2>3. n \in Names(segments)
    BY <2>2 DEF Names
  <2>4. \A j \in 1..m : IsNamed(segments[j]) /\ segments[j].text = n => j = i
    BY <1>1, <2>2 DEF Parses
  <2>5. (CHOOSE j \in 1..m : IsNamed(segments[j]) /\ segments[j].text = n) = i
    BY <2>2, <2>4
  <2>6. Match(segments, t).named[n] = Captured(segments, t, i)
    BY <2>3, <2>5 DEF Match
  <2>7. Captured(segments, t, i) = <<t[i]>>
    BY <2>2 DEF Captured
  <2>8. Resolved[i] = Str(bindings[n])
    BY <2>2, ResolvedFacts
  <2>9. bindings[n] = t[i]
    BY <1>3, <1>7, <2>2, <2>8 DEF Str
  <2> QED BY <2>6, <2>7, <2>9
<1> QED BY <1>9, <1>10

\* The invariant makes the trie and try_match agree.
LEMMA InvRouted == PatternInv => RoutedMatches
<1> SUFFICES ASSUME PatternInv, NEW t \in Topics, TrieFinds(t)
             PROVE  Matched(t) /\ \A n \in DOMAIN bindings : Answer(t).named[n] = <<bindings[n]>>
  BY DEF RoutedMatches
<1>1. Accepts(segments, t)
  BY TrieAccepts
<1>2. Matched(t)
  BY <1>1 DEF Matched
<1>3. Answer(t) = Match(segments, t)
  BY <1>2, AnswerFacts DEF PatternInv
<1> QED BY <1>2, <1>3, TrieAccepts

\* What the router delivers, the subscription matches: for every set of patterns
\* and topics, whatever is bound, replaced or cached.
THEOREM RoutedMatchesHolds == Spec => []RoutedMatches
<1> QED
  BY InvRouted, PatternInit, PatternStep, PTL DEF Spec

\* With plain values only, the filter has a word for each segment: "+" or "#" for
\* a wildcard and the text of a literal, which is neither.
LEMMA FilterWords ==
    ASSUME PatternInv, \A n \in DOMAIN bindings : bindings[n] \in PlainValues
    PROVE  /\ Len(MqttPattern) = Len(segments)
           /\ \A i \in 1..Len(segments) :
                /\ Resolved[i].is = "plus" => MqttPattern[i] = "+"
                /\ Resolved[i].is = "hash" => MqttPattern[i] = "#"
                /\ Resolved[i].is = "str"  => /\ MqttPattern[i] = Resolved[i].text
                                              /\ Resolved[i].text \notin {"+", "#"}
                /\ Resolved[i].is \in {"str", "plus", "hash"}
<1> DEFINE m == Len(segments)
           items == Resolved
           words == [i \in 1..Len(items) |-> Written(items[i])]
           S == {"+", "#"} \cup {items[i].text : i \in 1..m}
<1>1. /\ segments \in Seq(Items) /\ m \in Nat /\ Parses(segments) /\ m # 0
      /\ \A i \in 1..m : segments[i] \in Items
      /\ \A i \in 1..m : segments[i].is = "str" =>
              Split[segments[i].text] = <<segments[i].text>> /\ segments[i].text \notin {"+", "#"}
  <2>1. segments \in Patterns /\ Parses(segments)
    BY DEF PatternInv, TypeOK, Patterns
  <2>2. segments # <<>>
    BY <2>1 DEF Parses
  <2> QED BY <2>1, <2>2, PatternFacts
<1>2. Len(items) = m
  BY <1>1, ResolvedFacts
<1>3. ASSUME NEW i \in 1..m
      PROVE  /\ items[i].is \in {"str", "plus", "hash"}
             /\ items[i].is = "str" => /\ Split[items[i].text] = <<items[i].text>>
                                       /\ items[i].text \notin {"+", "#"}
  <2>1. CASE items[i] = segments[i]
    <3>1. segments[i] \in Items /\ segments[i] # Invalid
      BY <1>1 DEF Parses
    <3>2. segments[i].is \in {"str", "plus", "hash"}
      BY <3>1 DEF Items
    <3> QED BY <1>1, <2>1, <3>2
  <2>2. ASSUME NEW n \in DOMAIN bindings, items[i] = Str(bindings[n])
        PROVE  /\ items[i].is = "str"
               /\ Split[items[i].text] = <<items[i].text>>
               /\ items[i].text \notin {"+", "#"}
    BY <2>2 DEF Str, PlainValues
  <2> QED BY <2>1, <2>2, ResolvedFacts
<1> HIDE DEF items
<1>4. ASSUME NEW i \in 1..m
      PROVE  /\ items[i].is = "plus" => words[i] = <<"+">>
             /\ items[i].is = "hash" => words[i] = <<"#">>
             /\ items[i].is = "str" => words[i] = <<items[i].text>>
  <2>1. words[i] = Written(items[i])
    BY <1>2
  <2> QED BY <1>3, <2>1 DEF Written
<1>5. Len(words) = m
  BY <1>1, <1>2
<1>6. ASSUME NEW i \in 1..m PROVE \E e \in S : words[i] = <<e>>
  <2>1. "+" \in S /\ "#" \in S /\ items[i].text \in S
    OBVIOUS
  <2> DEFINE e == IF items[i].is = "plus" THEN "+" ELSE IF items[i].is = "hash" THEN "#"
                  ELSE items[i].text
  <2>2. e \in S /\ words[i] = <<e>>
    BY <1>3, <1>4, <2>1
  <2> HIDE DEF e, S
  <2> QED BY <2>2
<1>7. MqttPattern = FlattenSeq(words)
  BY DEF MqttPattern, items
<1> HIDE DEF words
<1>8. FirstWords(MqttPattern, words, m, S)
  BY <1>1, <1>5, <1>6, <1>7, FlattenWords
<1>9. Len(MqttPattern) = m /\ \A i \in 1..m : words[i] = <<MqttPattern[i]>>
  BY <1>8 DEF FirstWords
<1>10. ASSUME NEW i \in 1..m
       PROVE  /\ items[i].is = "plus" => MqttPattern[i] = "+"
              /\ items[i].is = "hash" => MqttPattern[i] = "#"
              /\ items[i].is = "str" => MqttPattern[i] = items[i].text
  BY <1>4, <1>9
<1> QED BY <1>3, <1>9, <1>10 DEF items

\* The invariant makes the broker and the trie agree.
LEMMA InvBroker == PatternInv => BrokerAgrees
<1> SUFFICES ASSUME PatternInv, \A n \in DOMAIN bindings : bindings[n] \in PlainValues,
                    NEW t \in Topics
             PROVE  /\ BrokerSends(MqttPattern, t) => TrieFinds(t)
                    /\ TrieFinds(t) /\ t[1] \notin Dollar => BrokerSends(MqttPattern, t)
  BY DEF BrokerAgrees
<1> DEFINE m == Len(segments)
           filter == MqttPattern
<1>1. /\ segments \in Seq(Items) /\ m \in Nat /\ Parses(segments) /\ segments # <<>>
  <2>1. segments \in Patterns /\ Parses(segments)
    BY DEF PatternInv, TypeOK, Patterns
  <2>2. segments # <<>>
    BY <2>1 DEF Parses
  <2> QED BY <2>1, <2>2, PatternFacts
<1>2. m \in 1..m /\ Last(segments) = segments[m]
  BY <1>1 DEF Last
<1>3. /\ Len(filter) = m
      /\ \A i \in 1..m :
            /\ Resolved[i].is = "plus" => filter[i] = "+"
            /\ Resolved[i].is = "hash" => filter[i] = "#"
            /\ Resolved[i].is = "str"  => filter[i] = Resolved[i].text /\ filter[i] \notin {"+", "#"}
            /\ Resolved[i].is \in {"str", "plus", "hash"}
  BY FilterWords
<1>4. TrieFinds(t) <=>
          /\ LengthFits(segments, t)
          /\ \A i \in 1..Compared(segments) :
                  Resolved[i].is = "str" => Resolved[i].text = t[i]
  BY <1>1, TrieReads
<1>5. Resolved[m].is = "hash" <=> segments[m].is = "hash"
  BY <1>2, ResolvedFacts
<1>6. Last(filter) = filter[m]
  BY <1>3 DEF Last
<1> HIDE DEF filter
<1>7. Last(filter) = "#" <=> segments[m].is = "hash"
  BY <1>2, <1>3, <1>5, <1>6
<1>8. \A i \in 1..Compared(segments) : i \in 1..m /\ Resolved[i].is # "hash"
  <2>1. \A i \in 1..m : segments[i].is = "hash" => i = m
    BY <1>1 DEF Parses
  <2>2. \A i \in 1..Compared(segments) : i \in 1..m /\ segments[i].is # "hash"
    BY <1>1, <1>2, <2>1 DEF Compared
  <2> QED BY <2>2, ResolvedFacts
<1>9. \A i \in 1..Compared(segments) :
          filter[i] \in {t[i], "+"} <=> (Resolved[i].is = "str" => Resolved[i].text = t[i])
  BY <1>3, <1>8
<1>10. (IF Last(filter) = "#" THEN Len(filter) - 1 ELSE Len(filter)) = Compared(segments)
  BY <1>2, <1>3, <1>7 DEF Compared
<1>11. BrokerSends(filter, t) <=>
          /\ IF Last(filter) = "#" THEN Compared(segments) <= Len(t) ELSE Compared(segments) = Len(t)
          /\ \A i \in 1..Compared(segments) : filter[i] \in {t[i], "+"}
          /\ t[1] \in Dollar => filter[1] \notin {"+", "#"}
  BY <1>10 DEF BrokerSends
<1>12. LengthFits(segments, t) <=>
          IF Last(filter) = "#" THEN Compared(segments) <= Len(t) ELSE Compared(segments) = Len(t)
  BY <1>2, <1>7 DEF LengthFits
<1> QED BY <1>4, <1>9, <1>11, <1>12 DEF filter

\* The trie finds what the broker sends, and the broker sends what the trie finds
\* but for topics with a "$" in front: for every pattern, as long as only plain
\* values are bound.
THEOREM BrokerAgreesHolds == Spec => []BrokerAgrees
<1> QED
  BY InvBroker, PatternInit, PatternStep, PTL DEF Spec

-----------------------------------------------------------------------------
(* What the generated code reads *)

\* A match of a pattern has, at the position of a named wildcard and under its
\* name, the same capture.
LEMMA PositionIsName ==
    ASSUME NEW p, Len(p) \in Nat, Parses(p), NEW t,
           NEW k \in 1..Len(Wildcards(p)), IsNamed(p[Wildcards(p)[k]])
    PROVE  LET name == p[Wildcards(p)[k]].text
           IN  /\ k \in DOMAIN Match(p, t).params
               /\ name \in DOMAIN Match(p, t).named
               /\ Match(p, t).params[k] = Captured(p, t, Wildcards(p)[k])
               /\ Match(p, t).named[name] = Captured(p, t, Wildcards(p)[k])
<1> DEFINE i == Wildcards(p)[k]
           name == p[i].text
<1>1. i \in 1..Len(p)
  BY WildcardPositions DEF Lists
<1>2. name \in Names(p)
  BY <1>1 DEF Names
<1>3. \A j \in 1..Len(p) : IsNamed(p[j]) /\ p[j].text = name => j = i
  BY <1>1 DEF Parses
<1>4. (CHOOSE j \in 1..Len(p) : IsNamed(p[j]) /\ p[j].text = name) = i
  BY <1>1, <1>3
<1>5. /\ DOMAIN Match(p, t).named = Names(p)
      /\ Match(p, t).named[name] = Captured(p, t, CHOOSE j \in 1..Len(p) : IsNamed(p[j]) /\ p[j].text = name)
  BY <1>2 DEF Match
<1>6. /\ DOMAIN Match(p, t).params = 1..Len(Wildcards(p))
      /\ Match(p, t).params[k] = Captured(p, t, i)
  BY DEF Match
<1> QED BY <1>2, <1>4, <1>5, <1>6

\* The invariant puts every field in its place.
LEMMA InvFields == PatternInv => FieldsExtracted
<1> SUFFICES ASSUME PatternInv, NEW t \in Topics, Matched(t),
                    NEW k \in 1..Len(Wildcards(declared)),
                    IsNamed(declared[Wildcards(declared)[k]])
             PROVE  LET name == declared[Wildcards(declared)[k]].text
                    IN  /\ k \in DOMAIN Answer(t).params
                        /\ name \in DOMAIN Answer(t).named
                        /\ Answer(t).params[k] = Answer(t).named[name]
  BY DEF FieldsExtracted
<1>1. Answer(t) = Match(segments, t)
  BY AnswerFacts DEF PatternInv
<1>2. declared \in Patterns /\ segments \in Patterns /\ Parses(segments)
  BY DEF PatternInv, TypeOK, Patterns
<1>3. Len(declared) \in Nat /\ Len(segments) \in Nat
  BY <1>2, PatternFacts
<1>4. /\ k \in 1..Len(Wildcards(segments))
      /\ declared[Wildcards(declared)[k]] = segments[Wildcards(segments)[k]]
  BY <1>3, SameWildcards DEF PatternInv
<1> QED BY <1>1, <1>2, <1>3, <1>4, PositionIsName

\* The generated code reads each field at its place, whatever template is put in
\* the place of the declared pattern.
THEOREM FieldsExtractedHolds == Spec => []FieldsExtracted
<1> QED
  BY InvFields, PatternInit, PatternStep, PTL DEF Spec
=============================================================================
