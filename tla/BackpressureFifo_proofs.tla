------------------------ MODULE BackpressureFifo_proofs ------------------------
(* Each subscription of the delivery pipeline implements LossyFifo, for every *)
(* set of subscriptions, capacity and bound.                                   *)
EXTENDS Backpressure_proofs, SequenceTheorems

-----------------------------------------------------------------------------
(* The stages of a subscription, one behind the other *)

\* Concatenation is typed, and its elements are those of its parts.
LEMMA ConcatFacts ==
    ASSUME NEW p \in Seq(Nat), NEW q \in Seq(Nat)
    PROVE  /\ p \o q \in Seq(Nat)
           /\ Len(p \o q) = Len(p) + Len(q)
           /\ \A i \in 1..Len(p) : (p \o q)[i] = p[i] /\ i \in 1..Len(p \o q)
           /\ \A i \in 1..Len(q) : (p \o q)[Len(p) + i] = q[i] /\ Len(p) + i \in 1..Len(p \o q)
           /\ \A k \in 1..Len(p \o q) :
                \/ k \in 1..Len(p) /\ (p \o q)[k] = p[k]
                \/ \E j \in 1..Len(q) : k = Len(p) + j /\ (p \o q)[k] = q[j]
<1>1. /\ p \o q \in Seq(Nat) /\ Len(p \o q) = Len(p) + Len(q)
      /\ \A i \in 1..Len(p) + Len(q) :
            (p \o q)[i] = IF i <= Len(p) THEN p[i] ELSE q[i - Len(p)]
  BY ConcatProperties
<1>2. Len(p) \in Nat /\ Len(q) \in Nat
  BY LenFacts
<1>3. \A i \in 1..Len(p) : (p \o q)[i] = p[i] /\ i \in 1..Len(p \o q)
  BY <1>1, <1>2
<1>4. \A i \in 1..Len(q) : (p \o q)[Len(p) + i] = q[i] /\ Len(p) + i \in 1..Len(p \o q)
  BY <1>1, <1>2
<1>5. ASSUME NEW k \in 1..Len(p \o q)
      PROVE  \/ k \in 1..Len(p) /\ (p \o q)[k] = p[k]
             \/ \E j \in 1..Len(q) : k = Len(p) + j /\ (p \o q)[k] = q[j]
  <2>1. CASE k <= Len(p)
    BY <1>1, <1>2, <2>1
  <2>2. CASE ~(k <= Len(p))
    <3>1. k - Len(p) \in 1..Len(q) /\ k = Len(p) + (k - Len(p))
      BY <1>1, <1>2, <2>2
    <3>2. (p \o q)[k] = q[k - Len(p)]
      BY <1>1, <2>2
    <3> QED BY <3>1, <3>2
  <2> QED BY <2>1, <2>2
<1> QED BY <1>1, <1>3, <1>4, <1>5

\* The messages of a sequence.
Elements(q) == {q[i] : i \in 1..Len(q)}

\* The messages of a concatenation.
LEMMA ConcatElements ==
    ASSUME NEW p \in Seq(Nat), NEW q \in Seq(Nat)
    PROVE  Elements(p \o q) = Elements(p) \cup Elements(q)
<1>1. Elements(p) \cup Elements(q) \subseteq Elements(p \o q)
  <2>1. ASSUME NEW i \in 1..Len(p) PROVE p[i] \in Elements(p \o q)
    BY ConcatFacts DEF Elements
  <2>2. ASSUME NEW i \in 1..Len(q) PROVE q[i] \in Elements(p \o q)
    <3>1. (p \o q)[Len(p) + i] = q[i] /\ Len(p) + i \in 1..Len(p \o q)
      BY ConcatFacts
    <3> QED BY <3>1 DEF Elements
  <2> QED BY <2>1, <2>2 DEF Elements
<1>2. ASSUME NEW k \in 1..Len(p \o q) PROVE (p \o q)[k] \in Elements(p) \cup Elements(q)
  <2>1. \/ k \in 1..Len(p) /\ (p \o q)[k] = p[k]
        \/ \E j \in 1..Len(q) : k = Len(p) + j /\ (p \o q)[k] = q[j]
    BY ConcatFacts
  <2> QED BY <2>1 DEF Elements
<1> QED BY <1>1, <1>2 DEF Elements

\* Appending to a sequence adds one message to it.
LEMMA PutElements ==
    ASSUME NEW q \in Seq(Nat), NEW m \in Nat
    PROVE  /\ Elements(Append(q, m)) = Elements(q) \cup {m}
           /\ Append(q, m) = q \o <<m>> /\ <<m>> \in Seq(Nat) /\ Elements(<<m>>) = {m}
<1>1. Append(q, m) = q \o <<m>> /\ <<m>> \in Seq(Nat)
  BY AppendIsConcat
<1>2. Elements(<<m>>) = {m}
  BY DEF Elements
<1> QED BY <1>1, <1>2, ConcatElements

\* A concatenation of increasing sequences, each before the next, is increasing.
LEMMA ConcatSorted ==
    ASSUME NEW p \in Seq(Nat), NEW q \in Seq(Nat), Sorted(p), Sorted(q), Before(p, q)
    PROVE  Sorted(p \o q)
<1> SUFFICES ASSUME NEW i \in 1..Len(p \o q), NEW j \in 1..Len(p \o q), i < j
             PROVE  (p \o q)[i] < (p \o q)[j]
  BY DEF Sorted
<1>1. Len(p) \in Nat /\ Len(q) \in Nat
  BY LenFacts
<1>2. \/ i \in 1..Len(p) /\ (p \o q)[i] = p[i]
      \/ \E k \in 1..Len(q) : i = Len(p) + k /\ (p \o q)[i] = q[k]
  BY ConcatFacts
<1>3. \/ j \in 1..Len(p) /\ (p \o q)[j] = p[j]
      \/ \E k \in 1..Len(q) : j = Len(p) + k /\ (p \o q)[j] = q[k]
  BY ConcatFacts
<1>4. CASE i \in 1..Len(p) /\ (p \o q)[i] = p[i]
  BY <1>3, <1>4 DEF Sorted, Before
<1>5. CASE \E k \in 1..Len(q) : i = Len(p) + k /\ (p \o q)[i] = q[k]
  <2>1. PICK k \in 1..Len(q) : i = Len(p) + k /\ (p \o q)[i] = q[k]
    BY <1>5
  <2>2. ~(j \in 1..Len(p))
    BY <1>1, <2>1
  <2>3. PICK l \in 1..Len(q) : j = Len(p) + l /\ (p \o q)[j] = q[l]
    BY <1>3, <2>2
  <2>4. k < l
    BY <1>1, <2>1, <2>3
  <2> QED BY <2>1, <2>3, <2>4 DEF Sorted
<1> QED BY <1>2, <1>4, <1>5

\* What comes before r one after the other comes before it together.
LEMMA ConcatBefore ==
    ASSUME NEW p \in Seq(Nat), NEW q \in Seq(Nat), NEW r, Before(p, r), Before(q, r)
    PROVE  Before(p \o q, r)
<1> SUFFICES ASSUME NEW i \in 1..Len(p \o q), NEW j \in 1..Len(r) PROVE (p \o q)[i] < r[j]
  BY DEF Before
<1>1. \/ i \in 1..Len(p) /\ (p \o q)[i] = p[i]
      \/ \E k \in 1..Len(q) : i = Len(p) + k /\ (p \o q)[i] = q[k]
  BY ConcatFacts
<1> QED BY <1>1 DEF Before

\* The head of a sequence is its first message; the rest follows.
LEMMA HeadTailConcat ==
    ASSUME NEW q \in Seq(Nat), q # <<>>
    PROVE  /\ q = <<Head(q)>> \o Tail(q)
           /\ Head(q) \in Nat /\ <<Head(q)>> \in Seq(Nat) /\ Tail(q) \in Seq(Nat)
<1>1. /\ Head(q) \in Nat /\ <<Head(q)>> \in Seq(Nat) /\ Tail(q) \in Seq(Nat)
      /\ Len(Tail(q)) = Len(q) - 1 /\ Len(q) \in Nat \ {0}
      /\ \A i \in 1..Len(Tail(q)) : Tail(q)[i] = q[i + 1]
  BY TailFacts, HeadTailProperties
<1>2. LET c == <<Head(q)>> \o Tail(q)
      IN  c \in Seq(Nat) /\ Len(c) = Len(q) /\ \A i \in 1..Len(q) : c[i] = q[i]
  <2> DEFINE c == <<Head(q)>> \o Tail(q)
  <2>1. c \in Seq(Nat) /\ Len(c) = 1 + Len(Tail(q))
    BY <1>1, ConcatProperties
  <2>2. \A i \in 1..1 + Len(Tail(q)) : c[i] = IF i <= 1 THEN <<Head(q)>>[i] ELSE Tail(q)[i - 1]
    BY <1>1, ConcatProperties
  <2>3. ASSUME NEW i \in 1..Len(q) PROVE c[i] = q[i]
    <3>1. CASE i = 1
      BY <1>1, <2>2, <3>1, TailElements
    <3>2. CASE i # 1
      <4>1. i - 1 \in 1..Len(Tail(q)) /\ ~(i <= 1) /\ (i - 1) + 1 = i /\ i \in 1..1 + Len(Tail(q))
        BY <1>1, <3>2
      <4>2. c[i] = Tail(q)[i - 1] /\ Tail(q)[i - 1] = q[(i - 1) + 1]
        BY <1>1, <2>2, <4>1
      <4> QED BY <4>1, <4>2
    <3> QED BY <3>1, <3>2
  <2> QED BY <1>1, <2>1, <2>3
<1>3. <<Head(q)>> \o Tail(q) = q
  <2> DEFINE c == <<Head(q)>> \o Tail(q)
  <2>1. c \in Seq(Nat) /\ Len(c) = Len(q) /\ \A i \in 1..Len(c) : c[i] = q[i]
    BY <1>2
  <2> HIDE DEF c
  <2>2. c = q
    BY <2>1, SeqEqual
  <2> QED BY <2>2 DEF c
<1> QED BY <1>1, <1>3

-----------------------------------------------------------------------------
(* The mapped state *)

\* The status and the pending messages of LossyFifo, as Fifo(s) maps them.
Status(s) == IF phase[s] = "none" THEN "new"
             ELSE IF s \in routed /\ Alive(s) /\ actor = "running" THEN "open"
             ELSE "closed"

Stages(s)  == channel[s] \o slowSend[s] \o queue[s]
Pending(s) == IF Alive(s) THEN Stages(s) ELSE <<>>

\* Some of a sequence's messages, in increasing order.
Thins(r, q) == Elements(r) \subseteq Elements(q) /\ Sorted(r)

FifoStutters(s) == /\ Status(s)' = Status(s) /\ Pending(s)' = Pending(s)
                   /\ received'[s] = received[s] /\ dropped'[s] = dropped[s]

FifoOpens(s) == /\ Status(s) = "new" /\ Status(s)' = "open" /\ Pending(s)' = Pending(s)
                /\ received'[s] = received[s] /\ dropped'[s] = dropped[s]

FifoAccepts(s) ==
    \E m \in 1..MaxPublished :
        /\ Status(s) = "open" /\ Status(s)' = "open"
        /\ \A n \in Elements(Pending(s)) \cup Elements(received[s]) : n < m
        /\ Pending(s)' = Append(Pending(s), m)
        /\ received'[s] = received[s] /\ dropped'[s] = dropped[s]

FifoRefuses(s) == /\ Status(s) = "open" /\ Status(s)' = "open" /\ Pending(s)' = Pending(s)
                  /\ received'[s] = received[s] /\ dropped'[s] = dropped[s] + 1

FifoExpires(s) ==
    \E m \in Elements(Pending(s)) :
        /\ Status(s) = "open" /\ Status(s)' = "open"
        /\ Thins(Pending(s)', Pending(s)) /\ Elements(Pending(s)') = Elements(Pending(s)) \ {m}
        /\ received'[s] = received[s] /\ dropped'[s] = dropped[s] + 1

FifoDelivers(s) == /\ Pending(s) # <<>> /\ Status(s)' = Status(s)
                   /\ Pending(s)' = Tail(Pending(s)) /\ dropped'[s] = dropped[s]
                   /\ received'[s] = Append(received[s], Head(Pending(s)))

FifoCloses(s) == /\ Status(s)' = "closed" /\ Thins(Pending(s)', Pending(s))
                 /\ dropped'[s] \in Nat /\ dropped'[s] >= dropped[s]
                 /\ received'[s] = received[s]

FifoStep(s) == \/ FifoStutters(s) \/ FifoOpens(s) \/ FifoAccepts(s) \/ FifoRefuses(s)
               \/ FifoExpires(s)  \/ FifoDelivers(s) \/ FifoCloses(s)

\* FifoStep(s) is a step of LossyFifo under the mapping, or a stutter.
LEMMA FifoStepMaps ==
    ASSUME NEW s \in Subs, FifoStep(s)
    PROVE  [Fifo(s)!Next]_(Fifo(s)!vars)
<1>1. CASE FifoStutters(s)
  BY <1>1 DEF FifoStutters, Status, Pending, Stages, Fifo!vars
<1>2. CASE FifoOpens(s)
  <2>1. Fifo(s)!Open
    BY <1>2 DEF FifoOpens, Status, Pending, Stages, Fifo!Open
  <2> QED BY <2>1 DEF Fifo!Next
<1>3. CASE FifoAccepts(s)
  <2>1. \E m \in 1..MaxPublished : Fifo(s)!Accept(m)
    BY <1>3 DEF FifoAccepts, Status, Pending, Stages, Elements, Fifo!Accept, Fifo!Range
  <2> QED BY <2>1 DEF Fifo!Next
<1>4. CASE FifoRefuses(s)
  <2>1. Fifo(s)!Refuse
    BY <1>4 DEF FifoRefuses, Status, Pending, Stages, Fifo!Refuse
  <2> QED BY <2>1 DEF Fifo!Next
<1>5. CASE FifoExpires(s)
  <2>1. PICK m \in Elements(Pending(s)) :
            /\ Status(s) = "open" /\ Status(s)' = "open"
            /\ Thins(Pending(s)', Pending(s)) /\ Elements(Pending(s)') = Elements(Pending(s)) \ {m}
            /\ received'[s] = received[s] /\ dropped'[s] = dropped[s] + 1
    BY <1>5 DEF FifoExpires
  <2>2. Fifo(s)!Expire(m)
    BY <2>1 DEF Status, Pending, Stages, Elements, Thins, Sorted,
                Fifo!Expire, Fifo!Thinned, Fifo!Range
  <2> QED BY <2>2 DEF Fifo!Next, Fifo!Range, Pending, Stages, Elements
<1>6. CASE FifoDelivers(s)
  <2>1. Fifo(s)!Deliver
    BY <1>6 DEF FifoDelivers, Status, Pending, Stages, Fifo!Deliver
  <2> QED BY <2>1 DEF Fifo!Next
<1>7. CASE FifoCloses(s)
  <2>1. Fifo(s)!Close
    BY <1>7 DEF FifoCloses, Status, Pending, Stages, Elements, Thins, Sorted,
                Fifo!Close, Fifo!Thinned, Fifo!Range
  <2> QED BY <2>1 DEF Fifo!Next
<1> QED
  BY <1>1, <1>2, <1>3, <1>4, <1>5, <1>6, <1>7 DEF FifoStep

-----------------------------------------------------------------------------
(* What the handlers do to the concatenated stages *)

\* The stages of one subscription are in order.
Ordered(c, w, q) ==
    /\ Sorted(c) /\ Sorted(w) /\ Sorted(q)
    /\ Before(c, w) /\ Before(c, q) /\ Before(w, q)

\* The stages one behind the other, typed and in order.
LEMMA StagesFacts ==
    ASSUME NEW c \in Seq(Nat), NEW w \in Seq(Nat), NEW q \in Seq(Nat), Ordered(c, w, q)
    PROVE  /\ c \o w \in Seq(Nat) /\ c \o w \o q \in Seq(Nat)
           /\ Sorted(c \o w \o q)
           /\ Elements(c \o w \o q) = Elements(c) \cup Elements(w) \cup Elements(q)
<1>1. c \o w \in Seq(Nat) /\ Sorted(c \o w) /\ Before(c \o w, q)
  BY ConcatFacts, ConcatSorted, ConcatBefore DEF Ordered
<1>2. c \o w \o q \in Seq(Nat) /\ Sorted(c \o w \o q)
  BY <1>1, ConcatFacts, ConcatSorted DEF Ordered
<1>3. /\ Elements(c \o w) = Elements(c) \cup Elements(w)
      /\ Elements(c \o w \o q) = Elements(c \o w) \cup Elements(q)
  BY <1>1, ConcatElements
<1> QED BY <1>1, <1>2, <1>3

\* Emptying the slow send or the parked queue thins the pending messages.
LEMMA ThinStages ==
    ASSUME NEW c \in Seq(Nat), NEW w \in Seq(Nat), NEW q \in Seq(Nat), Ordered(c, w, q),
           NEW v \in {w, <<>>}, NEW r \in {q, <<>>}
    PROVE  Thins(c \o v \o r, c \o w \o q) /\ Thins(<<>>, c \o w \o q)
<1>1. v \in Seq(Nat) /\ r \in Seq(Nat) /\ Ordered(c, v, r)
  BY EmptyFacts, EmptyOrder DEF Ordered
<1>2. Elements(<<>>) = {}
  BY EmptyFacts DEF Elements
<1>3. Elements(v) \subseteq Elements(w) /\ Elements(r) \subseteq Elements(q)
  BY <1>2
<1>4. Elements(c \o v \o r) \subseteq Elements(c \o w \o q) /\ Sorted(c \o v \o r)
  BY <1>1, <1>3, StagesFacts
<1> QED BY <1>2, <1>4, EmptyOrder DEF Thins

\* Appending to the middle stage when nothing is behind it, or to the last.
LEMMA AppendConcat ==
    ASSUME NEW p \in Seq(Nat), NEW q \in Seq(Nat), NEW m \in Nat
    PROVE  p \o Append(q, m) = Append(p \o q, m)
<1>1. Append(q, m) = q \o <<m>> /\ <<m>> \in Seq(Nat) /\ p \o q \in Seq(Nat)
  BY PutElements, ConcatFacts
<1>2. Append(p \o q, m) = (p \o q) \o <<m>>
  BY <1>1, PutElements
<1> QED BY <1>1, <1>2, ConcatAssociative

\* Moving a head to the end of the stage in front changes nothing overall.
LEMMA MoveConcat ==
    ASSUME NEW p \in Seq(Nat), NEW q \in Seq(Nat), q # <<>>
    PROVE  Append(p, Head(q)) \o Tail(q) = p \o q
<1>1. /\ q = <<Head(q)>> \o Tail(q) /\ Head(q) \in Nat
      /\ <<Head(q)>> \in Seq(Nat) /\ Tail(q) \in Seq(Nat)
  BY HeadTailConcat
<1>2. Append(p, Head(q)) = p \o <<Head(q)>>
  BY <1>1, PutElements
<1>3. (p \o <<Head(q)>>) \o Tail(q) = p \o (<<Head(q)>> \o Tail(q))
  BY <1>1, ConcatAssociative, SMTT(30)
<1> QED BY <1>1, <1>2, <1>3, SMTT(30)

\* Taking the head of the first stage takes the head of all.
LEMMA TakeConcat ==
    ASSUME NEW p \in Seq(Nat), NEW q \in Seq(Nat), p # <<>>
    PROVE  p \o q # <<>> /\ Head(p \o q) = Head(p) /\ Tail(p \o q) = Tail(p) \o q
<1>1. p \o q \in Seq(Nat) /\ Len(p \o q) = Len(p) + Len(q) /\ Len(p) \in Nat \ {0} /\ Len(q) \in Nat
  BY ConcatFacts, TailFacts, LenFacts
<1>2. p \o q # <<>>
  BY <1>1, EmptyFacts
<1>3. 1 \in 1..Len(p) /\ Head(p) = p[1] /\ Head(p \o q) = (p \o q)[1] /\ (p \o q)[1] = p[1]
  BY <1>1, <1>2, TailElements, ConcatFacts
<1>4. Tail(p) \in Seq(Nat) /\ Len(Tail(p)) = Len(p) - 1
      /\ Tail(p \o q) \in Seq(Nat) /\ Len(Tail(p \o q)) = Len(p \o q) - 1
  BY <1>1, <1>2, TailFacts
<1>5. /\ Tail(p) \o q \in Seq(Nat) /\ Len(Tail(p) \o q) = Len(Tail(p)) + Len(q)
      /\ \A i \in 1..Len(Tail(p)) + Len(q) :
            (Tail(p) \o q)[i] = IF i <= Len(Tail(p)) THEN Tail(p)[i] ELSE q[i - Len(Tail(p))]
      /\ \A i \in 1..Len(p) + Len(q) : (p \o q)[i] = IF i <= Len(p) THEN p[i] ELSE q[i - Len(p)]
  BY <1>4, ConcatProperties
<1>6. ASSUME NEW i \in 1..Len(Tail(p \o q)) PROVE Tail(p \o q)[i] = (Tail(p) \o q)[i]
  <2>1. /\ Tail(p \o q)[i] = (p \o q)[i + 1] /\ i + 1 \in 1..Len(p) + Len(q)
        /\ i \in 1..Len(Tail(p)) + Len(q)
    BY <1>1, <1>2, <1>4, TailElements
  <2>2. CASE i <= Len(Tail(p))
    <3>1. i \in 1..Len(Tail(p)) /\ i + 1 <= Len(p)
      BY <1>1, <1>4, <2>2
    <3>2. Tail(p)[i] = p[i + 1]
      BY <3>1, TailElements
    <3>3. (Tail(p) \o q)[i] = Tail(p)[i] /\ (p \o q)[i + 1] = p[i + 1]
      BY <1>5, <2>1, <2>2, <3>1
    <3> QED BY <2>1, <3>2, <3>3
  <2>3. CASE ~(i <= Len(Tail(p)))
    <3>1. ~(i + 1 <= Len(p)) /\ (i + 1) - Len(p) = i - Len(Tail(p))
      BY <1>1, <1>4, <2>3
    <3>2. (Tail(p) \o q)[i] = q[i - Len(Tail(p))] /\ (p \o q)[i + 1] = q[(i + 1) - Len(p)]
      BY <1>5, <2>1, <2>3, <3>1
    <3> QED BY <2>1, <3>1, <3>2
  <2> QED BY <2>2, <2>3
<1>7. Tail(p \o q) = Tail(p) \o q
  <2>1. Len(Tail(p \o q)) = Len(Tail(p) \o q)
    BY <1>1, <1>4, <1>5
  <2> QED BY <1>4, <1>5, <1>6, <2>1, SeqEqual
<1> QED BY <1>2, <1>3, <1>7


\* The same with three stages.
LEMMA TakeStages ==
    ASSUME NEW c \in Seq(Nat), NEW w \in Seq(Nat), NEW q \in Seq(Nat), c # <<>>
    PROVE  /\ c \o w \o q # <<>> /\ Head(c \o w \o q) = Head(c)
           /\ Tail(c \o w \o q) = Tail(c) \o w \o q
<1>1. /\ c \o w \in Seq(Nat) /\ c \o w # <<>> /\ Head(c \o w) = Head(c)
      /\ Tail(c \o w) = Tail(c) \o w
  BY TakeConcat, ConcatFacts
<1>2. (c \o w) \o q # <<>> /\ Head((c \o w) \o q) = Head(c \o w)
      /\ Tail((c \o w) \o q) = Tail(c \o w) \o q
  BY <1>1, TakeConcat
<1> QED BY <1>1, <1>2

\* A single message.
LEMMA SingleElements ==
    ASSUME NEW q \in Seq(Nat), q # <<>>, Len(q) <= 1
    PROVE  Elements(q) = {Head(q)}
<1>1. \A i \in 1..Len(q) : i = 1
  OBVIOUS
<1>2. Head(q) = q[1] /\ 1 \in 1..Len(q)
  BY TailElements
<1> QED BY <1>1, <1>2 DEF Elements

\* Giving up the message of the slow send takes exactly it out of what is pending.
LEMMA ExpireStages ==
    ASSUME NEW c \in Seq(Nat), NEW w \in Seq(Nat), NEW q \in Seq(Nat), Ordered(c, w, q),
           w # <<>>, Len(w) <= 1
    PROVE  /\ Head(w) \in Elements(c \o w \o q)
           /\ Elements(c \o q) = Elements(c \o w \o q) \ {Head(w)}
<1>1. Elements(c \o w \o q) = Elements(c) \cup Elements(w) \cup Elements(q)
  BY StagesFacts
<1>2. Elements(w) = {Head(w)}
  BY SingleElements
<1>3. Head(w) \notin Elements(c) \cup Elements(q)
  <2>1. Head(w) = w[1] /\ 1 \in 1..Len(w) /\ Head(w) \in Nat
    BY TailElements, TailFacts
  <2>2. \A i \in 1..Len(c) : c[i] < Head(w) /\ c[i] \in Nat
    BY <2>1 DEF Ordered, Before
  <2>3. \A i \in 1..Len(q) : Head(w) < q[i] /\ q[i] \in Nat
    BY <2>1 DEF Ordered, Before
  <2> QED BY <2>1, <2>2, <2>3 DEF Elements
<1>4. Elements(c \o q) = Elements(c) \cup Elements(q)
  BY ConcatElements
<1> QED BY <1>1, <1>2, <1>3, <1>4

-----------------------------------------------------------------------------
(* The handlers *)

\* The facts of the earlier invariants about one subscription.
LEMMA FifoFacts ==
    ASSUME TypeOK, Shape, Order, NEW t \in Subs
    PROVE  /\ received[t] \in Seq(Nat) /\ channel[t] \in Seq(Nat)
           /\ slowSend[t] \in Seq(Nat) /\ queue[t] \in Seq(Nat)
           /\ Ordered(channel[t], slowSend[t], queue[t])
           /\ dropped[t] \in Nat
           /\ ShapeAt(t) /\ OrderAt(t)
           /\ Stages(t) = (channel[t] \o slowSend[t]) \o queue[t]
  BY StageFacts DEF Shape, Order, OrderAt, Ordered, TypeOK, Stages

\* A step that leaves a subscription's part of the state alone.
LEMMA FifoFrame ==
    ASSUME NEW t, actor' = actor, phase'[t] = phase[t], t \in routed' <=> t \in routed,
           channel'[t] = channel[t], slowSend'[t] = slowSend[t], queue'[t] = queue[t],
           received'[t] = received[t], dropped'[t] = dropped[t]
    PROVE  FifoStep(t)
  BY DEF FifoStep, FifoStutters, Status, Pending, Stages, Alive

\* A message that matches a live subscription is accepted as its newest, or
\* counted; a subscription without its receiver is closed.
LEMMA FifoHandleSend ==
    ASSUME TypeOK, Shape, Order, NEW T \in SUBSET Subs, HandleSend(T), NEW t \in Subs
    PROVE  FifoStep(t)
<1> DEFINE m == published + 1
<1>1. /\ actor = "running" /\ actor' = actor /\ phase' = phase /\ received' = received
      /\ m \in 1..MaxPublished /\ published \in Nat /\ T \subseteq routed
  BY MaxPublishedAssumption DEF HandleSend, Idle, TypeOK, consumerVars
<1>2. /\ received[t] \in Seq(Nat) /\ channel[t] \in Seq(Nat)
      /\ slowSend[t] \in Seq(Nat) /\ queue[t] \in Seq(Nat)
      /\ Ordered(channel[t], slowSend[t], queue[t])
      /\ dropped[t] \in Nat /\ ShapeAt(t) /\ OrderAt(t)
  BY FifoFacts
<1>3. CASE t \notin T
  <2>1. /\ t \in routed' <=> t \in routed
        /\ channel'[t] = channel[t] /\ slowSend'[t] = slowSend[t] /\ queue'[t] = queue[t]
        /\ dropped'[t] = dropped[t]
    BY <1>3 DEF HandleSend
  <2> QED BY <1>1, <2>1, FifoFrame
<1>4. CASE t \in T /\ ~Alive(t)
  <2>1. dropped'[t] \in {dropped[t], dropped[t] + 1}
    BY DEF HandleSend
  <2>2. phase[t] # "none"
    BY <1>1, <1>2, <1>4 DEF ShapeAt
  <2>3. Pending(t) = <<>> /\ Pending(t)' = <<>> /\ Status(t)' = "closed"
    BY <1>1, <1>4, <2>2 DEF Pending, Status, Alive
  <2>4. Thins(<<>>, <<>>)
    BY EmptyOrder DEF Thins
  <2> QED BY <1>1, <1>2, <2>1, <2>3, <2>4 DEF FifoStep, FifoCloses
<1>5. CASE t \in T /\ Alive(t)
  <2>1. t \in routed' /\ t \in routed
    BY <1>1, <1>5 DEF HandleSend
  <2>2. Status(t) = "open" /\ Status(t)' = "open" /\ Alive(t)'
    BY <1>1, <1>5, <2>1 DEF Status, Alive
  <2>3. Pending(t) = Stages(t) /\ Pending(t)' = Stages(t)'
    BY <1>5, <2>2 DEF Pending
  <2>4. \A n \in Elements(Stages(t)) \cup Elements(received[t]) : n < m
    <3>1. Elements(Stages(t)) = Elements(channel[t]) \cup Elements(slowSend[t]) \cup Elements(queue[t])
      BY <1>2, StagesFacts DEF Stages
    <3>2. /\ Below(received[t], m) /\ Below(channel[t], m)
          /\ Below(slowSend[t], m) /\ Below(queue[t], m)
      BY <1>1, <1>2, NextMessage DEF OrderAt
    <3> QED BY <3>1, <3>2 DEF Elements, Below
  <2>5. ASSUME Stages(t)' = Append(Stages(t), m), dropped'[t] = dropped[t]
        PROVE  FifoStep(t)
    BY <1>1, <2>2, <2>3, <2>4, <2>5 DEF FifoStep, FifoAccepts
  <2>6. CASE t \in parked /\ QueueFull(t)
    <3>1. /\ channel'[t] = channel[t] /\ slowSend'[t] = slowSend[t] /\ queue'[t] = queue[t]
          /\ dropped'[t] = dropped[t] + 1
      BY <1>5, <2>6 DEF HandleSend
    <3>2. Stages(t)' = Stages(t)
      BY <3>1 DEF Stages
    <3> QED BY <1>1, <2>2, <2>3, <3>1, <3>2 DEF FifoStep, FifoRefuses
  <2>7. CASE t \in parked /\ ~QueueFull(t)
    <3>1. /\ channel'[t] = channel[t] /\ slowSend'[t] = slowSend[t]
          /\ queue'[t] = Append(queue[t], m) /\ dropped'[t] = dropped[t]
      BY <1>5, <2>7 DEF HandleSend
    <3>2. Stages(t)' = Append(Stages(t), m)
      <4>1. (channel[t] \o slowSend[t]) \o Append(queue[t], m)
              = Append((channel[t] \o slowSend[t]) \o queue[t], m)
        <5>1. channel[t] \o slowSend[t] \in Seq(Nat) /\ m \in Nat
          BY <1>1, <1>2, ConcatFacts
        <5> HIDE DEF m
        <5> QED BY <1>2, <5>1, AppendConcat
      <4> QED BY <3>1, <4>1 DEF Stages
    <3> QED BY <2>5, <3>1, <3>2
  <2>8. CASE t \notin parked
    <3>1. slowSend[t] = <<>> /\ queue[t] = <<>>
      <4>1. draining = {}
        BY DEF HandleSend, Idle
      <4> QED BY <1>1, <1>2, <2>1, <2>8, <4>1 DEF ShapeAt
    <3>2. Stages(t) = channel[t]
      BY <1>2, <3>1, ConcatEmptySeq DEF Stages
    <3>3. dropped'[t] = dropped[t] /\ queue'[t] = <<>>
      BY <2>8, <3>1 DEF HandleSend
    <3>4. CASE HasRoom(t)
      <4>1. channel'[t] = Append(channel[t], m) /\ slowSend'[t] = <<>>
        BY <1>5, <2>8, <3>1, <3>4 DEF HandleSend
      <4>2. Append(channel[t], m) \in Seq(Nat)
        BY <1>1, <1>2, AppendFacts
      <4>3. Stages(t)' = Append(channel[t], m)
        BY <3>3, <4>1, <4>2, ConcatEmptySeq DEF Stages
      <4> QED BY <2>5, <3>2, <3>3, <4>3
    <3>5. CASE ~HasRoom(t)
      <4>1. channel'[t] = channel[t] /\ slowSend'[t] = Append(<<>>, m)
        BY <1>5, <2>8, <3>1, <3>5 DEF HandleSend
      <4>2. channel[t] \o Append(<<>>, m) = Append(channel[t] \o <<>>, m)
        BY <1>1, <1>2, EmptyFacts, AppendConcat
      <4>3. channel[t] \o <<>> = channel[t] /\ Append(channel[t], m) \in Seq(Nat)
        BY <1>1, <1>2, AppendFacts, ConcatEmptySeq
      <4>4. Stages(t)' = Append(channel[t], m)
        BY <3>3, <4>1, <4>2, <4>3, ConcatEmptySeq DEF Stages
      <4> QED BY <2>5, <3>2, <3>3, <4>4
    <3> QED BY <3>4, <3>5
  <2> QED BY <2>6, <2>7, <2>8
<1> QED BY <1>3, <1>4, <1>5

\* Subscribing opens the subscription with nothing pending; an orphaned
\* subscription is closed at once.
LEMMA FifoSubscribe ==
    ASSUME TypeOK, Shape, Order, NEW s \in Subs, HandleSubscribe(s) \/ HandleSubscribeOrphan(s),
           NEW t \in Subs
    PROVE  FifoStep(t)
<1>1. /\ actor = "running" /\ actor' = actor /\ phase[s] = "none"
      /\ UNCHANGED <<channel, slowSend, queue, received, dropped, draining>>
  BY DEF HandleSubscribe, HandleSubscribeOrphan, Idle, actorVars, history
<1>2. CASE t # s
  <2>1. phase'[t] = phase[t] /\ (t \in routed' <=> t \in routed)
    BY <1>2 DEF HandleSubscribe, HandleSubscribeOrphan, TypeOK, actorVars
  <2> QED BY <1>1, <2>1, FifoFrame
<1>3. CASE t = s
  <2>1. ShapeAt(s) /\ dropped[s] \in Nat
    BY FifoFacts
  <2>2. slowSend[s] = <<>> /\ queue[s] = <<>> /\ channel[s] = <<>>
    BY <1>1, <2>1 DEF ShapeAt
  <2>3. Pending(s) = <<>> /\ Pending(s)' = <<>>
    <3>1. <<>> \o <<>> \o <<>> = <<>>
      BY EmptyFacts, ConcatEmptySeq
    <3> QED BY <1>1, <2>2, <3>1 DEF Pending, Stages, Alive
  <2>4. CASE HandleSubscribe(s)
    <3>1. s \in routed' /\ phase'[s] = "idle"
      BY <2>4 DEF HandleSubscribe, TypeOK
    <3>2. Status(s) = "new" /\ Status(s)' = "open"
      BY <1>1, <3>1 DEF Status, Alive
    <3> QED BY <1>1, <1>3, <2>3, <3>2 DEF FifoStep, FifoOpens
  <2>5. CASE HandleSubscribeOrphan(s)
    <3>1. phase'[s] = "gone"
      BY <2>5 DEF HandleSubscribeOrphan, TypeOK
    <3>2. Status(s)' = "closed"
      BY <3>1 DEF Status, Alive
    <3>3. Thins(<<>>, <<>>)
      BY EmptyOrder DEF Thins
    <3> QED BY <1>1, <1>3, <2>1, <2>3, <3>2, <3>3 DEF FifoStep, FifoCloses
  <2> QED BY <2>4, <2>5
<1> QED BY <1>2, <1>3

\* A finished slow send moves its message into the channel, or gives it up and
\* counts it, or finds the subscription without a receiver.
LEMMA FifoSlowSendDone ==
    ASSUME TypeOK, Shape, Order, NEW s \in Subs, SlowSendDone(s), NEW t \in Subs
    PROVE  FifoStep(t)
<1>1. actor' = actor /\ phase' = phase /\ received' = received /\ slowSend[s] # <<>>
  BY DEF SlowSendDone, SlowSendOk, SlowSendTimeout, SlowSendClosed, consumerVars, history
<1>2. CASE t # s
  <2>1. /\ t \in routed' <=> t \in routed
        /\ channel'[t] = channel[t] /\ slowSend'[t] = slowSend[t] /\ queue'[t] = queue[t]
        /\ dropped'[t] = dropped[t]
    BY <1>2 DEF SlowSendDone, SlowSendOk, SlowSendTimeout, SlowSendClosed, TypeOK
  <2> QED BY <1>1, <2>1, FifoFrame
<1>3. CASE t = s
  <2>1. /\ received[s] \in Seq(Nat) /\ channel[s] \in Seq(Nat)
        /\ slowSend[s] \in Seq(Nat) /\ queue[s] \in Seq(Nat)
        /\ Ordered(channel[s], slowSend[s], queue[s])
        /\ dropped[s] \in Nat /\ ShapeAt(s)
    BY FifoFacts
  <2>2. phase[s] # "none"
    BY <1>1, <2>1 DEF ShapeAt
  <2>3. CASE SlowSendOk(s)
    <3>1. /\ channel'[s] = Append(channel[s], Head(slowSend[s])) /\ slowSend'[s] = Tail(slowSend[s])
          /\ queue'[s] = queue[s] /\ dropped'[s] = dropped[s] /\ routed' = routed
      BY <2>3 DEF SlowSendOk, TypeOK
    <3>2. Append(channel[s], Head(slowSend[s])) \o Tail(slowSend[s]) = channel[s] \o slowSend[s]
      BY <1>1, <2>1, MoveConcat
    <3>3. Stages(s)' = Stages(s)
      BY <3>1, <3>2 DEF Stages
    <3> QED
      BY <1>1, <1>3, <3>1, <3>3 DEF FifoStep, FifoStutters, Status, Pending, Alive
  <2>4. CASE SlowSendTimeout(s)
    <3>1. /\ channel'[s] = channel[s] /\ slowSend'[s] = Tail(slowSend[s]) /\ queue'[s] = queue[s]
          /\ dropped'[s] = IF s \in parked THEN dropped[s] + 1 ELSE dropped[s]
          /\ routed' = routed /\ Alive(s)
      BY <2>4 DEF SlowSendTimeout, TypeOK
    <3>2. slowSend'[s] = <<>>
      BY <1>1, <2>1, <3>1, SingleTail DEF ShapeAt
    <3>3. Pending(s) = Stages(s) /\ Pending(s)' = Stages(s)'
      BY <1>1, <3>1 DEF Pending, Alive
    <3>4. Thins(Stages(s)', Stages(s))
      BY <2>1, <3>1, <3>2, ThinStages DEF Stages
    <3>5. CASE s \in parked
      <4>1. Status(s) = "open" /\ Status(s)' = "open"
        <5>1. s \in routed /\ actor = "running"
          BY <2>1, <2>4, <3>5 DEF ShapeAt, Shape, SlowSendTimeout, PollsSlowSends, Idle
        <5> QED BY <1>1, <2>2, <3>1, <5>1 DEF Status, Alive
      <4>2. /\ Elements(Stages(s)') = Elements(Stages(s)) \ {Head(slowSend[s])}
            /\ Head(slowSend[s]) \in Elements(Stages(s))
        <5> DEFINE c == channel[s]
                   w == slowSend[s]
                   q == queue[s]
        <5>1. /\ c \in Seq(Nat) /\ w \in Seq(Nat) /\ q \in Seq(Nat)
              /\ Ordered(c, w, q) /\ w # <<>> /\ Len(w) <= 1
          BY <1>1, <2>1 DEF ShapeAt
        <5>2. Stages(s) = c \o w \o q /\ Head(slowSend[s]) = Head(w)
          BY DEF Stages
        <5>3. c \o <<>> = c
          BY <5>1, ConcatEmptySeq
        <5>4. Stages(s)' = c \o q
          BY <3>1, <3>2, <5>3 DEF Stages
        <5> HIDE DEF c, w, q
        <5>5. Elements(c \o q) = Elements(c \o w \o q) \ {Head(w)}
              /\ Head(w) \in Elements(c \o w \o q)
          BY <5>1, ExpireStages
        <5> QED BY <5>2, <5>4, <5>5, Zenon
      <4>3. FifoExpires(s)
        BY <1>1, <3>1, <3>3, <3>4, <3>5, <4>1, <4>2 DEF FifoExpires
      <4> QED BY <1>3, <4>3 DEF FifoStep
    <3>6. CASE s \notin parked
      <4>1. Status(s)' = "closed"
        <5>1. ~(s \in routed /\ actor = "running")
          BY <1>1, <2>1, <3>6 DEF ShapeAt
        <5> QED BY <1>1, <2>2, <3>1, <5>1 DEF Status
      <4>2. dropped'[s] \in Nat /\ dropped'[s] >= dropped[s]
        BY <2>1, <3>1, <3>6
      <4>3. FifoCloses(s)
        BY <1>1, <3>3, <3>4, <4>1, <4>2 DEF FifoCloses
      <4> QED BY <1>3, <4>3 DEF FifoStep
    <3> QED BY <3>5, <3>6
  <2>5. CASE SlowSendClosed(s)
    <3>1. ~Alive(s) /\ ~Alive(s)'
      BY <1>1, <2>5 DEF SlowSendClosed, Alive
    <3>2. Pending(s) = <<>> /\ Pending(s)' = <<>> /\ Status(s)' = "closed"
      BY <1>1, <2>2, <3>1 DEF Pending, Status
    <3>3. dropped'[s] \in Nat /\ dropped'[s] >= dropped[s]
      <4>1. dropped'[s] = IF s \in parked THEN dropped[s] + 1 + Len(queue[s]) ELSE dropped[s]
        BY <2>5 DEF SlowSendClosed, TypeOK
      <4>2. Len(queue[s]) \in Nat
        BY <2>1, LenFacts
      <4> QED BY <2>1, <4>1, <4>2
    <3>4. Thins(<<>>, <<>>)
      BY EmptyOrder DEF Thins
    <3> QED BY <1>1, <1>3, <3>2, <3>3, <3>4 DEF FifoStep, FifoCloses
  <2> QED BY <2>3, <2>4, <2>5 DEF SlowSendDone
<1> QED BY <1>2, <1>3

\* A drain moves messages forward, which is nothing to the consumer, or finds
\* the subscription without a receiver.
LEMMA FifoDrain ==
    ASSUME TypeOK, Shape, Order, NEW s \in Subs, Drain(s), NEW t \in Subs
    PROVE  FifoStep(t)
<1>1. /\ actor' = actor /\ phase' = phase /\ received' = received /\ s \in draining
  BY DEF Drain, DrainSend, DrainPark, DrainClosed, DrainDone, consumerVars, history
<1>2. CASE t # s
  <2>1. /\ t \in routed' <=> t \in routed
        /\ channel'[t] = channel[t] /\ slowSend'[t] = slowSend[t] /\ queue'[t] = queue[t]
        /\ dropped'[t] = dropped[t]
    BY <1>2 DEF Drain, DrainSend, DrainPark, DrainClosed, DrainDone, TypeOK
  <2> QED BY <1>1, <2>1, FifoFrame
<1>3. CASE t = s
  <2>1. /\ received[s] \in Seq(Nat) /\ channel[s] \in Seq(Nat)
        /\ slowSend[s] \in Seq(Nat) /\ queue[s] \in Seq(Nat)
        /\ Ordered(channel[s], slowSend[s], queue[s])
        /\ dropped[s] \in Nat /\ ShapeAt(s)
    BY FifoFacts
  <2>2. slowSend[s] = <<>> /\ phase[s] # "none"
    BY <1>1, <2>1 DEF ShapeAt, Shape
  <2>3. CASE DrainSend(s)
    <3>1. /\ channel'[s] = Append(channel[s], Head(queue[s])) /\ queue'[s] = Tail(queue[s])
          /\ queue[s] # <<>>
          /\ slowSend'[s] = <<>> /\ dropped'[s] = dropped[s] /\ routed' = routed
      BY <2>2, <2>3 DEF DrainSend, TypeOK
    <3>2. /\ Append(channel[s], Head(queue[s])) \o Tail(queue[s]) = channel[s] \o queue[s]
          /\ Append(channel[s], Head(queue[s])) \in Seq(Nat)
      BY <2>1, <3>1, MoveConcat, AppendFacts, TailFacts
    <3>3. /\ Append(channel[s], Head(queue[s])) \o <<>> = Append(channel[s], Head(queue[s]))
          /\ channel[s] \o <<>> = channel[s]
      BY <2>1, <3>2, ConcatEmptySeq
    <3>4. Stages(s)' = Stages(s)
      BY <2>2, <3>1, <3>2, <3>3 DEF Stages
    <3> QED
      BY <1>1, <1>3, <3>1, <3>4 DEF FifoStep, FifoStutters, Status, Pending, Alive
  <2>4. CASE DrainPark(s)
    <3>1. /\ slowSend'[s] = Append(<<>>, Head(queue[s])) /\ queue'[s] = Tail(queue[s])
          /\ queue[s] # <<>>
          /\ channel'[s] = channel[s] /\ dropped'[s] = dropped[s] /\ routed' = routed
      BY <2>2, <2>4 DEF DrainPark, TypeOK
    <3>2. Head(queue[s]) \in Nat
      BY <2>1, <3>1, TailFacts
    <3>3. channel[s] \o Append(<<>>, Head(queue[s])) = Append(channel[s] \o <<>>, Head(queue[s]))
      BY <2>1, <3>2, EmptyFacts, AppendConcat
    <3>4. channel[s] \o <<>> = channel[s]
      BY <2>1, ConcatEmptySeq
    <3>5. Append(channel[s], Head(queue[s])) \o Tail(queue[s]) = channel[s] \o queue[s]
      BY <2>1, <3>1, MoveConcat
    <3>6. Stages(s)' = Stages(s)
      BY <2>2, <3>1, <3>3, <3>4, <3>5 DEF Stages
    <3> QED
      BY <1>1, <1>3, <3>1, <3>6 DEF FifoStep, FifoStutters, Status, Pending, Alive
  <2>5. CASE DrainClosed(s)
    <3>1. ~Alive(s) /\ ~Alive(s)'
      BY <1>1, <2>5 DEF DrainClosed, Alive
    <3>2. Pending(s) = <<>> /\ Pending(s)' = <<>> /\ Status(s)' = "closed"
      BY <1>1, <2>2, <3>1 DEF Pending, Status
    <3>3. dropped'[s] \in Nat /\ dropped'[s] >= dropped[s]
      <4>1. dropped'[s] = dropped[s] + Len(queue[s])
        BY <2>5 DEF DrainClosed, TypeOK
      <4>2. Len(queue[s]) \in Nat
        BY <2>1, LenFacts
      <4> QED BY <2>1, <4>1, <4>2
    <3>4. Thins(<<>>, <<>>)
      BY EmptyOrder DEF Thins
    <3> QED BY <1>1, <1>3, <3>2, <3>3, <3>4 DEF FifoStep, FifoCloses
  <2>6. CASE DrainDone(s)
    <3>1. UNCHANGED <<channel, slowSend, queue, dropped, routed>>
      BY <2>6 DEF DrainDone
    <3> QED BY <1>1, <3>1, FifoFrame
  <2> QED BY <2>3, <2>4, <2>5, <2>6 DEF Drain
<1> QED BY <1>2, <1>3

\* Unsubscribing and shutting down close subscriptions: what the actor still
\* holds for them may go, what their channels hold may not.
LEMMA FifoClosing ==
    ASSUME TypeOK, Shape, Order,
           HandleUnsubscribe \/ BeginCleanup \/ DropParked \/ EndCleanup,
           NEW t \in Subs
    PROVE  FifoStep(t)
<1>1. /\ phase' = phase /\ received' = received /\ dropped' = dropped /\ channel' = channel
      /\ slowSend'[t] \in {slowSend[t], <<>>} /\ queue'[t] \in {queue[t], <<>>}
      /\ t \in routed' => t \in routed
  BY DEF HandleUnsubscribe, BeginCleanup, DropParked, EndCleanup, TypeOK, consumerVars, history
<1>2. /\ received[t] \in Seq(Nat) /\ channel[t] \in Seq(Nat)
      /\ slowSend[t] \in Seq(Nat) /\ queue[t] \in Seq(Nat)
      /\ Ordered(channel[t], slowSend[t], queue[t])
      /\ dropped[t] \in Nat /\ ShapeAt(t)
  BY FifoFacts
<1>3. CASE phase[t] = "none"
  BY <1>1, <1>3 DEF FifoStep, FifoStutters, Status, Pending, Alive
<1>4. CASE phase[t] # "none"
  <2>1. Thins(Pending(t)', Pending(t))
    <3>1. CASE Alive(t)
      BY <1>1, <1>2, <3>1, ThinStages DEF Pending, Stages, Alive
    <3>2. CASE ~Alive(t)
      BY <1>1, <3>2, EmptyOrder DEF Pending, Alive, Thins
    <3> QED BY <3>1, <3>2
  <2>2. ASSUME Status(t)' = "closed" PROVE FifoStep(t)
    BY <1>1, <1>2, <2>1, <2>2 DEF FifoStep, FifoCloses
  <2>3. CASE BeginCleanup \/ DropParked \/ EndCleanup
    <3>1. actor' # "running"
      BY <2>3 DEF BeginCleanup, DropParked, EndCleanup
    <3> QED BY <1>1, <1>4, <2>2, <3>1 DEF Status
  <2>4. CASE HandleUnsubscribe /\ t = Head(unsubQ)
    <3>1. t \notin routed'
      BY <2>4 DEF HandleUnsubscribe
    <3> QED BY <1>1, <1>4, <2>2, <3>1 DEF Status
  <2>5. CASE HandleUnsubscribe /\ t # Head(unsubQ)
    <3>1. /\ actor' = actor /\ (t \in routed' <=> t \in routed)
          /\ slowSend'[t] = slowSend[t] /\ queue'[t] = queue[t]
      BY <2>5 DEF HandleUnsubscribe, TypeOK
    <3> QED BY <1>1, <3>1, FifoFrame
  <2> QED BY <2>3, <2>4, <2>5
<1> QED BY <1>3, <1>4

\* recv() delivers the first pending message; giving the Subscriber up closes.
LEMMA FifoConsumer ==
    ASSUME TypeOK, Shape, Order, NEW s \in Subs, Recv(s) \/ RecvCancel(s) \/ Leave(s),
           NEW t \in Subs
    PROVE  FifoStep(t)
<1>1. UNCHANGED <<actor, routed, slowSend, queue, dropped>>
  BY DEF Recv, RecvLagged, RecvWait, RecvMessage, RecvNone, RecvCancel, Leave, UnsubscribeStart,
         UnsubscribeDone, UnsubscribeCancelled, UnsubscribeImmediate, DropSubscriber, actorVars
<1>2. CASE t # s
  <2>1. phase'[t] = phase[t] /\ channel'[t] = channel[t] /\ received'[t] = received[t]
    BY <1>2 DEF Recv, RecvLagged, RecvWait, RecvMessage, RecvNone, RecvCancel, Leave,
         UnsubscribeStart, UnsubscribeDone, UnsubscribeCancelled, UnsubscribeImmediate,
         DropSubscriber, Discard, TypeOK, history
  <2> QED BY <1>1, <2>1, FifoFrame
<1>3. CASE t = s
  <2>1. /\ received[s] \in Seq(Nat) /\ channel[s] \in Seq(Nat)
        /\ slowSend[s] \in Seq(Nat) /\ queue[s] \in Seq(Nat)
        /\ Ordered(channel[s], slowSend[s], queue[s])
        /\ dropped[s] \in Nat
    BY FifoFacts
  <2>2. CASE RecvMessage(s)
    <3>1. /\ channel[s] # <<>> /\ channel'[s] = Tail(channel[s])
          /\ received'[s] = Append(received[s], Head(channel[s]))
          /\ phase[s] = "receiving" /\ phase'[s] = "idle"
      BY <2>2 DEF RecvMessage, TypeOK
    <3>2. Status(s)' = Status(s) /\ Pending(s) = Stages(s) /\ Pending(s)' = Stages(s)'
      BY <1>1, <3>1 DEF Status, Pending, Alive
    <3>4. /\ Stages(s) # <<>> /\ Head(Stages(s)) = Head(channel[s])
          /\ Tail(Stages(s)) = (Tail(channel[s]) \o slowSend[s]) \o queue[s]
      <4>1. /\ (channel[s] \o slowSend[s]) \o queue[s] # <<>>
            /\ Head((channel[s] \o slowSend[s]) \o queue[s]) = Head(channel[s])
            /\ Tail((channel[s] \o slowSend[s]) \o queue[s])
                  = (Tail(channel[s]) \o slowSend[s]) \o queue[s]
        <5> DEFINE c == channel[s]
                   w == slowSend[s]
                   q == queue[s]
        <5>1. c \in Seq(Nat) /\ w \in Seq(Nat) /\ q \in Seq(Nat) /\ c # <<>>
          BY <2>1, <3>1
        <5> HIDE DEF c, w, q
        <5>2. /\ c \o w \o q # <<>> /\ Head(c \o w \o q) = Head(c)
              /\ Tail(c \o w \o q) = Tail(c) \o w \o q
          BY <5>1, TakeStages
        <5> QED BY <5>2, ZenonT(40) DEF c, w, q
      <4> QED BY <4>1, Zenon DEF Stages
    <3>5. Stages(s)' = Tail(Stages(s))
      BY <1>1, <3>1, <3>4 DEF Stages
    <3> QED BY <1>1, <1>3, <3>1, <3>2, <3>4, <3>5 DEF FifoStep, FifoDelivers
  <2>3. CASE phase'[s] = "gone"
    <3>1. phase[s] # "none" /\ received' = received
      BY <2>3 DEF Recv, RecvLagged, RecvWait, RecvMessage, RecvNone, RecvCancel, Leave,
         UnsubscribeStart, UnsubscribeDone, UnsubscribeCancelled, UnsubscribeImmediate,
         DropSubscriber, Discard, TypeOK, history
    <3>2. Status(s)' = "closed" /\ Pending(s)' = <<>>
      BY <2>3 DEF Status, Pending, Alive
    <3>3. Thins(<<>>, Pending(s))
      BY <2>1, ThinStages, EmptyOrder DEF Pending, Stages, Thins
    <3> QED BY <1>1, <1>3, <2>1, <3>1, <3>2, <3>3 DEF FifoStep, FifoCloses
  <2>4. CASE ~RecvMessage(s) /\ phase'[s] # "gone"
    <3>1. /\ received' = received /\ channel' = channel
          /\ phase[s] \in {"idle", "receiving", "leaving", "gone"}
          /\ phase'[s] \in {"idle", "receiving", "leaving"}
          /\ phase[s] # "gone"
      BY <2>4 DEF Recv, RecvLagged, RecvWait, RecvNone, RecvCancel, Leave,
         UnsubscribeStart, UnsubscribeDone, UnsubscribeCancelled, UnsubscribeImmediate,
         DropSubscriber, Discard, TypeOK, history
    <3> QED BY <1>1, <1>3, <3>1 DEF FifoStep, FifoStutters, Status, Pending, Stages, Alive
  <2> QED BY <2>2, <2>3, <2>4
<1> QED BY <1>2, <1>3

\* Every subscription implements LossyFifo: messages leave in the order they
\* were accepted, an open subscription loses none without counting it, and a
\* closed one never gets another.  Every step of the pipeline, of whichever
\* actor, is one step of each subscription's LossyFifo or none.
THEOREM ImplementsLossyFifoHolds == Spec => ImplementsLossyFifo
<1>1. Init => \A s \in Subs : Fifo(s)!Init
  <2> SUFFICES ASSUME Init, NEW s \in Subs PROVE Fifo(s)!Init
    OBVIOUS
  <2> QED BY DEF Init, Alive, Fifo!Init
<1>2. TypeOK /\ Shape /\ Order /\ [Next]_vars =>
        [\A s \in Subs : [Fifo(s)!Next]_(Fifo(s)!vars)]_vars
  <2> SUFFICES ASSUME TypeOK, Shape, Order, Next, NEW s \in Subs
               PROVE  [Fifo(s)!Next]_(Fifo(s)!vars)
    OBVIOUS
  <2>1. CASE UNCHANGED vars
    <3>1. FifoStep(s)
      BY <2>1, FifoFrame DEF vars, actorVars, consumerVars, history
    <3> QED BY <3>1, FifoStepMaps
  <2>2. FifoStep(s) \/ UNCHANGED vars
    BY FifoHandleSend, FifoSubscribe, FifoSlowSendDone, FifoDrain, FifoClosing, FifoConsumer
       DEF Next, Finished
  <2> QED BY <2>1, <2>2, FifoStepMaps
<1> QED
  BY <1>1, <1>2, TypeCorrect, ShapeInvariant, OrderInvariant, PTL DEF Spec, ImplementsLossyFifo
=============================================================================
