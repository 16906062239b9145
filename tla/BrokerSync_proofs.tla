-------------------------- MODULE BrokerSync_proofs --------------------------
(* Theorems about BrokerSync, for every set of patterns and any number of    *)
(* subscriptions, requests and places in the unsubscribe channel.            *)
EXTENDS BrokerSync, TopicRouter_proofs, FiniteSetTheorems

-----------------------------------------------------------------------------
(* Who removes a subscription *)

\* One handler is under way at a time.
OrphanInv ==
    /\ NoOrphan
    /\ \A a, b \in inHand : a = b

\* The ids in use after a removal, and after a cleanup.
LEMMA IdsAfter ==
    /\ \A id : Unsubscribe(id) => Ids' = Ids \ {id}
    /\ Cleanup => Ids' = {}
  BY DEF Unsubscribe, Cleanup, Restrict, Ids

\* Dropping a Subscriber hands its id on, whether the channel has room or not.
LEMMA DropFacts ==
    ASSUME NEW id, Drop(id)
    PROVE  (leaving \cup deserted \cup {id}) \subseteq (leaving \cup deserted)'
  BY DEF Drop

\* Every step leaves each subscription in somebody's hands.
LEMMA OrphanStep == ASSUME OrphanInv, [SyncNext]_syncVars PROVE OrphanInv'
<1> USE DEF OrphanInv, NoOrphan
<1>0. UNCHANGED vars => Ids' = Ids
  BY DEF vars, Ids
<1>1. ASSUME NEW p \in Patterns, NEW q \in QoS, HandleSubscribe(p, q) PROVE OrphanInv'
  <2>1. Ids' = Ids \cup {nextId}
    BY <1>1 DEF HandleSubscribe, AddSubscription, Ids
  <2> QED BY <1>1, <2>1 DEF HandleSubscribe, Idle, ownerVars
<1>2. ASSUME NEW id \in inHand, RequestSubscribe(id) PROVE OrphanInv'
  BY <1>0, <1>2 DEF RequestSubscribe, ownerVars
<1>3. ASSUME NEW id \in inHand, RequestSubscribeFails(id) PROVE OrphanInv'
  BY <1>3, IdsAfter DEF RequestSubscribeFails, ownerVars
<1>4. ASSUME NEW id \in inHand, ReplySubscribed(id) PROVE OrphanInv'
  BY <1>0, <1>4 DEF ReplySubscribed
<1>5. ASSUME NEW id \in inHand, ReplyGone(id) PROVE OrphanInv'
  BY <1>5, IdsAfter, DropFacts DEF ReplyGone
<1>6. ASSUME NEW id \in leaving, HandleUnsubscribe(id) PROVE OrphanInv'
  <2>1. Ids' \subseteq Ids \ {id}
    BY <1>0, <1>6, IdsAfter DEF HandleUnsubscribe
  <2> QED BY <1>6, <2>1 DEF HandleUnsubscribe, actorVars
<1>7. ASSUME NEW id, HandleSendClosed(id) PROVE OrphanInv'
  BY <1>7, IdsAfter DEF HandleSendClosed, actorVars, ownerVars
<1>8. ASSUME NEW failed, HandleResubscribeAll(failed) PROVE OrphanInv'
  BY <1>0, <1>8 DEF HandleResubscribeAll, actorVars, ownerVars
<1>9. ASSUME NEW failed, CleanUp(failed) PROVE OrphanInv'
  BY <1>9, IdsAfter DEF CleanUp, ownerVars
<1>10. ASSUME NEW id \in owned, Leave(id) PROVE OrphanInv'
  BY <1>0, <1>10, DropFacts DEF Leave, actorVars
<1>11. ASSUME NEW granted, Answer(granted) PROVE OrphanInv'
  BY <1>0, <1>11 DEF Answer, actorVars, ownerVars
<1>12. CASE LoseSession \/ UNCHANGED syncVars
  BY <1>0, <1>12 DEF LoseSession, actorVars, ownerVars, syncVars
<1> QED
  BY <1>1, <1>2, <1>3, <1>4, <1>5, <1>6, <1>7, <1>8, <1>9, <1>10, <1>11, <1>12
     DEF SyncNext

\* Every subscription in the router has somebody who will remove it, for any
\* size of the unsubscribe channel.
THEOREM NoOrphanHolds == SyncSpec => []NoOrphan
<1>1. SyncInit => OrphanInv
  BY DEF SyncInit, Init, OrphanInv, NoOrphan, Ids
<1>2. OrphanInv => NoOrphan
  BY DEF OrphanInv
<1> QED
  BY <1>1, <1>2, OrphanStep, PTL DEF SyncSpec

-----------------------------------------------------------------------------
(* The queue of requests *)

Request == [op : {"subscribe"}, pattern : Patterns, qos : QoS]
           \cup [op : {"unsubscribe"}, pattern : Patterns]

\* What a request leaves of its pattern.
Outcome(r) == IF r.op = "subscribe" THEN {r.qos} ELSE {}

About(q, p) == {i \in 1..Len(q) : q[i].pattern = p}

\* Settled, of any queue and broker.
SettledIn(q, b, p) ==
    IF About(q, p) = {} THEN IF p \in DOMAIN b THEN {b[p]} ELSE {}
    ELSE Outcome(q[CHOOSE i \in About(q, p) : \A j \in About(q, p) : j <= i])

\* Settled is about the current queue and broker.
LEMMA SettledNow ==
    ASSUME NEW p
    PROVE  Settled(p) = SettledIn(requests, broker, p) /\ Queued(p) = About(requests, p)
  BY DEF Settled, SettledIn, Queued, About, Outcome, None

\* A set of positions has a last one.
LEMMA LastPosition ==
    ASSUME NEW n \in Nat, NEW A, A \subseteq 1..n, A # {}
    PROVE  \E i \in A : \A j \in A : j <= i
<1> DEFINE U == {k \in Nat : \A j \in A : j <= k}
<1>1. n \in U
  OBVIOUS
<1>2. PICK k \in U : \A l \in U : k <= l
  <2>1. U \subseteq Nat /\ U # {}
    BY <1>1
  <2> HIDE DEF U
  <2> QED BY <2>1, LeastNumber
<1>3. k \in A
  <2> SUFFICES ASSUME k \notin A PROVE FALSE
    OBVIOUS
  <2>0. k \in Nat /\ \A j \in A : j <= k
    BY <1>2
  <2>1. \A j \in A : j \in Nat \ {0} /\ j # k
    OBVIOUS
  <2>2. \A j \in A : j <= k - 1
    BY <2>0, <2>1
  <2>3. k - 1 \in Nat
    <3>1. PICK j \in A : TRUE
      OBVIOUS
    <3> QED BY <2>0, <2>1, <3>1
  <2>4. k - 1 \in U
    BY <2>2, <2>3
  <2>5. k <= k - 1
    <3> HIDE DEF U
    <3> QED BY <1>2, <2>4
  <2> QED BY <2>0, <2>5
<1> QED
  BY <1>2, <1>3

\* The last request about a pattern decides.
LEMMA LastDecides ==
    ASSUME NEW q \in Seq(Request), NEW b, NEW p, NEW i \in About(q, p),
           \A j \in About(q, p) : j <= i
    PROVE  SettledIn(q, b, p) = Outcome(q[i])
<1>1. \A k \in About(q, p) : (\A j \in About(q, p) : j <= k) => k = i
  BY DEF About
<1>2. (CHOOSE k \in About(q, p) : \A j \in About(q, p) : j <= k) = i
  BY <1>1
<1> QED
  BY <1>2 DEF SettledIn

\* r begins with q.
Longer(r, q) == Len(q) <= Len(r) /\ \A i \in 1..Len(q) : r[i] = q[i]

\* A longer queue whose new requests are not about p decides as before.
LEMMA OthersDecide ==
    ASSUME NEW q \in Seq(Request), NEW r \in Seq(Request), NEW b, NEW p,
           Longer(r, q), \A i \in Len(q) + 1..Len(r) : r[i].pattern # p
    PROVE  SettledIn(r, b, p) = SettledIn(q, b, p)
<1>0. Len(q) \in Nat /\ Len(r) \in Nat
  OBVIOUS
<1>1. About(r, p) = About(q, p)
  BY <1>0 DEF About, Longer
<1>2. CASE About(q, p) = {}
  BY <1>1, <1>2 DEF SettledIn
<1>3. CASE About(q, p) # {}
  <2>1. About(q, p) \subseteq 1..Len(q)
    BY DEF About
  <2>2. PICK i \in About(q, p) : \A j \in About(q, p) : j <= i
    BY <1>0, <1>3, <2>1, LastPosition
  <2>3. SettledIn(q, b, p) = Outcome(q[i]) /\ SettledIn(r, b, p) = Outcome(r[i])
    BY <1>1, <2>2, LastDecides
  <2> QED BY <2>1, <2>2, <2>3 DEF Longer
<1> QED
  BY <1>2, <1>3

\* The last request about a pattern decides, by its position.
LEMMA LastOneDecides ==
    ASSUME NEW r \in Seq(Request), NEW b, NEW p, NEW k \in 1..Len(r), r[k].pattern = p,
           \A i \in k + 1..Len(r) : r[i].pattern # p
    PROVE  SettledIn(r, b, p) = Outcome(r[k])
<1>1. Len(r) \in Nat
  OBVIOUS
<1>2. k \in About(r, p) /\ \A j \in About(r, p) : j <= k
  BY <1>1 DEF About
<1> QED
  BY <1>2, LastDecides

\* One more request.
LEMMA OneMoreRequest ==
    ASSUME NEW q \in Seq(Request), NEW r \in Request, NEW b, NEW p
    PROVE  /\ Append(q, r) \in Seq(Request)
           /\ r.pattern = p => SettledIn(Append(q, r), b, p) = Outcome(r)
           /\ r.pattern # p => SettledIn(Append(q, r), b, p) = SettledIn(q, b, p)
<1> DEFINE s == Append(q, r)
<1>1. /\ s \in Seq(Request) /\ Len(s) = Len(q) + 1 /\ s[Len(q) + 1] = r
      /\ \A i \in 1..Len(q) : s[i] = q[i]
  BY OneMore
<1> HIDE DEF s
<1>2. Len(q) \in Nat /\ Len(q) + 1 \in Len(q) + 1..Len(s)
      /\ \A i \in Len(q) + 1..Len(s) : i = Len(q) + 1
  BY <1>1
<1>3. r.pattern # p => SettledIn(s, b, p) = SettledIn(q, b, p)
  <2>1. s \in Seq(Request) /\ Longer(s, q)
    BY <1>1, <1>2 DEF Longer
  <2>2. ASSUME r.pattern # p PROVE \A i \in Len(q) + 1..Len(s) : s[i].pattern # p
    BY <1>1, <1>2, <2>2
  <2> QED BY <2>1, <2>2, OthersDecide, SMT
<1>4. ASSUME r.pattern = p PROVE SettledIn(s, b, p) = Outcome(r)
  <2>2. Len(s) = Len(q) + 1 /\ Len(s) \in 1..Len(s) /\ s[Len(s)] = r
        /\ \A i \in Len(s) + 1..Len(s) : s[i].pattern # p
    BY <1>1, <1>2
  <2>1. s \in Seq(Request)
    BY <1>1
  <2>3. Len(s) \in 1..Len(s) /\ s[Len(s)].pattern = p
        /\ \A i \in Len(s) + 1..Len(s) : s[i].pattern # p
    BY <1>4, <2>2
  <2>4. SettledIn(s, b, p) = Outcome(s[Len(s)])
    BY <2>1, <2>3, LastOneDecides, ZenonT(40)
  <2> QED BY <2>2, <2>4
<1> QED
  BY <1>1, <1>3, <1>4 DEF s

\* The oldest request is gone: what comes after it decides as before, and
\* where nothing does, it did.
LEMMA OldestGone ==
    ASSUME NEW q \in Seq(Request), q # <<>>, NEW b, NEW p
    PROVE  /\ Tail(q) \in Seq(Request) /\ Head(q) \in Request /\ Head(q) = q[1]
           /\ About(q, p) \subseteq {1} => About(Tail(q), p) = {}
           /\ ~(About(q, p) \subseteq {1}) =>
                \A c : SettledIn(Tail(q), c, p) = SettledIn(q, b, p)
           /\ About(q, p) = {1} => SettledIn(q, b, p) = Outcome(q[1])
<1> DEFINE t == Tail(q)
<1>1. /\ t \in Seq(Request) /\ Head(q) \in Request /\ Head(q) = q[1]
      /\ Len(t) = Len(q) - 1 /\ Len(q) \in Nat \ {0}
      /\ \A i \in 1..Len(t) : t[i] = q[i + 1]
  OBVIOUS
<1> HIDE DEF t
<1>2. \A i \in Nat \ {0} : i \in About(t, p) <=> i + 1 \in About(q, p)
  BY <1>1 DEF About
<1>3. About(t, p) \subseteq Nat \ {0} /\ About(q, p) \subseteq Nat \ {0}
  BY <1>1 DEF About
<1>4. About(q, p) \subseteq {1} => About(t, p) = {}
  BY <1>2, <1>3, SMTT(30)
<1>5. ASSUME ~(About(q, p) \subseteq {1}), NEW c
      PROVE  SettledIn(t, c, p) = SettledIn(q, b, p)
  <2>1. PICK i \in About(q, p) : \A j \in About(q, p) : j <= i
    <3>1. About(q, p) \subseteq 1..Len(q)
      BY DEF About
    <3>2. About(q, p) # {}
      BY <1>5
    <3> QED BY <1>1, <3>1, <3>2, LastPosition
  <2>2. i \in 2..Len(q)
    BY <1>3, <1>5, <2>1 DEF About
  <2>3. i - 1 \in About(t, p) /\ \A j \in About(t, p) : j <= i - 1
    <3>1. i - 1 \in Nat \ {0} /\ (i - 1) + 1 = i
      BY <2>2
    <3>2. i - 1 \in About(t, p)
      BY <1>2, <2>1, <3>1
    <3>3. ASSUME NEW j \in About(t, p) PROVE j <= i - 1
      <4>1. j \in Nat /\ j + 1 \in About(q, p)
        BY <1>2, <1>3
      <4>2. j + 1 <= i
        BY <2>1, <4>1
      <4> QED BY <2>2, <4>1, <4>2
    <3> QED BY <3>2, <3>3
  <2>4. t[i - 1] = q[i]
    BY <1>1, <2>2
  <2>5. SettledIn(q, b, p) = Outcome(q[i]) /\ SettledIn(t, c, p) = Outcome(t[i - 1])
    BY <1>1, <2>1, <2>3, LastDecides
  <2> QED BY <2>4, <2>5
<1>6. ASSUME About(q, p) = {1} PROVE SettledIn(q, b, p) = Outcome(q[1])
  BY <1>6, LastDecides
<1> QED
  BY <1>1, <1>4, <1>5, <1>6 DEF t

\* A set listed.
LEMMA Listed ==
    ASSUME NEW D, IsFiniteSet(D)
    PROVE  /\ SetToSeq(D) \in Seq(D) /\ Len(SetToSeq(D)) \in Nat
           /\ \A i, j \in 1..Len(SetToSeq(D)) : SetToSeq(D)[i] = SetToSeq(D)[j] => i = j
           /\ \A d \in D : \E i \in 1..Len(SetToSeq(D)) : SetToSeq(D)[i] = d
           /\ Range(SetToSeq(D)) = D
<1> DEFINE n == Cardinality(D)
           s == SetToSeq(D)
<1>1. n \in Nat /\ ExistsBijection(1..n, D)
  BY FS_CardinalityType
<1>2. \E f \in [1..n -> D] : IsInjective(f)
  BY <1>1 DEF ExistsBijection, Bijection, Injection
<1>3. s \in [1..n -> D] /\ IsInjective(s)
  BY <1>2, Zenon DEF SetToSeq
<1>4. s \in Surjection(1..n, D)
  <2> HIDE DEF n, s
  <2>1. s \in Injection(1..n, D)
    BY <1>3 DEF Injection
  <2>2. Cardinality(1..n) = n
    BY <1>1, FS_Interval
  <2> QED BY <2>1, <2>2, FS_Injection DEF n
<1>5. s \in Seq(D) /\ Len(s) = n /\ DOMAIN s = 1..n
  <2> HIDE DEF n, s
  <2> QED BY <1>1, <1>3
<1>6. \A i, j \in 1..n : s[i] = s[j] => i = j
  <2> HIDE DEF n, s
  <2> QED BY <1>3 DEF IsInjective
<1>7. \A d \in D : \E i \in 1..n : s[i] = d
  <2> HIDE DEF n, s
  <2> QED BY <1>4 DEF Surjection
<1>8. Range(s) = D
  <2> HIDE DEF n, s
  <2> QED BY <1>3, <1>5, <1>7 DEF Range
<1> QED
  <2> HIDE DEF n, s
  <2> QED BY <1>5, <1>6, <1>7, <1>8 DEF s

\* A list mapped element by element.
LEMMA Mapped ==
    ASSUME NEW S, NEW D, NEW s \in Seq(D), NEW f \in [D -> S],
           NEW e, e = [i \in 1..Len(s) |-> f[s[i]]]
    PROVE  e \in Seq(S) /\ Len(e) = Len(s) /\ \A i \in 1..Len(s) : e[i] = f[s[i]]
<1>1. Len(s) \in Nat /\ \A i \in 1..Len(s) : s[i] \in D
  OBVIOUS
<1>2. e \in [1..Len(s) -> S]
  BY <1>1
<1>3. \A i \in 1..Len(s) : e[i] = f[s[i]]
  OBVIOUS
<1>4. e \in Seq(S) /\ Len(e) = Len(s)
  <2> DEFINE n == Len(s)
  <2>1. n \in Nat /\ e \in [1..n -> S]
    BY <1>1, <1>2
  <2> HIDE DEF n
  <2>2. e \in Seq(S) /\ Len(e) = n
    BY <2>1
  <2> QED BY <2>2 DEF n
<1> QED
  BY <1>3, <1>4

\* One queue after another.
LEMMA Joined ==
    ASSUME NEW S, NEW q \in Seq(S), NEW e \in Seq(S)
    PROVE  /\ q \o e \in Seq(S) /\ Len(q \o e) = Len(q) + Len(e)
           /\ \A i \in 1..Len(q) : (q \o e)[i] = q[i]
           /\ \A i \in Len(q) + 1..Len(q) + Len(e) : (q \o e)[i] = e[i - Len(q)]
  BY ConcatProperties

\* s lists D, and r is q followed by the requests that f makes of it.
Lists(s, D) ==
    /\ \A i, j \in 1..Len(s) : s[i] = s[j] => i = j
    /\ \A d \in D : \E i \in 1..Len(s) : s[i] = d

Continues(r, q, s, f) ==
    /\ Len(r) = Len(q) + Len(s)
    /\ \A i \in 1..Len(q) : r[i] = q[i]
    /\ \A i \in Len(q) + 1..Len(q) + Len(s) : r[i] = f[s[i - Len(q)]]

\* f makes a request about each pattern of D.
MakesRequests(f, D) == f \in [D -> Request] /\ \A d \in D : f[d].pattern = d

\* A queue continued by a request for each pattern of a set.
LEMMA ContinuedQueue ==
    ASSUME NEW q \in Seq(Request), NEW r \in Seq(Request), NEW D, NEW s \in Seq(D),
           NEW f, MakesRequests(f, D), Lists(s, D), Continues(r, q, s, f), NEW b, NEW p
    PROVE  /\ p \in D => SettledIn(r, b, p) = Outcome(f[p])
           /\ p \notin D => SettledIn(r, b, p) = SettledIn(q, b, p)
<1>1. Len(q) \in Nat /\ Len(s) \in Nat /\ Len(r) \in Nat
      /\ \A i \in 1..Len(s) : s[i] \in D
  OBVIOUS
<1>0. Len(r) = Len(q) + Len(s) /\ Len(q) <= Len(r) /\ \A i \in 1..Len(q) : r[i] = q[i]
  BY <1>1 DEF Continues
<1>2. ASSUME NEW i \in Len(q) + 1..Len(r)
      PROVE  /\ i - Len(q) \in 1..Len(s) /\ s[i - Len(q)] \in D
             /\ r[i] = f[s[i - Len(q)]] /\ r[i].pattern = s[i - Len(q)]
  <2>1. i - Len(q) \in 1..Len(s) /\ i \in Len(q) + 1..Len(q) + Len(s)
    BY <1>0, <1>1
  <2>2. s[i - Len(q)] \in D /\ r[i] = f[s[i - Len(q)]]
    BY <1>1, <2>1 DEF Continues
  <2> QED BY <2>1, <2>2 DEF MakesRequests
<1>3. ASSUME p \notin D PROVE SettledIn(r, b, p) = SettledIn(q, b, p)
  <2>1. ASSUME NEW i \in Len(q) + 1..Len(r) PROVE r[i].pattern # p
    <3>1. s[i - Len(q)] \in D /\ r[i].pattern = s[i - Len(q)]
      BY <1>2
    <3> QED BY <1>3, <3>1
  <2>2. Longer(r, q)
    BY <1>0 DEF Longer
  <2> QED BY <2>1, <2>2, OthersDecide, SMT
<1>4. ASSUME p \in D PROVE SettledIn(r, b, p) = Outcome(f[p])
  <2>1. PICK k \in 1..Len(s) : s[k] = p
    BY <1>4 DEF Lists
  <2>2. Len(q) + k \in Len(q) + 1..Len(r) /\ (Len(q) + k) - Len(q) = k
    BY <1>0, <1>1
  <2>3. r[Len(q) + k] = f[p] /\ r[Len(q) + k].pattern = p
    BY <1>2, <2>1, <2>2
  <2>4. ASSUME NEW i \in (Len(q) + k) + 1..Len(r) PROVE r[i].pattern # p
    <3>1. i \in Len(q) + 1..Len(r) /\ i - Len(q) # k
      BY <1>1
    <3>2. i - Len(q) \in 1..Len(s) /\ r[i].pattern = s[i - Len(q)]
      BY <1>2, <3>1
    <3> QED BY <2>1, <3>1, <3>2 DEF Lists
  <2>5. SettledIn(r, b, p) = Outcome(r[Len(q) + k])
    <3> DEFINE l == Len(q) + k
    <3>1. l \in 1..Len(r) /\ r[l].pattern = p
      BY <1>1, <2>2, <2>3
    <3>2. \A i \in l + 1..Len(r) : r[i].pattern # p
      BY <2>4
    <3> HIDE DEF l
    <3>3. SettledIn(r, b, p) = Outcome(r[l])
      BY <3>1, <3>2, LastOneDecides, ZenonT(40)
    <3> QED BY <3>3 DEF l
  <2> QED BY <2>3, <2>5
<1> QED
  BY <1>3, <1>4

\* The queue with a request for each pattern of a set.
WithRequests(q, D, f) == q \o [i \in 1..Len(SetToSeq(D)) |-> f[SetToSeq(D)[i]]]

\* The last request about each pattern of the set is its own.
LEMMA ManyRequests ==
    ASSUME NEW q \in Seq(Request), NEW D, IsFiniteSet(D), NEW f, MakesRequests(f, D),
           NEW b, NEW p
    PROVE  /\ WithRequests(q, D, f) \in Seq(Request)
           /\ Len(WithRequests(q, D, f)) = Len(q) + Len(SetToSeq(D))
           /\ p \in D => SettledIn(WithRequests(q, D, f), b, p) = Outcome(f[p])
           /\ p \notin D => SettledIn(WithRequests(q, D, f), b, p) = SettledIn(q, b, p)
<1> DEFINE s == SetToSeq(D)
           e == [i \in 1..Len(s) |-> f[s[i]]]
           r == q \o e
<1>1. /\ s \in Seq(D) /\ Len(s) \in Nat
      /\ \A i, j \in 1..Len(s) : s[i] = s[j] => i = j
      /\ \A d \in D : \E i \in 1..Len(s) : s[i] = d
  BY Listed, Zenon
<1> HIDE DEF s
<1>2. e \in Seq(Request) /\ Len(e) = Len(s) /\ \A i \in 1..Len(s) : e[i] = f[s[i]]
  <2>1. s \in Seq(D) /\ f \in [D -> Request]
    BY <1>1 DEF MakesRequests
  <2>2. e = [i \in 1..Len(s) |-> f[s[i]]]
    OBVIOUS
  <2> HIDE DEF e
  <2> QED BY <2>1, <2>2, Mapped
<1> HIDE DEF e
<1>3. /\ r \in Seq(Request) /\ Len(r) = Len(q) + Len(s)
      /\ \A i \in 1..Len(q) : r[i] = q[i]
      /\ \A i \in Len(q) + 1..Len(q) + Len(s) : r[i] = e[i - Len(q)]
  <2>1. e \in Seq(Request) /\ Len(e) = Len(s)
    BY <1>2
  <2>2. /\ r \in Seq(Request) /\ Len(r) = Len(q) + Len(e)
        /\ \A i \in 1..Len(q) : r[i] = q[i]
        /\ \A i \in Len(q) + 1..Len(q) + Len(e) : r[i] = e[i - Len(q)]
    BY <2>1, Joined, Zenon
  <2> HIDE DEF r
  <2> QED BY <2>1, <2>2
<1> HIDE DEF r
<1>4. \A i \in Len(q) + 1..Len(q) + Len(s) : r[i] = f[s[i - Len(q)]]
  <2> TAKE i \in Len(q) + 1..Len(q) + Len(s)
  <2>1. i - Len(q) \in 1..Len(s)
    BY <1>1
  <2> QED BY <1>2, <1>3, <2>1
<1>5. /\ p \in D => SettledIn(r, b, p) = Outcome(f[p])
      /\ p \notin D => SettledIn(r, b, p) = SettledIn(q, b, p)
  <2>1. s \in Seq(D) /\ r \in Seq(Request)
    BY <1>1, <1>3
  <2>2. Lists(s, D)
    BY <1>1 DEF Lists
  <2>3. Continues(r, q, s, f)
    BY <1>3, <1>4 DEF Continues
  <2> QED BY <2>1, <2>2, <2>3, ContinuedQueue
<1> QED
  BY <1>3, <1>5 DEF WithRequests, r, e, s

-----------------------------------------------------------------------------
(* The level a pattern needs *)

\* The highest level among the subscriptions of S on p, none without one.
LevelOf(subs, S, p) ==
    {q \in QoS : /\ \E id \in S : subs[id].pattern = p /\ subs[id].qos = q
                 /\ \A id \in S : subs[id].pattern = p => q >= subs[id].qos}

\* Levels have a highest one.
LEMMA HighestLevel ==
    ASSUME NEW L, L \subseteq QoS, L # {}
    PROVE  \E q \in L : \A r \in L : q >= r
<1>1. L \subseteq 0..2
  BY QoSAssumption
<1>2. CASE 2 \in L
  BY <1>1, <1>2
<1>3. CASE 2 \notin L /\ 1 \in L
  BY <1>1, <1>3
<1>4. CASE 2 \notin L /\ 1 \notin L
  <2>1. \A r \in L : r = 0
    <3> TAKE r \in L
    <3>1. r \in 0..2 /\ r # 1 /\ r # 2
      BY <1>1, <1>4
    <3> QED BY <3>1
  <2>2. PICK q \in L : TRUE
    OBVIOUS
  <2> QED BY <2>1, <2>2
<1> QED
  BY <1>2, <1>3, <1>4

\* There is one level exactly when there is a subscription.
LEMMA LevelFacts ==
    ASSUME NEW subs, NEW S, \A id \in S : subs[id].qos \in QoS, NEW p
    PROVE  /\ (\A id \in S : subs[id].pattern # p) => LevelOf(subs, S, p) = {}
           /\ \A o \in S : subs[o].pattern = p =>
                \E q \in QoS : /\ LevelOf(subs, S, p) = {q}
                               /\ \A id \in S : subs[id].pattern = p => q >= subs[id].qos
<1>1. (\A id \in S : subs[id].pattern # p) => LevelOf(subs, S, p) = {}
  BY DEF LevelOf
<1>2. ASSUME NEW o \in S, subs[o].pattern = p
      PROVE  \E q \in QoS : /\ LevelOf(subs, S, p) = {q}
                            /\ \A id \in S : subs[id].pattern = p => q >= subs[id].qos
  <2> DEFINE L == {q \in QoS : \E id \in S : subs[id].pattern = p /\ subs[id].qos = q}
  <2>1. L \subseteq QoS /\ subs[o].qos \in L
    BY <1>2
  <2>2. \A id \in S : subs[id].pattern = p => subs[id].qos \in L
    OBVIOUS
  <2>3. \A q \in L : \E id \in S : subs[id].pattern = p /\ subs[id].qos = q
    OBVIOUS
  <2> HIDE DEF L
  <2>4. PICK q \in L : \A r \in L : q >= r
    BY <2>1, HighestLevel
  <2>5. \A id \in S : subs[id].pattern = p => q >= subs[id].qos
    BY <2>2, <2>4
  <2>6. q \in LevelOf(subs, S, p)
    BY <2>1, <2>3, <2>5 DEF LevelOf
  <2>7. \A r \in LevelOf(subs, S, p) : r \in L /\ r >= q
    BY <2>2, <2>3, <2>4 DEF LevelOf
  <2>8. \A r \in LevelOf(subs, S, p) : r = q
    <3> TAKE r \in LevelOf(subs, S, p)
    <3>1. r \in L /\ r >= q /\ q >= r
      BY <2>4, <2>7
    <3>2. r \in 0..2 /\ q \in 0..2
      BY <2>1, <3>1, QoSAssumption
    <3> QED BY <3>1, <3>2
  <2>9. LevelOf(subs, S, p) = {q}
    BY <2>6, <2>8
  <2> QED BY <2>1, <2>5, <2>9
<1> QED
  BY <1>1, <1>2

\* TopicsForResubscribe, of any map of subscriptions.
TopicsOf(subs) ==
    [p \in {subs[id].pattern : id \in DOMAIN subs} |->
        CHOOSE q \in QoS :
            /\ \E id \in DOMAIN subs : subs[id] = [pattern |-> p, qos |-> q]
            /\ \A id \in DOMAIN subs : subs[id].pattern = p => q >= subs[id].qos]

\* It is about the current map, and about the next.
LEMMA TopicsNow == /\ TopicsForResubscribe = TopicsOf(subscriptions)
                   /\ TopicsForResubscribe' = TopicsOf(subscriptions')
  BY DEF TopicsForResubscribe, TopicsOf, Ids

\* What would be asked for a pattern is its level.
LEMMA TopicsLevel ==
    ASSUME NEW subs, \A id \in DOMAIN subs : subs[id] \in [pattern : Patterns, qos : QoS],
           NEW p
    PROVE  /\ p \in DOMAIN TopicsOf(subs) <=> \E id \in DOMAIN subs : subs[id].pattern = p
           /\ p \in DOMAIN TopicsOf(subs) =>
                /\ p \in Patterns /\ TopicsOf(subs)[p] \in QoS
                /\ LevelOf(subs, DOMAIN subs, p) = {TopicsOf(subs)[p]}
                /\ \A id \in DOMAIN subs : subs[id].pattern = p => TopicsOf(subs)[p] >= subs[id].qos
           /\ p \notin DOMAIN TopicsOf(subs) => LevelOf(subs, DOMAIN subs, p) = {}
<1>1. p \in DOMAIN TopicsOf(subs) <=> \E id \in DOMAIN subs : subs[id].pattern = p
  BY DEF TopicsOf
<1>2. \A id \in DOMAIN subs : subs[id].qos \in QoS /\ subs[id].pattern \in Patterns
                              /\ subs[id] = [pattern |-> subs[id].pattern, qos |-> subs[id].qos]
  OBVIOUS
<1>3. ASSUME p \in DOMAIN TopicsOf(subs)
      PROVE  /\ p \in Patterns /\ TopicsOf(subs)[p] \in QoS
             /\ LevelOf(subs, DOMAIN subs, p) = {TopicsOf(subs)[p]}
             /\ \A id \in DOMAIN subs : subs[id].pattern = p => TopicsOf(subs)[p] >= subs[id].qos
  <2> DEFINE Is(q) == /\ \E id \in DOMAIN subs : subs[id] = [pattern |-> p, qos |-> q]
                      /\ \A id \in DOMAIN subs : subs[id].pattern = p => q >= subs[id].qos
  <2>1. PICK q \in QoS : /\ LevelOf(subs, DOMAIN subs, p) = {q}
                         /\ \A id \in DOMAIN subs : subs[id].pattern = p => q >= subs[id].qos
    BY <1>1, <1>2, <1>3, LevelFacts
  <2>2. \E id \in DOMAIN subs : subs[id].pattern = p /\ subs[id].qos = q
    BY <2>1 DEF LevelOf
  <2>3. \E r \in QoS : Is(r)
    BY <1>2, <2>1, <2>2
  <2>4. TopicsOf(subs)[p] = CHOOSE r \in QoS : Is(r)
    BY <1>3 DEF TopicsOf
  <2>5. TopicsOf(subs)[p] \in QoS /\ Is(TopicsOf(subs)[p])
    <3> HIDE DEF Is
    <3> QED BY <2>3, <2>4
  <2>6. TopicsOf(subs)[p] \in LevelOf(subs, DOMAIN subs, p)
    BY <2>5 DEF LevelOf
  <2> QED BY <1>1, <1>2, <1>3, <2>1, <2>5, <2>6
<1>4. p \notin DOMAIN TopicsOf(subs) => LevelOf(subs, DOMAIN subs, p) = {}
  BY <1>1 DEF LevelOf
<1> QED
  BY <1>1, <1>3, <1>4

\* Needed is the level among all subscriptions.
LEMMA NeededIsLevel ==
    ASSUME NEW p
    PROVE  /\ TypeOK => Needed(p) = LevelOf(subscriptions, Ids, p)
           /\ TypeOK' => Needed(p)' = LevelOf(subscriptions', Ids', p)
<1>1. TypeOK => Needed(p) = LevelOf(subscriptions, Ids, p)
  BY TopicsNow, TopicsLevel DEF Needed, None, TypeOK, Ids
<1>2. TypeOK' => Needed(p)' = LevelOf(subscriptions', Ids', p)
  BY TopicsNow, TopicsLevel DEF Needed, None, TypeOK, Ids
<1> QED
  BY <1>1, <1>2

\* A finite number of patterns is asked for.
LEMMA FewTopics == ASSUME TypeOK PROVE IsFiniteSet(DOMAIN TopicsForResubscribe)
<1> DEFINE P == {subscriptions[id].pattern : id \in Ids}
           g == [id \in Ids |-> subscriptions[id].pattern]
<1>1. IsFiniteSet(Ids)
  <2>1. nextId - 1 \in Int /\ Ids \in SUBSET (0..nextId - 1)
    BY MaxIdsAssumption DEF TypeOK
  <2>2. IsFiniteSet(0..nextId - 1)
    BY <2>1, FS_Interval
  <2> QED BY <2>1, <2>2, FS_Subset
<1>2. g \in Surjection(Ids, P)
  BY DEF Surjection
<1>3. IsFiniteSet(P)
  <2> HIDE DEF g, P
  <2> QED BY <1>1, <1>2, FS_Surjection
<1> QED
  BY <1>3 DEF TopicsForResubscribe

-----------------------------------------------------------------------------
(* The invariant of the composition *)

\* The subscriptions that are held or asked for: all but the one whose request
\* is still to come.
Held == Ids \ Unasked

Shape ==
    /\ Inv
    /\ OrphanInv
    /\ inHand \subseteq Ids
    /\ asks => inHand # {}
    /\ requests \in Seq(Request)
    /\ \A p \in DOMAIN broker : broker[p] \in QoS

\* A request is to come only where it raises the level.
Raises ==
    asks => \A id \in inHand : \A o \in Ids \ {id} :
                subscriptions[o].pattern = subscriptions[id].pattern
                => subscriptions[o].qos < subscriptions[id].qos

\* What is settled is what is needed, or nothing while the session is lost.
Exact ==
    \A p \in Patterns \ (refused \cup leftover) :
        \/ Settled(p) = LevelOf(subscriptions, Held, p)
        \/ lost /\ Settled(p) = {}

SyncInv == Shape /\ Raises /\ Covered /\ Exact

\* What Shape says of one subscription.
LEMMA ShapeFacts ==
    ASSUME Shape
    PROVE  /\ \A id \in Ids : /\ subscriptions[id].pattern \in Patterns
                              /\ subscriptions[id].qos \in QoS
           /\ Held \subseteq Ids
           /\ ~asks => Held = Ids
           /\ TypeOK
  BY DEF Shape, Inv, TypeOK, Held, Unasked

\* What is settled is a level.
LEMMA SettledTyped ==
    ASSUME NEW q \in Seq(Request), NEW b, \A d \in DOMAIN b : b[d] \in QoS, NEW p
    PROVE  SettledIn(q, b, p) \subseteq QoS
<1>1. CASE About(q, p) = {}
  BY <1>1 DEF SettledIn
<1>2. CASE About(q, p) # {}
  <2>1. About(q, p) \subseteq 1..Len(q) /\ Len(q) \in Nat
    BY DEF About
  <2>2. PICK i \in About(q, p) : \A j \in About(q, p) : j <= i
    BY <1>2, <2>1, LastPosition
  <2>3. SettledIn(q, b, p) = Outcome(q[i])
    BY <2>2, LastDecides
  <2>4. q[i] \in Request
    BY <2>1, <2>2
  <2> QED BY <2>3, <2>4 DEF Outcome, Request
<1> QED
  BY <1>1, <1>2

\* A subscription has its level, or a higher one, once the queue q is answered.
HasLevel(s, q, b, id) == \E l \in SettledIn(q, b, s[id].pattern) : l >= s[id].qos

\* The two promises, and the settled levels, in this state and in the next.
LEMMA Promises ==
    /\ Covered <=> (~lost => \A id \in Held : \/ subscriptions[id].pattern \in refused
                                              \/ HasLevel(subscriptions, requests, broker, id))
    /\ Exact <=> \A p \in Patterns \ (refused \cup leftover) :
                    \/ SettledIn(requests, broker, p) = LevelOf(subscriptions, Held, p)
                    \/ lost /\ SettledIn(requests, broker, p) = {}
<1>1. \A p : Settled(p) = SettledIn(requests, broker, p)
  BY SettledNow
<1> QED
  BY <1>1 DEF Covered, Exact, Held, HasLevel

LEMMA PromisesNext ==
    /\ Covered' <=> (~lost' => \A id \in Held' : \/ subscriptions'[id].pattern \in refused'
                                                 \/ HasLevel(subscriptions', requests', broker', id))
    /\ Exact' <=> \A p \in Patterns \ (refused' \cup leftover') :
                    \/ SettledIn(requests', broker', p) = LevelOf(subscriptions', Held', p)
                    \/ lost' /\ SettledIn(requests', broker', p) = {}
<1>1. Covered' <=> (~lost' => \A id \in Held' :
                        \/ subscriptions'[id].pattern \in refused'
                        \/ HasLevel(subscriptions', requests', broker', id))
  BY DEF Covered, Held, HasLevel, Settled, SettledIn, Queued, About, Outcome, None
<1>2. Exact' <=> \A p \in Patterns \ (refused' \cup leftover') :
                    \/ SettledIn(requests', broker', p) = LevelOf(subscriptions', Held', p)
                    \/ lost' /\ SettledIn(requests', broker', p) = {}
  BY DEF Exact, LevelOf, Settled, SettledIn, Queued, About, Outcome, None
<1> QED
  BY <1>1, <1>2

\* A step that settles nothing differently, but where it records a refusal, and
\* needs no other level, but where it records what a removal left.
LEMMA SameSettled ==
    ASSUME SyncInv, lost' = lost, refused \subseteq refused', leftover \subseteq leftover',
           \A p \in Patterns \ refused' :
                SettledIn(requests', broker', p) = SettledIn(requests, broker, p),
           \A p \in Patterns \ leftover' :
                LevelOf(subscriptions', Held', p) = LevelOf(subscriptions, Held, p),
           \A id \in Held' : \E o \in Held :
                /\ subscriptions[o].pattern = subscriptions'[id].pattern
                /\ subscriptions'[id].qos \in QoS
                /\ subscriptions[o].qos >= subscriptions'[id].qos
    PROVE  Covered' /\ Exact'
<1>1. Exact'
  <2> SUFFICES ASSUME NEW p \in Patterns \ (refused' \cup leftover')
               PROVE  \/ SettledIn(requests', broker', p) = LevelOf(subscriptions', Held', p)
                      \/ lost' /\ SettledIn(requests', broker', p) = {}
    BY PromisesNext
  <2>1. /\ p \notin refused \cup leftover /\ lost' = lost
        /\ SettledIn(requests', broker', p) = SettledIn(requests, broker, p)
        /\ LevelOf(subscriptions', Held', p) = LevelOf(subscriptions, Held, p)
    OBVIOUS
  <2>2. \/ SettledIn(requests, broker, p) = LevelOf(subscriptions, Held, p)
        \/ lost /\ SettledIn(requests, broker, p) = {}
    BY <2>1, Promises DEF SyncInv
  <2> QED BY <2>1, <2>2
<1>2. Covered'
  <2> SUFFICES ASSUME ~lost', NEW id \in Held', subscriptions'[id].pattern \notin refused'
               PROVE  HasLevel(subscriptions', requests', broker', id)
    BY PromisesNext
  <2>1. PICK o \in Held : /\ subscriptions[o].pattern = subscriptions'[id].pattern
                          /\ subscriptions'[id].qos \in QoS
                          /\ subscriptions[o].qos >= subscriptions'[id].qos
    OBVIOUS
  <2>2. /\ subscriptions[o].pattern \in Patterns \ refused'
        /\ subscriptions[o].pattern \notin refused /\ subscriptions[o].qos \in QoS
    BY <2>1, ShapeFacts DEF SyncInv
  <2>3. PICK q \in SettledIn(requests, broker, subscriptions[o].pattern) : q >= subscriptions[o].qos
    BY <2>2, Promises DEF SyncInv, HasLevel
  <2>4. SettledIn(requests', broker', subscriptions'[id].pattern)
            = SettledIn(requests, broker, subscriptions[o].pattern)
    BY <2>1, <2>2
  <2>5. SettledIn(requests, broker, subscriptions[o].pattern) \subseteq QoS
    BY SettledTyped DEF SyncInv, Shape
  <2>6. q \in 0..2 /\ subscriptions[o].qos \in 0..2 /\ subscriptions'[id].qos \in 0..2
    BY <2>1, <2>2, <2>3, <2>5, QoSAssumption
  <2>7. q >= subscriptions'[id].qos
    BY <2>1, <2>3, <2>6
  <2> QED BY <2>3, <2>4, <2>7 DEF HasLevel
<1> QED
  BY <1>1, <1>2

\* A removal that empties the trie was of the only subscription.
LEMMA OnlyOne ==
    ASSUME Inv, NEW id \in Ids, TopicNowEmpty(id)
    PROVE  Ids = {id}
<1> DEFINE p == subscriptions[id].pattern
<1>1. Vacated(id)
  BY DEF TopicNowEmpty, Pruned
<1> SUFFICES ASSUME NEW o \in Ids, o # id PROVE FALSE
  OBVIOUS
<1> DEFINE r == subscriptions[o].pattern
<1>2. o \in Table(r) /\ r \in DOMAIN tables /\ r \in Patterns
  BY DEF Inv, InStep, Table, TypeOK
<1>3. r # p
  BY <1>1, <1>2 DEF Vacated
<1>4. <<>> \notin Pruned(id)
  BY <1>2, <1>3, PathEnds, OthersSurvive
<1> QED
  BY <1>4 DEF TopicNowEmpty

\* Each step of the composition is a step of the router, or leaves it alone.
LEMMA RouterStep == ASSUME Inv, inHand \subseteq Ids, [SyncNext]_syncVars PROVE [Next]_vars
<1>1. ASSUME NEW p \in Patterns, NEW q \in QoS, HandleSubscribe(p, q) PROVE Next
  BY <1>1 DEF HandleSubscribe, Next
<1>2. ASSUME NEW id \in Ids, Unsubscribe(id) PROVE Next
  BY <1>2 DEF Next
<1>3. ASSUME NEW id \in inHand,
             \/ RequestSubscribe(id) \/ RequestSubscribeFails(id)
             \/ ReplySubscribed(id) \/ ReplyGone(id)
      PROVE  [Next]_vars
  BY <1>2, <1>3 DEF RequestSubscribe, RequestSubscribeFails, ReplySubscribed, ReplyGone
<1>4. ASSUME NEW id \in leaving, HandleUnsubscribe(id) PROVE [Next]_vars
  BY <1>2, <1>4 DEF HandleUnsubscribe
<1>5. ASSUME NEW id \in Ids, HandleSendClosed(id) PROVE [Next]_vars
  BY <1>2, <1>5 DEF HandleSendClosed
<1>6. ASSUME NEW failed, HandleResubscribeAll(failed) \/ CleanUp(failed) PROVE [Next]_vars
  BY <1>6 DEF HandleResubscribeAll, CleanUp, Next
<1>7. ASSUME NEW id, Leave(id) PROVE [Next]_vars
  BY <1>7 DEF Leave
<1>8. ASSUME NEW granted, Answer(granted) PROVE [Next]_vars
  BY <1>8 DEF Answer
<1>9. CASE LoseSession \/ UNCHANGED syncVars
  BY <1>9 DEF LoseSession, syncVars
<1> QED
  BY <1>1, <1>3, <1>4, <1>5, <1>6, <1>7, <1>8, <1>9 DEF SyncNext


-----------------------------------------------------------------------------
(* The steps of the composition *)

\* What handle_resubscribe_all queues.
LEMMA Resubscribed ==
    ASSUME TypeOK, requests \in Seq(Request), NEW failed, HandleResubscribeAll(failed)
    PROVE  /\ requests' \in Seq(Request) /\ Len(requests') <= MaxRequests
           /\ \A p : /\ p \in DOMAIN TopicsForResubscribe \ failed =>
                            SettledIn(requests', broker, p) = {TopicsForResubscribe[p]}
                     /\ p \notin DOMAIN TopicsForResubscribe \ failed =>
                            SettledIn(requests', broker, p) = SettledIn(requests, broker, p)
<1> DEFINE D == DOMAIN TopicsForResubscribe \ failed
           f == [p \in D |-> SubscribeAt(p, TopicsForResubscribe[p])]
<1>1. IsFiniteSet(D)
  BY FewTopics, FS_Subset
<1>2. \A p \in D : p \in Patterns /\ TopicsForResubscribe[p] \in QoS
  BY TopicsNow, TopicsLevel DEF TypeOK, Ids
<1>3. MakesRequests(f, D)
  BY <1>2 DEF MakesRequests, Request, SubscribeAt
<1>4. requests' = WithRequests(requests, D, f)
  <2>1. \A i \in 1..Len(SetToSeq(D)) : SetToSeq(D)[i] \in D
    <3>1. SetToSeq(D) \in Seq(D)
      BY <1>1, Listed
    <3> HIDE DEF D
    <3> QED BY <3>1
  <2> QED BY <2>1 DEF HandleResubscribeAll, WithRequests
<1>5. \A p \in D : Outcome(f[p]) = {TopicsForResubscribe[p]}
  BY DEF Outcome, SubscribeAt
<1> HIDE DEF f, D
<1>6. ASSUME NEW p
      PROVE  /\ requests' \in Seq(Request) /\ Len(requests') = Len(requests) + Len(SetToSeq(D))
             /\ p \in D => SettledIn(requests', broker, p) = Outcome(f[p])
             /\ p \notin D => SettledIn(requests', broker, p) = SettledIn(requests, broker, p)
  BY <1>1, <1>3, <1>4, ManyRequests
<1>7. Room(Len(SetToSeq(D)))
  BY DEF HandleResubscribeAll, D
<1> QED
  BY <1>5, <1>6, <1>7 DEF D, Room

\* What cleanup_active_subscriptions queues.
LEMMA CleanedUp ==
    ASSUME TypeOK, requests \in Seq(Request), NEW failed, CleanUp(failed)
    PROVE  /\ requests' \in Seq(Request) /\ Len(requests') <= MaxRequests
           /\ \A p : /\ p \in DOMAIN TopicsForResubscribe \ failed =>
                            SettledIn(requests', broker, p) = {}
                     /\ p \notin DOMAIN TopicsForResubscribe \ failed =>
                            SettledIn(requests', broker, p) = SettledIn(requests, broker, p)
<1> DEFINE D == DOMAIN TopicsForResubscribe \ failed
           f == [p \in D |-> UnsubscribeFrom(p)]
<1>1. IsFiniteSet(D)
  BY FewTopics, FS_Subset
<1>2. \A p \in D : p \in Patterns
  BY TopicsNow, TopicsLevel DEF TypeOK, Ids
<1>3. MakesRequests(f, D)
  BY <1>2 DEF MakesRequests, Request, UnsubscribeFrom
<1>4. requests' = WithRequests(requests, D, f)
  <2>1. \A i \in 1..Len(SetToSeq(D)) : SetToSeq(D)[i] \in D
    <3>1. SetToSeq(D) \in Seq(D)
      BY <1>1, Listed
    <3> HIDE DEF D
    <3> QED BY <3>1
  <2> QED BY <2>1 DEF CleanUp, WithRequests
<1>5. \A p \in D : Outcome(f[p]) = {}
  BY DEF Outcome, UnsubscribeFrom
<1> HIDE DEF f, D
<1>6. ASSUME NEW p
      PROVE  /\ requests' \in Seq(Request) /\ Len(requests') = Len(requests) + Len(SetToSeq(D))
             /\ p \in D => SettledIn(requests', broker, p) = Outcome(f[p])
             /\ p \notin D => SettledIn(requests', broker, p) = SettledIn(requests, broker, p)
  BY <1>1, <1>3, <1>4, ManyRequests
<1>7. Room(Len(SetToSeq(D)))
  BY DEF CleanUp, D
<1> QED
  BY <1>5, <1>6, <1>7 DEF D, Room

\* The requests and the levels keep their types.
LEMMA ShapeStep == ASSUME Shape, [SyncNext]_syncVars PROVE Shape'
<1> USE DEF Shape
<1>1. Inv' /\ OrphanInv' /\ TypeOK
  BY RouterStep, InvStep, OrphanStep DEF Inv
<1>0. UNCHANGED vars => Ids' = Ids
  BY DEF vars, Ids
<1>2. ASSUME NEW p \in Patterns, NEW q \in QoS, HandleSubscribe(p, q) PROVE Shape'
  <2>1. Ids' = Ids \cup {nextId}
    BY <1>2 DEF HandleSubscribe, AddSubscription, Ids
  <2> QED BY <1>1, <1>2, <2>1 DEF HandleSubscribe
<1>3. ASSUME NEW id \in inHand, RequestSubscribe(id) PROVE Shape'
  <2>1. subscriptions[id].pattern \in Patterns /\ subscriptions[id].qos \in QoS
    BY ShapeFacts
  <2>2. SubscribeAt(subscriptions[id].pattern, subscriptions[id].qos) \in Request
    BY <2>1 DEF SubscribeAt, Request
  <2>3. requests' \in Seq(Request)
    BY <1>3, <2>2 DEF RequestSubscribe
  <2> QED BY <1>0, <1>1, <1>3, <2>3 DEF RequestSubscribe
<1>4. ASSUME NEW id \in inHand, RequestSubscribeFails(id) \/ ReplySubscribed(id) PROVE Shape'
  BY <1>1, <1>4 DEF RequestSubscribeFails, ReplySubscribed
<1>5. ASSUME NEW id \in Ids, Release(id) PROVE requests' \in Seq(Request)
  <2>1. UnsubscribeFrom(subscriptions[id].pattern) \in Request
    BY ShapeFacts DEF UnsubscribeFrom, Request
  <2> QED BY <1>5, <2>1 DEF Release
<1>6. ASSUME NEW id \in inHand, ReplyGone(id) PROVE Shape'
  BY <1>1, <1>5, <1>6 DEF ReplyGone
<1>7. ASSUME NEW id \in leaving, HandleUnsubscribe(id) PROVE Shape'
  BY <1>1, <1>5, <1>7 DEF HandleUnsubscribe, Idle, actorVars
<1>8. ASSUME NEW id \in Ids, HandleSendClosed(id) PROVE Shape'
  BY <1>1, <1>5, <1>8 DEF HandleSendClosed, Idle, actorVars
<1>9. ASSUME NEW failed, HandleResubscribeAll(failed) PROVE Shape'
  <2>1. requests' \in Seq(Request)
    BY <1>1, <1>9, Resubscribed
  <2> QED BY <1>1, <1>9, <2>1 DEF HandleResubscribeAll, Idle, actorVars
<1>10. ASSUME NEW failed, CleanUp(failed) PROVE Shape'
  <2>1. requests' \in Seq(Request)
    BY <1>1, <1>10, CleanedUp
  <2> QED BY <1>1, <1>10, <2>1 DEF CleanUp, Idle
<1>11. ASSUME NEW id, Leave(id) PROVE Shape'
  BY <1>0, <1>1, <1>11 DEF Leave, actorVars
<1>12. ASSUME NEW granted, Answer(granted) PROVE Shape'
  <2>1. requests' \in Seq(Request) /\ Head(requests) \in Request
    BY <1>12, OldestGone DEF Answer
  <2> DEFINE r == Head(requests)
             others == DOMAIN broker \ {r.pattern}
  <2>2. \/ broker' = [p \in others |-> broker[p]]
        \/ /\ r.op = "subscribe"
           /\ broker' = [p \in others \cup {r.pattern} |->
                            IF p = r.pattern THEN r.qos ELSE broker[p]]
        \/ broker' = broker
    BY <1>12 DEF Answer, Restrict
  <2>3. r.op = "subscribe" => r.qos \in QoS
    BY <2>1 DEF Request
  <2>4. \A p \in others : broker[p] \in QoS
    OBVIOUS
  <2> HIDE DEF r, others
  <2>5. \A p \in DOMAIN broker' : broker'[p] \in QoS
    BY <2>2, <2>3, <2>4
  <2> QED BY <1>0, <1>1, <1>12, <2>1, <2>5 DEF Answer, actorVars
<1>13. CASE LoseSession \/ UNCHANGED syncVars
  BY <1>0, <1>1, <1>13 DEF LoseSession, actorVars, syncVars
<1> QED
  BY <1>2, <1>3, <1>4, <1>6, <1>7, <1>8, <1>9, <1>10, <1>11, <1>12, <1>13 DEF SyncNext

\* Only the start of a handler makes a request to come, and only handlers and
\* the idle actor change the router.
LEMMA RaisesStep == ASSUME Shape, Raises, [SyncNext]_syncVars PROVE Raises'
<1> USE DEF Raises
<1>1. ASSUME NEW p \in Patterns, NEW q \in QoS, HandleSubscribe(p, q) PROVE Raises'
  <2>1. /\ Ids' = Ids \cup {nextId} /\ nextId \notin Ids
        /\ subscriptions'[nextId] = [pattern |-> p, qos |-> q]
        /\ \A o \in Ids : subscriptions'[o] = subscriptions[o]
    BY <1>1 DEF HandleSubscribe, AddSubscription, Ids, Shape, Inv, TypeOK
  <2>2. inHand' = {nextId} /\ asks' = NeedsSubscribe(p, q)
    BY <1>1 DEF HandleSubscribe
  <2>3. \A o \in Ids : subscriptions[o].pattern = p => o \in Table(p)
    BY DEF Shape, Inv, InStep
  <2>4. asks' => \A o \in Ids : subscriptions[o].pattern = p => q > subscriptions[o].qos
    BY <2>2, <2>3 DEF NeedsSubscribe
  <2>5. \A o \in Ids : subscriptions[o].qos \in 0..2 /\ q \in 0..2
    BY ShapeFacts, QoSAssumption
  <2> QED BY <2>1, <2>2, <2>4, <2>5
<1>2. ASSUME NEW id \in inHand,
             RequestSubscribe(id) \/ RequestSubscribeFails(id)
             \/ ReplySubscribed(id) \/ ReplyGone(id)
      PROVE  Raises'
  BY <1>2 DEF RequestSubscribe, RequestSubscribeFails, ReplySubscribed, ReplyGone
<1>3. ASSUME NEW id, HandleUnsubscribe(id) \/ HandleSendClosed(id) PROVE Raises'
  BY <1>3 DEF HandleUnsubscribe, HandleSendClosed, Idle, actorVars
<1>4. ASSUME NEW failed, HandleResubscribeAll(failed) \/ CleanUp(failed) PROVE Raises'
  BY <1>4 DEF HandleResubscribeAll, CleanUp, Idle, actorVars
<1>5. ASSUME NEW id, Leave(id) PROVE Raises'
  BY <1>5 DEF Leave, vars, actorVars, Ids
<1>6. ASSUME NEW granted, Answer(granted) PROVE Raises'
  BY <1>6 DEF Answer, vars, actorVars, Ids
<1>7. CASE LoseSession \/ UNCHANGED syncVars
  BY <1>7 DEF LoseSession, syncVars, vars, actorVars, Ids
<1> QED
  BY <1>1, <1>2, <1>3, <1>4, <1>5, <1>6, <1>7 DEF SyncNext


\* The promises in the next state, from what becomes of one pattern and of one
\* subscription.
Promised == Covered' /\ Exact'

\* An addition that asks for nothing needs no other level.
LEMMA SubscribePromised ==
    ASSUME SyncInv, NEW p \in Patterns, NEW q \in QoS, HandleSubscribe(p, q)
    PROVE  Promised
<1>1. /\ Ids' = Ids \cup {nextId} /\ nextId \notin Ids
      /\ subscriptions'[nextId].pattern = p /\ subscriptions'[nextId].qos = q
      /\ \A o \in Ids : subscriptions'[o] = subscriptions[o]
  BY DEF HandleSubscribe, AddSubscription, Ids, SyncInv, Shape, Inv, TypeOK
<1>2. /\ Held = Ids /\ inHand' = {nextId} /\ asks' = NeedsSubscribe(p, q)
      /\ UNCHANGED <<requests, broker, lost, refused, leftover>>
  BY DEF HandleSubscribe, Idle, SyncInv, Shape, Held, Unasked
<1>3. \A o \in Ids : subscriptions[o].qos \in QoS
  BY ShapeFacts DEF SyncInv
<1>4. CASE asks'
  <2>1. Held' = Ids
    BY <1>1, <1>2, <1>4 DEF Held, Unasked
  <2>2. \A r \in Patterns : LevelOf(subscriptions', Held', r) = LevelOf(subscriptions, Held, r)
    BY <1>1, <1>2, <2>1 DEF LevelOf
  <2>3. \A id \in Held' : /\ id \in Held
                          /\ subscriptions[id].pattern = subscriptions'[id].pattern
                          /\ subscriptions'[id].qos \in QoS
                          /\ subscriptions[id].qos >= subscriptions'[id].qos
    <3> TAKE id \in Held'
    <3>1. id \in Ids /\ subscriptions'[id] = subscriptions[id] /\ subscriptions[id].qos \in 0..2
      BY <1>1, <1>3, <2>1, QoSAssumption
    <3> QED BY <1>2, <1>3, <3>1
  <2> QED BY <1>2, <2>2, <2>3, SameSettled DEF Promised
<1>5. CASE ~asks'
  <2>1. Held' = Ids \cup {nextId}
    BY <1>1, <1>5 DEF Held, Unasked
  <2>2. PICK o \in Table(p) : ~(q > subscriptions[o].qos)
    BY <1>2, <1>5 DEF NeedsSubscribe
  <2>3. o \in Ids /\ subscriptions[o].pattern = p
    BY <2>2 DEF SyncInv, Shape, Inv, InStep, Table
  <2>4. q \in 0..2 /\ subscriptions[o].qos \in 0..2 /\ subscriptions[o].qos >= q
    <3>1. q \in 0..2 /\ subscriptions[o].qos \in 0..2
      BY <1>3, <2>3, QoSAssumption
    <3> QED BY <2>2, <3>1
  <2>5. ASSUME NEW r \in Patterns
        PROVE  LevelOf(subscriptions', Held', r) = LevelOf(subscriptions, Held, r)
    <3>1. ASSUME NEW l \in LevelOf(subscriptions, Held, r)
          PROVE  l \in LevelOf(subscriptions', Held', r)
      <4>1. /\ l \in QoS /\ l \in 0..2
            /\ \E id \in Ids : subscriptions[id].pattern = r /\ subscriptions[id].qos = l
            /\ \A id \in Ids : subscriptions[id].pattern = r => l >= subscriptions[id].qos
        BY <1>2, <3>1, QoSAssumption DEF LevelOf
      <4>2. p = r => l >= q
        BY <2>3, <2>4, <4>1
      <4> QED BY <1>1, <2>1, <4>1, <4>2 DEF LevelOf
    <3>2. ASSUME NEW l \in LevelOf(subscriptions', Held', r)
          PROVE  l \in LevelOf(subscriptions, Held, r)
      <4>1. /\ l \in QoS /\ l \in 0..2
            /\ \E id \in Ids \cup {nextId} : subscriptions'[id].pattern = r /\ subscriptions'[id].qos = l
            /\ \A id \in Ids \cup {nextId} : subscriptions'[id].pattern = r => l >= subscriptions'[id].qos
        BY <2>1, <3>2, QoSAssumption DEF LevelOf
      <4>2. \A id \in Ids : subscriptions[id].pattern = r => l >= subscriptions[id].qos
        BY <1>1, <4>1
      <4>3. p = r /\ l = q => subscriptions[o].pattern = r /\ subscriptions[o].qos = l
        BY <2>3, <2>4, <4>2
      <4>4. \E id \in Ids : subscriptions[id].pattern = r /\ subscriptions[id].qos = l
        BY <1>1, <2>3, <4>1, <4>3
      <4> QED BY <1>2, <4>1, <4>2, <4>4 DEF LevelOf
    <3> QED BY <3>1, <3>2
  <2>6. ASSUME NEW id \in Held'
        PROVE  \E h \in Held : /\ subscriptions[h].pattern = subscriptions'[id].pattern
                               /\ subscriptions'[id].qos \in QoS
                               /\ subscriptions[h].qos >= subscriptions'[id].qos
    <3>1. CASE id = nextId
      BY <1>1, <1>2, <2>3, <2>4, <3>1
    <3>2. CASE id # nextId
      <4>1. id \in Ids /\ subscriptions'[id] = subscriptions[id] /\ subscriptions[id].qos \in 0..2
        BY <1>1, <1>3, <2>1, <3>2, QoSAssumption
      <4> QED BY <1>2, <1>3, <4>1
    <3> QED BY <3>1, <3>2
  <2> QED BY <1>2, <2>5, <2>6, SameSettled DEF Promised
<1> QED
  BY <1>4, <1>5

\* The request that is queued makes the level of its pattern what it needs to be.
LEMMA RequestPromised ==
    ASSUME SyncInv, NEW id \in inHand, RequestSubscribe(id)
    PROVE  Promised
<1> DEFINE s == subscriptions[id]
           r == SubscribeAt(s.pattern, s.qos)
<1>1. /\ asks /\ asks' = FALSE /\ subscriptions' = subscriptions /\ Ids' = Ids
      /\ requests' = Append(requests, r)
      /\ refused' = refused \ {s.pattern} /\ leftover' = leftover \ {s.pattern}
      /\ broker' = broker /\ lost' = lost
  BY DEF RequestSubscribe, vars, Ids
<1>2. id \in Ids /\ Held = Ids \ {id} /\ Held' = Ids /\ requests \in Seq(Request)
  BY <1>1 DEF SyncInv, Shape, OrphanInv, Held, Unasked
<1>3. s.pattern \in Patterns /\ s.qos \in QoS /\ \A o \in Ids : subscriptions[o].qos \in QoS
  BY <1>2, ShapeFacts DEF SyncInv
<1>4. /\ r \in Request /\ r.pattern = s.pattern /\ Outcome(r) = {s.qos}
  BY <1>3 DEF SubscribeAt, Request, Outcome
<1>5. \A o \in Ids : subscriptions[o].pattern = s.pattern => s.qos >= subscriptions[o].qos
  <2> TAKE o \in Ids
  <2>1. s.qos \in 0..2 /\ subscriptions[o].qos \in 0..2
    BY <1>3, QoSAssumption
  <2>2. o # id /\ subscriptions[o].pattern = s.pattern => subscriptions[o].qos < s.qos
    BY <1>1, <1>2 DEF SyncInv, Raises
  <2> QED BY <2>1, <2>2
<1>6. LevelOf(subscriptions, Ids, s.pattern) = {s.qos}
  <2>1. PICK q \in QoS : /\ LevelOf(subscriptions, Ids, s.pattern) = {q}
                         /\ \A o \in Ids : subscriptions[o].pattern = s.pattern => q >= subscriptions[o].qos
    BY <1>2, <1>3, LevelFacts
  <2>2. s.qos \in LevelOf(subscriptions, Ids, s.pattern)
    BY <1>2, <1>3, <1>5 DEF LevelOf
  <2> QED BY <2>1, <2>2
<1>7. \A p : p # s.pattern => LevelOf(subscriptions, Ids, p) = LevelOf(subscriptions, Held, p)
  BY <1>2 DEF LevelOf
<1> HIDE DEF r
<1>8. /\ SettledIn(requests', broker', s.pattern) = {s.qos}
      /\ \A p : p # s.pattern => SettledIn(requests', broker', p) = SettledIn(requests, broker, p)
  BY <1>1, <1>2, <1>4, OneMoreRequest
<1>9. Exact'
  <2> SUFFICES ASSUME NEW p \in Patterns \ (refused' \cup leftover')
               PROVE  \/ SettledIn(requests', broker', p) = LevelOf(subscriptions', Held', p)
                      \/ lost' /\ SettledIn(requests', broker', p) = {}
    BY PromisesNext
  <2>1. CASE p = s.pattern
    BY <1>1, <1>2, <1>6, <1>8, <2>1
  <2>2. CASE p # s.pattern
    <3>1. \/ SettledIn(requests, broker, p) = LevelOf(subscriptions, Held, p)
          \/ lost /\ SettledIn(requests, broker, p) = {}
      BY <1>1, <2>2, Promises DEF SyncInv
    <3> QED BY <1>1, <1>2, <1>7, <1>8, <2>2, <3>1
  <2> QED BY <2>1, <2>2
<1>10. Covered'
  <2> SUFFICES ASSUME ~lost', NEW o \in Held', subscriptions'[o].pattern \notin refused'
               PROVE  HasLevel(subscriptions', requests', broker', o)
    BY PromisesNext
  <2>1. CASE subscriptions[o].pattern = s.pattern
    BY <1>1, <1>2, <1>5, <1>8, <2>1 DEF HasLevel
  <2>2. CASE subscriptions[o].pattern # s.pattern
    <3>1. o \in Held /\ subscriptions[o].pattern \notin refused /\ ~lost
      BY <1>1, <1>2, <2>2
    <3>2. HasLevel(subscriptions, requests, broker, o)
      BY <3>1, Promises DEF SyncInv
    <3> QED BY <1>1, <1>8, <2>2, <3>2 DEF HasLevel
  <2> QED BY <2>1, <2>2
<1> QED
  BY <1>9, <1>10 DEF Promised

\* After a removal the other subscriptions are as they were.
LEMMA Removed ==
    ASSUME SyncInv, NEW id \in Ids, Unsubscribe(id)
    PROVE  /\ Ids' = Ids \ {id} /\ \A o \in Ids' : subscriptions'[o] = subscriptions[o]
           /\ \A p : p # subscriptions[id].pattern =>
                LevelOf(subscriptions', Ids', p) = LevelOf(subscriptions, Ids, p)
           /\ \A p : LevelOf(subscriptions', Ids', p) = LevelOf(subscriptions, Ids \ {id}, p)
<1>1. Ids' = Ids \ {id} /\ \A o \in Ids' : subscriptions'[o] = subscriptions[o]
  BY DEF Unsubscribe, Restrict, Ids
<1> QED
  BY <1>1 DEF LevelOf

\* A removal that asks for nothing leaves the level, or records the pattern.
LEMMA ReleasePromised ==
    ASSUME SyncInv, TypeOK', NEW id \in Ids, ~asks, ~asks', Unsubscribe(id), Release(id),
           UNCHANGED <<broker, lost, refused>>
    PROVE  Promised
<1>0. PICK r \in {subscriptions[id].pattern} :
        \/ /\ TopicNowEmpty(id)
           /\ requests' = Append(requests, UnsubscribeFrom(r))
           /\ leftover' = leftover \ {r}
        \/ /\ UNCHANGED requests
           /\ leftover' = IF Needed(r)' # Needed(r) THEN leftover \cup {r} ELSE leftover
  BY DEF Release
<1>1. Held = Ids /\ Held' = Ids'
  BY DEF SyncInv, Shape, Held, Unasked
<1>2. /\ Ids' = Ids \ {id} /\ \A o \in Ids' : subscriptions'[o] = subscriptions[o]
      /\ \A p : p # r => LevelOf(subscriptions', Ids', p) = LevelOf(subscriptions, Ids, p)
  BY Removed
<1>3. CASE TopicNowEmpty(id) /\ requests' = Append(requests, UnsubscribeFrom(r))
           /\ leftover' = leftover \ {r}
  <2>1. Ids = {id} /\ Ids' = {}
    BY <1>2, <1>3, OnlyOne DEF SyncInv, Shape
  <2>2. Covered'
    BY <1>1, <2>1, PromisesNext
  <2>3. /\ UnsubscribeFrom(r) \in Request /\ UnsubscribeFrom(r).pattern = r
        /\ Outcome(UnsubscribeFrom(r)) = {}
    BY ShapeFacts DEF SyncInv, UnsubscribeFrom, Request, Outcome
  <2>4. /\ SettledIn(requests', broker', r) = {}
        /\ \A p : p # r => SettledIn(requests', broker', p) = SettledIn(requests, broker, p)
    BY <1>3, <2>3, OneMoreRequest DEF SyncInv, Shape
  <2>5. \A p : LevelOf(subscriptions', Ids', p) = {}
    BY <2>1 DEF LevelOf
  <2>6. \A p : p # r => LevelOf(subscriptions, Ids, p) = {}
    BY <1>2, <2>5
  <2>7. Exact'
    <3> SUFFICES ASSUME NEW p \in Patterns \ (refused' \cup leftover')
                 PROVE  SettledIn(requests', broker', p) = LevelOf(subscriptions', Held', p)
      BY PromisesNext
    <3>1. CASE p = r
      BY <1>1, <2>4, <2>5, <3>1
    <3>2. CASE p # r
      <4>1. p \notin refused \cup leftover
        BY <1>3, <3>2
      <4>2. SettledIn(requests, broker, p) = {}
        BY <1>1, <2>6, <3>2, <4>1, Promises DEF SyncInv
      <4> QED BY <1>1, <2>4, <2>5, <3>2, <4>2
    <3> QED BY <3>1, <3>2
  <2> QED BY <2>2, <2>7 DEF Promised
<1>4. CASE /\ UNCHANGED requests
           /\ leftover' = IF Needed(r)' # Needed(r) THEN leftover \cup {r} ELSE leftover
  <2>1. leftover \subseteq leftover'
    BY <1>4
  <2>2. ASSUME NEW p \in Patterns \ leftover'
        PROVE  LevelOf(subscriptions', Held', p) = LevelOf(subscriptions, Held, p)
    <3>1. CASE p # r
      BY <1>1, <1>2, <3>1
    <3>2. CASE p = r
      <4>1. Needed(p)' = Needed(p)
        BY <1>4, <3>2
      <4> QED BY <1>1, <4>1, NeededIsLevel DEF SyncInv, Shape, Inv
    <3> QED BY <3>1, <3>2
  <2>3. \A o \in Held' : /\ o \in Held
                         /\ subscriptions[o].pattern = subscriptions'[o].pattern
                         /\ subscriptions'[o].qos \in QoS
                         /\ subscriptions[o].qos >= subscriptions'[o].qos
    <3> TAKE o \in Held'
    <3>1. o \in Ids /\ subscriptions'[o] = subscriptions[o] /\ subscriptions[o].qos \in QoS
      BY <1>1, <1>2, ShapeFacts DEF SyncInv
    <3>2. subscriptions[o].qos \in 0..2
      BY <3>1, QoSAssumption
    <3> QED BY <1>1, <3>1, <3>2
  <2> QED BY <1>4, <2>1, <2>2, <2>3, SameSettled DEF Promised
<1> QED
  BY <1>0, <1>3, <1>4


\* A failed request takes out the subscription that was still to be asked for;
\* a reply and an owner that leaves change nothing the promises are about.
LEMMA QuietPromised ==
    ASSUME SyncInv,
           \/ \E id \in inHand : RequestSubscribeFails(id) \/ ReplySubscribed(id)
           \/ \E id \in owned : Leave(id)
           \/ UNCHANGED syncVars
    PROVE  Promised
<1>1. /\ UNCHANGED <<requests, broker, lost, refused, leftover>>
      /\ Held' = Held /\ \A id \in Held : subscriptions'[id] = subscriptions[id]
  <2>1. CASE \E id \in inHand : RequestSubscribeFails(id)
    <3>1. PICK id \in inHand : RequestSubscribeFails(id)
      BY <2>1
    <3>2. id \in Ids /\ inHand = {id} /\ asks /\ ~asks'
      BY <3>1 DEF RequestSubscribeFails, SyncInv, Shape, OrphanInv
    <3>3. Ids' = Ids \ {id} /\ \A o \in Ids' : subscriptions'[o] = subscriptions[o]
      BY <3>1, <3>2, Removed DEF RequestSubscribeFails
    <3> QED BY <3>1, <3>2, <3>3 DEF RequestSubscribeFails, Held, Unasked
  <2>2. CASE \E id \in inHand : ReplySubscribed(id)
    BY <2>2 DEF ReplySubscribed, Held, Unasked, vars, Ids
  <2>3. CASE \E id \in owned : Leave(id)
    BY <2>3 DEF Leave, Held, Unasked, vars, actorVars, Ids
  <2>4. CASE UNCHANGED syncVars
    BY <2>4 DEF syncVars, Held, Unasked, vars, actorVars, Ids
  <2> QED BY <2>1, <2>2, <2>3, <2>4
<1>2. \A p \in Patterns : LevelOf(subscriptions', Held', p) = LevelOf(subscriptions, Held, p)
  BY <1>1 DEF LevelOf
<1>3. \A id \in Held' : /\ id \in Held
                        /\ subscriptions[id].pattern = subscriptions'[id].pattern
                        /\ subscriptions'[id].qos \in QoS
                        /\ subscriptions[id].qos >= subscriptions'[id].qos
  <2> TAKE id \in Held'
  <2>1. id \in Held /\ subscriptions'[id] = subscriptions[id] /\ subscriptions[id].qos \in QoS
    BY <1>1, ShapeFacts DEF SyncInv
  <2>2. subscriptions[id].qos \in 0..2
    BY <2>1, QoSAssumption
  <2> QED BY <2>1, <2>2
<1> QED
  BY <1>1, <1>2, <1>3, SameSettled DEF Promised

\* What the broker makes of its oldest request was settled already, or it is
\* recorded that the request was refused.
LEMMA AnswerPromised ==
    ASSUME SyncInv, NEW granted, Answer(granted)
    PROVE  Promised
<1> DEFINE r == Head(requests)
           others == DOMAIN broker \ {r.pattern}
<1>1. /\ requests # <<>> /\ requests' = Tail(requests) /\ requests \in Seq(Request)
      /\ r \in Request /\ r = requests[1]
      /\ UNCHANGED <<vars, actorVars, lost, leftover>>
  BY OldestGone DEF Answer, SyncInv, Shape
<1>2. /\ r.op = "unsubscribe" => broker' = [p \in others |-> broker[p]]
      /\ r.op = "subscribe" /\ granted =>
            broker' = [p \in others \cup {r.pattern} |->
                        IF p = r.pattern THEN r.qos ELSE broker[p]]
      /\ r.op = "subscribe" /\ ~granted => broker' = broker
  BY DEF Answer, Restrict
<1>3. refused' = IF r.op = "subscribe" /\ ~granted /\ Queued(r.pattern) = {1}
                 THEN refused \cup {r.pattern} ELSE refused
  BY DEF Answer
<1>4. r.op \in {"subscribe", "unsubscribe"}
  BY <1>1 DEF Request
<1> HIDE DEF r
<1>5. ASSUME NEW p \in Patterns \ refused'
      PROVE  SettledIn(requests', broker', p) = SettledIn(requests, broker, p)
  <2>1. CASE ~(About(requests, p) \subseteq {1})
    BY <1>1, <2>1, OldestGone
  <2>2. CASE About(requests, p) = {}
    <3>1. SettledIn(requests', broker', p) = IF p \in DOMAIN broker' THEN {broker'[p]} ELSE {}
      BY <1>1, <2>2, OldestGone DEF SettledIn
    <3>2. SettledIn(requests, broker, p) = IF p \in DOMAIN broker THEN {broker[p]} ELSE {}
      BY <2>2 DEF SettledIn
    <3>3. p # r.pattern
      <4>1. 1 \in 1..Len(requests)
        BY <1>1
      <4> QED BY <1>1, <2>2, <4>1 DEF About
    <3>4. (p \in DOMAIN broker' <=> p \in DOMAIN broker) /\ (p \in DOMAIN broker => broker'[p] = broker[p])
      BY <1>2, <1>4, <3>3
    <3> QED BY <3>1, <3>2, <3>4
  <2>3. CASE About(requests, p) = {1}
    <3>1. SettledIn(requests', broker', p) = IF p \in DOMAIN broker' THEN {broker'[p]} ELSE {}
      BY <1>1, <2>3, OldestGone DEF SettledIn
    <3>2. SettledIn(requests, broker, p) = Outcome(r)
      BY <1>1, <2>3, OldestGone
    <3>3. p = r.pattern /\ Queued(p) = {1}
      BY <1>1, <2>3, SettledNow DEF About
    <3>4. CASE r.op = "unsubscribe"
      BY <1>2, <3>1, <3>2, <3>3, <3>4 DEF Outcome
    <3>5. CASE r.op = "subscribe" /\ granted
      BY <1>2, <3>1, <3>2, <3>3, <3>5 DEF Outcome
    <3>6. CASE r.op = "subscribe" /\ ~granted
      BY <1>3, <3>3, <3>6
    <3> QED BY <1>4, <3>4, <3>5, <3>6
  <2> QED BY <2>1, <2>2, <2>3
<1>6. Held' = Held /\ subscriptions' = subscriptions /\ lost' = lost /\ leftover' = leftover
      /\ refused \subseteq refused'
  BY <1>1, <1>3 DEF Held, Unasked, vars, actorVars, Ids
<1>7. \A p \in Patterns : LevelOf(subscriptions', Held', p) = LevelOf(subscriptions, Held, p)
  BY <1>6 DEF LevelOf
<1>8. \A id \in Held' : /\ id \in Held
                        /\ subscriptions[id].pattern = subscriptions'[id].pattern
                        /\ subscriptions'[id].qos \in QoS
                        /\ subscriptions[id].qos >= subscriptions'[id].qos
  <2> TAKE id \in Held'
  <2>1. id \in Held /\ subscriptions'[id] = subscriptions[id] /\ subscriptions[id].qos \in QoS
    BY <1>6, ShapeFacts DEF SyncInv
  <2>2. subscriptions[id].qos \in 0..2
    BY <2>1, QoSAssumption
  <2> QED BY <2>1, <2>2
<1> QED
  BY <1>5, <1>6, <1>7, <1>8, SameSettled DEF Promised

\* With every pattern asked for, or known to have failed, nothing is lost.
LEMMA ResubscribePromised ==
    ASSUME SyncInv, NEW failed, HandleResubscribeAll(failed)
    PROVE  Promised
<1> DEFINE T == TopicsForResubscribe
           D == DOMAIN T \ failed
<1>1. /\ lost /\ lost' = FALSE /\ Held = Ids /\ Held' = Ids
      /\ subscriptions' = subscriptions /\ broker' = broker /\ TypeOK
      /\ requests \in Seq(Request)
  BY ShapeFacts DEF HandleResubscribeAll, Idle, SyncInv, Shape, Held, Unasked,
                    vars, actorVars, Ids
<1>2. \A p : /\ p \in D => SettledIn(requests', broker', p) = {T[p]}
             /\ p \notin D => SettledIn(requests', broker', p) = SettledIn(requests, broker, p)
  BY <1>1, Resubscribed
<1>3. /\ refused' = (refused \ D) \cup failed
      /\ leftover' = {p \in leftover \ D : Settled(p) # None}
  <2>1. IsFiniteSet(D)
    BY <1>1, FewTopics, FS_Subset
  <2>2. Range(SetToSeq(D)) = D
    BY <2>1, Listed
  <2> QED BY <2>2 DEF HandleResubscribeAll
<1>4. \A p : /\ p \in DOMAIN T <=> \E id \in Ids : subscriptions[id].pattern = p
             /\ p \in DOMAIN T => /\ LevelOf(subscriptions, Ids, p) = {T[p]}
                                  /\ \A id \in Ids : subscriptions[id].pattern = p
                                                     => T[p] >= subscriptions[id].qos
             /\ p \notin DOMAIN T => LevelOf(subscriptions, Ids, p) = {}
  BY <1>1, TopicsNow, TopicsLevel DEF TypeOK, Ids
<1> HIDE DEF T
<1>5. Exact'
  <2> SUFFICES ASSUME NEW p \in Patterns \ (refused' \cup leftover')
               PROVE  SettledIn(requests', broker', p) = LevelOf(subscriptions', Held', p)
    BY PromisesNext
  <2>1. CASE p \in D
    BY <1>1, <1>2, <1>4, <2>1
  <2>2. CASE p \notin D
    <3>1. p \notin refused /\ p \notin DOMAIN T
      BY <1>3, <2>2
    <3>2. LevelOf(subscriptions, Ids, p) = {}
      BY <1>4, <3>1
    <3>3. SettledIn(requests, broker, p) = {}
      <4>1. CASE p \in leftover
        BY <1>3, <2>2, <4>1, SettledNow DEF None
      <4>2. CASE p \notin leftover
        BY <1>1, <3>1, <3>2, <4>2, Promises DEF SyncInv
      <4> QED BY <4>1, <4>2
    <3> QED BY <1>1, <1>2, <2>2, <3>2, <3>3
  <2> QED BY <2>1, <2>2
<1>6. Covered'
  <2> SUFFICES ASSUME NEW id \in Held', subscriptions'[id].pattern \notin refused'
               PROVE  HasLevel(subscriptions', requests', broker', id)
    BY PromisesNext
  <2>1. id \in Ids /\ subscriptions[id].pattern \in D
    BY <1>1, <1>3, <1>4
  <2>2. SettledIn(requests', broker', subscriptions[id].pattern) = {T[subscriptions[id].pattern]}
    BY <1>2, <2>1
  <2>3. T[subscriptions[id].pattern] >= subscriptions[id].qos
    BY <1>4, <2>1
  <2> QED BY <1>1, <2>2, <2>3 DEF HasLevel
<1> QED
  BY <1>5, <1>6 DEF Promised

\* A cleanup leaves no subscription, and asks for every pattern to be let go.
LEMMA CleanUpPromised ==
    ASSUME SyncInv, NEW failed, CleanUp(failed)
    PROVE  Promised
<1> DEFINE T == TopicsForResubscribe
           D == DOMAIN T \ failed
<1>1. /\ Held = Ids /\ Held' = {} /\ lost' = lost /\ refused' = refused
      /\ broker' = broker /\ TypeOK /\ requests \in Seq(Request)
  BY ShapeFacts, IdsAfter DEF CleanUp, Idle, SyncInv, Shape, Held, Unasked
<1>2. \A p : /\ p \in D => SettledIn(requests', broker', p) = {}
             /\ p \notin D => SettledIn(requests', broker', p) = SettledIn(requests, broker, p)
  BY <1>1, CleanedUp
<1>3. leftover' = (leftover \ D) \cup failed
  <2>1. IsFiniteSet(D)
    BY <1>1, FewTopics, FS_Subset
  <2>2. Range(SetToSeq(D)) = D
    BY <2>1, Listed
  <2> QED BY <2>2 DEF CleanUp
<1>4. \A p : p \notin DOMAIN T => LevelOf(subscriptions, Ids, p) = {}
  BY <1>1, TopicsNow, TopicsLevel DEF TypeOK, Ids
<1> HIDE DEF T
<1>5. \A p : LevelOf(subscriptions', Held', p) = {}
  BY <1>1 DEF LevelOf
<1>6. Exact'
  <2> SUFFICES ASSUME NEW p \in Patterns \ (refused' \cup leftover')
               PROVE  SettledIn(requests', broker', p) = LevelOf(subscriptions', Held', p)
    BY PromisesNext
  <2>1. CASE p \in D
    BY <1>2, <1>5, <2>1
  <2>2. CASE p \notin D
    <3>1. p \notin refused \cup leftover /\ p \notin DOMAIN T
      BY <1>1, <1>3, <2>2
    <3>2. SettledIn(requests, broker, p) = {}
      BY <1>1, <1>4, <3>1, Promises DEF SyncInv
    <3> QED BY <1>2, <1>5, <2>2, <3>2
  <2> QED BY <2>1, <2>2
<1>7. Covered'
  BY <1>1, PromisesNext
<1> QED
  BY <1>6, <1>7 DEF Promised

\* A session that is lost takes what the broker held, not what is queued.
LEMMA LossPromised ==
    ASSUME SyncInv, LoseSession
    PROVE  Promised
<1>1. /\ lost' /\ broker' = <<>> /\ requests' = requests /\ refused' = refused
      /\ leftover' = {p \in leftover : Queued(p) # {}}
      /\ subscriptions' = subscriptions /\ Held' = Held
  BY DEF LoseSession, vars, actorVars, Held, Unasked, Ids
<1>2. Exact'
  <2> SUFFICES ASSUME NEW p \in Patterns \ (refused' \cup leftover')
               PROVE  \/ SettledIn(requests', broker', p) = LevelOf(subscriptions', Held', p)
                      \/ lost' /\ SettledIn(requests', broker', p) = {}
    BY PromisesNext
  <2>1. CASE About(requests, p) = {}
    BY <1>1, <2>1 DEF SettledIn
  <2>2. CASE About(requests, p) # {}
    <3>1. p \notin refused \cup leftover
      BY <1>1, <2>2, SettledNow
    <3>2. SettledIn(requests', broker', p) = SettledIn(requests, broker, p)
      BY <1>1, <2>2 DEF SettledIn
    <3> QED BY <1>1, <3>1, <3>2, Promises DEF SyncInv
  <2> QED BY <2>1, <2>2
<1> QED
  BY <1>1, <1>2, PromisesNext DEF Promised

-----------------------------------------------------------------------------
(* The invariant holds, and what it gives *)

LEMMA SyncInvInit == SyncInit => SyncInv
<1> SUFFICES ASSUME SyncInit PROVE SyncInv
  OBVIOUS
<1>1. Inv /\ Ids = {} /\ Held = {}
  BY InvInit DEF SyncInit, Init, Ids, Held
<1>2. Shape /\ Raises
  BY <1>1 DEF SyncInit, Shape, Raises, OrphanInv, NoOrphan
<1>3. \A p : LevelOf(subscriptions, Held, p) = {} /\ SettledIn(requests, broker, p) = {}
  BY <1>1 DEF LevelOf, SettledIn, About, SyncInit
<1>4. Covered /\ Exact
  BY <1>1, <1>3, Promises
<1> QED
  BY <1>2, <1>4 DEF SyncInv

LEMMA SyncInvStep == ASSUME SyncInv, [SyncNext]_syncVars PROVE SyncInv'
<1>1. Shape' /\ Raises' /\ TypeOK'
  BY ShapeStep, RaisesStep DEF SyncInv, Shape, Inv
<1> SUFFICES Promised
  BY <1>1 DEF SyncInv, Promised
<1>2. ASSUME NEW p \in Patterns, NEW q \in QoS, HandleSubscribe(p, q) PROVE Promised
  BY <1>2, SubscribePromised
<1>3. ASSUME NEW id \in inHand, RequestSubscribe(id) PROVE Promised
  BY <1>3, RequestPromised
<1>4. ASSUME NEW id \in inHand, RequestSubscribeFails(id) \/ ReplySubscribed(id) PROVE Promised
  BY <1>4, QuietPromised
<1>5. ASSUME NEW id \in inHand, ReplyGone(id) PROVE Promised
  BY <1>1, <1>5, ReleasePromised DEF ReplyGone, SyncInv, Shape
<1>6. ASSUME NEW id \in leaving, HandleUnsubscribe(id) PROVE Promised
  <2>0. ~asks /\ ~asks'
    BY <1>6 DEF HandleUnsubscribe, Idle, actorVars, SyncInv, Shape
  <2>1. CASE id \in Ids
    BY <1>1, <1>6, <2>0, <2>1, ReleasePromised DEF HandleUnsubscribe
  <2>2. CASE id \notin Ids
    <3>1. UNCHANGED <<vars, actorVars, requests, broker, lost, refused, leftover>>
      BY <1>6, <2>2 DEF HandleUnsubscribe
    <3>2. Held' = Held /\ subscriptions' = subscriptions
      BY <3>1 DEF vars, actorVars, Held, Unasked, Ids
    <3> QED BY <3>1, <3>2, Promises, PromisesNext DEF SyncInv, Promised
  <2> QED BY <2>1, <2>2
<1>7. ASSUME NEW id \in Ids, HandleSendClosed(id) PROVE Promised
  <2>1. ~asks /\ ~asks'
    BY <1>7 DEF HandleSendClosed, Idle, actorVars, SyncInv, Shape
  <2> QED BY <1>1, <1>7, <2>1, ReleasePromised DEF HandleSendClosed
<1>8. ASSUME NEW failed, HandleResubscribeAll(failed) PROVE Promised
  BY <1>8, ResubscribePromised
<1>9. ASSUME NEW failed, CleanUp(failed) PROVE Promised
  BY <1>9, CleanUpPromised
<1>10. ASSUME NEW id \in owned, Leave(id) PROVE Promised
  BY <1>10, QuietPromised
<1>11. ASSUME NEW granted \in BOOLEAN, Answer(granted) PROVE Promised
  BY <1>11, AnswerPromised
<1>12. CASE LoseSession
  BY <1>12, LossPromised
<1>13. CASE UNCHANGED syncVars
  BY <1>13, QuietPromised
<1> QED
  BY <1>2, <1>3, <1>4, <1>5, <1>6, <1>7, <1>8, <1>9, <1>10, <1>11, <1>12, <1>13 DEF SyncNext

\* The types that Shape leaves out.
Typed ==
    /\ asks \in BOOLEAN /\ stopped \in BOOLEAN /\ lost \in BOOLEAN
    /\ DOMAIN broker \subseteq Patterns
    /\ Len(requests) <= MaxRequests
    /\ IsFiniteSet(leaving) /\ Cardinality(leaving) <= LeaveRoom
    /\ refused \cup leftover \subseteq Patterns

\* An id joins the unsubscribe channel only where there is room.
LEMMA DropTyped ==
    ASSUME Typed, NEW id, Drop(id)
    PROVE  IsFiniteSet(leaving') /\ Cardinality(leaving') <= LeaveRoom
<1>1. CASE leaving' = leaving
  BY <1>1 DEF Typed
<1>2. CASE Cardinality(leaving) < LeaveRoom /\ leaving' = leaving \cup {id}
  <2>1. IsFiniteSet(leaving) /\ Cardinality(leaving) \in Nat
    BY FS_CardinalityType DEF Typed
  <2>2. /\ IsFiniteSet(leaving \cup {id})
        /\ Cardinality(leaving \cup {id}) \in {Cardinality(leaving), Cardinality(leaving) + 1}
    BY <2>1, FS_AddElement
  <2>3. Cardinality(leaving \cup {id}) <= LeaveRoom
    BY <1>2, <2>1, <2>2, LeaveRoomAssumption
  <2> QED BY <1>2, <2>2, <2>3
<1> QED
  BY <1>1, <1>2 DEF Drop

\* A removal queues at most one request, where there is room.
LEMMA ReleaseTyped ==
    ASSUME Shape, Typed, NEW id \in Ids, Release(id)
    PROVE  Len(requests') <= MaxRequests /\ leftover' \subseteq Patterns
  BY ShapeFacts DEF Release, Room, Typed, Shape

LEMMA TypedStep == ASSUME Shape, Typed, [SyncNext]_syncVars PROVE Typed'
<1>1. ASSUME NEW p \in Patterns, NEW q \in QoS, HandleSubscribe(p, q) PROVE Typed'
  BY <1>1 DEF HandleSubscribe, NeedsSubscribe, ownerVars, Typed
<1>2. ASSUME NEW id \in inHand, RequestSubscribe(id) PROVE Typed'
  <2>1. Len(requests') <= MaxRequests
    BY <1>2 DEF RequestSubscribe, Room, Shape
  <2> QED BY <1>2, <2>1 DEF RequestSubscribe, ownerVars, Typed
<1>3. ASSUME NEW id \in inHand, RequestSubscribeFails(id) \/ ReplySubscribed(id) PROVE Typed'
  BY <1>3 DEF RequestSubscribeFails, ReplySubscribed, ownerVars, Typed
<1>4. ASSUME NEW id \in inHand, ReplyGone(id) PROVE Typed'
  BY <1>4, DropTyped, ReleaseTyped DEF ReplyGone, Shape, Typed
<1>5. ASSUME NEW id \in leaving, HandleUnsubscribe(id) PROVE Typed'
  <2>1. IsFiniteSet(leaving') /\ Cardinality(leaving') <= LeaveRoom
    <3>1. leaving' = leaving \ {id} /\ IsFiniteSet(leaving) /\ Cardinality(leaving) <= LeaveRoom
      BY <1>5 DEF HandleUnsubscribe, Typed
    <3> QED BY <3>1, FS_RemoveElement, FS_CardinalityType, LeaveRoomAssumption, SMTT(30)
  <2>2. Len(requests') <= MaxRequests /\ leftover' \subseteq Patterns
    BY <1>5, ReleaseTyped DEF HandleUnsubscribe, Typed
  <2> QED BY <1>5, <2>1, <2>2 DEF HandleUnsubscribe, actorVars, Typed
<1>6. ASSUME NEW id \in Ids, HandleSendClosed(id) PROVE Typed'
  BY <1>6, ReleaseTyped DEF HandleSendClosed, actorVars, ownerVars, Typed
<1>7. ASSUME NEW failed \in SUBSET DOMAIN TopicsForResubscribe,
             HandleResubscribeAll(failed) \/ CleanUp(failed)
      PROVE  Typed'
  <2>1. TypeOK /\ requests \in Seq(Request)
    BY DEF Shape, Inv
  <2>2. failed \subseteq Patterns
    BY <2>1, TopicsNow, TopicsLevel DEF TypeOK, Ids
  <2>3. Len(requests') <= MaxRequests
    BY <1>7, <2>1, Resubscribed, CleanedUp
  <2> QED BY <1>7, <2>2, <2>3 DEF HandleResubscribeAll, CleanUp, actorVars, ownerVars, Typed
<1>8. ASSUME NEW id \in owned, Leave(id) PROVE Typed'
  BY <1>8, DropTyped DEF Leave, actorVars, Typed
<1>9. ASSUME NEW granted, Answer(granted) PROVE Typed'
  <2> DEFINE r == Head(requests)
             others == DOMAIN broker \ {r.pattern}
  <2>1. /\ r \in Request /\ r.pattern \in Patterns /\ requests' = Tail(requests)
        /\ Len(Tail(requests)) <= Len(requests) /\ Len(requests) \in Nat /\ Len(Tail(requests)) \in Nat
    BY <1>9, OldestGone DEF Answer, Shape, Request
  <2>2. DOMAIN broker' \in {others, others \cup {r.pattern}, DOMAIN broker}
    BY <1>9 DEF Answer, Restrict
  <2>3. refused' \subseteq refused \cup {r.pattern}
    BY <1>9 DEF Answer
  <2>4. Len(requests') <= MaxRequests
    BY <2>1, MaxRequestsAssumption DEF Typed
  <2> HIDE DEF r
  <2> QED BY <1>9, <2>1, <2>2, <2>3, <2>4 DEF Answer, actorVars, ownerVars, Typed
<1>10. CASE LoseSession \/ UNCHANGED syncVars
  <2>1. CASE LoseSession
    <3>1. /\ broker' = <<>> /\ lost' = TRUE /\ leftover' \subseteq leftover
          /\ UNCHANGED <<asks, stopped, requests, leaving, refused>>
      BY <2>1 DEF LoseSession, actorVars, ownerVars
    <3>2. DOMAIN broker' = {}
      BY <3>1
    <3> QED BY <3>1, <3>2 DEF Typed
  <2>2. CASE UNCHANGED syncVars
    BY <2>2 DEF syncVars, actorVars, ownerVars, Typed
  <2> QED BY <1>10, <2>1, <2>2
<1> QED
  BY <1>1, <1>2, <1>3, <1>4, <1>5, <1>6, <1>7, <1>8, <1>9, <1>10 DEF SyncNext

\* The composition keeps its types, and both channels their bounds.
THEOREM SyncTypeCorrect == SyncSpec => []SyncTypeOK
<1>1. SyncInit => Typed
  <2> SUFFICES ASSUME SyncInit PROVE Typed
    OBVIOUS
  <2>1. /\ asks = FALSE /\ stopped = FALSE /\ lost = FALSE /\ broker = <<>> /\ requests = <<>>
        /\ leaving = {} /\ refused = {} /\ leftover = {}
    BY DEF SyncInit
  <2>2. Len(requests) <= MaxRequests /\ DOMAIN broker = {}
    BY <2>1, MaxRequestsAssumption
  <2>3. IsFiniteSet(leaving) /\ Cardinality(leaving) <= LeaveRoom
    BY <2>1, FS_EmptySet, LeaveRoomAssumption
  <2> QED BY <2>1, <2>2, <2>3 DEF Typed
<1>2. SyncInv => Shape
  BY DEF SyncInv
<1>3. Shape /\ Typed => SyncTypeOK
  <2> SUFFICES ASSUME Shape, Typed PROVE SyncTypeOK
    OBVIOUS
  <2>1. Cardinality(inHand) <= 1
    <3>1. CASE inHand = {}
      BY <3>1, FS_EmptySet
    <3>2. CASE inHand # {}
      <4>1. PICK id : inHand = {id}
        BY <3>2, SMTT(30) DEF Shape, OrphanInv
      <4> QED BY <4>1, FS_Singleton
    <3> QED BY <3>1, <3>2
  <2> QED BY <2>1, ShapeFacts DEF Shape, Typed, SyncTypeOK
<1> QED
  BY <1>1, <1>2, <1>3, TypedStep, SyncInvInit, SyncInvStep, PTL DEF SyncSpec

\* Every subscription is held, or asked for, at its level or a higher one, for
\* any number of removals, reconnects and requests still queued.
THEOREM CoveredHolds == SyncSpec => []Covered
<1>1. SyncInv => Covered
  BY DEF SyncInv
<1> QED
  BY <1>1, SyncInvInit, SyncInvStep, PTL DEF SyncSpec

\* The broker ends up with what the router would ask for, but for the patterns
\* it refused and those that a removal left behind.
THEOREM ExactUnlessLeftoverHolds == SyncSpec => []ExactUnlessLeftover
<1>1. SyncInv => ExactUnlessLeftover
  <2> SUFFICES ASSUME SyncInv, ~lost, ~asks, NEW p \in Patterns \ (refused \cup leftover)
               PROVE  Settled(p) = Needed(p)
    BY DEF ExactUnlessLeftover
  <2>1. Held = Ids /\ TypeOK
    BY ShapeFacts DEF SyncInv
  <2>2. SettledIn(requests, broker, p) = LevelOf(subscriptions, Ids, p)
    BY <2>1, Promises DEF SyncInv
  <2> QED BY <2>1, <2>2, SettledNow, NeededIsLevel
<1> QED
  BY <1>1, SyncInvInit, SyncInvStep, PTL DEF SyncSpec

\* Messages are routed exactly, whatever the actor and the broker do.
THEOREM RoutesExactlyInSync == SyncSpec => []RoutesExactly
<1>1. SyncInv => Inv
  BY DEF SyncInv, Shape
<1>2. Inv => RoutesExactly
  BY RoutesWhenInStep
<1> QED
  BY <1>1, <1>2, SyncInvInit, SyncInvStep, PTL DEF SyncSpec

\* The router under the actor and the broker takes only steps of TopicRouter: its
\* subscribe and unsubscribe as one step each, no id freed twice, and every other
\* step of the composition leaves it alone.
THEOREM RouterInSync == SyncSpec => Spec
<1>1. SyncInit => Init
  BY DEF SyncInit
<1>2. ASSUME SyncInv, [SyncNext]_syncVars PROVE [Next]_vars
  <2>1. Inv /\ inHand \subseteq Ids
    BY <1>2 DEF SyncInv, Shape
  <2> QED BY <1>2, <2>1, RouterStep
<1> QED
  BY <1>1, <1>2, SyncInvInit, SyncInvStep, PTL DEF SyncSpec, Spec
=============================================================================
