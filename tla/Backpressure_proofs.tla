------------------------ MODULE Backpressure_proofs ------------------------
(* Theorems about Backpressure, for every set of subscriptions, capacity and *)
(* bound.                                                                    *)
EXTENDS Backpressure, TLAPS

-----------------------------------------------------------------------------
(* Sequences of messages *)

\* Appending to a sequence of messages.
LEMMA AppendFacts ==
    ASSUME NEW q \in Seq(Nat), NEW m \in Nat
    PROVE  /\ Append(q, m) \in Seq(Nat)
           /\ Len(Append(q, m)) = Len(q) + 1
           /\ Len(q) \in Nat
  OBVIOUS

\* Taking the first element off a sequence of messages.
LEMMA TailFacts ==
    ASSUME NEW q \in Seq(Nat), q # <<>>
    PROVE  /\ Head(q) \in Nat
           /\ Tail(q) \in Seq(Nat)
           /\ Len(Tail(q)) = Len(q) - 1
           /\ Len(q) \in Nat \ {0}
  OBVIOUS

\* The empty sequence.
LEMMA EmptyFacts == <<>> \in Seq(Nat) /\ Len(<<>>) = 0
  OBVIOUS

\* What TypeOK and the assumptions on the constants say of one subscription.
LEMMA SubFacts ==
    ASSUME TypeOK, NEW s \in Subs
    PROVE  /\ channel[s] \in Seq(Nat) /\ queue[s] \in Seq(Nat) /\ slowSend[s] \in Seq(Nat)
           /\ Len(channel[s]) \in Nat /\ Len(queue[s]) \in Nat /\ Len(slowSend[s]) \in Nat
           /\ Capacity[s] \in Nat /\ Capacity[s] > 0 /\ MaxParked[s] \in Nat
           /\ Len(channel[s]) <= Capacity[s] /\ Len(queue[s]) <= MaxParked[s]
           /\ dropped[s] \in Nat
  BY CapacityAssumption, MaxParkedAssumption DEF TypeOK, Bounded

-----------------------------------------------------------------------------
(* Types and buffer bounds *)

\* handle_send keeps types and buffer bounds: it appends only where there is room.
LEMMA TypeHandleSend == ASSUME TypeOK, NEW T \in SUBSET Subs, HandleSend(T) PROVE TypeOK'
<1>1. \A s \in Subs : /\ channel'[s] \in Seq(Nat) /\ Len(channel'[s]) <= Capacity[s]
                      /\ queue'[s] \in Seq(Nat) /\ Len(queue'[s]) <= MaxParked[s]
                      /\ slowSend'[s] \in Seq(Nat)
                      /\ dropped'[s] \in Nat
                      /\ routedTo'[s] \in Nat
  <2> SUFFICES ASSUME NEW s \in Subs
               PROVE  /\ channel'[s] \in Seq(Nat) /\ Len(channel'[s]) <= Capacity[s]
                      /\ queue'[s] \in Seq(Nat) /\ Len(queue'[s]) <= MaxParked[s]
                      /\ slowSend'[s] \in Seq(Nat)
                      /\ dropped'[s] \in Nat
                      /\ routedTo'[s] \in Nat
    OBVIOUS
  <2>0. /\ channel[s] \in Seq(Nat) /\ Len(channel[s]) \in Nat /\ Len(channel[s]) <= Capacity[s]
        /\ queue[s] \in Seq(Nat) /\ Len(queue[s]) \in Nat /\ Len(queue[s]) <= MaxParked[s]
        /\ slowSend[s] \in Seq(Nat) /\ dropped[s] \in Nat
        /\ Capacity[s] \in Nat /\ MaxParked[s] \in Nat
    BY SubFacts
  <2>1. published + 1 \in Nat /\ routedTo[s] \in Nat
    BY DEF TypeOK
  <2>2. channel'[s] = channel[s] \/ (HasRoom(s) /\ channel'[s] = Append(channel[s], published + 1))
    BY DEF HandleSend
  <2>3. queue'[s] = queue[s] \/ (~QueueFull(s) /\ queue'[s] = Append(queue[s], published + 1))
    BY DEF HandleSend
  <2>4. slowSend'[s] = slowSend[s] \/ slowSend'[s] = Append(slowSend[s], published + 1)
    BY DEF HandleSend
  <2>5. dropped'[s] \in {dropped[s], dropped[s] + 1} /\ routedTo'[s] \in {routedTo[s], routedTo[s] + 1}
    BY DEF HandleSend
  <2>6. channel'[s] \in Seq(Nat) /\ Len(channel'[s]) <= Capacity[s]
    <3>1. /\ Append(channel[s], published + 1) \in Seq(Nat)
          /\ Len(Append(channel[s], published + 1)) = Len(channel[s]) + 1
      BY <2>0, <2>1, AppendFacts
    <3>2. channel'[s] \in Seq(Nat)
      BY <3>1, <2>0, <2>2
    <3>3. Len(channel'[s]) <= Capacity[s]
      BY <3>1, <2>0, <2>2 DEF HasRoom
    <3> QED
      BY <3>2, <3>3
  <2>7. queue'[s] \in Seq(Nat) /\ Len(queue'[s]) <= MaxParked[s]
    <3>1. /\ Append(queue[s], published + 1) \in Seq(Nat)
          /\ Len(Append(queue[s], published + 1)) = Len(queue[s]) + 1
      BY <2>0, <2>1, AppendFacts
    <3>2. queue'[s] \in Seq(Nat)
      BY <3>1, <2>0, <2>3
    <3>3. Len(queue'[s]) <= MaxParked[s]
      BY <3>1, <2>0, <2>3 DEF QueueFull
    <3> QED
      BY <3>2, <3>3
  <2>8. slowSend'[s] \in Seq(Nat)
    BY <2>0, <2>1, <2>4, AppendFacts
  <2> QED
    BY <2>0, <2>1, <2>5, <2>6, <2>7, <2>8, SMTT(30)
<1>2. /\ channel' \in [Subs -> Seq(Nat)] /\ queue' \in [Subs -> Seq(Nat)]
      /\ slowSend' \in [Subs -> Seq(Nat)] /\ dropped' \in [Subs -> Nat] /\ routedTo' \in [Subs -> Nat]
  BY <1>1 DEF HandleSend
<1>3. Bounded'
  BY <1>1 DEF Bounded
<1> QED
  BY <1>2, <1>3, SMTT(30) DEF HandleSend, TypeOK, consumerVars

\* A completed slow send moves one message into a channel with room.
LEMMA TypeSlowSendOk == ASSUME TypeOK, NEW s \in Subs, SlowSendOk(s) PROVE TypeOK'
<1>1. /\ channel[s] \in Seq(Nat) /\ slowSend[s] \in Seq(Nat) /\ slowSend[s] # <<>>
      /\ Len(channel[s]) \in Nat /\ Capacity[s] \in Nat
  BY SubFacts DEF SlowSendOk
<1>2. Head(slowSend[s]) \in Nat /\ Tail(slowSend[s]) \in Seq(Nat)
  BY <1>1, TailFacts
<1>3. /\ Append(channel[s], Head(slowSend[s])) \in Seq(Nat)
      /\ Len(Append(channel[s], Head(slowSend[s]))) = Len(channel[s]) + 1
  BY <1>1, <1>2, AppendFacts
<1>4. channel' \in [Subs -> Seq(Nat)] /\ slowSend' \in [Subs -> Seq(Nat)]
  BY <1>2, <1>3 DEF SlowSendOk, TypeOK
<1>5. Bounded'
  <2> SUFFICES ASSUME NEW t \in Subs
               PROVE  Len(channel'[t]) <= Capacity[t] /\ Len(queue'[t]) <= MaxParked[t]
    BY DEF Bounded
  <2>1. CASE t = s
    BY <2>1, <1>1, <1>3, SMTT(30) DEF SlowSendOk, HasRoom, TypeOK, Bounded
  <2>2. CASE t # s
    BY <2>2 DEF SlowSendOk, TypeOK, Bounded
  <2> QED
    BY <2>1, <2>2
<1> QED
  BY <1>4, <1>5 DEF SlowSendOk, Resume, TypeOK, consumerVars, history

\* An expired slow send is taken out and counted.
LEMMA TypeSlowSendTimeout == ASSUME TypeOK, NEW s \in Subs, SlowSendTimeout(s) PROVE TypeOK'
<1>1. slowSend[s] \in Seq(Nat) /\ slowSend[s] # <<>> /\ dropped[s] + 1 \in Nat
  BY SubFacts DEF SlowSendTimeout
<1>2. Tail(slowSend[s]) \in Seq(Nat)
  BY <1>1, TailFacts
<1>3. slowSend' \in [Subs -> Seq(Nat)]
  BY <1>2 DEF SlowSendTimeout, TypeOK
<1>4. dropped' \in [Subs -> Nat]
  BY <1>1 DEF SlowSendTimeout, TypeOK
<1>5. Bounded'
  BY DEF SlowSendTimeout, TypeOK, Bounded
<1> QED
  BY <1>3, <1>4, <1>5 DEF SlowSendTimeout, Resume, TypeOK, consumerVars, history

\* Emptying one subscription's parked queue keeps every queue typed and bounded.
LEMMA QueueEmptied ==
    ASSUME TypeOK, NEW s \in Subs, queue' = [queue EXCEPT ![s] = <<>>]
    PROVE  /\ queue' \in [Subs -> Seq(Nat)]
           /\ \A t \in Subs : Len(queue'[t]) <= MaxParked[t]
<1>1. queue' \in [Subs -> Seq(Nat)]
  BY EmptyFacts DEF TypeOK
<1>2. \A t \in Subs : Len(queue'[t]) <= MaxParked[t]
  <2> SUFFICES ASSUME NEW t \in Subs PROVE Len(queue'[t]) <= MaxParked[t]
    OBVIOUS
  <2>1. CASE t = s
    BY <2>1, SubFacts, EmptyFacts, SMTT(30) DEF TypeOK
  <2>2. CASE t # s
    BY <2>2 DEF TypeOK, Bounded
  <2> QED
    BY <2>1, <2>2
<1> QED
  BY <1>1, <1>2

\* A slow send to a closed channel is taken out with everything behind it.
LEMMA TypeSlowSendClosed == ASSUME TypeOK, NEW s \in Subs, SlowSendClosed(s) PROVE TypeOK'
<1>1. /\ slowSend[s] \in Seq(Nat) /\ slowSend[s] # <<>>
      /\ dropped[s] \in Nat /\ Len(queue[s]) \in Nat
  BY SubFacts DEF SlowSendClosed
<1>2. Tail(slowSend[s]) \in Seq(Nat)
  BY <1>1, TailFacts
<1>3. slowSend' \in [Subs -> Seq(Nat)]
  BY <1>2 DEF SlowSendClosed, TypeOK
<1>4. CASE s \in parked
  <2>1. dropped[s] + 1 + Len(queue[s]) \in Nat
    BY <1>1
  <2>2. dropped' \in [Subs -> Nat]
    BY <1>4, <2>1, ZenonT(40) DEF SlowSendClosed, TypeOK
  <2>3. /\ queue' \in [Subs -> Seq(Nat)]
        /\ \A t \in Subs : Len(queue'[t]) <= MaxParked[t]
    BY <1>4, QueueEmptied DEF SlowSendClosed
  <2>4. Bounded'
    BY <2>3 DEF SlowSendClosed, TypeOK, Bounded
  <2> QED
    BY <1>3, <1>4, <2>2, <2>3, <2>4 DEF SlowSendClosed, TypeOK, consumerVars, history
<1>5. CASE s \notin parked
  BY <1>3, <1>5 DEF SlowSendClosed, TypeOK, Bounded, consumerVars, history
<1> QED
  BY <1>4, <1>5

\* One try_send of drain_parked moves one message into a channel with room.
LEMMA TypeDrainSend == ASSUME TypeOK, NEW s \in Subs, DrainSend(s) PROVE TypeOK'
<1>1. /\ channel[s] \in Seq(Nat) /\ queue[s] \in Seq(Nat) /\ queue[s] # <<>>
      /\ Len(channel[s]) \in Nat /\ Capacity[s] \in Nat /\ MaxParked[s] \in Nat
      /\ Len(queue[s]) <= MaxParked[s]
  BY SubFacts DEF DrainSend
<1>2. /\ Head(queue[s]) \in Nat /\ Tail(queue[s]) \in Seq(Nat)
      /\ Len(Tail(queue[s])) = Len(queue[s]) - 1 /\ Len(queue[s]) \in Nat
  BY <1>1, TailFacts
<1>3. /\ Append(channel[s], Head(queue[s])) \in Seq(Nat)
      /\ Len(Append(channel[s], Head(queue[s]))) = Len(channel[s]) + 1
  BY <1>1, <1>2, AppendFacts
<1>4. channel' \in [Subs -> Seq(Nat)] /\ queue' \in [Subs -> Seq(Nat)]
  BY <1>2, <1>3 DEF DrainSend, TypeOK
<1>5. Bounded'
  <2> SUFFICES ASSUME NEW t \in Subs
               PROVE  Len(channel'[t]) <= Capacity[t] /\ Len(queue'[t]) <= MaxParked[t]
    BY DEF Bounded
  <2>1. CASE t = s
    <3>1. Len(channel'[t]) <= Capacity[t]
      BY <2>1, <1>1, <1>3, SMTT(30) DEF DrainSend, HasRoom, TypeOK
    <3>2. Len(queue'[t]) <= MaxParked[t]
      BY <2>1, <1>1, <1>2, SMTT(30) DEF DrainSend, TypeOK
    <3> QED
      BY <3>1, <3>2
  <2>2. CASE t # s
    BY <2>2 DEF DrainSend, TypeOK, Bounded
  <2> QED
    BY <2>1, <2>2
<1> QED
  BY <1>4, <1>5 DEF DrainSend, TypeOK, consumerVars, history

\* Re-parking moves one message from the queue to the slow send.
LEMMA TypeDrainPark == ASSUME TypeOK, NEW s \in Subs, DrainPark(s) PROVE TypeOK'
<1>1. /\ slowSend[s] \in Seq(Nat) /\ queue[s] \in Seq(Nat) /\ queue[s] # <<>>
      /\ MaxParked[s] \in Nat /\ Len(queue[s]) <= MaxParked[s]
  BY SubFacts DEF DrainPark
<1>2. /\ Head(queue[s]) \in Nat /\ Tail(queue[s]) \in Seq(Nat)
      /\ Len(Tail(queue[s])) = Len(queue[s]) - 1 /\ Len(queue[s]) \in Nat
  BY <1>1, TailFacts
<1>3. Append(slowSend[s], Head(queue[s])) \in Seq(Nat)
  BY <1>1, <1>2, AppendFacts
<1>4. slowSend' \in [Subs -> Seq(Nat)] /\ queue' \in [Subs -> Seq(Nat)]
  BY <1>2, <1>3 DEF DrainPark, TypeOK
<1>5. Bounded'
  <2> SUFFICES ASSUME NEW t \in Subs
               PROVE  Len(channel'[t]) <= Capacity[t] /\ Len(queue'[t]) <= MaxParked[t]
    BY DEF Bounded
  <2>1. CASE t = s
    BY <2>1, <1>1, <1>2 DEF DrainPark, TypeOK, Bounded
  <2>2. CASE t # s
    BY <2>2 DEF DrainPark, TypeOK, Bounded
  <2> QED
    BY <2>1, <2>2
<1> QED
  BY <1>4, <1>5 DEF DrainPark, TypeOK, consumerVars, history

\* Draining into a closed channel empties the queue.
LEMMA TypeDrainClosed == ASSUME TypeOK, NEW s \in Subs, DrainClosed(s) PROVE TypeOK'
<1>1. dropped[s] + Len(queue[s]) \in Nat
  BY SubFacts
<1>2. dropped' \in [Subs -> Nat]
  BY <1>1 DEF DrainClosed, TypeOK
<1>3. /\ queue' \in [Subs -> Seq(Nat)]
      /\ \A t \in Subs : Len(queue'[t]) <= MaxParked[t]
  BY QueueEmptied DEF DrainClosed
<1>4. Bounded'
  BY <1>3 DEF DrainClosed, TypeOK, Bounded
<1> QED
  BY <1>2, <1>3, <1>4 DEF DrainClosed, TypeOK, consumerVars, history

\* The end of a drain touches no buffer.
LEMMA TypeDrainDone == ASSUME TypeOK, NEW s \in Subs, DrainDone(s) PROVE TypeOK'
  BY DEF DrainDone, TypeOK, Bounded, consumerVars, history

\* handle_unsubscribe empties one queue and takes one request.
LEMMA TypeHandleUnsubscribe == ASSUME TypeOK, HandleUnsubscribe PROVE TypeOK'
<1>1. Head(unsubQ) \in Subs /\ Tail(unsubQ) \in Seq(Subs)
  BY DEF HandleUnsubscribe, TypeOK
<1>2. /\ queue' \in [Subs -> Seq(Nat)]
      /\ \A t \in Subs : Len(queue'[t]) <= MaxParked[t]
  BY <1>1, QueueEmptied DEF HandleUnsubscribe
<1>3. Bounded'
  BY <1>2 DEF HandleUnsubscribe, TypeOK, Bounded
<1> QED
  BY <1>1, <1>2, <1>3 DEF HandleUnsubscribe, TypeOK, consumerVars, history

\* Shutting down only empties buffers.
LEMMA TypeCleanup == ASSUME TypeOK, BeginCleanup \/ DropParked \/ EndCleanup PROVE TypeOK'
<1>1. CASE BeginCleanup
  BY <1>1 DEF BeginCleanup, TypeOK, Bounded, consumerVars, history
<1>2. CASE DropParked
  <2>1. queue' \in [Subs -> Seq(Nat)]
    BY <1>2, EmptyFacts DEF DropParked
  <2>2. Bounded'
    BY <1>2, SubFacts, EmptyFacts, SMTT(30) DEF DropParked, TypeOK, Bounded
  <2> QED
    BY <1>2, <2>1, <2>2 DEF DropParked, TypeOK, consumerVars, history
<1>3. CASE EndCleanup
  <2>1. slowSend' \in [Subs -> Seq(Nat)]
    BY <1>3, EmptyFacts DEF EndCleanup
  <2>2. Bounded'
    BY <1>3 DEF EndCleanup, TypeOK, Bounded
  <2>3. unsubQ' \in Seq(Subs)
    BY <1>3 DEF EndCleanup
  <2> QED
    BY <1>3, <2>1, <2>2, <2>3 DEF EndCleanup, TypeOK, consumerVars, history
<1> QED
  BY <1>1, <1>2, <1>3

\* recv() takes at most one message out of the channel.
LEMMA TypeRecv == ASSUME TypeOK, NEW s \in Subs, Recv(s) \/ RecvCancel(s) PROVE TypeOK'
<1>1. CASE RecvLagged(s)
  BY <1>1 DEF RecvLagged, TypeOK, Bounded, actorVars, history
<1>2. CASE RecvWait(s) \/ RecvNone(s) \/ RecvCancel(s)
  BY <1>2 DEF RecvWait, RecvNone, RecvCancel, TypeOK, Bounded, Phases, actorVars, history
<1>3. CASE RecvMessage(s)
  <2>1. channel[s] \in Seq(Nat) /\ channel[s] # <<>> /\ received[s] \in Seq(Nat)
    BY <1>3, SubFacts DEF RecvMessage, TypeOK
  <2>2. /\ Head(channel[s]) \in Nat /\ Tail(channel[s]) \in Seq(Nat)
        /\ Len(Tail(channel[s])) = Len(channel[s]) - 1 /\ Len(channel[s]) \in Nat
    BY <2>1, TailFacts
  <2>3. Append(received[s], Head(channel[s])) \in Seq(Nat)
    BY <2>1, <2>2, AppendFacts
  <2>4. channel' \in [Subs -> Seq(Nat)] /\ received' \in [Subs -> Seq(Nat)]
    BY <1>3, <2>2, <2>3 DEF RecvMessage, TypeOK
  <2>5. Bounded'
    <3> SUFFICES ASSUME NEW t \in Subs
                 PROVE  Len(channel'[t]) <= Capacity[t] /\ Len(queue'[t]) <= MaxParked[t]
      BY DEF Bounded
    <3>1. Len(channel[t]) <= Capacity[t] /\ Capacity[t] \in Nat /\ Len(queue[t]) <= MaxParked[t]
      BY SubFacts
    <3>2. CASE t = s
      BY <1>3, <3>1, <3>2, <2>2 DEF RecvMessage, TypeOK, actorVars
    <3>3. CASE t # s
      BY <1>3, <3>1, <3>3 DEF RecvMessage, TypeOK, actorVars
    <3> QED
      BY <3>2, <3>3
  <2> QED
    BY <1>3, <2>4, <2>5 DEF RecvMessage, TypeOK, Phases, actorVars, history
<1> QED
  BY <1>1, <1>2, <1>3 DEF Recv

\* A queued unsubscribe names a subscription.
LEMMA TypeQueueUnsubscribe ==
    ASSUME TypeOK, NEW s \in Subs, QueueUnsubscribe(s) PROVE unsubQ' \in Seq(Subs)
  BY DEF QueueUnsubscribe, TypeOK

\* Dropping a Subscriber.
LEMMA TypeDiscard ==
    ASSUME TypeOK, NEW s \in Subs, Discard(s), UNCHANGED <<queue>>
    PROVE  /\ phase' \in [Subs -> Phases] /\ canCancel' \subseteq Subs
           /\ channel' \in [Subs -> Seq(Nat)] /\ Bounded'
<1>1. channel' \in [Subs -> Seq(Nat)]
  BY EmptyFacts DEF Discard, TypeOK
<1>2. Bounded'
  <2> SUFFICES ASSUME NEW t \in Subs
               PROVE  Len(channel'[t]) <= Capacity[t] /\ Len(queue'[t]) <= MaxParked[t]
    BY DEF Bounded
  <2>1. Len(channel[t]) <= Capacity[t] /\ Capacity[t] \in Nat /\ Len(queue[t]) <= MaxParked[t]
    BY SubFacts
  <2>2. CASE t = s
    BY <2>1, <2>2, EmptyFacts DEF Discard, TypeOK
  <2>3. CASE t # s
    BY <2>1, <2>3 DEF Discard, TypeOK
  <2> QED
    BY <2>2, <2>3
<1> QED
  BY <1>1, <1>2 DEF Discard, TypeOK, Phases

\* Leaving a subscription empties at most its channel.
LEMMA TypeLeave == ASSUME TypeOK, NEW s \in Subs, Leave(s) PROVE TypeOK'
<1>1. CASE UnsubscribeStart(s)
  BY <1>1 DEF UnsubscribeStart, TypeOK, Bounded, Phases, actorVars, history
<1>2. CASE UnsubscribeImmediate(s)
  <2>1. unsubQ' \in Seq(Subs)
    BY <1>2 DEF UnsubscribeImmediate, TypeOK
  <2> QED
    BY <1>2, <2>1 DEF UnsubscribeImmediate, TypeOK, Bounded, actorVars, history
<1>3. CASE UnsubscribeDone(s) \/ UnsubscribeCancelled(s) \/ DropSubscriber(s)
  <2>1. unsubQ' \in Seq(Subs)
    BY <1>3, TypeQueueUnsubscribe DEF UnsubscribeDone, UnsubscribeCancelled, DropSubscriber, TypeOK
  <2>2. Discard(s) /\ UNCHANGED <<actorVars, dropped, lastSeen, ended, history>>
    BY <1>3 DEF UnsubscribeDone, UnsubscribeCancelled, DropSubscriber
  <2>3. /\ phase' \in [Subs -> Phases] /\ canCancel' \subseteq Subs
        /\ channel' \in [Subs -> Seq(Nat)] /\ Bounded'
    BY <2>2, TypeDiscard DEF actorVars
  <2> QED
    BY <2>1, <2>2, <2>3 DEF TypeOK, actorVars, history
<1> QED
  BY <1>1, <1>2, <1>3 DEF Leave

\* A subscription starts with the buffers it has.
LEMMA TypeSubscribe ==
    ASSUME TypeOK, NEW s \in Subs, HandleSubscribe(s) \/ HandleSubscribeOrphan(s)
    PROVE  TypeOK'
<1>1. CASE HandleSubscribe(s)
  BY <1>1 DEF HandleSubscribe, TypeOK, Bounded, Phases, history
<1>2. CASE HandleSubscribeOrphan(s)
  <2>1. unsubQ' \in Seq(Subs)
    BY <1>2, TypeQueueUnsubscribe DEF HandleSubscribeOrphan
  <2> QED
    BY <1>2, <2>1 DEF HandleSubscribeOrphan, TypeOK, Bounded, Phases, actorVars, history
<1> QED
  BY <1>1, <1>2

\* Every variable keeps its type and both buffers their bounds: a channel never
\* holds more than channel_capacity messages, a parked queue never more than
\* max_parked_messages.
THEOREM TypeCorrect == Spec => []TypeOK
<1>1. Init => TypeOK
  <2> SUFFICES ASSUME Init PROVE TypeOK
    OBVIOUS
  <2>1. /\ queue \in [Subs -> Seq(Nat)] /\ slowSend \in [Subs -> Seq(Nat)]
        /\ channel \in [Subs -> Seq(Nat)] /\ received \in [Subs -> Seq(Nat)]
    BY EmptyFacts DEF Init
  <2>2. Bounded
    <3> SUFFICES ASSUME NEW s \in Subs
                 PROVE  Len(channel[s]) <= Capacity[s] /\ Len(queue[s]) <= MaxParked[s]
      BY DEF Bounded
    <3>1. channel[s] = <<>> /\ queue[s] = <<>>
      BY DEF Init
    <3>2. Capacity[s] \in Nat /\ MaxParked[s] \in Nat
      BY CapacityAssumption, MaxParkedAssumption
    <3> QED
      BY <3>1, <3>2, EmptyFacts
  <2> QED
    BY <2>1, <2>2 DEF Init, TypeOK, Phases
<1>2. TypeOK /\ [Next]_vars => TypeOK'
  <2> SUFFICES ASSUME TypeOK, [Next]_vars PROVE TypeOK'
    OBVIOUS
  <2>1. CASE UNCHANGED vars
    BY <2>1 DEF TypeOK, Bounded, vars, actorVars, consumerVars, history
  <2>2. CASE Next
    BY <2>1, <2>2, TypeHandleSend, TypeSubscribe, TypeSlowSendOk, TypeSlowSendTimeout,
       TypeSlowSendClosed, TypeDrainSend, TypeDrainPark, TypeDrainClosed, TypeHandleUnsubscribe,
       TypeCleanup, TypeRecv, TypeLeave, TypeDrainDone
       DEF Next, SlowSendDone, Drain, Finished
  <2> QED
    BY <2>1, <2>2
<1> QED
  BY <1>1, <1>2, PTL DEF Spec

-----------------------------------------------------------------------------
(* The parked bookkeeping *)

\* What one subscription's part of the state looks like: the facts of
\* OneSlowSend, and what makes them inductive.
ShapeAt(s) ==
    /\ Len(slowSend[s]) <= 1
    /\ s \in parked => slowSend[s] # <<>> /\ s \in routed
    /\ s \in draining => s \notin parked /\ s \in routed
    /\ (s \in routed /\ slowSend[s] # <<>> /\ actor \in {"running", "unsubscribing"})
          => s \in parked
    /\ queue[s] # <<>> => s \in parked \cup draining
    /\ phase[s] = "none" => /\ s \notin routed
                            /\ slowSend[s] = <<>> /\ channel[s] = <<>> /\ received[s] = <<>>
                            /\ dropped[s] = 0 /\ routedTo[s] = 0

Shape ==
    /\ actor # "running" => draining = {}
    /\ actor \in {"grace", "stopped"} => parked = {}
    /\ \A s \in Subs : ShapeAt(s)

\* No message comes from the future.
UpTo(q, n) == \A i \in 1..Len(q) : q[i] <= n

\* Emptiness and length.
LEMMA LenFacts ==
    ASSUME NEW q \in Seq(Nat), NEW m \in Nat
    PROVE  /\ Len(q) \in Nat
           /\ q = <<>> <=> Len(q) = 0
           /\ Append(q, m) # <<>>
  OBVIOUS

\* A sequence of at most one message has nothing behind its head.
LEMMA SingleTail ==
    ASSUME NEW q \in Seq(Nat), q # <<>>, Len(q) <= 1
    PROVE  Tail(q) = <<>>
  OBVIOUS

\* A subscription that a step does not touch keeps its shape.
LEMMA ShapeFrame ==
    ASSUME NEW t, ShapeAt(t), actor' = actor,
           slowSend'[t] = slowSend[t], queue'[t] = queue[t],
           channel'[t] = channel[t], received'[t] = received[t],
           dropped'[t] = dropped[t], routedTo'[t] = routedTo[t], phase'[t] = phase[t],
           t \in parked' <=> t \in parked, t \in draining' <=> t \in draining,
           t \in routed' <=> t \in routed
    PROVE  ShapeAt(t)'
  BY DEF ShapeAt

\* handle_send starts a slow send only for a subscription that has none.
LEMMA ShapeHandleSend ==
    ASSUME TypeOK, Shape, NEW T \in SUBSET Subs, HandleSend(T) PROVE Shape'
<1>1. ASSUME NEW t \in Subs PROVE ShapeAt(t)'
  <2>0. /\ ShapeAt(t) /\ actor = "running" /\ draining = {} /\ T \subseteq routed
        /\ actor' = actor /\ draining' = draining /\ phase' = phase /\ received' = received
    BY DEF Shape, HandleSend, Idle, consumerVars
  <2>1. CASE t \notin T
    <3>1. /\ slowSend'[t] = slowSend[t] /\ queue'[t] = queue[t] /\ channel'[t] = channel[t]
          /\ dropped'[t] = dropped[t] /\ routedTo'[t] = routedTo[t]
      BY <2>1 DEF HandleSend
    <3>2. (t \in parked' <=> t \in parked) /\ (t \in routed' <=> t \in routed)
      BY <2>1 DEF HandleSend
    <3> QED
      BY <2>0, <3>1, <3>2, ShapeFrame
  <2>2. CASE t \in T /\ t \in parked
    <3>1. slowSend'[t] = slowSend[t] /\ t \in parked' /\ t \in routed'
      BY <2>0, <2>2 DEF HandleSend
    <3> QED
      BY <2>0, <2>2, <3>1 DEF ShapeAt
  <2>3. CASE t \in T /\ t \notin parked
    <3>1. slowSend[t] = <<>> /\ queue[t] = <<>> /\ phase[t] # "none"
      BY <2>0, <2>3 DEF ShapeAt
    <3>2. queue'[t] = queue[t]
      BY <2>3 DEF HandleSend
    <3>3. CASE t \in parked'
      <4>1. t \in routed' /\ slowSend'[t] = Append(<<>>, published + 1)
        BY <2>0, <2>3, <3>1, <3>3 DEF HandleSend
      <4>2. published + 1 \in Nat
        BY DEF TypeOK
      <4>3. slowSend'[t] # <<>> /\ Len(slowSend'[t]) <= 1
        BY <4>1, <4>2, EmptyFacts, AppendFacts, LenFacts
      <4> QED
        BY <2>0, <3>1, <3>2, <3>3, <4>1, <4>3 DEF ShapeAt
    <3>4. CASE t \notin parked'
      <4>1. slowSend'[t] = <<>>
        BY <2>3, <3>1, <3>4 DEF HandleSend
      <4> QED
        BY <2>0, <3>1, <3>2, <3>4, <4>1, EmptyFacts DEF ShapeAt
    <3> QED
      BY <3>3, <3>4
  <2> QED
    BY <2>1, <2>2, <2>3
<1> QED
  BY <1>1 DEF Shape, HandleSend, Idle

\* A new subscription has nothing parked and nothing in flight.
LEMMA ShapeSubscribe ==
    ASSUME TypeOK, Shape, NEW s \in Subs, HandleSubscribe(s) \/ HandleSubscribeOrphan(s)
    PROVE  Shape'
<1>1. ASSUME NEW t \in Subs PROVE ShapeAt(t)'
  <2>1. CASE HandleSubscribe(s)
    BY <2>1 DEF HandleSubscribe, Idle, Shape, ShapeAt, TypeOK, history
  <2>2. CASE HandleSubscribeOrphan(s)
    BY <2>2 DEF HandleSubscribeOrphan, Shape, ShapeAt, TypeOK, actorVars, history
  <2> QED
    BY <2>1, <2>2
<1> QED
  BY <1>1 DEF Shape, HandleSubscribe, HandleSubscribeOrphan, actorVars

\* A finished slow send leaves none behind; its queue is drained or dropped.
LEMMA ShapeSlowSendDone ==
    ASSUME TypeOK, Shape, NEW s \in Subs, SlowSendDone(s) PROVE Shape'
<1>1. slowSend[s] \in Seq(Nat) /\ slowSend[s] # <<>> /\ Len(slowSend[s]) <= 1 /\ ShapeAt(s)
  BY SubFacts DEF Shape, ShapeAt, SlowSendDone, SlowSendOk, SlowSendTimeout, SlowSendClosed
<1>2. slowSend'[s] = <<>> /\ \A t \in Subs : t # s => slowSend'[t] = slowSend[t]
  BY <1>1, SingleTail DEF SlowSendDone, SlowSendOk, SlowSendTimeout, SlowSendClosed, TypeOK
<1>3. /\ actor' = actor /\ phase' = phase /\ received' = received /\ routedTo' = routedTo
      /\ actor = "grace" \/ (actor = "running" /\ draining = {})
  BY DEF SlowSendDone, SlowSendOk, SlowSendTimeout, SlowSendClosed, PollsSlowSends, Idle,
         consumerVars, history
<1>4. phase[s] # "none"
  BY <1>1 DEF ShapeAt
<1>5. CASE SlowSendOk(s) \/ SlowSendTimeout(s)
  <2>1. /\ queue' = queue /\ routed' = routed
        /\ parked' = parked \ {s} /\ draining' = draining \cup ({s} \cap parked)
    BY <1>5 DEF SlowSendOk, SlowSendTimeout, Resume
  <2>2. ShapeAt(s)'
    BY <1>1, <1>2, <1>3, <1>4, <2>1, EmptyFacts DEF ShapeAt
  <2>3. ASSUME NEW t \in Subs, t # s PROVE ShapeAt(t)'
    <3>1. channel'[t] = channel[t] /\ dropped'[t] = dropped[t]
      BY <1>5, <2>3 DEF SlowSendOk, SlowSendTimeout, TypeOK
    <3> QED
      BY <1>2, <1>3, <2>1, <2>3, <3>1, ShapeFrame DEF Shape
  <2> QED
    BY <1>3, <2>1, <2>2, <2>3 DEF Shape
<1>6. CASE SlowSendClosed(s)
  <2>1. CASE s \in parked
    <3>1. /\ queue'[s] = <<>> /\ draining' = draining /\ channel' = channel
          /\ routed' = routed \ {s} /\ parked' = parked \ {s}
          /\ \A t \in Subs : t # s => queue'[t] = queue[t] /\ dropped'[t] = dropped[t]
      BY <1>6, <2>1 DEF SlowSendClosed, TypeOK
    <3>2. ShapeAt(s)'
      BY <1>1, <1>2, <1>3, <1>4, <2>1, <3>1, EmptyFacts DEF ShapeAt
    <3>3. ASSUME NEW t \in Subs, t # s PROVE ShapeAt(t)'
      BY <1>2, <1>3, <3>1, <3>3, ShapeFrame DEF Shape
    <3> QED
      BY <1>3, <3>1, <3>2, <3>3 DEF Shape
  <2>2. CASE s \notin parked
    <3>1. UNCHANGED <<queue, draining, channel, routed, parked, dropped>>
      BY <1>6, <2>2 DEF SlowSendClosed
    <3>2. ShapeAt(s)'
      BY <1>1, <1>2, <1>3, <1>4, <2>2, <3>1, EmptyFacts DEF ShapeAt
    <3>3. ASSUME NEW t \in Subs, t # s PROVE ShapeAt(t)'
      BY <1>2, <1>3, <3>1, <3>3, ShapeFrame DEF Shape
    <3> QED
      BY <1>3, <3>1, <3>2, <3>3 DEF Shape
  <2> QED
    BY <2>1, <2>2
<1> QED
  BY <1>5, <1>6 DEF SlowSendDone

\* drain_parked parks again with one slow send, or leaves an empty queue.
LEMMA ShapeDrain == ASSUME TypeOK, Shape, NEW s \in Subs, Drain(s) PROVE Shape'
<1>1. /\ s \in draining /\ actor = "running" /\ ShapeAt(s)
      /\ s \notin parked /\ s \in routed /\ slowSend[s] = <<>> /\ phase[s] # "none"
  BY DEF Shape, ShapeAt, Drain, DrainSend, DrainPark, DrainClosed, DrainDone
<1>2. /\ actor' = actor /\ phase' = phase /\ received' = received /\ routedTo' = routedTo
  BY DEF Drain, DrainSend, DrainPark, DrainClosed, DrainDone, consumerVars, history
<1>3. CASE DrainSend(s)
  <2>1. /\ UNCHANGED <<draining, routed, parked, slowSend, dropped>>
        /\ \A t \in Subs : t # s => channel'[t] = channel[t] /\ queue'[t] = queue[t]
    BY <1>3 DEF DrainSend, TypeOK
  <2>2. ShapeAt(s)'
    BY <1>1, <1>2, <2>1 DEF ShapeAt
  <2>3. ASSUME NEW t \in Subs, t # s PROVE ShapeAt(t)'
    BY <1>2, <2>1, <2>3, ShapeFrame DEF Shape
  <2> QED
    BY <1>1, <1>2, <2>1, <2>2, <2>3 DEF Shape
<1>4. CASE DrainPark(s)
  <2>1. /\ UNCHANGED <<routed, channel, dropped>>
        /\ parked' = parked \cup {s} /\ draining' = draining \ {s}
        /\ \A t \in Subs : t # s => slowSend'[t] = slowSend[t] /\ queue'[t] = queue[t]
    BY <1>4 DEF DrainPark, TypeOK
  <2>2. slowSend'[s] = Append(<<>>, Head(queue[s])) /\ Head(queue[s]) \in Nat
    BY <1>1, <1>4, SubFacts, TailFacts DEF DrainPark, TypeOK
  <2>3. slowSend'[s] # <<>> /\ Len(slowSend'[s]) <= 1
    BY <2>2, EmptyFacts, AppendFacts, LenFacts
  <2>4. ShapeAt(s)'
    BY <1>1, <1>2, <2>1, <2>3 DEF ShapeAt
  <2>5. ASSUME NEW t \in Subs, t # s PROVE ShapeAt(t)'
    BY <1>2, <2>1, <2>5, ShapeFrame DEF Shape
  <2> QED
    BY <1>1, <1>2, <2>1, <2>4, <2>5 DEF Shape
<1>5. CASE DrainClosed(s)
  <2>1. /\ UNCHANGED <<parked, slowSend, channel>> /\ queue'[s] = <<>>
        /\ routed' = routed \ {s} /\ draining' = draining \ {s}
        /\ \A t \in Subs : t # s => dropped'[t] = dropped[t] /\ queue'[t] = queue[t]
    BY <1>5 DEF DrainClosed, TypeOK
  <2>2. ShapeAt(s)'
    BY <1>1, <1>2, <2>1, EmptyFacts DEF ShapeAt
  <2>3. ASSUME NEW t \in Subs, t # s PROVE ShapeAt(t)'
    BY <1>2, <2>1, <2>3, ShapeFrame DEF Shape
  <2> QED
    BY <1>1, <1>2, <2>1, <2>2, <2>3 DEF Shape
<1>6. CASE DrainDone(s)
  <2>1. /\ UNCHANGED <<parked, slowSend, channel, routed, queue, dropped>>
        /\ draining' = draining \ {s} /\ queue[s] = <<>>
    BY <1>6 DEF DrainDone
  <2>2. ShapeAt(s)'
    BY <1>1, <1>2, <2>1, EmptyFacts DEF ShapeAt
  <2>3. ASSUME NEW t \in Subs, t # s PROVE ShapeAt(t)'
    BY <1>2, <2>1, <2>3, ShapeFrame DEF Shape
  <2> QED
    BY <1>1, <1>2, <2>1, <2>2, <2>3 DEF Shape
<1> QED
  BY <1>3, <1>4, <1>5, <1>6 DEF Drain

\* The next unsubscribe request names a subscription.
LEMMA UnsubHead == ASSUME TypeOK, HandleUnsubscribe PROVE Head(unsubQ) \in Subs
  BY DEF HandleUnsubscribe, TypeOK

\* handle_unsubscribe removes the parked entry and its queue together.
LEMMA ShapeHandleUnsubscribe == ASSUME TypeOK, Shape, HandleUnsubscribe PROVE Shape'
<1>0. PICK s \in Subs : s = Head(unsubQ)
  BY UnsubHead
<1>1. /\ actor = "running" /\ draining = {}
      /\ UNCHANGED <<actor, draining, slowSend, channel, dropped, phase, received, routedTo>>
      /\ parked' = parked \ {s} /\ routed' = routed \ {s}
      /\ queue' = [queue EXCEPT ![s] = <<>>]
  BY <1>0 DEF HandleUnsubscribe, Idle, consumerVars, history
<1>2. queue'[s] = <<>> /\ \A t \in Subs : t # s => queue'[t] = queue[t]
  BY <1>1 DEF TypeOK
<1>3. ShapeAt(s)'
  BY <1>1, <1>2 DEF Shape, ShapeAt
<1>4. ASSUME NEW t \in Subs, t # s PROVE ShapeAt(t)'
  BY <1>1, <1>2, <1>4, ShapeFrame DEF Shape
<1> QED
  BY <1>1, <1>3, <1>4 DEF Shape

\* Cleanup drops every queue before it lets slow sends finish unparked.
LEMMA ShapeCleanup == ASSUME TypeOK, Shape, BeginCleanup \/ DropParked \/ EndCleanup PROVE Shape'
<1>1. CASE BeginCleanup
  BY <1>1 DEF BeginCleanup, Idle, Shape, ShapeAt, consumerVars, history
<1>2. CASE DropParked
  <2>1. /\ actor = "unsubscribing" /\ actor' = "grace" /\ parked' = {} /\ draining = {}
        /\ UNCHANGED <<draining, routed, slowSend, channel, dropped, phase, received, routedTo>>
        /\ \A t \in Subs : queue'[t] = <<>>
    BY <1>2 DEF DropParked, Shape, consumerVars, history
  <2>2. ASSUME NEW t \in Subs PROVE ShapeAt(t)'
    BY <2>1 DEF Shape, ShapeAt
  <2> QED
    BY <2>1, <2>2 DEF Shape
<1>3. CASE EndCleanup
  <2>1. /\ actor' = "stopped" /\ parked = {} /\ draining = {} /\ routed' = {}
        /\ UNCHANGED <<draining, parked, queue, channel, dropped, phase, received, routedTo>>
        /\ \A t \in Subs : slowSend'[t] = <<>>
    BY <1>3 DEF EndCleanup, Shape, consumerVars, history
  <2>2. ASSUME NEW t \in Subs PROVE ShapeAt(t)'
    BY <2>1, EmptyFacts DEF Shape, ShapeAt
  <2> QED
    BY <2>1, <2>2 DEF Shape
<1> QED
  BY <1>1, <1>2, <1>3

\* No step of a consumer changes the actor's bookkeeping.
LEMMA ShapeConsumer ==
    ASSUME TypeOK, Shape, NEW s \in Subs, Recv(s) \/ RecvCancel(s) \/ Leave(s) PROVE Shape'
<1>1. UNCHANGED <<actorVars, dropped, routedTo>> /\ phase[s] # "none" /\ phase'[s] # "none"
  BY DEF Recv, RecvLagged, RecvWait, RecvMessage, RecvNone, RecvCancel, Leave, UnsubscribeStart,
         UnsubscribeDone, UnsubscribeCancelled, UnsubscribeImmediate, DropSubscriber, Discard,
         TypeOK, Phases, history
<1>2. \A t \in Subs : t # s =>
        phase'[t] = phase[t] /\ channel'[t] = channel[t] /\ received'[t] = received[t]
  BY DEF Recv, RecvLagged, RecvWait, RecvMessage, RecvNone, RecvCancel, Leave, UnsubscribeStart,
         UnsubscribeDone, UnsubscribeCancelled, UnsubscribeImmediate, DropSubscriber, Discard,
         TypeOK, history
<1>3. ShapeAt(s)'
  BY <1>1 DEF Shape, ShapeAt, actorVars
<1>4. ASSUME NEW t \in Subs, t # s PROVE ShapeAt(t)'
  BY <1>1, <1>2, <1>4, ShapeFrame DEF Shape, actorVars
<1> QED
  BY <1>1, <1>3, <1>4 DEF Shape, actorVars

\* The strengthened bookkeeping holds in every reachable state.
LEMMA ShapeInvariant == Spec => []Shape
<1>1. Init => Shape
  <2> SUFFICES ASSUME Init PROVE Shape
    OBVIOUS
  <2>1. ASSUME NEW s \in Subs PROVE ShapeAt(s)
    BY EmptyFacts DEF Init, ShapeAt
  <2> QED
    BY <2>1 DEF Init, Shape
<1>2. TypeOK /\ Shape /\ [Next]_vars => Shape'
  <2> SUFFICES ASSUME TypeOK, Shape, [Next]_vars PROVE Shape'
    OBVIOUS
  <2>1. CASE UNCHANGED vars
    BY <2>1 DEF Shape, ShapeAt, vars, actorVars, consumerVars, history
  <2>2. CASE Next
    BY <2>1, <2>2, ShapeHandleSend, ShapeSubscribe, ShapeSlowSendDone, ShapeDrain,
       ShapeHandleUnsubscribe, ShapeCleanup, ShapeConsumer
       DEF Next, Finished
  <2> QED
    BY <2>1, <2>2
<1> QED
  BY <1>1, <1>2, TypeCorrect, PTL DEF Spec

\* The actor's bookkeeping of slow sends holds in every behaviour: one send in
\* flight at most, every parked entry has its send, every routed subscription
\* with a send is parked until cleanup, nothing waits without a send or a drain.
THEOREM OneSlowSendHolds == Spec => []OneSlowSend
<1>1. Shape => OneSlowSend
  BY DEF Shape, ShapeAt, OneSlowSend
<1> QED
  BY <1>1, ShapeInvariant, PTL

-----------------------------------------------------------------------------
(* Order *)

Below(q, m) == \A i \in 1..Len(q) : q[i] < m

\* The elements of a sequence with one more message, and of one without its head.
LEMMA AppendElements ==
    ASSUME NEW q \in Seq(Nat), NEW m \in Nat
    PROVE  /\ \A i \in 1..Len(q) : Append(q, m)[i] = q[i]
           /\ Append(q, m)[Len(q) + 1] = m
  OBVIOUS

\* The elements of a sequence without its head.
LEMMA TailElements ==
    ASSUME NEW q \in Seq(Nat), q # <<>>
    PROVE  /\ \A i \in 1..Len(Tail(q)) : Tail(q)[i] = q[i + 1] /\ i + 1 \in 1..Len(q)
           /\ Head(q) = q[1] /\ 1 \in 1..Len(q)
           /\ \A i \in 1..Len(q) : q[i] \in Nat
  OBVIOUS

\* The empty sequence is in every order.
LEMMA EmptyOrder ==
    ASSUME NEW q
    PROVE  /\ Sorted(<<>>) /\ Before(<<>>, q) /\ Before(q, <<>>)
           /\ \A n : UpTo(<<>>, n)
  BY DEF Sorted, Before, UpTo

\* A message later than all of a sequence can be appended to it.
LEMMA PutOrder ==
    ASSUME NEW q \in Seq(Nat), NEW m \in Nat, Sorted(q), Below(q, m)
    PROVE  Sorted(Append(q, m))
<1> SUFFICES ASSUME NEW i \in 1..Len(Append(q, m)), NEW j \in 1..Len(Append(q, m)), i < j
             PROVE  Append(q, m)[i] < Append(q, m)[j]
  BY DEF Sorted
<1>1. Len(Append(q, m)) = Len(q) + 1 /\ Len(q) \in Nat
  BY AppendFacts
<1>2. i \in 1..Len(q) /\ (j \in 1..Len(q) \/ j = Len(q) + 1)
  BY <1>1
<1> QED
  BY <1>2, AppendElements DEF Sorted, Below

\* A message later than all of p may follow q when p comes before q.
LEMMA PutBefore ==
    ASSUME NEW p \in Seq(Nat), NEW q \in Seq(Nat), NEW m \in Nat, Before(p, q), Below(p, m)
    PROVE  Before(p, Append(q, m))
<1> SUFFICES ASSUME NEW i \in 1..Len(p), NEW j \in 1..Len(Append(q, m))
             PROVE  p[i] < Append(q, m)[j]
  BY DEF Before
<1>1. j \in 1..Len(q) \/ j = Len(q) + 1
  BY AppendFacts, SMTT(30)
<1> QED
  BY <1>1, AppendElements DEF Before, Below

\* A message earlier than all of q may end p when p comes before q.
LEMMA BeforePut ==
    ASSUME NEW p \in Seq(Nat), NEW q \in Seq(Nat), NEW m \in Nat, Before(p, q),
           \A j \in 1..Len(q) : m < q[j]
    PROVE  Before(Append(p, m), q)
<1> SUFFICES ASSUME NEW i \in 1..Len(Append(p, m)), NEW j \in 1..Len(q)
             PROVE  Append(p, m)[i] < q[j]
  BY DEF Before
<1>1. i \in 1..Len(p) \/ i = Len(p) + 1
  BY AppendFacts, SMTT(30)
<1> QED
  BY <1>1, AppendElements DEF Before

\* Dropping the head of a sequence keeps every order it is part of.
LEMMA TailOrder ==
    ASSUME NEW q \in Seq(Nat), q # <<>>
    PROVE  /\ Sorted(q) => Sorted(Tail(q))
           /\ \A r : Before(q, r) => Before(Tail(q), r)
           /\ \A r : Before(r, q) => Before(r, Tail(q))
           /\ \A n : UpTo(q, n) => UpTo(Tail(q), n)
<1>1. Sorted(q) => Sorted(Tail(q))
  BY TailElements, TailFacts DEF Sorted
<1>2. ASSUME NEW r, Before(q, r) PROVE Before(Tail(q), r)
  BY <1>2, TailElements DEF Before
<1>3. ASSUME NEW r, Before(r, q) PROVE Before(r, Tail(q))
  BY <1>3, TailElements DEF Before
<1>4. ASSUME NEW n, UpTo(q, n) PROVE UpTo(Tail(q), n)
  BY <1>4, TailElements DEF UpTo
<1> QED
  BY <1>1, <1>2, <1>3, <1>4

\* Moving the head of one stage to the end of the stage in front of it.
LEMMA MoveOrder ==
    ASSUME NEW p \in Seq(Nat), NEW q \in Seq(Nat), q # <<>>,
           Sorted(p), Sorted(q), Before(p, q)
    PROVE  /\ Sorted(Append(p, Head(q))) /\ Sorted(Tail(q))
           /\ Before(Append(p, Head(q)), Tail(q))
<1>1. Head(q) \in Nat /\ Tail(q) \in Seq(Nat) /\ Len(Tail(q)) = Len(q) - 1 /\ Len(q) \in Nat
  BY TailFacts
<1>2. Below(p, Head(q))
  BY TailElements DEF Before, Below
<1>3. \A j \in 1..Len(Tail(q)) : Head(q) < Tail(q)[j]
  <2> SUFFICES ASSUME NEW j \in 1..Len(Tail(q)) PROVE Head(q) < Tail(q)[j]
    OBVIOUS
  <2>1. Tail(q)[j] = q[j + 1] /\ j + 1 \in 1..Len(q) /\ Head(q) = q[1] /\ 1 \in 1..Len(q)
    BY TailElements
  <2>2. 1 < j + 1
    BY <1>1
  <2> QED
    BY <2>1, <2>2 DEF Sorted
<1>4. Before(p, Tail(q))
  BY TailOrder
<1> QED
  BY <1>1, <1>2, <1>3, <1>4, PutOrder, BeforePut, TailOrder

\* Such a move seen from any other stage.
LEMMA MoveOther ==
    ASSUME NEW p \in Seq(Nat), NEW q \in Seq(Nat), q # <<>>, NEW r \in Seq(Nat)
    PROVE  /\ Before(p, r) /\ Before(q, r) => Before(Append(p, Head(q)), r)
           /\ Before(r, p) /\ Before(r, q) => Before(r, Append(p, Head(q)))
           /\ \A n : UpTo(p, n) /\ UpTo(q, n) => UpTo(Append(p, Head(q)), n)
<1>1. Head(q) \in Nat
  BY TailFacts
<1>2. ASSUME Before(p, r), Before(q, r) PROVE Before(Append(p, Head(q)), r)
  <2>1. \A j \in 1..Len(r) : Head(q) < r[j]
    BY <1>2, TailElements DEF Before
  <2> QED
    BY <1>1, <1>2, <2>1, BeforePut
<1>3. ASSUME Before(r, p), Before(r, q) PROVE Before(r, Append(p, Head(q)))
  <2>1. Below(r, Head(q))
    BY <1>3, TailElements DEF Before, Below
  <2> QED
    BY <1>1, <1>3, <2>1, PutBefore
<1>4. ASSUME NEW n, UpTo(p, n), UpTo(q, n) PROVE UpTo(Append(p, Head(q)), n)
  <2> SUFFICES ASSUME NEW i \in 1..Len(Append(p, Head(q)))
               PROVE  Append(p, Head(q))[i] <= n
    BY DEF UpTo
  <2>1. i \in 1..Len(p) \/ i = Len(p) + 1
    BY <1>1, AppendFacts
  <2>2. Head(q) <= n
    BY <1>4, TailElements DEF UpTo
  <2> QED
    BY <1>1, <1>4, <2>1, <2>2, AppendElements DEF UpTo
<1> QED
  BY <1>2, <1>3, <1>4

\* InOrder for one subscription, and no message from the future.
OrderAt(s) ==
    /\ Sorted(received[s]) /\ Sorted(channel[s]) /\ Sorted(slowSend[s]) /\ Sorted(queue[s])
    /\ Before(received[s], channel[s]) /\ Before(received[s], slowSend[s])
    /\ Before(received[s], queue[s])   /\ Before(channel[s], slowSend[s])
    /\ Before(channel[s], queue[s])    /\ Before(slowSend[s], queue[s])
    /\ UpTo(received[s], published)    /\ UpTo(channel[s], published)
    /\ UpTo(slowSend[s], published)    /\ UpTo(queue[s], published)

Order == \A s \in Subs : OrderAt(s)

\* A step that leaves each stage of a subscription alone or empties it.
LEMMA OrderFrame ==
    ASSUME NEW t, OrderAt(t), published' = published,
           received'[t] = received[t],
           channel'[t] \in {channel[t], <<>>},
           slowSend'[t] \in {slowSend[t], <<>>},
           queue'[t] \in {queue[t], <<>>}
    PROVE  OrderAt(t)'
  BY EmptyOrder DEF OrderAt

\* The stages of one subscription are sequences of messages.
LEMMA StageFacts ==
    ASSUME TypeOK, NEW s \in Subs
    PROVE  /\ received[s] \in Seq(Nat) /\ channel[s] \in Seq(Nat)
           /\ slowSend[s] \in Seq(Nat) /\ queue[s] \in Seq(Nat)
  BY DEF TypeOK

\* What is not from the future is below the next message.
LEMMA NextMessage ==
    ASSUME NEW q \in Seq(Nat), NEW n \in Nat, UpTo(q, n)
    PROVE  Below(q, n + 1) /\ UpTo(q, n + 1) /\ UpTo(Append(q, n + 1), n + 1)
<1>1. \A i \in 1..Len(q) : q[i] \in Nat /\ q[i] <= n
  BY DEF UpTo
<1>2. Below(q, n + 1) /\ UpTo(q, n + 1)
  BY <1>1 DEF Below, UpTo
<1>3. UpTo(Append(q, n + 1), n + 1)
  <2> SUFFICES ASSUME NEW i \in 1..Len(Append(q, n + 1))
               PROVE  Append(q, n + 1)[i] <= n + 1
    BY DEF UpTo
  <2>1. i \in 1..Len(q) \/ i = Len(q) + 1
    BY AppendFacts
  <2> QED
    BY <1>2, <2>1, AppendElements DEF UpTo
<1> QED
  BY <1>2, <1>3

\* The new message goes behind everything the subscription still has.
LEMMA OrderHandleSend ==
    ASSUME TypeOK, Shape, Order, NEW T \in SUBSET Subs, HandleSend(T) PROVE Order'
<1> SUFFICES ASSUME NEW t \in Subs PROVE OrderAt(t)'
  BY DEF Order
<1> DEFINE m == published + 1
<1>1. /\ OrderAt(t) /\ ShapeAt(t) /\ actor = "running" /\ draining = {} /\ T \subseteq routed
      /\ published' = m /\ received' = received /\ published \in Nat /\ m \in Nat
  BY DEF Order, Shape, HandleSend, Idle, TypeOK
<1>2. /\ received[t] \in Seq(Nat) /\ channel[t] \in Seq(Nat)
      /\ slowSend[t] \in Seq(Nat) /\ queue[t] \in Seq(Nat)
  BY StageFacts
<1>3. /\ Below(received[t], m) /\ UpTo(received[t], m)
      /\ Below(channel[t], m)  /\ UpTo(channel[t], m)  /\ UpTo(Append(channel[t], m), m)
      /\ Below(slowSend[t], m) /\ UpTo(slowSend[t], m) /\ UpTo(Append(slowSend[t], m), m)
      /\ Below(queue[t], m)    /\ UpTo(queue[t], m)    /\ UpTo(Append(queue[t], m), m)
  BY <1>1, <1>2, NextMessage DEF OrderAt
<1>4. CASE channel'[t] = channel[t] /\ slowSend'[t] = slowSend[t] /\ queue'[t] = queue[t]
  BY <1>1, <1>3, <1>4 DEF OrderAt
<1>5. CASE /\ t \in parked
           /\ channel'[t] = channel[t] /\ slowSend'[t] = slowSend[t]
           /\ queue'[t] = Append(queue[t], m)
  <2>1. /\ Sorted(Append(queue[t], m)) /\ Before(received[t], Append(queue[t], m))
        /\ Before(channel[t], Append(queue[t], m)) /\ Before(slowSend[t], Append(queue[t], m))
    BY <1>1, <1>2, <1>3, PutOrder, PutBefore DEF OrderAt
  <2> QED
    BY <1>1, <1>3, <1>5, <2>1 DEF OrderAt
<1>6. CASE /\ t \in T \ parked
           /\ channel'[t] = channel[t] /\ slowSend'[t] = Append(slowSend[t], m)
           /\ queue'[t] = queue[t]
  <2>1. queue[t] = <<>>
    BY <1>1, <1>6 DEF ShapeAt
  <2>2. /\ Sorted(Append(slowSend[t], m)) /\ Before(received[t], Append(slowSend[t], m))
        /\ Before(channel[t], Append(slowSend[t], m))
    BY <1>1, <1>2, <1>3, PutOrder, PutBefore DEF OrderAt
  <2> QED
    BY <1>1, <1>3, <1>6, <2>1, <2>2, EmptyOrder DEF OrderAt
<1>7. CASE /\ t \in T \ parked
           /\ channel'[t] = Append(channel[t], m) /\ slowSend'[t] = slowSend[t]
           /\ queue'[t] = queue[t]
  <2>1. queue[t] = <<>> /\ slowSend[t] = <<>>
    BY <1>1, <1>7 DEF ShapeAt
  <2>2. Sorted(Append(channel[t], m)) /\ Before(received[t], Append(channel[t], m))
    BY <1>1, <1>2, <1>3, PutOrder, PutBefore DEF OrderAt
  <2> QED
    BY <1>1, <1>3, <1>7, <2>1, <2>2, EmptyOrder DEF OrderAt
<1> QED
  BY <1>4, <1>5, <1>6, <1>7 DEF HandleSend

\* A completed slow send becomes the last message of the channel.
LEMMA OrderSlowSendDone ==
    ASSUME TypeOK, Order, NEW s \in Subs, SlowSendDone(s) PROVE Order'
<1> SUFFICES ASSUME NEW t \in Subs PROVE OrderAt(t)'
  BY DEF Order
<1>1. /\ OrderAt(t) /\ OrderAt(s) /\ published' = published /\ received' = received
      /\ slowSend[s] # <<>>
  BY DEF Order, SlowSendDone, SlowSendOk, SlowSendTimeout, SlowSendClosed, history
<1>2. /\ received[s] \in Seq(Nat) /\ channel[s] \in Seq(Nat)
      /\ slowSend[s] \in Seq(Nat) /\ queue[s] \in Seq(Nat)
  BY StageFacts
<1>3. CASE t # s
  BY <1>1, <1>3, OrderFrame DEF SlowSendDone, SlowSendOk, SlowSendTimeout, SlowSendClosed, TypeOK
<1>4. CASE t = s /\ SlowSendOk(s)
  <2>1. /\ channel'[s] = Append(channel[s], Head(slowSend[s])) /\ slowSend'[s] = Tail(slowSend[s])
        /\ queue' = queue
    BY <1>4 DEF SlowSendOk, TypeOK
  <2>2. /\ Sorted(channel'[s]) /\ Sorted(slowSend'[s]) /\ Before(channel'[s], slowSend'[s])
    BY <1>1, <1>2, <2>1, MoveOrder DEF OrderAt
  <2>3. /\ Before(received[s], channel'[s]) /\ Before(channel'[s], queue[s])
        /\ UpTo(channel'[s], published)
    BY <1>1, <1>2, <2>1, MoveOther DEF OrderAt
  <2>4. /\ Before(received[s], slowSend'[s]) /\ Before(slowSend'[s], queue[s])
        /\ UpTo(slowSend'[s], published)
    BY <1>1, <1>2, <2>1, TailOrder DEF OrderAt
  <2> QED
    BY <1>1, <1>4, <2>1, <2>2, <2>3, <2>4 DEF OrderAt
<1>5. CASE t = s /\ (SlowSendTimeout(s) \/ SlowSendClosed(s))
  <2>1. /\ channel' = channel /\ slowSend'[s] = Tail(slowSend[s])
        /\ queue'[s] \in {queue[s], <<>>}
    BY <1>5 DEF SlowSendTimeout, SlowSendClosed, TypeOK
  <2>2. /\ Sorted(slowSend'[s]) /\ Before(received[s], slowSend'[s])
        /\ Before(channel[s], slowSend'[s]) /\ Before(slowSend'[s], queue[s])
        /\ UpTo(slowSend'[s], published)
    BY <1>1, <1>2, <2>1, TailOrder DEF OrderAt
  <2> QED
    BY <1>1, <1>5, <2>1, <2>2, EmptyOrder DEF OrderAt
<1> QED
  BY <1>3, <1>4, <1>5 DEF SlowSendDone

\* drain_parked moves the head of the queue, with no slow send in between.
LEMMA OrderDrain ==
    ASSUME TypeOK, Shape, Order, NEW s \in Subs, Drain(s) PROVE Order'
<1> SUFFICES ASSUME NEW t \in Subs PROVE OrderAt(t)'
  BY DEF Order
<1>1. /\ OrderAt(t) /\ OrderAt(s) /\ published' = published /\ received' = received
      /\ slowSend[s] = <<>>
  BY DEF Order, Shape, ShapeAt, Drain, DrainSend, DrainPark, DrainClosed, DrainDone, history
<1>2. /\ received[s] \in Seq(Nat) /\ channel[s] \in Seq(Nat)
      /\ slowSend[s] \in Seq(Nat) /\ queue[s] \in Seq(Nat)
  BY StageFacts
<1>3. CASE t # s
  BY <1>1, <1>3, OrderFrame DEF Drain, DrainSend, DrainPark, DrainClosed, DrainDone, TypeOK
<1>4. CASE t = s /\ DrainSend(s)
  <2>1. /\ channel'[s] = Append(channel[s], Head(queue[s])) /\ queue'[s] = Tail(queue[s])
        /\ slowSend'[s] = <<>> /\ queue[s] # <<>>
    BY <1>1, <1>4 DEF DrainSend, TypeOK
  <2>2. Sorted(channel'[s]) /\ Sorted(queue'[s]) /\ Before(channel'[s], queue'[s])
    BY <1>1, <1>2, <2>1, MoveOrder DEF OrderAt
  <2>3. Before(received[s], channel'[s]) /\ UpTo(channel'[s], published)
    BY <1>1, <1>2, <2>1, MoveOther DEF OrderAt
  <2>4. Before(received[s], queue'[s]) /\ UpTo(queue'[s], published)
    BY <1>1, <1>2, <2>1, TailOrder DEF OrderAt
  <2> QED
    BY <1>1, <1>4, <2>1, <2>2, <2>3, <2>4, EmptyOrder DEF OrderAt
<1>5. CASE t = s /\ DrainPark(s)
  <2>1. /\ slowSend'[s] = Append(slowSend[s], Head(queue[s])) /\ queue'[s] = Tail(queue[s])
        /\ channel' = channel /\ queue[s] # <<>>
    BY <1>5 DEF DrainPark, TypeOK
  <2>2. Sorted(slowSend'[s]) /\ Sorted(queue'[s]) /\ Before(slowSend'[s], queue'[s])
    BY <1>1, <1>2, <2>1, MoveOrder DEF OrderAt
  <2>3. /\ Before(received[s], slowSend'[s]) /\ Before(channel[s], slowSend'[s])
        /\ UpTo(slowSend'[s], published)
    BY <1>1, <1>2, <2>1, MoveOther DEF OrderAt
  <2>4. /\ Before(received[s], queue'[s]) /\ Before(channel[s], queue'[s])
        /\ UpTo(queue'[s], published)
    BY <1>1, <1>2, <2>1, TailOrder DEF OrderAt
  <2> QED
    BY <1>1, <1>5, <2>1, <2>2, <2>3, <2>4 DEF OrderAt
<1>6. CASE t = s /\ (DrainClosed(s) \/ DrainDone(s))
  BY <1>1, <1>6, OrderFrame DEF DrainClosed, DrainDone, TypeOK
<1> QED
  BY <1>3, <1>4, <1>5, <1>6 DEF Drain

\* The other steps of the actor only empty stages.
LEMMA OrderActorOther ==
    ASSUME TypeOK, Order,
           \/ \E s \in Subs : HandleSubscribe(s) \/ HandleSubscribeOrphan(s)
           \/ HandleUnsubscribe \/ BeginCleanup \/ DropParked \/ EndCleanup
    PROVE  Order'
<1> SUFFICES ASSUME NEW t \in Subs PROVE OrderAt(t)'
  BY DEF Order
<1>1. /\ OrderAt(t) /\ published' = published /\ received' = received /\ channel' = channel
      /\ slowSend'[t] \in {slowSend[t], <<>>} /\ queue'[t] \in {queue[t], <<>>}
  BY DEF Order, HandleSubscribe, HandleSubscribeOrphan, HandleUnsubscribe, BeginCleanup,
         DropParked, EndCleanup, TypeOK, actorVars, history
<1> QED
  BY <1>1, OrderFrame

\* recv() moves the head of the channel to the end of what was received.
LEMMA OrderConsumer ==
    ASSUME TypeOK, Order, NEW s \in Subs, Recv(s) \/ RecvCancel(s) \/ Leave(s) PROVE Order'
<1> SUFFICES ASSUME NEW t \in Subs PROVE OrderAt(t)'
  BY DEF Order
<1>1. OrderAt(t) /\ OrderAt(s)
  BY DEF Order
<1>2. /\ received[s] \in Seq(Nat) /\ channel[s] \in Seq(Nat)
      /\ slowSend[s] \in Seq(Nat) /\ queue[s] \in Seq(Nat)
  BY StageFacts
<1>3. CASE RecvMessage(s)
  <2>1. /\ published' = published /\ slowSend' = slowSend /\ queue' = queue /\ channel[s] # <<>>
        /\ received'[s] = Append(received[s], Head(channel[s])) /\ channel'[s] = Tail(channel[s])
    BY <1>3 DEF RecvMessage, TypeOK, actorVars
  <2>2. CASE t # s
    BY <1>1, <1>3, <2>1, <2>2, OrderFrame DEF RecvMessage, TypeOK
  <2>3. CASE t = s
    <3>1. Sorted(received'[s]) /\ Sorted(channel'[s]) /\ Before(received'[s], channel'[s])
      BY <1>1, <1>2, <2>1, MoveOrder DEF OrderAt
    <3>2. /\ Before(received'[s], slowSend[s]) /\ Before(received'[s], queue[s])
          /\ UpTo(received'[s], published)
      BY <1>1, <1>2, <2>1, MoveOther DEF OrderAt
    <3>3. /\ Before(channel'[s], slowSend[s]) /\ Before(channel'[s], queue[s])
          /\ UpTo(channel'[s], published)
      BY <1>1, <1>2, <2>1, TailOrder DEF OrderAt
    <3> QED
      BY <1>1, <2>1, <2>3, <3>1, <3>2, <3>3 DEF OrderAt
  <2> QED
    BY <2>2, <2>3
<1>4. CASE ~RecvMessage(s)
  <2>1. /\ UNCHANGED <<actorVars, history>> /\ channel'[t] \in {channel[t], <<>>}
    BY <1>4 DEF Recv, RecvLagged, RecvWait, RecvNone, RecvCancel, Leave, UnsubscribeStart,
         UnsubscribeDone, UnsubscribeCancelled, UnsubscribeImmediate, DropSubscriber, Discard, TypeOK
  <2> QED
    BY <1>1, <2>1, OrderFrame DEF actorVars, history
<1> QED
  BY <1>3, <1>4

\* The strengthened order holds in every reachable state.
LEMMA OrderInvariant == Spec => []Order
<1>1. Init => Order
  <2> SUFFICES ASSUME Init, NEW s \in Subs PROVE OrderAt(s)
    BY DEF Order
  <2>1. received[s] = <<>> /\ channel[s] = <<>> /\ slowSend[s] = <<>> /\ queue[s] = <<>>
    BY DEF Init
  <2> QED
    BY <2>1, EmptyOrder DEF OrderAt
<1>2. TypeOK /\ Shape /\ Order /\ [Next]_vars => Order'
  <2> SUFFICES ASSUME TypeOK, Shape, Order, [Next]_vars PROVE Order'
    OBVIOUS
  <2>1. CASE UNCHANGED vars
    BY <2>1 DEF Order, OrderAt, vars, actorVars, history
  <2>2. CASE Next
    BY <2>1, <2>2, OrderHandleSend, OrderSlowSendDone, OrderDrain, OrderActorOther, OrderConsumer
       DEF Next, Finished
  <2> QED
    BY <2>1, <2>2
<1> QED
  BY <1>1, <1>2, TypeCorrect, ShapeInvariant, PTL DEF Spec

\* Messages are never reordered or duplicated, whatever drains, timeouts,
\* unsubscribes and shutdowns interleave with the consumer.
THEOREM InOrderHolds == Spec => []InOrder
<1>1. Order => InOrder
  BY DEF Order, OrderAt, InOrder
<1> QED
  BY <1>1, OrderInvariant, PTL

-----------------------------------------------------------------------------
(* Accounting *)

AccountAt(s) ==
    (s \in routed /\ Alive(s) /\ actor \in {"running", "unsubscribing"})
        => routedTo[s] = Accounted(s)

Account == \A s \in Subs : AccountAt(s)

\* A step that does not touch a subscription keeps its account.
LEMMA AccountFrame ==
    ASSUME NEW t, AccountAt(t), actor' = actor,
           received'[t] = received[t], channel'[t] = channel[t], slowSend'[t] = slowSend[t],
           queue'[t] = queue[t], dropped'[t] = dropped[t], routedTo'[t] = routedTo[t],
           Alive(t)' => Alive(t), t \in routed' => t \in routed
    PROVE  AccountAt(t)'
  BY DEF AccountAt, Accounted

\* The lengths of the stages are numbers.
LEMMA LengthFacts ==
    ASSUME TypeOK, NEW s \in Subs
    PROVE  /\ Len(received[s]) \in Nat /\ Len(channel[s]) \in Nat /\ Len(slowSend[s]) \in Nat
           /\ Len(queue[s]) \in Nat /\ dropped[s] \in Nat /\ routedTo[s] \in Nat
  BY DEF TypeOK

\* Each matched message is buffered once or counted once.
LEMMA AccountHandleSend ==
    ASSUME TypeOK, Account, NEW T \in SUBSET Subs, HandleSend(T) PROVE Account'
<1> SUFFICES ASSUME NEW t \in Subs PROVE AccountAt(t)'
  BY DEF Account
<1> DEFINE m == published + 1
<1>1. /\ AccountAt(t) /\ actor' = actor /\ actor = "running" /\ phase' = phase
      /\ received' = received /\ m \in Nat
      /\ t \in routed' => t \in routed /\ (t \in T => t \in parked \/ Alive(t))
  BY DEF Account, HandleSend, Idle, consumerVars, TypeOK
<1>2. CASE t \notin T
  <2>1. /\ slowSend'[t] = slowSend[t] /\ queue'[t] = queue[t] /\ channel'[t] = channel[t]
        /\ dropped'[t] = dropped[t] /\ routedTo'[t] = routedTo[t]
    BY <1>2 DEF HandleSend
  <2> QED
    BY <1>1, <2>1, AccountFrame DEF Alive
<1>3. CASE t \in T /\ t \in routed' /\ Alive(t)
  <2>1. routedTo'[t] = routedTo[t] + 1 /\ routedTo[t] = Accounted(t)
    BY <1>1, <1>3 DEF HandleSend, AccountAt
  <2>2. /\ Len(Append(channel[t], m)) = Len(channel[t]) + 1
        /\ Len(Append(slowSend[t], m)) = Len(slowSend[t]) + 1
        /\ Len(Append(queue[t], m)) = Len(queue[t]) + 1
    BY <1>1, StageFacts, AppendFacts
  <2>3. \/ /\ channel'[t] = Append(channel[t], m) /\ slowSend'[t] = slowSend[t]
           /\ queue'[t] = queue[t] /\ dropped'[t] = dropped[t]
        \/ /\ channel'[t] = channel[t] /\ slowSend'[t] = Append(slowSend[t], m)
           /\ queue'[t] = queue[t] /\ dropped'[t] = dropped[t]
        \/ /\ channel'[t] = channel[t] /\ slowSend'[t] = slowSend[t]
           /\ queue'[t] = Append(queue[t], m) /\ dropped'[t] = dropped[t]
        \/ /\ channel'[t] = channel[t] /\ slowSend'[t] = slowSend[t]
           /\ queue'[t] = queue[t] /\ dropped'[t] = dropped[t] + 1
    BY <1>3 DEF HandleSend
  <2>4. Accounted(t)' = Accounted(t) + 1
    <3> DEFINE a == Len(received[t])  b == Len(channel[t])  c == Len(slowSend[t])  d == Len(queue[t])
               a1 == Len(received'[t])  b1 == Len(channel'[t])  c1 == Len(slowSend'[t])  d1 == Len(queue'[t])
    <3>1. /\ a1 = a
          /\ \/ /\ b1 = b + 1 /\ c1 = c
                /\ d1 = d /\ dropped'[t] = dropped[t]
             \/ /\ b1 = b /\ c1 = c + 1
                /\ d1 = d /\ dropped'[t] = dropped[t]
             \/ /\ b1 = b /\ c1 = c
                /\ d1 = d + 1 /\ dropped'[t] = dropped[t]
             \/ /\ b1 = b /\ c1 = c
                /\ d1 = d /\ dropped'[t] = dropped[t] + 1
      BY <1>1, <2>2, <2>3
    <3>2. /\ a \in Nat /\ b \in Nat /\ c \in Nat
          /\ d \in Nat /\ dropped[t] \in Nat
      BY LengthFacts
    <3>3. Accounted(t) = a + b + c + d + dropped[t] /\ Accounted(t)' = a1 + b1 + c1 + d1 + dropped'[t]
      BY DEF Accounted
    <3> HIDE DEF a, b, c, d, a1, b1, c1, d1
    <3> QED
      BY <3>1, <3>2, <3>3
  <2> QED
    BY <2>1, <2>4 DEF AccountAt
<1>4. CASE ~(t \in routed' /\ Alive(t))
  BY <1>1, <1>4 DEF AccountAt, Alive
<1> QED
  BY <1>2, <1>3, <1>4

\* A new subscription has an empty account.
LEMMA AccountSubscribe ==
    ASSUME TypeOK, Shape, Account, NEW s \in Subs, HandleSubscribe(s) \/ HandleSubscribeOrphan(s)
    PROVE  Account'
<1> SUFFICES ASSUME NEW t \in Subs PROVE AccountAt(t)'
  BY DEF Account
<1>1. /\ AccountAt(t) /\ ShapeAt(t)
      /\ UNCHANGED <<actor, draining, parked, queue, slowSend, channel, dropped, received, routedTo>>
  BY DEF Account, Shape, HandleSubscribe, HandleSubscribeOrphan, actorVars, history
<1>2. CASE t # s
  BY <1>1, <1>2, AccountFrame DEF HandleSubscribe, HandleSubscribeOrphan, actorVars, Alive, TypeOK
<1>3. CASE t = s
  <2>1. /\ received[t] = <<>> /\ channel[t] = <<>> /\ slowSend[t] = <<>> /\ queue[t] = <<>>
        /\ dropped[t] = 0 /\ routedTo[t] = 0
    BY <1>1, <1>3 DEF ShapeAt, Shape, HandleSubscribe, HandleSubscribeOrphan, Idle
  <2>2. (Accounted(t))' = 0 /\ routedTo'[t] = 0
    BY <1>1, <2>1, EmptyFacts DEF Accounted
  <2> QED
    BY <2>2 DEF AccountAt
<1> QED
  BY <1>2, <1>3

\* A finished slow send is delivered or counted, or its subscription ends.
LEMMA AccountSlowSendDone ==
    ASSUME TypeOK, Shape, Account, NEW s \in Subs, SlowSendDone(s) PROVE Account'
<1> SUFFICES ASSUME NEW t \in Subs PROVE AccountAt(t)'
  BY DEF Account
<1>1. /\ AccountAt(t) /\ ShapeAt(s) /\ slowSend[s] # <<>> /\ slowSend[s] \in Seq(Nat)
      /\ channel[s] \in Seq(Nat)
      /\ actor' = actor /\ phase' = phase /\ received' = received /\ routedTo' = routedTo
      /\ t \in routed' => t \in routed
  BY StageFacts DEF Account, Shape, SlowSendDone, SlowSendOk, SlowSendTimeout, SlowSendClosed,
                    history, consumerVars
<1>2. CASE t # s
  BY <1>1, <1>2, AccountFrame, ZenonT(40)
     DEF SlowSendDone, SlowSendOk, SlowSendTimeout, SlowSendClosed, TypeOK, Alive
<1>3. CASE t = s /\ ~(s \in routed /\ Alive(s) /\ actor \in {"running", "unsubscribing"})
  BY <1>1, <1>3 DEF AccountAt, Alive
<1>4. CASE t = s /\ s \in routed /\ Alive(s) /\ actor \in {"running", "unsubscribing"}
  <2>1. s \in parked
    BY <1>1, <1>4 DEF ShapeAt
  <2>2. Len(Tail(slowSend[s])) = Len(slowSend[s]) - 1 /\ Head(slowSend[s]) \in Nat
    BY <1>1, TailFacts
  <2>3. Len(Append(channel[s], Head(slowSend[s]))) = Len(channel[s]) + 1
    BY <1>1, <2>2, AppendFacts
  <2>4. /\ slowSend'[s] = Tail(slowSend[s]) /\ queue' = queue
        /\ \/ channel'[s] = Append(channel[s], Head(slowSend[s])) /\ dropped' = dropped
           \/ channel' = channel /\ dropped'[s] = dropped[s] + 1
    BY <1>4, <2>1 DEF SlowSendDone, SlowSendOk, SlowSendTimeout, SlowSendClosed, TypeOK
  <2>5. Accounted(s)' = Accounted(s)
    <3> DEFINE a == Len(received[s])  b == Len(channel[s])  c == Len(slowSend[s])  d == Len(queue[s])
               a1 == Len(received'[s])  b1 == Len(channel'[s])  c1 == Len(slowSend'[s])  d1 == Len(queue'[s])
    <3>1. /\ a1 = a /\ d1 = d
          /\ c1 = c - 1
          /\ \/ b1 = b + 1 /\ dropped'[s] = dropped[s]
             \/ b1 = b /\ dropped'[s] = dropped[s] + 1
      BY <1>1, <2>2, <2>3, <2>4
    <3>2. /\ a \in Nat /\ b \in Nat /\ c \in Nat
          /\ d \in Nat /\ dropped[s] \in Nat
      BY LengthFacts
    <3>3. Accounted(s) = a + b + c + d + dropped[s] /\ Accounted(s)' = a1 + b1 + c1 + d1 + dropped'[s]
      BY DEF Accounted
    <3> HIDE DEF a, b, c, d, a1, b1, c1, d1
    <3> QED
      BY <3>1, <3>2, <3>3
  <2> QED
    BY <1>1, <1>4, <2>5 DEF AccountAt
<1> QED
  BY <1>2, <1>3, <1>4

\* drain_parked moves messages between stages, or ends the subscription.
LEMMA AccountDrain ==
    ASSUME TypeOK, Shape, Account, NEW s \in Subs, Drain(s) PROVE Account'
<1> SUFFICES ASSUME NEW t \in Subs PROVE AccountAt(t)'
  BY DEF Account
<1>1. /\ AccountAt(t) /\ slowSend[s] \in Seq(Nat) /\ channel[s] \in Seq(Nat) /\ queue[s] \in Seq(Nat)
      /\ actor' = actor /\ phase' = phase /\ received' = received /\ routedTo' = routedTo
      /\ t \in routed' => t \in routed
  BY StageFacts DEF Account, Drain, DrainSend, DrainPark, DrainClosed, DrainDone,
                    history, consumerVars
<1>2. CASE t # s
  BY <1>1, <1>2, AccountFrame DEF Drain, DrainSend, DrainPark, DrainClosed, DrainDone, TypeOK, Alive
<1>3. CASE t = s /\ (DrainClosed(s) \/ DrainDone(s))
  BY <1>1, <1>3, AccountFrame DEF DrainClosed, DrainDone, AccountAt, Alive
<1>4. CASE t = s /\ (DrainSend(s) \/ DrainPark(s))
  <2>1. queue[s] # <<>> /\ dropped' = dropped /\ queue'[s] = Tail(queue[s])
    BY <1>4 DEF DrainSend, DrainPark, TypeOK
  <2>2. Len(Tail(queue[s])) = Len(queue[s]) - 1 /\ Head(queue[s]) \in Nat
    BY <1>1, <2>1, TailFacts
  <2>3. /\ Len(Append(channel[s], Head(queue[s]))) = Len(channel[s]) + 1
        /\ Len(Append(slowSend[s], Head(queue[s]))) = Len(slowSend[s]) + 1
    BY <1>1, <2>2, AppendFacts
  <2>4. \/ channel'[s] = Append(channel[s], Head(queue[s])) /\ slowSend' = slowSend
        \/ slowSend'[s] = Append(slowSend[s], Head(queue[s])) /\ channel' = channel
    BY <1>4 DEF DrainSend, DrainPark, TypeOK
  <2>5. Accounted(s)' = Accounted(s)
    <3> DEFINE a == Len(received[s])  b == Len(channel[s])  c == Len(slowSend[s])  d == Len(queue[s])
               a1 == Len(received'[s])  b1 == Len(channel'[s])  c1 == Len(slowSend'[s])  d1 == Len(queue'[s])
    <3>1. /\ a1 = a /\ dropped'[s] = dropped[s]
          /\ d1 = d - 1
          /\ \/ b1 = b + 1 /\ c1 = c
             \/ c1 = c + 1 /\ b1 = b
      BY <1>1, <2>1, <2>2, <2>3, <2>4
    <3>2. /\ a \in Nat /\ b \in Nat /\ c \in Nat
          /\ d \in Nat /\ dropped[s] \in Nat
      BY LengthFacts
    <3>3. Accounted(s) = a + b + c + d + dropped[s] /\ Accounted(s)' = a1 + b1 + c1 + d1 + dropped'[s]
      BY DEF Accounted
    <3> HIDE DEF a, b, c, d, a1, b1, c1, d1
    <3> QED
      BY <3>1, <3>2, <3>3
  <2> QED
    BY <1>1, <1>4, <2>5 DEF AccountAt, Alive
<1> QED
  BY <1>2, <1>3, <1>4 DEF Drain

\* A subscription that leaves the router needs no account any more.
LEMMA AccountLeaveRouter ==
    ASSUME TypeOK, Account, HandleUnsubscribe \/ BeginCleanup \/ DropParked \/ EndCleanup
    PROVE  Account'
<1> SUFFICES ASSUME NEW t \in Subs PROVE AccountAt(t)'
  BY DEF Account
<1>0. AccountAt(t)
  BY DEF Account
<1>1. CASE BeginCleanup
  BY <1>0, <1>1 DEF BeginCleanup, Idle, AccountAt, Accounted, Alive, consumerVars, history
<1>2. CASE DropParked \/ EndCleanup
  BY <1>2 DEF DropParked, EndCleanup, AccountAt
<1>3. CASE HandleUnsubscribe
  <2>1. PICK s \in Subs : s = Head(unsubQ)
    BY <1>3, UnsubHead
  <2>2. CASE t = s
    BY <1>3, <2>1, <2>2 DEF HandleUnsubscribe, AccountAt
  <2>3. CASE t # s
    BY <1>0, <1>3, <2>1, <2>3, AccountFrame
       DEF HandleUnsubscribe, Alive, TypeOK, consumerVars, history
  <2> QED
    BY <2>2, <2>3
<1> QED
  BY <1>1, <1>2, <1>3

\* recv() moves a message; a consumer that leaves needs no account any more.
LEMMA AccountConsumer ==
    ASSUME TypeOK, Account, NEW s \in Subs, Recv(s) \/ RecvCancel(s) \/ Leave(s) PROVE Account'
<1> SUFFICES ASSUME NEW t \in Subs PROVE AccountAt(t)'
  BY DEF Account
<1>1. AccountAt(t) /\ UNCHANGED <<actorVars, dropped, routedTo>>
  BY DEF Account, Recv, RecvLagged, RecvWait, RecvMessage, RecvNone, RecvCancel, Leave,
         UnsubscribeStart, UnsubscribeDone, UnsubscribeCancelled, UnsubscribeImmediate,
         DropSubscriber, history
<1>2. CASE RecvMessage(s)
  <2>1. received[s] \in Seq(Nat) /\ channel[s] \in Seq(Nat) /\ channel[s] # <<>>
    BY <1>2, StageFacts DEF RecvMessage
  <2>2. /\ Len(Append(received[s], Head(channel[s]))) = Len(received[s]) + 1
        /\ Len(Tail(channel[s])) = Len(channel[s]) - 1
    BY <2>1, TailFacts, AppendFacts
  <2>3. CASE t = s
    <3>1. received'[s] = Append(received[s], Head(channel[s])) /\ channel'[s] = Tail(channel[s])
      BY <1>2 DEF RecvMessage, TypeOK
    <3>2. Accounted(s)' = Accounted(s)
      <4> DEFINE a == Len(received[s])  b == Len(channel[s])  c == Len(slowSend[s])  d == Len(queue[s])
                 a1 == Len(received'[s])  b1 == Len(channel'[s])  c1 == Len(slowSend'[s])  d1 == Len(queue'[s])
      <4>1. /\ a1 = a + 1 /\ b1 = b - 1
            /\ c1 = c /\ d1 = d /\ dropped'[s] = dropped[s]
        BY <1>1, <2>2, <3>1 DEF actorVars
      <4>2. /\ a \in Nat /\ b \in Nat /\ c \in Nat
            /\ d \in Nat /\ dropped[s] \in Nat
        BY LengthFacts
      <4>3. Accounted(s) = a + b + c + d + dropped[s] /\ Accounted(s)' = a1 + b1 + c1 + d1 + dropped'[s]
        BY DEF Accounted
      <4> HIDE DEF a, b, c, d, a1, b1, c1, d1
      <4> QED
        BY <4>1, <4>2, <4>3
    <3>3. Alive(s)
      BY <1>2 DEF RecvMessage, Alive
    <3> QED
      BY <1>1, <2>3, <3>2, <3>3 DEF AccountAt, actorVars
  <2>4. CASE t # s
    BY <1>1, <1>2, <2>4, AccountFrame DEF RecvMessage, actorVars, Alive, TypeOK
  <2> QED
    BY <2>3, <2>4
<1>3. CASE ~RecvMessage(s)
  <2>1. /\ received' = received /\ (Alive(t)' => Alive(t))
        /\ Alive(t)' => channel'[t] = channel[t]
    BY <1>3 DEF Recv, RecvLagged, RecvWait, RecvNone, RecvCancel, Leave, UnsubscribeStart,
         UnsubscribeDone, UnsubscribeCancelled, UnsubscribeImmediate, DropSubscriber, Discard,
         Alive, TypeOK, history
  <2>2. CASE Alive(t)'
    BY <1>1, <2>1, <2>2, AccountFrame DEF actorVars
  <2>3. CASE ~Alive(t)'
    BY <2>3 DEF AccountAt
  <2> QED
    BY <2>2, <2>3
<1> QED
  BY <1>2, <1>3

\* While a subscription is routed, its consumer alive and the parked queues not
\* yet dropped by cleanup, the dropped counter is exact: every message that
\* matched is received, buffered or counted.
THEOREM ExactAccountingHolds == Spec => []ExactAccounting
<1>1. Init => Account
  BY DEF Init, Account, AccountAt
<1>2. TypeOK /\ Shape /\ Account /\ [Next]_vars => Account'
  <2> SUFFICES ASSUME TypeOK, Shape, Account, [Next]_vars PROVE Account'
    OBVIOUS
  <2>1. CASE UNCHANGED vars
    BY <2>1 DEF Account, AccountAt, Accounted, Alive, vars, actorVars, consumerVars, history
  <2>2. CASE Next
    BY <2>1, <2>2, AccountHandleSend, AccountSubscribe, AccountSlowSendDone, AccountDrain,
       AccountLeaveRouter, AccountConsumer
       DEF Next, Finished
  <2> QED
    BY <2>1, <2>2
<1>3. Account => ExactAccounting
  BY DEF Account, AccountAt, ExactAccounting
<1> QED
  BY <1>1, <1>2, <1>3, TypeCorrect, ShapeInvariant, PTL DEF Spec


-----------------------------------------------------------------------------
(* Who loses a subscription, and when a message is dropped *)

\* A subscription in the unsubscribe channel exists, and was cancelled.
Cancelled(q) == \A i \in 1..Len(q) : q[i] \notin canCancel /\ phase[q[i]] # "none"

Stays == LiveStaysRouted /\ Cancelled(unsubQ)

\* The unsubscribe channel, filled and emptied.
LEMMA UnsubFacts ==
    ASSUME TypeOK
    PROVE  /\ Len(unsubQ) \in Nat
           /\ \A s \in Subs : /\ Len(Append(unsubQ, s)) = Len(unsubQ) + 1
                              /\ \A i \in 1..Len(unsubQ) + 1 :
                                    Append(unsubQ, s)[i] = IF i <= Len(unsubQ) THEN unsubQ[i] ELSE s
           /\ unsubQ # <<>> =>
                /\ Len(unsubQ) >= 1 /\ Head(unsubQ) = unsubQ[1]
                /\ Len(Tail(unsubQ)) = Len(unsubQ) - 1
                /\ \A i \in 1..Len(unsubQ) - 1 : Tail(unsubQ)[i] = unsubQ[i + 1]
  BY DEF TypeOK

\* The consumers take nothing out of the router, and cancel before they queue.
LEMMA StaysConsumer ==
    ASSUME TypeOK, Stays, NEW s \in Subs,
           Recv(s) \/ RecvCancel(s) \/ Leave(s) \/ HandleSubscribeOrphan(s)
    PROVE  Stays'
<1>1. UNCHANGED actorVars /\ canCancel' \subseteq canCancel
  BY DEF Recv, RecvLagged, RecvWait, RecvMessage, RecvNone, RecvCancel, Leave, UnsubscribeStart,
         UnsubscribeDone, UnsubscribeCancelled, UnsubscribeImmediate, DropSubscriber, Discard,
         HandleSubscribeOrphan
<1>2. \A t \in Subs : /\ phase[t] # "none" => phase'[t] # "none"
                      /\ t \in canCancel' /\ Alive(t) => phase'[t] \in {"idle", "receiving", "leaving"}
  BY DEF Recv, RecvLagged, RecvWait, RecvMessage, RecvNone, RecvCancel, Leave, UnsubscribeStart,
         UnsubscribeDone, UnsubscribeCancelled, UnsubscribeImmediate, DropSubscriber, Discard,
         HandleSubscribeOrphan, TypeOK, Alive, Idle, Stays, LiveStaysRouted
<1>3. \/ unsubQ' = unsubQ
      \/ unsubQ' = Append(unsubQ, s) /\ s \notin canCancel' /\ phase'[s] # "none"
  BY DEF Recv, RecvLagged, RecvWait, RecvMessage, RecvNone, RecvCancel, Leave, UnsubscribeStart,
         UnsubscribeDone, UnsubscribeCancelled, UnsubscribeImmediate, DropSubscriber, Discard,
         HandleSubscribeOrphan, QueueUnsubscribe, TypeOK, Alive, Idle, Stays, LiveStaysRouted
<1>4. LiveStaysRouted'
  BY <1>1, <1>2 DEF Stays, LiveStaysRouted, Alive, actorVars, TypeOK
<1>5. \A i \in 1..Len(unsubQ) : unsubQ[i] \in Subs
  BY DEF TypeOK
<1>6. \A i \in 1..Len(unsubQ') : unsubQ'[i] \notin canCancel' /\ phase'[unsubQ'[i]] # "none"
  <2>1. \A i \in 1..Len(unsubQ) : unsubQ[i] \notin canCancel' /\ phase'[unsubQ[i]] # "none"
    BY <1>1, <1>2, <1>5 DEF Stays, Cancelled
  <2>2. CASE unsubQ' = unsubQ
    BY <2>1, <2>2
  <2>3. CASE unsubQ' = Append(unsubQ, s) /\ s \notin canCancel' /\ phase'[s] # "none"
    <3> TAKE i \in 1..Len(unsubQ')
    <3>1. i \in 1..Len(unsubQ) + 1
      BY <2>3, UnsubFacts
    <3>2. unsubQ'[i] = IF i <= Len(unsubQ) THEN unsubQ[i] ELSE s
      BY <2>3, <3>1, UnsubFacts
    <3>3. CASE i <= Len(unsubQ)
      BY <2>1, <3>1, <3>2, <3>3, UnsubFacts
    <3>4. CASE ~(i <= Len(unsubQ))
      BY <2>3, <3>2, <3>4
    <3> QED BY <3>3, <3>4
  <2> QED BY <1>3, <2>2, <2>3
<1> QED
  BY <1>4, <1>6 DEF Stays, Cancelled

\* The actor removes a subscription whose consumer is gone or has cancelled.
LEMMA StaysActor ==
    ASSUME TypeOK, Stays,
           \/ \E T \in SUBSET Subs : HandleSend(T)
           \/ \E s \in Subs : HandleSubscribe(s) \/ SlowSendDone(s) \/ Drain(s)
           \/ HandleUnsubscribe \/ BeginCleanup \/ DropParked \/ EndCleanup
    PROVE  Stays'
<1>1. ASSUME NEW T \in SUBSET Subs, HandleSend(T) PROVE Stays'
  BY <1>1 DEF HandleSend, consumerVars, Stays, LiveStaysRouted, Cancelled, Alive
<1>2. ASSUME NEW s \in Subs, HandleSubscribe(s) PROVE Stays'
  <2>1. /\ canCancel' = canCancel \cup {s} /\ routed' = routed \cup {s} /\ unsubQ' = unsubQ
        /\ phase'[s] = "idle" /\ \A t \in Subs : t # s => phase'[t] = phase[t]
        /\ phase[s] = "none" /\ actor' = actor
    BY <1>2 DEF HandleSubscribe, TypeOK
  <2>2. \A i \in 1..Len(unsubQ) : unsubQ[i] \in Subs /\ unsubQ[i] # s
    <3>1. \A i \in 1..Len(unsubQ) : unsubQ[i] \in Subs
      BY DEF TypeOK
    <3>2. \A i \in 1..Len(unsubQ) : phase[unsubQ[i]] # phase[s]
      BY <2>1 DEF Stays, Cancelled
    <3> QED BY <3>1, <3>2
  <2>3. Cancelled(unsubQ)'
    BY <2>1, <2>2 DEF Stays, Cancelled
  <2>4. LiveStaysRouted'
    BY <2>1 DEF Stays, LiveStaysRouted, Alive, TypeOK
  <2> QED BY <2>3, <2>4 DEF Stays
<1>3. ASSUME NEW s \in Subs, SlowSendDone(s) PROVE Stays'
  BY <1>3 DEF SlowSendDone, SlowSendOk, SlowSendTimeout, SlowSendClosed, consumerVars,
              Stays, LiveStaysRouted, Cancelled, Alive
<1>4. ASSUME NEW s \in Subs, Drain(s) PROVE Stays'
  BY <1>4 DEF Drain, DrainSend, DrainPark, DrainClosed, DrainDone, consumerVars,
              Stays, LiveStaysRouted, Cancelled, Alive
<1>5. CASE HandleUnsubscribe
  <2>1. /\ unsubQ # <<>> /\ unsubQ' = Tail(unsubQ) /\ routed' = routed \ {Head(unsubQ)}
        /\ UNCHANGED <<actor, canCancel, phase>>
    BY <1>5 DEF HandleUnsubscribe, consumerVars
  <2>2. Head(unsubQ) \notin canCancel
    BY <2>1, UnsubFacts DEF Stays, Cancelled
  <2>3. LiveStaysRouted'
    BY <2>1, <2>2 DEF Stays, LiveStaysRouted, Alive
  <2>4. \A i \in 1..Len(unsubQ') : unsubQ'[i] \notin canCancel' /\ phase'[unsubQ'[i]] # "none"
    <3> TAKE i \in 1..Len(unsubQ')
    <3>1. i \in 1..Len(unsubQ) - 1 /\ i + 1 \in 1..Len(unsubQ) /\ unsubQ'[i] = unsubQ[i + 1]
      BY <2>1, UnsubFacts
    <3> QED BY <2>1, <3>1 DEF Stays, Cancelled
  <2> QED BY <2>3, <2>4 DEF Stays, Cancelled
<1>6. CASE BeginCleanup \/ DropParked
  BY <1>6 DEF BeginCleanup, DropParked, Idle, consumerVars, Stays, LiveStaysRouted, Cancelled, Alive
<1>7. CASE EndCleanup
  BY <1>7 DEF EndCleanup, consumerVars, Stays, LiveStaysRouted, Cancelled
<1> QED
  BY <1>1, <1>2, <1>3, <1>4, <1>5, <1>6, <1>7

\* A consumer that never cancelled keeps its subscription until the actor
\* stops, for any number of consumers and however slow they are.
THEOREM LiveStaysRoutedHolds == Spec => []LiveStaysRouted
<1>1. Init => Stays
  BY DEF Init, Stays, LiveStaysRouted, Cancelled
<1>2. TypeOK /\ Stays /\ [Next]_vars => Stays'
  <2>1. ASSUME Stays, UNCHANGED vars PROVE Stays'
    BY <2>1 DEF vars, actorVars, consumerVars, Stays, LiveStaysRouted, Cancelled, Alive
  <2> QED BY <2>1, StaysActor, StaysConsumer DEF Next, Finished
<1>3. Stays => LiveStaysRouted
  BY DEF Stays
<1> QED
  BY <1>1, <1>2, <1>3, TypeCorrect, PTL DEF Spec

\* A live consumer loses a message only to a full channel or a full parked
\* queue, one message at a time, for all capacities, zero parked included.
THEOREM DropsOnlyUnderPressureHolds == Spec => DropsOnlyUnderPressure
<1> DEFINE Pressed(s) ==
        Alive(s) /\ dropped'[s] # dropped[s]
            => /\ dropped'[s] = dropped[s] + 1
               /\ ~HasRoom(s) \/ (s \in parked /\ Len(queue[s]) = MaxParked[s])
<1>1. ASSUME TypeOK, [Next]_vars, NEW s \in Subs PROVE Pressed(s)
  <2>1. ASSUME NEW T \in SUBSET Subs, HandleSend(T) PROVE Pressed(s)
    <3>1. dropped'[s] = IF s \in T \cap parked /\ QueueFull(s) THEN dropped[s] + 1 ELSE dropped[s]
      BY <2>1 DEF HandleSend
    <3>2. QueueFull(s) => Len(queue[s]) = MaxParked[s]
      BY <1>1, SubFacts DEF QueueFull
    <3> QED BY <3>1, <3>2
  <2>2. ASSUME NEW t \in Subs, SlowSendDone(t) PROVE Pressed(s)
    <3>1. CASE SlowSendOk(t)
      BY <3>1 DEF SlowSendOk
    <3>2. CASE SlowSendTimeout(t)
      BY <1>1, <3>2 DEF SlowSendTimeout, TypeOK
    <3>3. CASE SlowSendClosed(t)
      BY <1>1, <3>3 DEF SlowSendClosed, TypeOK
    <3> QED BY <2>2, <3>1, <3>2, <3>3 DEF SlowSendDone
  <2>3. ASSUME NEW t \in Subs, Drain(t) PROVE Pressed(s)
    <3>1. CASE DrainClosed(t)
      BY <1>1, <3>1 DEF DrainClosed, TypeOK
    <3>2. CASE DrainSend(t) \/ DrainPark(t) \/ DrainDone(t)
      BY <3>2 DEF DrainSend, DrainPark, DrainDone
    <3> QED BY <2>3, <3>1, <3>2 DEF Drain
  <2>4. ASSUME NEW t \in Subs,
               HandleSubscribe(t) \/ HandleSubscribeOrphan(t) \/ Recv(t) \/ RecvCancel(t) \/ Leave(t)
        PROVE  Pressed(s)
    <3>1. dropped' = dropped
      BY <2>4 DEF HandleSubscribe, HandleSubscribeOrphan, Recv, RecvLagged, RecvWait,
         RecvMessage, RecvNone, RecvCancel, Leave, UnsubscribeStart, UnsubscribeDone,
         UnsubscribeCancelled, UnsubscribeImmediate, DropSubscriber
    <3> QED BY <3>1
  <2>5. CASE HandleUnsubscribe \/ BeginCleanup \/ DropParked \/ EndCleanup \/ UNCHANGED vars
    BY <2>5 DEF HandleUnsubscribe, BeginCleanup, DropParked, EndCleanup, vars
  <2> QED BY <1>1, <2>1, <2>2, <2>3, <2>4, <2>5 DEF Next, Finished
<1>2. TypeOK /\ [Next]_vars => [\A s \in Subs : Pressed(s)]_vars
  BY <1>1
<1> QED
  BY <1>2, TypeCorrect, PTL DEF Spec, DropsOnlyUnderPressure
=============================================================================
